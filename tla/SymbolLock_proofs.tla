-------------------------- MODULE SymbolLock_proofs --------------------------
(***************************************************************************)
(* Theorems about SymbolLock, for any set of processes: the lock excludes  *)
(* as long as starts do not overlap, and as long as no process has died or *)
(* stopped.  MutualExclusion is not inductive by itself; LockInv, and for  *)
(* the second RaceInv, add what a process inside reclaimIfStale() may rely *)
(* on.                                                                     *)
(***************************************************************************)
EXTENDS SymbolLock, TLAPS

\* At most one process is inside the constructor.
OneStarter ==
    \A p, q \in Procs : lockPc[p] \in Starting /\ lockPc[q] \in Starting => p = q

\* A held lock names its holder.
HeldIsNamed ==
    \A p \in Procs : lockPc[p] = "held" => lockFile.pid = p

\* The pid about to be probed is the holder's, when there is a holder.
ProbesTheHolder ==
    \A p, q \in Procs : lockPc[p] = "probe" /\ lockPc[q] = "held" => owner[p] = q

\* Nobody holds the lock a process is about to unlink.
RemovesOnlyStale ==
    \A p, q \in Procs : lockPc[p] = "remove" => lockPc[q] # "held"

LockInv ==
    /\ LockTypeOK
    /\ OneStarter
    /\ HolderOwnsFile
    /\ HeldIsNamed
    /\ ProbesTheHolder
    /\ RemovesOnlyStale

\* The state before any process has started.
LEMMA TypeInit == LockInit => LockTypeOK
<1> SUFFICES ASSUME LockInit PROVE LockTypeOK
  OBVIOUS
<1>1. lockPc \in [Procs -> LockPCs]
  BY DEF LockInit, LockPCs, Exited
<1>2. attempt \in [Procs -> {0, 1}] /\ owner \in [Procs -> Procs \union {NoProc}]
  BY DEF LockInit
<1>3. lockFile \in [by : Procs \union {NoProc}, pid : Procs \union {NoProc}]
  BY DEF LockInit, NoFile
<1>4. overlapped \in BOOLEAN
  BY Zenon DEF LockInit
<1>5. \A p \in Procs : lockPc[p] # "probe"
  BY DEF LockInit
<1> QED BY <1>1, <1>2, <1>3, <1>4, <1>5 DEF LockTypeOK

\* LockTypeOK is an invariant whatever the environment does.
THEOREM TypeCorrect == LockSpec => []LockTypeOK
<1>1. LockInit => LockTypeOK
  BY TypeInit
<1>2. LockTypeOK /\ [LockNext]_lockVars => LockTypeOK'
  <2> SUFFICES ASSUME LockTypeOK, [LockNext]_lockVars PROVE LockTypeOK'
    OBVIOUS
  <2> USE DEF LockTypeOK, LockPCs, Exited, Starting, NoFile
  <2>1. CASE UNCHANGED lockVars
    BY <2>1 DEF lockVars
  <2>2. ASSUME NEW p \in Procs, Start(p) PROVE LockTypeOK'
    BY <2>2 DEF Start, Alive
  <2>3. ASSUME NEW p \in Procs, LockStep(p) PROVE LockTypeOK'
    <3>1. CASE Create(p)      BY <3>1 DEF Create
    <3>2. CASE FindExisting(p) BY <3>2 DEF FindExisting
    <3>3. CASE LoseRace(p)    BY <3>3 DEF LoseRace
    <3>4. CASE WritePid(p)    BY <3>4 DEF WritePid
    <3>5. CASE ReadOwner(p)   BY <3>5 DEF ReadOwner
    <3>6. CASE Probe(p)       BY <3>6 DEF Probe
    <3>7. CASE RemoveStale(p) BY <3>7 DEF RemoveStale
    <3> QED BY <2>3, <3>1, <3>2, <3>3, <3>4, <3>5, <3>6, <3>7 DEF LockStep
  <2>4. ASSUME NEW p \in Procs, Release(p) PROVE LockTypeOK'
    BY <2>4 DEF Release
  <2>5. ASSUME NEW p \in Procs, Crash(p) PROVE LockTypeOK'
    BY <2>5 DEF Crash
  <2> QED BY <2>1, <2>2, <2>3, <2>4, <2>5 DEF LockNext
<1> QED BY <1>1, <1>2, PTL DEF LockSpec

\* The steps of a process that only move its own pc, or read the file.
LEMMA LockInvStep ==
    ASSUME ~overlapped => LockInv, LockTypeOK', [LockNext]_lockVars, ~overlapped'
    PROVE  LockInv'
<1> LockInv
  BY DEF LockNext, LockStep, lockVars, Start, Create, FindExisting, LoseRace, WritePid,
         ReadOwner, Probe, RemoveStale, Release, Crash
<1> USE ProcsAssumption
<1> USE DEF LockInv, LockTypeOK, OneStarter, HolderOwnsFile, HeldIsNamed,
            ProbesTheHolder, RemovesOnlyStale, Holds, LockPCs, Exited, Starting
<1>1. CASE UNCHANGED lockVars
  BY <1>1 DEF lockVars
<1>2. ASSUME NEW p \in Procs, Start(p) PROVE LockInv'
  <2>1. \A q \in Procs : lockPc'[q] = IF q = p THEN "open" ELSE lockPc[q]
    BY <1>2 DEF Start
  <2>2. owner' = owner /\ lockFile' = lockFile
    BY <1>2 DEF Start
  <2>3. \A q \in Procs : lockPc[q] \notin Starting
    BY <1>2 DEF Start
  <2> QED BY <2>1, <2>2, <2>3
<1>3. ASSUME NEW p \in Procs, Create(p) PROVE LockInv'
  BY <1>3 DEF Create, NoFile
<1>4. ASSUME NEW p \in Procs, FindExisting(p) PROVE LockInv'
  BY <1>4 DEF FindExisting
<1>5. ASSUME NEW p \in Procs, LoseRace(p) PROVE LockInv'
  BY <1>5 DEF LoseRace
<1>6. ASSUME NEW p \in Procs, WritePid(p) PROVE LockInv'
  BY <1>6 DEF WritePid
<1>7. ASSUME NEW p \in Procs, ReadOwner(p) PROVE LockInv'
  BY <1>7 DEF ReadOwner
<1>8. ASSUME NEW p \in Procs, Probe(p) PROVE LockInv'
  BY <1>8 DEF Probe, Alive
<1>9. ASSUME NEW p \in Procs, RemoveStale(p) PROVE LockInv'
  BY <1>9 DEF RemoveStale, NoFile
<1>10. ASSUME NEW p \in Procs, Release(p) PROVE LockInv'
  BY <1>10 DEF Release, NoFile
<1>11. ASSUME NEW p \in Procs, Crash(p) PROVE LockInv'
  BY <1>11 DEF Crash
<1> QED
  BY <1>1, <1>2, <1>3, <1>4, <1>5, <1>6, <1>7, <1>8, <1>9, <1>10, <1>11
  DEF LockNext, LockStep

\* As long as starts do not overlap the strengthened invariant holds.
THEOREM LockInvHolds == LockSpec => [](~overlapped => LockInv)
<1>1. LockInit => (~overlapped => LockInv)
  <2>1. LockInit => OneStarter /\ HolderOwnsFile /\ HeldIsNamed /\ ProbesTheHolder /\ RemovesOnlyStale
    BY DEF LockInit, OneStarter, HolderOwnsFile, HeldIsNamed, ProbesTheHolder,
           RemovesOnlyStale, Holds, Starting
  <2> QED BY <2>1, TypeInit DEF LockInv
<1>2. LockTypeOK' /\ (~overlapped => LockInv) /\ [LockNext]_lockVars => (~overlapped => LockInv)'
  BY LockInvStep
<1> QED BY <1>1, <1>2, TypeCorrect, PTL DEF LockSpec

\* At most one process holds a symbol, as long as starts do not overlap: for
\* every number of processes, crashes at any point included.
THEOREM Exclusion == LockSpec => []SerialStartsExclude
<1>1. (~overlapped => LockInv) => SerialStartsExclude
  BY DEF LockInv, HolderOwnsFile, MutualExclusion, SerialStartsExclude
<1> QED BY <1>1, LockInvHolds, PTL

\* And nobody unlinks the holder's file.
THEOREM FileIsTheHolders == LockSpec => []SerialStartsKeepFile
<1>1. (~overlapped => LockInv) => SerialStartsKeepFile
  BY DEF LockInv, SerialStartsKeepFile
<1> QED BY <1>1, LockInvHolds, PTL

-----------------------------------------------------------------------------
(* Without deaths and without releases, whoever has written its pid holds  *)
(* the lock, so no owner is ever found gone and no file is ever unlinked.  *)

NoneExited == \A p \in Procs : lockPc[p] \notin {"dead", "done"}

OwnersHold ==
    /\ lockFile.pid # NoProc => lockFile.pid \in Procs /\ lockPc[lockFile.pid] = "held"
    /\ \A p \in Procs : lockPc[p] = "probe" => lockPc[owner[p]] = "held"

NobodyUnlinks == \A p \in Procs : lockPc[p] # "remove"

RaceInv == HolderOwnsFile /\ OwnersHold /\ NobodyUnlinks

LEMMA RaceInvStep ==
    ASSUME NoneExited => RaceInv, LockTypeOK, [LockNext]_lockVars, NoneExited'
    PROVE  RaceInv'
<1>1. CASE UNCHANGED lockVars
  <2>1. NoneExited
    BY <1>1 DEF lockVars, NoneExited
  <2> QED BY <1>1, <2>1 DEF lockVars, RaceInv, HolderOwnsFile, Holds, OwnersHold, NobodyUnlinks
<1>2. ASSUME NEW p \in Procs, Start(p) \/ LockStep(p) \/ Release(p) \/ Crash(p) PROVE RaceInv'
  <2>1. lockPc \in [Procs -> LockPCs] /\ owner \in [Procs -> Procs \union {NoProc}]
        /\ \A q \in Procs : lockPc[q] = "probe" => owner[q] \in Procs
    BY DEF LockTypeOK
  <2>2. ~Release(p) /\ ~Crash(p)
    BY <2>1 DEF Release, Crash, NoneExited
  <2>3. NoneExited
    <3> SUFFICES ASSUME NEW q \in Procs, lockPc[q] \in {"dead", "done"} PROVE lockPc'[q] = lockPc[q]
      BY DEF NoneExited
    <3> QED BY <1>2, <2>1 DEF Start, LockStep, Create, FindExisting, LoseRace, WritePid, ReadOwner,
                              Probe, RemoveStale, Release, Crash, Alive, Exited
  <2>4. RaceInv
    BY <2>3
  <2>5. CASE Start(p)
    BY <2>1, <2>4, <2>5 DEF Start, RaceInv, HolderOwnsFile, Holds, OwnersHold, NobodyUnlinks
  <2>6. CASE Create(p)
    <3>1. \A q \in Procs : ~Holds(q)
      BY <2>4, <2>6, ProcsAssumption DEF Create, NoFile, RaceInv, HolderOwnsFile
    <3> QED BY <2>1, <2>4, <2>6, <3>1, ProcsAssumption
            DEF Create, RaceInv, HolderOwnsFile, Holds, OwnersHold, NobodyUnlinks
  <2>7. CASE FindExisting(p) \/ LoseRace(p)
    BY <2>1, <2>4, <2>7
       DEF FindExisting, LoseRace, RaceInv, HolderOwnsFile, Holds, OwnersHold, NobodyUnlinks
  <2>8. CASE WritePid(p)
    <3>1. lockFile.by = p
      BY <2>4, <2>8 DEF WritePid, RaceInv, HolderOwnsFile, Holds
    <3>2. lockFile' = [lockFile EXCEPT !.pid = p] /\ lockPc' = [lockPc EXCEPT ![p] = "held"] /\ owner' = owner
      BY <2>8, <3>1 DEF WritePid
    <3>3. lockFile'.by = lockFile.by /\ lockFile'.pid = p /\ lockPc'[p] = "held"
      BY <2>1, <3>2 DEF LockTypeOK
    <3>4. HolderOwnsFile'
      BY <2>1, <2>4, <2>8, <3>1, <3>2, <3>3 DEF WritePid, RaceInv, HolderOwnsFile, Holds
    <3> QED BY <2>1, <2>4, <3>2, <3>3, <3>4 DEF RaceInv, OwnersHold, NobodyUnlinks
  <2>9. CASE ReadOwner(p)
    BY <2>1, <2>4, <2>9 DEF ReadOwner, RaceInv, HolderOwnsFile, Holds, OwnersHold, NobodyUnlinks
  <2>10. CASE Probe(p)
    <3>1. Alive(owner[p])
      BY <2>4, <2>10 DEF Probe, RaceInv, OwnersHold, Alive, Exited
    <3> QED BY <2>1, <2>4, <2>10, <3>1
            DEF Probe, RaceInv, HolderOwnsFile, Holds, OwnersHold, NobodyUnlinks
  <2>11. CASE RemoveStale(p)
    BY <2>4, <2>11 DEF RemoveStale, RaceInv, NobodyUnlinks
  <2> QED BY <1>2, <2>2, <2>5, <2>6, <2>7, <2>8, <2>9, <2>10, <2>11 DEF LockStep
<1> QED BY <1>1, <1>2 DEF LockNext

\* Starts may overlap as they like: as long as no process that runs has died or
\* stopped, at most one holds the symbol, for the exclusive create decides.
THEOREM RacesExclude == LockSpec => []ExclusiveWhileNoneExits
<1>1. LockInit => (NoneExited => RaceInv)
  BY DEF LockInit, RaceInv, HolderOwnsFile, Holds, OwnersHold, NobodyUnlinks, NoFile
<1>2. LockTypeOK /\ (NoneExited => RaceInv) /\ [LockNext]_lockVars => (NoneExited => RaceInv)'
  BY RaceInvStep DEF NoneExited
<1>3. (NoneExited => RaceInv) => ExclusiveWhileNoneExits
  BY DEF NoneExited, RaceInv, HolderOwnsFile, MutualExclusion, ExclusiveWhileNoneExits
<1> QED BY <1>1, <1>2, <1>3, TypeCorrect, PTL DEF LockSpec
=============================================================================
