----------------------------- MODULE Files_proofs -----------------------------
(***************************************************************************)
(* Theorems about the files a trader leaves behind it.                     *)
(*                                                                         *)
(* StateFile, for any number of saves: the state file never forgets,       *)
(* whatever fails, and it is an atomic cell that a power cut sets back to  *)
(* a whole earlier state.                                                  *)
(*                                                                         *)
(* TradeAlerts, for any number of sleeves, directories and scanners, any   *)
(* limits and any trouble: the cursor is earned, repeats are slips, and    *)
(* the fills of a sleeve arrive in order.  What makes them inductive is    *)
(* the account of the messages ahead of a cursor, those a scan from it     *)
(* would send once more: they follow it without a gap, and each of them    *)
(* was paid for by a slip.                                                 *)
(***************************************************************************)
EXTENDS StateFile, TradeAlerts, FiniteSetTheorems, FunctionTheorems, TLAPS

-----------------------------------------------------------------------------
(* The state file.                                                         *)

\* A path that is absent, or holds one of the states saved, forced to disk if
\* fsync never failed; it is torn only after a power cut that followed on that.
Sound(file) ==
    \/ file = Absent
    \/ /\ Parses(file) /\ file.version \in 1 .. MaxSaves
       /\ sync = "kept" => file.kind = "whole"
    \/ file = Torn /\ sync = "exposed"

\* The inductive invariant: only a temporary file that was written whole is
\* ever renamed, so the path is sound, on disk as in memory, and it holds the
\* newest saved state unless a power cut has brought back an older one.
FileInv ==
    /\ TypeOK
    /\ version <= MaxSaves
    /\ pc \in {"write", "fsync", "backup", "copying", "rename"} => version >= 1
    /\ pc \in {"fsync", "backup", "copying", "rename"} =>
          Parses(tmp) /\ tmp.version = version
    /\ pc \in {"backup", "copying", "rename"} /\ sync = "kept" => tmp.kind = "whole"
    /\ pc = "copying" => main # Absent
    /\ Sound(main)
    /\ Sound(onDisk)
    /\ Parses(bak) => bak.version \in 1 .. MaxSaves
    /\ onDisk # Absent => main # Absent
    /\ ~cut => saved = main.version /\ sync # "exposed"
    /\ pc = "up" => main.version <= version
    /\ pc \in {"write", "fsync", "backup", "copying", "rename"} => main.version < version

\* What load() gives, by what the path holds.
LEMMA LoadedIs ==
    ASSUME NEW file, NEW backup
    PROVE  /\ file = Absent => Loaded(file, backup) = Blank /\ file.version = Blank
           /\ Parses(file) => file # Absent /\ file # Torn /\ Loaded(file, backup) = file.version
           /\ file = Torn => /\ file # Absent
                             /\ Loaded(file, backup) =
                                   IF Parses(backup) THEN backup.version ELSE Refused
<1>1. /\ Absent # Torn /\ ~Parses(Absent) /\ ~Parses(Torn) /\ Absent.version = Blank
  BY DEF Absent, Torn, Parses, Blank
<1>2. CASE file = Absent
  BY <1>1, <1>2, Zenon DEF Loaded
<1>3. CASE Parses(file)
  BY <1>1, <1>3, Zenon DEF Loaded
<1>4. CASE file = Torn /\ Parses(backup)
  BY <1>1, <1>4, Zenon DEF Loaded
<1>5. CASE file = Torn /\ ~Parses(backup)
  BY <1>1, <1>5, Zenon DEF Loaded
<1> QED BY <1>1, <1>2, <1>3, <1>4, <1>5

\* ... of a path that is sound.
LEMMA SoundLoads ==
    ASSUME NEW file, NEW backup, Sound(file),
           Parses(backup) => backup.version \in 1 .. MaxSaves
    PROVE  /\ sync # "exposed" => Loaded(file, backup) = file.version
           /\ sync # "exposed" /\ file # Absent => file.version \in 1 .. MaxSaves
           /\ file = Absent => Loaded(file, backup) = Blank
           /\ file # Absent => Loaded(file, backup) \in (1 .. MaxSaves) \union {Refused}
           /\ Loaded(file, backup) # Refused => file.version <= Loaded(file, backup)
<1> USE MaxSavesAssumption, RefusedAssumption
<1>1. CASE file = Absent
  BY <1>1, LoadedIs DEF Blank
<1>2. CASE Parses(file) /\ file.version \in 1 .. MaxSaves
  BY <1>2, LoadedIs
<1>3. CASE file = Torn /\ sync = "exposed"
  <2>1. file.version = 0
    BY <1>3 DEF Torn
  <2> QED BY <1>3, <2>1, LoadedIs
<1> QED BY <1>1, <1>2, <1>3 DEF Sound

LEMMA FileInvInit == Init => FileInv
<1> SUFFICES ASSUME Init PROVE FileInv
  OBVIOUS
<1>1. cut \in BOOLEAN /\ sync \in {"kept", "lost", "exposed"} /\ sync # "exposed"
  BY Zenon DEF Init
<1>2. /\ {main, tmp, bak, onDisk} \subseteq Contents /\ pc \in PCs
      /\ version \in Nat /\ saved \in Nat /\ loaded \in Nat
  BY DEF Init, Contents, PCs, Absent, Blank
<1>3. /\ pc = "down" /\ version <= MaxSaves /\ saved = main.version
      /\ Sound(main) /\ Sound(onDisk) /\ onDisk = Absent /\ ~Parses(bak)
  BY MaxSavesAssumption DEF Init, Absent, Sound, Parses
<1> QED BY <1>1, <1>2, <1>3 DEF FileInv, TypeOK

LEMMA FileInvStep == FileInv /\ [Next]_vars => FileInv'
<1> SUFFICES ASSUME FileInv, [Next]_vars PROVE FileInv'
  OBVIOUS
<1> USE MaxSavesAssumption DEF FileInv, TypeOK, PCs
<1>1. CASE UNCHANGED vars
  BY <1>1 DEF vars, Sound, Parses
<1>2. CASE Load
  <2>1. loaded' = Loaded(main, bak)
    BY <1>2 DEF Load
  <2>2. /\ loaded' \in (0 .. MaxSaves) \union {Refused}
        /\ loaded' # Refused => main.version <= loaded'
    <3>1. 0 \in 0 .. MaxSaves /\ 1 .. MaxSaves \subseteq 0 .. MaxSaves
      OBVIOUS
    <3> QED BY <2>1, <3>1, SoundLoads DEF Blank
  <2> QED BY <1>2, <2>2 DEF Load, fileVars, Sound, Parses
<1>3. CASE Open
  BY <1>3 DEF Open, Sound, Torn, Contents, Absent, Parses
<1>4. CASE Write
  BY <1>4 DEF Write, Sound, Dirty, Contents, Parses
<1>5. CASE Fsync
  BY <1>5 DEF Fsync, Sound, Whole, Contents, Parses
<1>6. CASE Backup
  BY <1>6 DEF Backup, Sound, Torn, Contents, Parses
<1>7. CASE Copy
  <2>1. Parses(main) => main.version \in 1 .. MaxSaves
    BY DEF Sound, Absent, Torn, Parses
  <2>2. bak' \in Contents /\ (Parses(bak)' => bak'.version \in 1 .. MaxSaves)
    BY <1>7, <2>1 DEF Copy, Dirty, Torn, Contents, Parses
  <2> QED BY <1>7, <2>2 DEF Copy, Sound, Parses
<1>8. CASE Rename
  BY <1>8 DEF Rename, Sound, Absent, Contents, Parses
<1>9. CASE WriteBack
  BY <1>9 DEF WriteBack, Sound, Parses
<1>10. CASE Kill
  BY <1>10 DEF Kill, fileVars, Sound, Parses
<1>11. CASE PowerFails
  <2>1. main' \in {main, onDisk} \/ (main' = Torn /\ sync' = "exposed" /\ main # Absent)
    BY <1>11 DEF PowerFails, AfterPowerCut, Sound, Absent
  <2>2. tmp' \in Contents /\ bak' \in Contents /\ (Parses(bak)' => bak'.version \in 1 .. MaxSaves)
    BY <1>11 DEF PowerFails, AfterPowerCut, Torn, Absent, Contents, Parses
  <2>3. Sound(main)'
    <3>1. CASE main' \in {main, onDisk}
      BY <1>11, <3>1 DEF PowerFails, Sound, Parses
    <3>2. CASE main' = Torn /\ sync' = "exposed"
      BY <3>2 DEF Sound
    <3> QED BY <2>1, <3>1, <3>2
  <2>4. main' \in Contents /\ onDisk' = main'
    BY <1>11, <2>1 DEF PowerFails, Torn, Contents
  <2>5. Sound(onDisk)'
    BY <2>3, <2>4 DEF Sound, Parses
  <2>6. /\ pc' = "down" /\ cut' = TRUE /\ sync' \in {"kept", "lost", "exposed"}
        /\ UNCHANGED <<version, saved, loaded>>
    BY <1>11 DEF PowerFails
  <2> HIDE DEF Sound
  <2> QED BY <2>2, <2>3, <2>4, <2>5, <2>6
<1> QED
  BY <1>1, <1>2, <1>3, <1>4, <1>5, <1>6, <1>7, <1>8, <1>9, <1>10, <1>11 DEF Next

THEOREM FileInvHolds == Spec => []FileInv
BY FileInvInit, FileInvStep, PTL DEF Spec

\* No kill, no power cut and no full disk makes the bot start blank, and none
\* asks the operator to repair a file, once a state is on disk; a power cut
\* after an fsync that failed may ask for that, but starts nothing blank.
THEOREM NeverStartsBlank == Spec => []NeverForgets
<1>1. FileInv => NeverForgets
  BY SoundLoads, RefusedAssumption, MaxSavesAssumption DEF FileInv, NeverForgets, WouldLoad, Blank
<1> QED BY <1>1, FileInvHolds, PTL

\* Until the power fails a start reads exactly the newest saved state.
THEOREM StartReadsTheNewest == Spec => []ReadsTheNewest
<1>1. FileInv => ReadsTheNewest
  BY SoundLoads DEF FileInv, ReadsTheNewest, WouldLoad
<1> QED BY <1>1, FileInvHolds, PTL

\* And save() is atomic: eight system calls, killed anywhere, are one cell.
THEOREM SaveIsAtomic == Spec => ImplementsCell
<1>1. Init => Cell!Start
  BY LoadedIs DEF Init, Cell!Start, WouldLoad
<1>2. FileInv /\ FileInv' /\ [Next]_vars => [Cell!Run]_(Cell!cellVars)
  <2> SUFFICES ASSUME FileInv, FileInv', [Next]_vars
               PROVE  [Cell!Run]_(Cell!cellVars)
    OBVIOUS
  <2> DEFINE durable == Loaded(onDisk, bak)
             Held == (1 .. MaxSaves) \union {Refused}
  <2>1. sync # "exposed" => WouldLoad = main.version /\ durable = onDisk.version /\ main.version \in Nat
    BY SoundLoads DEF FileInv, TypeOK, Contents, WouldLoad
  <2>2. sync' # "exposed" => WouldLoad' = main'.version /\ durable' = onDisk'.version
    BY LoadedIs DEF FileInv, Sound, WouldLoad
  <2>3. onDisk = Absent => durable = Blank
    BY LoadedIs
  <2>4. /\ main' # Absent => WouldLoad' \in Held
        /\ onDisk' # Absent => durable' \in Held
        /\ main' = Absent => WouldLoad' = Blank
        /\ onDisk' = Absent => durable' = Blank
    BY LoadedIs DEF FileInv, Sound, WouldLoad
  <2>5. Blank \notin Held
    BY RefusedAssumption DEF Blank
  <2>6. ASSUME sync # "kept", sync' = "exposed", loaded' = loaded, onDisk # Absent => onDisk' # Absent
        PROVE  Cell!Blur
    <3>1. {WouldLoad', durable'} \subseteq Held \union {Blank}
      BY <2>4
    <3>2. durable # Blank => main' # Absent /\ onDisk' # Absent
      BY <2>3, <2>6 DEF FileInv
    <3>3. durable # Blank => Blank \notin {WouldLoad', durable'}
      BY <2>4, <2>5, <3>2
    <3> QED BY <2>6, <3>1, <3>3 DEF Cell!Blur
  <2>7. CASE UNCHANGED <<main, onDisk, bak, loaded, sync>>
    BY <2>7 DEF Cell!cellVars, WouldLoad
  <2>8. CASE UNCHANGED <<main, onDisk, loaded, sync>> /\ sync # "exposed"
    BY <2>1, <2>2, <2>8 DEF Cell!cellVars
  <2>9. CASE UNCHANGED <<main, onDisk, loaded, sync>> /\ sync = "exposed"
    BY <2>6, <2>9 DEF Cell!Run
  <2>10. CASE Load
    BY <2>10 DEF Load, fileVars, Cell!Run, Cell!Get, WouldLoad
  <2>11. CASE Fsync
    <3>1. CASE sync' = sync
      BY <2>7, <2>11, <3>1 DEF Fsync
    <3>2. CASE sync' # sync
      BY <2>11, <3>2 DEF Fsync, Cell!Run, Cell!Slip, WouldLoad
    <3> QED BY <3>1, <3>2
  <2>12. CASE Rename
    <3>1. CASE sync = "exposed"
      BY <2>6, <2>12, <3>1 DEF Rename, Cell!Run
    <3>2. CASE sync # "exposed"
      <4>1. main'.version = version /\ main.version < version /\ version \in 1 .. MaxSaves
        BY <2>12 DEF Rename, FileInv, TypeOK
      <4>2. UNCHANGED <<onDisk, bak, loaded, sync>>
        BY <2>12 DEF Rename
      <4>3. WouldLoad # Refused /\ WouldLoad' \in 1 .. MaxSaves /\ WouldLoad' > WouldLoad
        BY <2>1, <2>2, <3>2, <4>1, <4>2, RefusedAssumption
      <4> QED BY <4>2, <4>3 DEF Cell!Run, Cell!Put
    <3> QED BY <3>1, <3>2
  <2>13. CASE WriteBack
    <3>1. CASE sync = "exposed"
      BY <2>6, <2>13, <3>1 DEF WriteBack, FileInv, Cell!Run
    <3>2. CASE sync # "exposed"
      BY <2>1, <2>2, <2>13, <3>2 DEF WriteBack, Cell!Run, Cell!Sync
    <3> QED BY <3>1, <3>2
  <2>14. CASE PowerFails
    <3>1. onDisk' = main' /\ loaded' = loaded
      BY <2>14 DEF PowerFails
    <3>2. CASE sync = "kept"
      <4>1. main' \in {main, onDisk} /\ sync' = "kept"
        BY <2>14, <3>2 DEF PowerFails, AfterPowerCut, FileInv, Sound, Absent
      <4> QED BY <2>1, <2>2, <3>1, <3>2, <4>1 DEF Cell!Run, Cell!Cut
    <3>3. CASE sync # "kept"
      <4>1. sync' = "exposed"
        BY <2>14, <3>3 DEF PowerFails
      <4>2. onDisk # Absent => onDisk' # Absent
        BY <2>14 DEF PowerFails, AfterPowerCut, FileInv, Absent, Torn
      <4> QED BY <2>6, <3>1, <3>3, <4>1, <4>2 DEF Cell!Run
    <3> QED BY <3>2, <3>3
  <2>15. CASE Open \/ Write \/ Backup \/ Copy \/ Kill \/ UNCHANGED vars
    <3>1. UNCHANGED <<main, onDisk, loaded, sync>>
      BY <2>15 DEF Open, Write, Backup, Copy, Kill, fileVars, vars
    <3> QED BY <2>8, <2>9, <3>1
  <2> QED BY <2>10, <2>11, <2>12, <2>13, <2>14, <2>15 DEF Next
<1> QED BY <1>1, <1>2, FileInvHolds, PTL DEF Spec, ImplementsCell, Cell!CellSpec

-----------------------------------------------------------------------------
(* The alerts of the fills.                                               *)

\* The types, and what they rest on: a log that is written to has room, and a
\* scan that is at a line has read the log that far.
LogsFit ==
    \A d \in Dirs, s \in Sleeves :
        /\ Len(log[d][s]) <= MaxFills
        /\ tail[d][s] \in {"writing", "ruined"} => Len(log[d][s]) < MaxFills

ReadFits(p) ==
    /\ scanPc[p] # "off" => mem[p].dir \in Dirs
    /\ scanPc[p] \in {"send", "save"} =>
          /\ at[p] \in Sleeves
          /\ mem[p].lines[at[p]] \in 0 .. count[p]
          /\ count[p] <= Readable(mem[p].dir, at[p])

ReadsFit == \A p \in Scanners : ReadFits(p)

LockHeld == \A p \in Scanners : scanPc[p] # "off" <=> lock = p

AlertsInv ==
    /\ AlertsTypeOK
    /\ LogsFit
    /\ ReadsFit
    /\ LockHeld
    /\ slips <= faults
    /\ cursor.dir = NoDir => \A s \in Sleeves : cursor.lines[s] = Unknown

-----------------------------------------------------------------------------
\* What c has passed was announced, or need not be.
Earned(c) ==
    \A s \in Sleeves : \A i \in 1 .. c.lines[s] :
        \/ <<c.dir, s, i>> \in Arrived \union skipped \union adopted \union printed
        \/ i \in DOMAIN log[c.dir][s] /\ ~log[c.dir][s][i]

EarnedInv == Earned(cursor) /\ \A p \in Scanners : scanPc[p] # "off" => Earned(mem[p])

-----------------------------------------------------------------------------
\* Messages are of fills that can be read.
ChatInv ==
    \A f \in Arrived : f[3] <= Readable(f[1], f[2]) /\ log[f[1]][f[2]][f[3]]

\* The messages a scan from c would send again.
Ahead(c) ==
    {f \in Arrived : f[1] = c.dir /\ c.lines[f[2]] # Unknown /\ c.lines[f[2]] < f[3]}

\* ... leave out no fill.
NoGap(c) ==
    \A f \in Ahead(c) : \A i \in c.lines[f[2]] + 1 .. f[3] :
        log[f[1]][f[2]][i] => <<f[1], f[2], i>> \in Arrived

Repeats == Len(chat) - Cardinality(Arrived)

\* The repeats so far, and those to come from c, are paid for by slips, but
\* for one that is about to happen or not.
Paid(c, due) == NoGap(c) /\ Repeats + Cardinality(Ahead(c)) <= slips + due

\* A message was sent and its cursor is not saved yet.
Unsaved == \E p \in Scanners : scanPc[p] = "save"

\* What a scan knows of a sleeve it has not come to is what the file says.
AsSaved(p) ==
    cursor.dir = mem[p].dir =>
        \A s \in Sleeves : s > at[p] \/ (s = at[p] /\ scanPc[p] = "look")
            => mem[p].lines[s] = cursor.lines[s]

\* ... and where it is, it announced every fill since.
AnnouncedSince(p) ==
    cursor.dir = mem[p].dir /\ ~dry[p] /\ scanPc[p] \in {"send", "save"} =>
        /\ cursor.lines[at[p]] \in 0 .. mem[p].lines[at[p]]
        /\ \A i \in cursor.lines[at[p]] + 1 .. mem[p].lines[at[p]] :
              log[mem[p].dir][at[p]][i] => <<mem[p].dir, at[p], i>> \in Arrived

ScanAccount(p) ==
    scanPc[p] # "off" =>
        /\ Paid(mem[p], 0)
        /\ AsSaved(p)
        /\ AnnouncedSince(p)

AccountInv ==
    /\ ChatInv
    /\ Paid(cursor, IF Unsaved THEN 1 ELSE 0)
    /\ \A p \in Scanners : ScanAccount(p)

-----------------------------------------------------------------------------
(* Lemmas about logs.                                                      *)

LEMMA ReadableType ==
    ASSUME AlertsTypeOK, NEW d \in Dirs, NEW s \in Sleeves
    PROVE  Len(log[d][s]) \in Nat /\ Readable(d, s) \in 0 .. Len(log[d][s])
<1>1. log[d][s] \in Seq(BOOLEAN)
  BY DEF AlertsTypeOK
<1> QED BY <1>1 DEF Readable

\* Logs only grow: what could be read can be read, and reads the same.
LEMMA LogsGrow ==
    ASSUME AlertsTypeOK, [AlertsNext]_alertsVars, NEW d \in Dirs, NEW s \in Sleeves
    PROVE  /\ log'[d][s] \in Seq(BOOLEAN) /\ Len(log[d][s]) <= Len(log'[d][s])
           /\ \A i \in 1 .. Len(log[d][s]) : log'[d][s][i] = log[d][s][i]
           /\ Readable(d, s) <= Readable(d, s)'
<1>0. /\ log[d][s] \in Seq(BOOLEAN) /\ tail[d][s] \in Tails
      /\ log \in [Dirs -> [Sleeves -> Seq(BOOLEAN)]]
      /\ tail \in [Dirs -> [Sleeves -> Tails]] /\ dir \in Dirs
  BY DEF AlertsTypeOK
<1>1. CASE UNCHANGED logVars
  BY <1>0, <1>1 DEF logVars, Readable
<1>2. ASSUME NEW e \in Sleeves, StartLine(e) PROVE UNCHANGED log /\ Readable(d, s) <= Readable(d, s)'
  BY <1>0, <1>2 DEF StartLine, Readable
<1>3. ASSUME NEW c \in Dirs, NEW e \in Sleeves, KillSleeve(c, e)
      PROVE  UNCHANGED log /\ Readable(d, s) <= Readable(d, s)'
  BY <1>0, <1>3 DEF KillSleeve, Readable
<1>4. ASSUME NEW c \in Dirs, NEW e \in Sleeves, EndLine(c, e)
      PROVE  /\ log'[d][s] \in Seq(BOOLEAN) /\ Len(log[d][s]) <= Len(log'[d][s])
             /\ \A i \in 1 .. Len(log[d][s]) : log'[d][s][i] = log[d][s][i]
             /\ Readable(d, s) <= Readable(d, s)'
  <2>1. CASE c = d /\ e = s
    <3>1. log'[d][s] = Append(log[d][s], tail[d][s] = "writing")
      BY <1>0, <1>4, <2>1 DEF EndLine
    <3>2. tail'[d][s] = "none" /\ tail[d][s] \in {"writing", "ruined"}
      BY <1>0, <1>4, <2>1 DEF EndLine
    <3> QED BY <1>0, <3>1, <3>2 DEF Readable
  <2>2. CASE ~(c = d /\ e = s)
    <3>1. log'[d][s] = log[d][s] /\ tail'[d][s] = tail[d][s]
      <4>1. /\ log' = [log EXCEPT ![c] = [log[c] EXCEPT ![e] = Append(@, tail[c][e] = "writing")]]
            /\ tail' = [tail EXCEPT ![c] = [tail[c] EXCEPT ![e] = "none"]]
        BY SMTT(30), <1>4 DEF EndLine
      <4> QED BY <1>0, <2>2, <4>1
    <3> QED BY <1>0, <3>1 DEF Readable
  <2> QED BY <2>1, <2>2
<1>5. ASSUME AlertsNext, ~(\E e \in Sleeves : StartLine(e)),
             ~(\E c \in Dirs, e \in Sleeves : EndLine(c, e) \/ KillSleeve(c, e))
      PROVE  UNCHANGED logVars
  BY ZenonT(40), <1>5 DEF AlertsNext, Step, Begin, Look, NextSleeve, PassCorrupt, PrintFill, Delivered,
     SendRefused, Save, Finish, KillScanner, Switch, Reset, LoseCursor
<1>6. CASE UNCHANGED alertsVars
  BY <1>1, <1>6 DEF alertsVars, logVars
<1> QED BY <1>0, <1>1, <1>2, <1>3, <1>4, <1>5, <1>6

-----------------------------------------------------------------------------
(* Types.                                                                  *)

LogsType ==
    /\ dir \in Dirs
    /\ log \in [Dirs -> [Sleeves -> Seq(BOOLEAN)]]
    /\ tail \in [Dirs -> [Sleeves -> Tails]]

CursorsType == cursor \in Cursors /\ mem \in [Scanners -> Cursors]

ScansType ==
    /\ lock \in Scanners \union {NoScanner}
    /\ scanPc \in [Scanners -> {"off", "look", "send", "save"}]
    /\ files \in [Scanners -> SUBSET Sleeves]
    /\ at \in [Scanners -> 1 .. NumSleeves + 1]
    /\ count \in [Scanners -> 0 .. MaxFills]
    /\ sent \in [Scanners -> 0 .. MaxPerScan]
    /\ dry \in [Scanners -> BOOLEAN]

HistoryType ==
    /\ chat \in Seq(Fills)
    /\ skipped \subseteq Fills /\ adopted \subseteq Fills /\ owed \subseteq Fills
    /\ printed \subseteq Fills
    /\ slips \in 0 .. MaxFaults /\ faults \in 0 .. MaxFaults

LEMMA TypesAre == AlertsTypeOK <=> LogsType /\ CursorsType /\ ScansType /\ HistoryType
  BY DEF AlertsTypeOK, LogsType, CursorsType, ScansType, HistoryType

\* What follows in a log, and how often it failed, is set for one sleeve.
With(c, s, n, k) ==
    [dir |-> c.dir, lines |-> [c.lines EXCEPT ![s] = n], fails |-> [c.fails EXCEPT ![s] = k]]

LEMMA WithType ==
    ASSUME NEW c \in Cursors, NEW s \in Sleeves,
           NEW n \in (0 .. MaxFills) \union {Unknown}, NEW k \in 0 .. MaxFailures - 1
    PROVE  With(c, s, n, k) \in Cursors
  BY DEF With, Cursors

LEMMA BlankType == \A d \in Dirs \union {NoDir} : BlankCursor(d) \in Cursors
  BY LimitsAssumption DEF BlankCursor, Cursors, Unknown

\* The three ways a scan changes its cursor for the sleeve it is at, and one
\* form for all of them.
SetLine(p, s, n) == [mem EXCEPT ![p].lines[s] = n]
SetFail(p, s, k) == [mem EXCEPT ![p].fails[s] = k]
SetBoth(p, s, n, k) == [mem EXCEPT ![p].lines[s] = n, ![p].fails[s] = k]
Moved(p, s, n, k) == [mem EXCEPT ![p] = With(mem[p], s, n, k)]

LEMMA MemChanges ==
    ASSUME CursorsType, NEW p \in Scanners, NEW s \in Sleeves
    PROVE  /\ \A n : SetLine(p, s, n) = Moved(p, s, n, mem[p].fails[s])
           /\ \A k : SetFail(p, s, k) = Moved(p, s, mem[p].lines[s], k)
           /\ \A n, k : SetBoth(p, s, n, k) = Moved(p, s, n, k)
<1>0. SUFFICES ASSUME NEW n, NEW k
               PROVE  /\ SetLine(p, s, n) = Moved(p, s, n, mem[p].fails[s])
                      /\ SetFail(p, s, k) = Moved(p, s, mem[p].lines[s], k)
                      /\ SetBoth(p, s, n, k) = Moved(p, s, n, k)
  OBVIOUS
<1>1. /\ mem[p] \in Cursors
      /\ mem[p].lines = [mem[p].lines EXCEPT ![s] = mem[p].lines[s]]
      /\ mem[p].fails = [mem[p].fails EXCEPT ![s] = mem[p].fails[s]]
      /\ mem[p] = [dir |-> mem[p].dir, lines |-> mem[p].lines, fails |-> mem[p].fails]
  BY DEF CursorsType, Cursors
<1> DEFINE c == mem[p]
            lines(v) == [c EXCEPT !.lines = [c.lines EXCEPT ![s] = v]]
            moved == [mem EXCEPT ![p] = lines(n)]
<1>2. \A v : lines(v) = With(c, s, v, c.fails[s])
  BY <1>1 DEF With
<1>3. [c EXCEPT !.fails = [c.fails EXCEPT ![s] = k]] = With(c, s, c.lines[s], k)
  BY <1>1 DEF With
<1>4. moved[p] = lines(n)
  BY DEF CursorsType
<1>5. [moved EXCEPT ![p] = With(c, s, n, k)] = [mem EXCEPT ![p] = With(c, s, n, k)]
  BY DEF CursorsType
<1>6. [lines(n) EXCEPT !.fails = [lines(n).fails EXCEPT ![s] = k]] = With(c, s, n, k)
  <2>1. lines(n) = [dir |-> c.dir, lines |-> [c.lines EXCEPT ![s] = n], fails |-> c.fails]
    BY <1>1
  <2> HIDE DEF lines, c
  <2> QED BY <2>1 DEF With
<1>7. [moved EXCEPT ![p] = [moved[p] EXCEPT !.fails = [moved[p].fails EXCEPT ![s] = k]]]
        = [mem EXCEPT ![p] = With(c, s, n, k)]
  <2> HIDE DEF moved, lines, c
  <2> QED BY <1>4, <1>5, <1>6
<1> QED BY <1>2, <1>3, <1>7 DEF SetLine, SetFail, SetBoth, Moved

LEMMA AlertsInvInit == AlertsInit => AlertsInv
<1> SUFFICES ASSUME AlertsInit PROVE AlertsInv
  OBVIOUS
<1>1. LogsType /\ LogsFit
  <2>1. [i \in 1 .. History |-> TRUE] \in Seq(BOOLEAN) /\ Len([i \in 1 .. History |-> TRUE]) = History
    BY LimitsAssumption
  <2>2. <<>> \in Seq(BOOLEAN) /\ Len(<<>>) = 0
    OBVIOUS
  <2> DEFINE first(d) == IF d = FirstDir THEN [i \in 1 .. History |-> TRUE] ELSE <<>>
  <2>3. \A d \in Dirs : first(d) \in Seq(BOOLEAN) /\ Len(first(d)) <= MaxFills
    <3> SUFFICES ASSUME NEW d \in Dirs PROVE first(d) \in Seq(BOOLEAN) /\ Len(first(d)) <= MaxFills
      OBVIOUS
    <3>1. CASE d = FirstDir
      BY <2>1, <3>1, LimitsAssumption
    <3>2. CASE d # FirstDir
      BY <2>2, <3>2, LimitsAssumption
    <3> QED BY <3>1, <3>2
  <2>4. log = [d \in Dirs |-> [s \in Sleeves |-> first(d)]]
    BY DEF AlertsInit
  <2>5. log \in [Dirs -> [Sleeves -> Seq(BOOLEAN)]]
        /\ \A d \in Dirs, s \in Sleeves : Len(log[d][s]) <= MaxFills
    <3> HIDE DEF first
    <3> QED BY <2>3, <2>4
  <2>6. dir \in Dirs /\ tail = [d \in Dirs |-> [s \in Sleeves |-> "none"]]
    BY NamesAssumption DEF AlertsInit
  <2> QED BY <2>5, <2>6 DEF LogsType, LogsFit, Tails
<1>2. CursorsType
  BY BlankType DEF AlertsInit, CursorsType
<1>3. ScansType
  BY LimitsAssumption DEF AlertsInit, ScansType
<1>4. HistoryType /\ slips <= faults
  BY LimitsAssumption DEF AlertsInit, HistoryType
<1>5. ReadsFit /\ LockHeld
  BY NamesAssumption DEF AlertsInit, ReadsFit, ReadFits, LockHeld
<1>6. \A s \in Sleeves : cursor.lines[s] = Unknown
  BY DEF AlertsInit, BlankCursor
<1> QED BY <1>1, <1>2, <1>3, <1>4, <1>5, <1>6, TypesAre DEF AlertsInv

LEMMA LogsTypeStep ==
    ASSUME AlertsInv, [AlertsNext]_alertsVars
    PROVE  LogsType' /\ LogsFit'
<1>0. LogsType /\ LogsFit
  BY TypesAre DEF AlertsInv
<1>1. CASE UNCHANGED <<dir, logVars>>
  BY <1>0, <1>1 DEF LogsType, LogsFit, logVars
<1>2. ASSUME NEW s \in Sleeves, StartLine(s) PROVE LogsType' /\ LogsFit'
  BY <1>0, <1>2 DEF StartLine, LogsType, LogsFit, Tails
<1>3. ASSUME NEW d \in Dirs, NEW s \in Sleeves, EndLine(d, s) PROVE LogsType' /\ LogsFit'
  <2>1. /\ log[d] \in [Sleeves -> Seq(BOOLEAN)] /\ log[d][s] \in Seq(BOOLEAN)
        /\ tail[d] \in [Sleeves -> Tails]
    BY <1>0 DEF LogsType
  <2> DEFINE new == Append(log[d][s], tail[d][s] = "writing")
  <2>2. new \in Seq(BOOLEAN) /\ Len(new) = Len(log[d][s]) + 1
    BY <2>1
  <2>3. Len(new) <= MaxFills
    <3>1. Len(log[d][s]) < MaxFills
      BY <1>0, <1>3 DEF EndLine, LogsFit
    <3> HIDE DEF new
    <3> QED BY <2>1, <2>2, <3>1, LimitsAssumption
  <2>4. log' = [log EXCEPT ![d] = [log[d] EXCEPT ![s] = new]]
        /\ tail' = [tail EXCEPT ![d] = [tail[d] EXCEPT ![s] = "none"]] /\ dir' = dir
    BY <1>3 DEF EndLine
  <2> HIDE DEF new
  <2> QED BY <1>0, <2>1, <2>2, <2>3, <2>4 DEF LogsType, LogsFit, Tails
<1>4. ASSUME NEW d \in Dirs, NEW s \in Sleeves, KillSleeve(d, s) PROVE LogsType' /\ LogsFit'
  BY <1>0, <1>4 DEF KillSleeve, LogsType, LogsFit, Tails
<1>5. ASSUME NEW d \in Dirs, Switch(d) PROVE LogsType' /\ LogsFit'
  BY <1>0, <1>5 DEF Switch, LogsType, LogsFit, logVars
<1>6. CASE \/ \E p \in Scanners : Step(p) \/ KillScanner(p)
           \/ Reset \/ LoseCursor \/ UNCHANGED alertsVars
  BY ZenonT(40), <1>1, <1>6 DEF Step, Begin, Look, NextSleeve, PassCorrupt, PrintFill, Delivered,
     SendRefused, Save, Finish, KillScanner, Reset, LoseCursor, alertsVars, logVars
<1> QED BY <1>2, <1>3, <1>4, <1>5, <1>6 DEF AlertsNext

\* A scanner's step is at its line, and keeps the types of what it touches.
LEMMA CursorsTypeStep ==
    ASSUME AlertsInv, [AlertsNext]_alertsVars
    PROVE  CursorsType'
<1>0. LogsType /\ CursorsType /\ ScansType /\ ReadsFit /\ LogsFit
  BY TypesAre DEF AlertsInv
<1>1. CASE UNCHANGED <<cursor, mem>>
  BY <1>0, <1>1 DEF CursorsType
<1>2. ASSUME NEW p \in Scanners, Begin(p) PROVE CursorsType'
  <2>1. CursorLoaded \in Cursors
    BY <1>0, BlankType DEF CursorLoaded, CursorsType, LogsType
  <2> QED BY <1>0, <1>2, <2>1 DEF Begin, CursorsType
<1>3. ASSUME NEW p \in Scanners, Look(p) PROVE CursorsType'
  <2>1. CASE mem' = mem
    BY <1>1, <1>3, <2>1 DEF Look
  <2>2. CASE mem' # mem
    <3>1. PICK n \in {Readable(mem[p].dir, at[p]), 0} :
             mem' = [mem EXCEPT ![p].lines[at[p]] = n, ![p].fails[at[p]] = 0]
      BY <1>3, <2>2 DEF Look
    <3>2. at[p] \in Sleeves /\ mem[p].dir \in Dirs
      BY <1>0, <1>3 DEF Look, ReadsFit, ReadFits
    <3>3. n \in 0 .. MaxFills
      BY <1>0, <3>1, <3>2, ReadableType, LimitsAssumption DEF LogsFit, AlertsInv
    <3>4. mem' = [mem EXCEPT ![p] = With(mem[p], at[p], n, 0)]
      <4>1. mem' = SetBoth(p, at[p], n, 0)
        BY <3>1 DEF SetBoth
      <4> QED BY <1>0, <3>2, <4>1, MemChanges DEF Moved
    <3>5. With(mem[p], at[p], n, 0) \in Cursors
      BY <1>0, <3>2, <3>3, WithType, LimitsAssumption DEF CursorsType
    <3> QED BY <1>0, <1>3, <3>4, <3>5 DEF Look, CursorsType
  <2> QED BY <2>1, <2>2
<1>4. ASSUME NEW p \in Scanners, AtLine(p), cursor' = cursor,
             NEW n \in {mem[p].lines[at[p]], Next1(p)}, NEW k \in 0 .. MaxFailures - 1,
             mem' = [mem EXCEPT ![p] = With(mem[p], at[p], n, k)]
      PROVE  CursorsType'
  <2>1. /\ at[p] \in Sleeves /\ mem[p] \in Cursors
        /\ mem[p].lines[at[p]] \in 0 .. count[p] /\ count[p] \in 0 .. MaxFills
    BY <1>0, <1>4 DEF AtLine, ReadsFit, ReadFits, CursorsType, ScansType
  <2>2. n \in 0 .. MaxFills
    <3>1. Next1(p) <= count[p]
      BY <1>4 DEF AtLine
    <3> QED BY <1>4, <2>1, <3>1, LimitsAssumption DEF Next1
  <2>3. With(mem[p], at[p], n, k) \in Cursors
    BY <2>1, <2>2, WithType
  <2> QED BY <1>0, <1>4, <2>3 DEF CursorsType
<1>5. ASSUME NEW p \in Scanners, AtLine(p)
      PROVE  /\ at[p] \in Sleeves /\ mem[p].fails[at[p]] \in 0 .. MaxFailures - 1
             /\ 0 \in 0 .. MaxFailures - 1 /\ mem[p].lines[at[p]] + 1 = Next1(p)
  BY <1>0, <1>5, LimitsAssumption DEF AtLine, ReadsFit, ReadFits, CursorsType, Cursors, Next1
<1>6. ASSUME NEW p \in Scanners, PassCorrupt(p) \/ PrintFill(p) PROVE CursorsType'
  <2>1. AtLine(p) /\ cursor' = cursor
    BY <1>6 DEF PassCorrupt, PrintFill
  <2>2. mem' = [mem EXCEPT ![p] = With(mem[p], at[p], Next1(p), mem[p].fails[at[p]])]
    <3>1. mem' = SetLine(p, at[p], Next1(p))
      BY <1>6 DEF PassCorrupt, PrintFill, SetLine, Next1
    <3> QED BY SMTT(30), <1>0, <1>5, <2>1, <3>1, MemChanges DEF Moved
  <2> QED BY <1>4, <1>5, <2>1, <2>2
<1>7. ASSUME NEW p \in Scanners, AtLine(p)
      PROVE  Passed(p) = [mem EXCEPT ![p] = With(mem[p], at[p], Next1(p), 0)]
  <2>1. Passed(p) = SetBoth(p, at[p], Next1(p), 0)
    BY DEF Passed, SetBoth, Next1
  <2> QED BY <1>0, <1>5, <1>7, <2>1, MemChanges DEF Moved
<1>8. ASSUME NEW p \in Scanners, Delivered(p) PROVE CursorsType'
  <2>1. AtLine(p) /\ cursor' = cursor /\ mem' = Passed(p)
    BY <1>8 DEF Delivered
  <2> QED BY <1>4, <1>5, <1>7, <2>1
<1>9. ASSUME NEW p \in Scanners, SendRefused(p) PROVE CursorsType'
  <2> DEFINE n == mem[p].fails[at[p]] + 1
  <2>1. AtLine(p) /\ cursor' = cursor
    BY <1>9 DEF SendRefused
  <2>2. CASE n < MaxFailures /\ mem' = [mem EXCEPT ![p].fails[at[p]] = n]
    <3>1. n \in 0 .. MaxFailures - 1
      BY <1>5, <2>1, <2>2, LimitsAssumption
    <3>2. mem' = [mem EXCEPT ![p] = With(mem[p], at[p], mem[p].lines[at[p]], n)]
      <4>1. mem' = SetFail(p, at[p], n)
        BY <2>2 DEF SetFail
      <4> QED BY <1>0, <1>5, <2>1, <4>1, MemChanges DEF Moved
    <3> HIDE DEF n
    <3> QED BY <1>4, <2>1, <3>1, <3>2
  <2>3. CASE mem' = Passed(p)
    BY <1>4, <1>5, <1>7, <2>1, <2>3
  <2> QED BY <1>9, <2>2, <2>3 DEF SendRefused
<1>10. ASSUME NEW p \in Scanners, Save(p) PROVE CursorsType'
  BY <1>0, <1>10 DEF Save, SaveCursor, CursorsType
<1>11. ASSUME NEW p \in Scanners, Finish(p) PROVE CursorsType'
  BY <1>0, <1>11, BlankType DEF Finish, SaveCursor, Gone, CursorsType
<1>12. ASSUME NEW p \in Scanners, KillScanner(p) PROVE CursorsType'
  BY <1>0, <1>12, BlankType DEF KillScanner, Gone, CursorsType
<1>13. CASE Reset
  <2> DEFINE lengths == [s \in Sleeves |-> IF Exists(dir, s) THEN Readable(dir, s) ELSE Unknown]
  <2>1. \A s \in Sleeves : Readable(dir, s) \in 0 .. MaxFills
    <3> TAKE s \in Sleeves
    <3>1. Readable(dir, s) \in 0 .. Len(log[dir][s]) /\ Len(log[dir][s]) \in Nat
      BY <1>0, ReadableType DEF AlertsInv, LogsType
    <3> QED BY <1>0, <3>1, LimitsAssumption DEF LogsFit, LogsType
  <2>2. lengths \in [Sleeves -> (0 .. MaxFills) \union {Unknown}]
    BY <2>1
  <2>3. cursor' = [BlankCursor(dir) EXCEPT !.lines = lengths] /\ UNCHANGED mem
    BY <1>13 DEF Reset, scanVars
  <2>4. BlankCursor(dir) \in Cursors
    BY <1>0, BlankType DEF LogsType
  <2> HIDE DEF lengths
  <2> QED BY <1>0, <2>2, <2>3, <2>4 DEF CursorsType, Cursors
<1>14. CASE LoseCursor
  BY <1>0, <1>14, BlankType DEF LoseCursor, CursorsType, scanVars
<1>15. CASE \/ \E s \in Sleeves : StartLine(s)
            \/ \E d \in Dirs, s \in Sleeves : EndLine(d, s) \/ KillSleeve(d, s)
            \/ \E p \in Scanners : NextSleeve(p)
            \/ \E d \in Dirs : Switch(d)
            \/ UNCHANGED alertsVars
  BY <1>1, <1>15 DEF StartLine, EndLine, KillSleeve, NextSleeve, Switch, scanVars, alertsVars
<1> QED BY <1>2, <1>3, <1>6, <1>8, <1>9, <1>10, <1>11, <1>12, <1>13, <1>14, <1>15
        DEF AlertsNext, Step

LEMMA ScansTypeStep ==
    ASSUME AlertsInv, [AlertsNext]_alertsVars
    PROVE  ScansType' /\ LockHeld'
<1>0. ScansType /\ CursorsType /\ ReadsFit /\ LogsFit /\ LockHeld
  BY TypesAre DEF AlertsInv
<1>1. CASE UNCHANGED <<lock, scanPc, files, at, count, sent, dry>>
  BY <1>0, <1>1 DEF ScansType, LockHeld
<1>2. ASSUME NEW p \in Scanners, Begin(p) PROVE ScansType' /\ LockHeld'
  <2>1. /\ lock' = p /\ scanPc' = [scanPc EXCEPT ![p] = "look"]
        /\ at' = [at EXCEPT ![p] = 1] /\ sent' = [sent EXCEPT ![p] = 0]
        /\ dry' \in [Scanners -> BOOLEAN] /\ UNCHANGED count /\ lock = NoScanner
    BY <1>0, <1>2 DEF Begin, ScansType
  <2>2. files' \in [Scanners -> SUBSET Sleeves]
    BY <1>0, <1>2 DEF Begin, ScansType
  <2>3. 1 \in 1 .. NumSleeves + 1 /\ 0 \in 0 .. MaxPerScan
    BY LimitsAssumption
  <2>4. LockHeld'
    BY <1>0, <2>1, NamesAssumption DEF LockHeld, ScansType
  <2> QED BY <1>0, <2>1, <2>2, <2>3, <2>4 DEF ScansType
<1>3. ASSUME NEW p \in Scanners, Look(p) PROVE ScansType' /\ LockHeld'
  <2>1. /\ at[p] \in Sleeves /\ mem[p].dir \in Dirs /\ scanPc[p] = "look"
        /\ UNCHANGED <<lock, files, sent, dry>>
    BY <1>0, <1>3 DEF Look, ReadsFit, ReadFits
  <2>2. at' = at \/ at' = [at EXCEPT ![p] = at[p] + 1]
    BY <1>3 DEF Look
  <2>3. scanPc' = scanPc \/ scanPc' = [scanPc EXCEPT ![p] = "send"]
    BY <1>3 DEF Look
  <2>4. count' = count \/ \E n \in {Readable(mem[p].dir, at[p]), 0} : count' = [count EXCEPT ![p] = n]
    BY <1>3 DEF Look
  <2>5. Readable(mem[p].dir, at[p]) \in 0 .. MaxFills /\ 0 \in 0 .. MaxFills
    BY <1>0, <2>1, ReadableType, LimitsAssumption DEF LogsFit, AlertsInv
  <2>6. at[p] + 1 \in 1 .. NumSleeves + 1
    BY <2>1, LimitsAssumption DEF Sleeves
  <2>7. LockHeld'
    BY <1>0, <2>1, <2>3 DEF LockHeld, ScansType
  <2> QED BY <1>0, <2>1, <2>2, <2>3, <2>4, <2>5, <2>6, <2>7 DEF ScansType
<1>4. ASSUME NEW p \in Scanners, NextSleeve(p) \/ PassCorrupt(p) \/ PrintFill(p) \/ Delivered(p)
                                   \/ SendRefused(p) \/ Save(p)
      PROVE ScansType' /\ LockHeld'
  <2>1. scanPc[p] \in {"send", "save"} /\ UNCHANGED <<lock, files, count, dry>>
    BY <1>4 DEF NextSleeve, PassCorrupt, PrintFill, Delivered, SendRefused, Save, AtLine
  <2>2. at[p] \in Sleeves
    BY <1>0, <2>1 DEF ReadsFit, ReadFits
  <2>3. \E next \in {at[p], at[p] + 1, NumSleeves + 1} : at' = [at EXCEPT ![p] = next]
    <3>1. at' = at => at' = [at EXCEPT ![p] = at[p]]
      BY <1>0 DEF ScansType
    <3> QED BY <1>4, <3>1 DEF NextSleeve, PassCorrupt, PrintFill, Delivered, SendRefused, Save
  <2>4. \E to \in {"look", "send", "save"} : scanPc' = [scanPc EXCEPT ![p] = to]
    <3>1. scanPc' = scanPc => scanPc' = [scanPc EXCEPT ![p] = scanPc[p]]
      BY <1>0 DEF ScansType
    <3> QED BY <1>4, <2>1, <3>1 DEF NextSleeve, PassCorrupt, PrintFill, Delivered, SendRefused, Save
  <2>5. sent' = sent \/ (sent[p] # MaxPerScan /\ sent' = [sent EXCEPT ![p] = sent[p] + 1])
    BY <1>4 DEF NextSleeve, PassCorrupt, PrintFill, Delivered, SendRefused, Save, AtLine, ScanDone
  <2>6. LockHeld'
    BY <1>0, <2>1, <2>4 DEF LockHeld, ScansType
  <2>7. at' \in [Scanners -> 1 .. NumSleeves + 1]
    BY <1>0, <2>2, <2>3, LimitsAssumption DEF ScansType, Sleeves
  <2>8. sent' \in [Scanners -> 0 .. MaxPerScan]
    BY <1>0, <2>5, LimitsAssumption DEF ScansType
  <2> QED BY <1>0, <2>1, <2>4, <2>6, <2>7, <2>8 DEF ScansType
<1>5. ASSUME NEW p \in Scanners, Gone(p), scanPc[p] # "off" PROVE ScansType' /\ LockHeld'
  <2>1. 1 \in 1 .. NumSleeves + 1 /\ 0 \in 0 .. MaxPerScan /\ 0 \in 0 .. MaxFills
    BY LimitsAssumption
  <2>2. LockHeld'
    BY <1>0, <1>5, NamesAssumption DEF LockHeld, ScansType, Gone
  <2>3. ScansType'
    BY <1>0, <1>5, <2>1 DEF ScansType, Gone
  <2> QED BY <2>2, <2>3
<1>6. ASSUME NEW p \in Scanners, Finish(p) \/ KillScanner(p) PROVE ScansType' /\ LockHeld'
  BY <1>5, <1>6 DEF Finish, KillScanner
<1>7. CASE \/ \E s \in Sleeves : StartLine(s)
           \/ \E d \in Dirs, s \in Sleeves : EndLine(d, s) \/ KillSleeve(d, s)
           \/ \E d \in Dirs : Switch(d)
           \/ Reset \/ LoseCursor \/ UNCHANGED alertsVars
  BY <1>1, <1>7 DEF StartLine, EndLine, KillSleeve, Switch, Reset, LoseCursor, scanVars, alertsVars
<1> QED BY <1>2, <1>3, <1>4, <1>6, <1>7 DEF AlertsNext, Step

\* What a scan adds to the histories is a fill of the log it is at.
\* n copies of a message, at the end of the chat.
LEMMA ChatIs ==
    ASSUME NEW c \in Seq(Fills), NEW f \in Fills, NEW n \in 0 .. 2, NEW d,
           d = c \o [i \in 1 .. n |-> f]
    PROVE  /\ d \in Seq(Fills) /\ Len(d) = Len(c) + n
           /\ n = 0 => d = c
           /\ \A i \in 1 .. Len(c) : d[i] = c[i]
           /\ \A i \in Len(c) + 1 .. Len(d) : d[i] = f
<1> DEFINE more == [i \in 1 .. n |-> f]
<1>1. more \in Seq(Fills) /\ Len(more) = n /\ \A i \in 1 .. n : more[i] = f
  OBVIOUS
<1> HIDE DEF more
<1>2. /\ d \in Seq(Fills) /\ Len(d) = Len(c) + n
      /\ \A i \in 1 .. Len(c) : d[i] = c[i]
      /\ \A i \in Len(c) + 1 .. Len(d) : d[i] = f
  <2>1. d = c \o more
    BY DEF more
  <2> QED BY <1>1, <2>1
<1>3. /\ Len(c) \in Nat /\ Len(d) \in Nat
      /\ DOMAIN c = 1 .. Len(c) /\ DOMAIN d = 1 .. Len(d)
  BY <1>2
<1>4. n = 0 => d = c
  BY <1>2, <1>3
<1> QED BY <1>2, <1>4

LEMMA ChatSet ==
    ASSUME NEW c \in Seq(Fills), NEW d \in Seq(Fills), NEW f, Len(d) > Len(c),
           \A i \in 1 .. Len(c) : d[i] = c[i],
           \A i \in Len(c) + 1 .. Len(d) : d[i] = f
    PROVE  ToSet(d) = ToSet(c) \union {f}
<1>1. /\ Len(c) \in Nat /\ Len(d) \in Nat
      /\ DOMAIN c = 1 .. Len(c) /\ DOMAIN d = 1 .. Len(d)
  OBVIOUS
<1>2. \A i \in DOMAIN c : i \in DOMAIN d /\ d[i] = c[i]
  BY <1>1
<1>3. Len(c) + 1 \in DOMAIN d /\ d[Len(c) + 1] = f
  BY <1>1
<1>4. \A i \in DOMAIN d : i \in DOMAIN c \/ d[i] = f
  BY <1>1
<1> QED BY <1>2, <1>3, <1>4 DEF ToSet

LEMMA HistoryTypeStep ==
    ASSUME AlertsInv, [AlertsNext]_alertsVars
    PROVE  HistoryType' /\ slips' <= faults'
<1>0. HistoryType /\ LogsType /\ CursorsType /\ ScansType /\ ReadsFit /\ LogsFit /\ slips <= faults
  BY TypesAre DEF AlertsInv
<1>1. ASSUME NEW kind, Fault(kind)
      PROVE  faults' \in 0 .. MaxFaults /\ faults' = faults + 1
  BY <1>0, <1>1, LimitsAssumption DEF Fault, HistoryType
<1>2. slips' <= faults' /\ slips' \in 0 .. MaxFaults /\ faults' \in 0 .. MaxFaults
  <2>1. \/ UNCHANGED <<slips, faults>>
        \/ \E p \in Scanners : Arrive(p, 1, 0) /\ UNCHANGED faults
        \/ (\E kind : Fault(kind)) /\ (slips' = slips \/ slips' = slips + 1)
        \/ \E p \in Scanners : Unanswered(p)
    BY ZenonT(90) DEF AlertsNext, alertsVars, StartLine, EndLine, KillSleeve, Step, Begin, Look, NextSleeve,
       PassCorrupt, PrintFill, Delivered, SendRefused, Arrive, Save, SaveCursor, Finish, KillScanner,
       Switch, Reset, LoseCursor
  <2>2. slips \in Nat /\ faults \in Nat /\ slips <= faults /\ slips \in 0 .. MaxFaults /\ faults \in 0 .. MaxFaults
    BY <1>0, LimitsAssumption DEF HistoryType
  <2>3. (\E kind : Fault(kind)) => faults' \in 0 .. MaxFaults /\ faults' = faults + 1
    BY <1>1
  <2>4. CASE \E p \in Scanners : Unanswered(p)
    BY <2>2, <2>4, LimitsAssumption DEF Unanswered, Arrive
  <2>5. CASE \E p \in Scanners : Arrive(p, 1, 0) /\ UNCHANGED faults
    BY <2>2, <2>5, LimitsAssumption DEF Arrive
  <2> QED BY <2>1, <2>2, <2>3, <2>4, <2>5, LimitsAssumption
<1>3. ASSUME NEW p \in Scanners, AtLine(p) PROVE Fill(p) \in Fills
  <2>1. /\ mem[p].dir \in Dirs /\ at[p] \in Sleeves
        /\ mem[p].lines[at[p]] \in 0 .. count[p] /\ count[p] \in 0 .. MaxFills
        /\ Next1(p) <= count[p]
    BY <1>0, <1>3 DEF AtLine, ReadsFit, ReadFits, ScansType
  <2>2. Next1(p) \in 1 .. MaxFills
    BY <2>1, LimitsAssumption DEF Next1
  <2> QED BY <2>1, <2>2 DEF Fill, Fills
<1>4. chat' \in Seq(Fills)
  <2>1. chat' = chat \/ \E p \in Scanners : Delivered(p) \/ SendRefused(p)
    BY ZenonT(40) DEF AlertsNext, alertsVars, StartLine, EndLine, KillSleeve, Step, Begin, Look, NextSleeve,
       PassCorrupt, PrintFill, Save, SaveCursor, Finish, KillScanner, Switch, Reset, LoseCursor
  <2>2. ASSUME NEW p \in Scanners, Delivered(p) \/ SendRefused(p) PROVE chat' \in Seq(Fills)
    <3>1. AtLine(p) /\ \E n \in 0 .. 2 : chat' = chat \o [i \in 1 .. n |-> Fill(p)]
      BY <2>2 DEF Delivered, SendRefused, Unanswered, Arrive
    <3>2. PICK f \in Fills, c \in Seq(Fills) : f = Fill(p) /\ c = chat
      BY <1>0, <1>3, <3>1 DEF HistoryType
    <3>3. PICK n \in 0 .. 2 : chat' = c \o [i \in 1 .. n |-> f]
      BY <3>1, <3>2
    <3> QED BY <3>3, ChatIs
  <2> QED BY <1>0, <2>1, <2>2 DEF HistoryType
<1>5. skipped' \subseteq Fills /\ printed' \subseteq Fills
  <2>1. /\ skipped' = skipped \/ \E p \in Scanners : AtLine(p) /\ skipped' = skipped \union {Fill(p)}
        /\ printed' = printed \/ \E p \in Scanners : AtLine(p) /\ printed' = printed \union {Fill(p)}
    BY ZenonT(40) DEF AlertsNext, alertsVars, histVars, StartLine, EndLine, KillSleeve, Step, Begin, Look,
       NextSleeve, PassCorrupt, PrintFill, Delivered, SendRefused, Save, SaveCursor, Finish,
       KillScanner, Switch, Reset, LoseCursor
  <2>2. skipped \subseteq Fills /\ printed \subseteq Fills
    BY <1>0 DEF HistoryType
  <2> QED BY <1>3, <2>1, <2>2
<1>6. adopted' \subseteq Fills
  <2>1. \/ adopted' = adopted \/ Reset
        \/ \E p \in Scanners : /\ scanPc[p] = "look" /\ at[p] \in Sleeves
              /\ \E n \in {Readable(mem[p].dir, at[p]), 0} : adopted' = adopted \union Lines(p, 1, n)
    BY ZenonT(90) DEF AlertsNext, alertsVars, histVars, StartLine, EndLine, KillSleeve, Step, Begin, Look,
       NextSleeve, PassCorrupt, PrintFill, Delivered, SendRefused, Save, SaveCursor, Finish,
       KillScanner, Switch, LoseCursor
  <2>2. ASSUME NEW p \in Scanners, scanPc[p] = "look", at[p] \in Sleeves,
               NEW n \in {Readable(mem[p].dir, at[p]), 0}
        PROVE  Lines(p, 1, n) \subseteq Fills
    <3>1. mem[p].dir \in Dirs
      BY <1>0, <2>2 DEF ReadsFit, ReadFits
    <3>2. n <= MaxFills /\ n \in Nat
      BY <1>0, <2>2, <3>1, ReadableType, LimitsAssumption DEF LogsFit, AlertsInv
    <3>3. \A i \in 1 .. n : i \in 1 .. MaxFills
      BY <3>2, LimitsAssumption
    <3> QED BY <2>2, <3>1, <3>3 DEF Lines, Fills
  <2>3. Reset => adopted' \subseteq Fills
    BY <1>0 DEF Reset, HistoryType
  <2> QED BY <1>0, <2>1, <2>2, <2>3 DEF HistoryType
<1>7. owed' \subseteq Fills
  <2>1. \/ owed' \subseteq owed
        \/ \E d \in Dirs, s \in Sleeves : EndLine(d, s)
    BY ZenonT(40) DEF AlertsNext, alertsVars, histVars, StartLine, KillSleeve, Step, Begin, Look,
       NextSleeve, PassCorrupt, PrintFill, Delivered, SendRefused, Save, SaveCursor, Finish,
       KillScanner, Switch, Reset, LoseCursor
  <2>2. ASSUME NEW d \in Dirs, NEW s \in Sleeves, EndLine(d, s) PROVE owed' \subseteq Fills
    <3>1. /\ log'[d][s] = Append(log[d][s], tail[d][s] = "writing") /\ log[d][s] \in Seq(BOOLEAN)
          /\ Len(log[d][s]) < MaxFills
      BY <1>0, <2>2 DEF EndLine, LogsType, LogsFit
    <3>2. Len(log'[d][s]) \in 1 .. MaxFills
      BY <3>1, LimitsAssumption
    <3>3. owed' \subseteq owed \union {<<d, s, Len(log'[d][s])>>}
      BY <2>2 DEF EndLine
    <3> QED BY <1>0, <3>2, <3>3 DEF HistoryType, Fills
  <2> QED BY <1>0, <2>1, <2>2 DEF HistoryType
<1> QED BY <1>2, <1>4, <1>5, <1>6, <1>7 DEF HistoryType

-----------------------------------------------------------------------------
(* What the steps of a scanner do to its own part of the state.            *)

LEMMA WithIs ==
    ASSUME NEW c \in Cursors, NEW s \in Sleeves, NEW n, NEW k
    PROVE  /\ With(c, s, n, k).dir = c.dir
           /\ With(c, s, n, k).lines[s] = n
           /\ \A t \in Sleeves : t # s => With(c, s, n, k).lines[t] = c.lines[t]
  BY DEF With, Cursors

\* One scanner at a time: whoever steps, the others are off.
LEMMA OthersAreOff ==
    ASSUME AlertsInv, [AlertsNext]_alertsVars, NEW p \in Scanners, Step(p) \/ KillScanner(p),
           NEW q \in Scanners, q # p
    PROVE  scanPc[q] = "off" /\ scanPc'[q] = "off"
<1>1. LockHeld /\ LockHeld' /\ ScansType /\ ScansType'
  BY ScansTypeStep, TypesAre DEF AlertsInv
<1>2. CASE Begin(p)
  BY <1>1, <1>2, NamesAssumption DEF Begin, LockHeld
<1>3. CASE Finish(p) \/ KillScanner(p)
  BY <1>1, <1>3, NamesAssumption DEF Finish, KillScanner, Gone, LockHeld
<1>4. CASE Look(p) \/ NextSleeve(p) \/ PassCorrupt(p) \/ PrintFill(p) \/ Delivered(p)
            \/ SendRefused(p) \/ Save(p)
  <2>1. scanPc[p] # "off" /\ lock' = lock
    BY <1>4 DEF Look, NextSleeve, PassCorrupt, PrintFill, Delivered, SendRefused, Save, AtLine
  <2> QED BY <1>1, <2>1 DEF LockHeld
<1> QED BY <1>2, <1>3, <1>4 DEF Step

\* The scanner's own variables, as Look leaves them.
Skips(p) == scanPc'[p] = "look" /\ at'[p] = at[p] + 1 /\ mem'[p] = mem[p] /\ UNCHANGED adopted
Adopts(p, n) ==
    /\ scanPc'[p] = "look" /\ at'[p] = at[p] + 1
    /\ mem'[p] = With(mem[p], at[p], n, 0)
    /\ adopted' = adopted \union Lines(p, 1, n)
Reads(p, n) ==
    /\ scanPc'[p] = "send" /\ at'[p] = at[p] /\ mem'[p] = mem[p] /\ count'[p] = n
    /\ mem[p].lines[at[p]] \in 0 .. n
    /\ UNCHANGED adopted
Advances(p, k) ==
    mem'[p] = With(mem[p], at[p], Next1(p), k)

LEMMA LookIs ==
    ASSUME AlertsInv, NEW p \in Scanners, Look(p)
    PROVE  /\ scanPc[p] = "look" /\ at[p] \in Sleeves /\ mem[p].dir \in Dirs
           /\ Readable(mem[p].dir, at[p]) \in 0 .. MaxFills
           /\ dry'[p] = dry[p]
           /\ UNCHANGED <<dir, logVars, cursor, lock, chat, skipped, owed, printed, slips>>
           /\ \/ Skips(p)
              \/ \E n \in {Readable(mem[p].dir, at[p]), 0} :
                    /\ n = Readable(mem[p].dir, at[p]) \/ Fault("open")
                    /\ Adopts(p, n) \/ Reads(p, n)
<1>0. CursorsType /\ ScansType /\ ReadsFit /\ LogsFit
  BY TypesAre DEF AlertsInv
<1>1. /\ scanPc[p] = "look" /\ at[p] \in Sleeves /\ dry' = dry
      /\ UNCHANGED <<dir, logVars, cursor, lock, chat, skipped, owed, printed, slips>>
  BY DEF Look
<1>2. mem[p].dir \in Dirs
  BY <1>0, <1>1 DEF ReadsFit, ReadFits
<1>3. Readable(mem[p].dir, at[p]) \in 0 .. MaxFills
  BY <1>0, <1>1, <1>2, ReadableType, LimitsAssumption DEF LogsFit, AlertsInv
<1>4. CASE at[p] \notin files[p]
  <2>1. at' = [at EXCEPT ![p] = at[p] + 1] /\ UNCHANGED <<mem, scanPc, adopted>>
    BY <1>4 DEF Look
  <2>2. Skips(p)
    BY <1>0, <1>1, <2>1 DEF Skips, ScansType
  <2> QED BY <1>1, <1>2, <1>3, <2>2
<1>5. CASE at[p] \in files[p]
  <2> DEFINE prev == mem[p].lines[at[p]]
  <2>1. PICK n \in {Readable(mem[p].dir, at[p]), 0} :
            /\ n = Readable(mem[p].dir, at[p]) \/ Fault("open")
            /\ count' = [count EXCEPT ![p] = n]
            /\ IF prev = Unknown \/ prev > n
               THEN /\ mem' = SetBoth(p, at[p], n, 0)
                    /\ adopted' = adopted \union Lines(p, 1, n)
                    /\ at' = [at EXCEPT ![p] = at[p] + 1]
                    /\ UNCHANGED scanPc
               ELSE scanPc' = [scanPc EXCEPT ![p] = "send"] /\ UNCHANGED <<mem, adopted, at>>
    BY <1>5 DEF Look, SetBoth
  <2>2. prev \in (0 .. MaxFills) \union {Unknown} /\ n \in Nat
    BY <1>0, <1>1, <1>3, LimitsAssumption DEF CursorsType, Cursors
  <2>3. CASE prev = Unknown \/ prev > n
    <3>1. mem' = Moved(p, at[p], n, 0)
      BY <1>0, <1>1, <2>1, <2>3, MemChanges
    <3>2. Adopts(p, n)
      BY <1>0, <1>1, <2>1, <2>3, <3>1 DEF Adopts, Moved, CursorsType, ScansType
    <3> QED BY <1>1, <1>2, <1>3, <2>1, <3>2
  <2>4. CASE ~(prev = Unknown \/ prev > n)
    <3>1. prev \in 0 .. n
      BY <2>2, <2>4
    <3>2. Reads(p, n)
      BY <1>0, <1>1, <2>1, <2>4, <3>1 DEF Reads, ScansType
    <3> QED BY <1>1, <1>2, <1>3, <2>1, <3>2
  <2> QED BY <2>3, <2>4
<1> QED BY <1>4, <1>5

\* A line that is next can be read, and its fill is one.
LEMMA AtLineIs ==
    ASSUME AlertsInv, NEW p \in Scanners, AtLine(p)
    PROVE  /\ scanPc[p] = "send" /\ at[p] \in Sleeves /\ mem[p].dir \in Dirs /\ mem[p] \in Cursors
           /\ mem[p].lines[at[p]] \in Nat /\ Next1(p) = mem[p].lines[at[p]] + 1
           /\ Next1(p) \in 1 .. MaxFills /\ Next1(p) <= count[p] /\ count[p] \in Nat
           /\ Next1(p) <= Readable(mem[p].dir, at[p])
           /\ Next1(p) \in 1 .. Len(log[mem[p].dir][at[p]])
           /\ mem[p].fails[at[p]] \in 0 .. MaxFailures - 1
           /\ Fill(p) \in Fills
<1>0. CursorsType /\ ScansType /\ ReadsFit /\ LogsFit
  BY TypesAre DEF AlertsInv
<1>1. /\ scanPc[p] = "send" /\ at[p] \in Sleeves /\ mem[p].dir \in Dirs /\ mem[p] \in Cursors
      /\ mem[p].lines[at[p]] \in 0 .. count[p] /\ count[p] \in 0 .. MaxFills
      /\ Next1(p) <= count[p] /\ count[p] <= Readable(mem[p].dir, at[p])
  BY <1>0 DEF AtLine, ReadsFit, ReadFits, CursorsType, ScansType
<1>2. Next1(p) = mem[p].lines[at[p]] + 1 /\ Next1(p) \in 1 .. MaxFills
  BY <1>1, LimitsAssumption DEF Next1
<1>3. Readable(mem[p].dir, at[p]) \in 0 .. Len(log[mem[p].dir][at[p]]) /\ Len(log[mem[p].dir][at[p]]) \in Nat
  BY <1>1, ReadableType DEF AlertsInv
<1>4. mem[p].fails[at[p]] \in 0 .. MaxFailures - 1
  BY <1>1 DEF Cursors
<1>5. Fill(p) \in Fills
  BY <1>1, <1>2 DEF Fill, Fills
<1> QED BY SMTT(30), <1>1, <1>2, <1>3, <1>4, <1>5, LimitsAssumption

LEMMA PassIs ==
    ASSUME AlertsInv, NEW p \in Scanners, PassCorrupt(p) \/ PrintFill(p)
    PROVE  /\ AtLine(p) /\ Advances(p, mem[p].fails[at[p]])
           /\ scanPc'[p] = "send" /\ at'[p] = at[p] /\ count'[p] = count[p] /\ dry'[p] = dry[p]
           /\ UNCHANGED <<dir, logVars, cursor, lock, chat, skipped, adopted, owed, slips>>
           /\ \/ ~log[mem[p].dir][at[p]][Next1(p)] /\ UNCHANGED printed
              \/ dry[p] /\ printed' = printed \union {Fill(p)}
<1>1. /\ AtLine(p) /\ UNCHANGED <<dir, logVars, cursor, lock, chat, skipped, adopted, owed, slips>>
      /\ scanPc' = scanPc /\ at' = at /\ count' = count /\ dry' = dry
  BY SMTT(30) DEF PassCorrupt, PrintFill, histVars
<1>2. mem' = SetLine(p, at[p], Next1(p))
  BY DEF PassCorrupt, PrintFill, SetLine, Next1
<1>3. CursorsType
  BY TypesAre DEF AlertsInv
<1>4. mem' = Moved(p, at[p], Next1(p), mem[p].fails[at[p]])
  BY <1>1, <1>2, <1>3, AtLineIs, MemChanges
<1>5. Advances(p, mem[p].fails[at[p]])
  BY <1>3, <1>4 DEF Moved, Advances, CursorsType
<1>6. \/ ~log[mem[p].dir][at[p]][Next1(p)] /\ UNCHANGED printed
      \/ dry[p] /\ printed' = printed \union {Fill(p)}
  BY DEF PassCorrupt, PrintFill, histVars
<1> QED BY <1>1, <1>5, <1>6, AtLineIs

LEMMA PassedIs ==
    ASSUME AlertsInv, NEW p \in Scanners, AtLine(p), mem' = Passed(p)
    PROVE  Advances(p, 0)
<1>1. CursorsType
  BY TypesAre DEF AlertsInv
<1>2. mem' = SetBoth(p, at[p], Next1(p), 0)
  BY DEF Passed, SetBoth, Next1
<1>3. mem' = Moved(p, at[p], Next1(p), 0)
  BY <1>1, <1>2, AtLineIs, MemChanges
<1> QED BY <1>1, <1>3 DEF Moved, Advances, CursorsType

\* One message or two arrive, and all answers but due of them are lost.
Sends(p, due) ==
    /\ Delivered(p) \/ SendRefused(p)
    /\ \E n \in {1, 2} : Arrive(p, n, n - due)

LEMMA SendsIs ==
    ASSUME AlertsInv, NEW p \in Scanners, Delivered(p) \/ SendRefused(p)
    PROVE  /\ AtLine(p) /\ ~dry[p] /\ log[mem[p].dir][at[p]][Next1(p)]
           /\ UNCHANGED <<dir, logVars, cursor, lock>>
  BY DEF Delivered, SendRefused

LEMMA DeliveredIs ==
    ASSUME AlertsInv, NEW p \in Scanners, Delivered(p)
    PROVE  /\ AtLine(p) /\ Advances(p, 0) /\ ~dry[p] /\ log[mem[p].dir][at[p]][Next1(p)]
           /\ scanPc'[p] = "save" /\ at'[p] = at[p] /\ count'[p] = count[p] /\ dry'[p] = dry[p]
           /\ UNCHANGED <<dir, logVars, cursor, lock, histVars>>
           /\ Sends(p, 1)
<1>1. /\ AtLine(p) /\ ~dry[p] /\ log[mem[p].dir][at[p]][Next1(p)]
      /\ scanPc' = [scanPc EXCEPT ![p] = "save"] /\ UNCHANGED <<at, count, dry>>
      /\ UNCHANGED <<dir, logVars, cursor, lock, histVars>>
      /\ Arrive(p, 1, 0) \/ Arrive(p, 2, 1)
      /\ mem' = Passed(p)
  BY DEF Delivered
<1>2. ScansType
  BY TypesAre DEF AlertsInv
<1>3. Advances(p, 0)
  BY <1>1, PassedIs
<1>4. Sends(p, 1)
  <2>1. 1 - 1 = 0 /\ 2 - 1 = 1
    OBVIOUS
  <2> QED BY <1>1, <2>1 DEF Sends
<1> QED BY <1>1, <1>2, <1>3, <1>4 DEF ScansType

LEMMA RefusedIs ==
    ASSUME AlertsInv, NEW p \in Scanners, SendRefused(p)
    PROVE  /\ AtLine(p) /\ scanPc'[p] = "look" /\ at'[p] \in {at[p] + 1, NumSleeves + 1}
           /\ dry'[p] = dry[p]
           /\ UNCHANGED <<dir, logVars, cursor, lock, adopted, owed, printed>>
           /\ UNCHANGED <<chat, slips>> \/ Sends(p, 0)
           /\ \/ /\ mem'[p] = With(mem[p], at[p], mem[p].lines[at[p]], mem[p].fails[at[p]] + 1)
                 /\ UNCHANGED skipped
              \/ Advances(p, 0) /\ skipped' = skipped \union {Fill(p)}
<1>1. /\ AtLine(p) /\ scanPc' = [scanPc EXCEPT ![p] = "look"]
      /\ \E next \in {at[p] + 1, NumSleeves + 1} : at' = [at EXCEPT ![p] = next]
      /\ UNCHANGED <<dir, logVars, cursor, lock, dry, adopted, owed, printed>>
      /\ Unanswered(p)
  BY DEF SendRefused
<1>2. \/ mem' = SetFail(p, at[p], mem[p].fails[at[p]] + 1) /\ UNCHANGED skipped
      \/ mem' = Passed(p) /\ skipped' = skipped \union {Fill(p)}
  BY DEF SendRefused, SetFail
<1>3. ScansType /\ CursorsType
  BY TypesAre DEF AlertsInv
<1>4. UNCHANGED <<chat, slips>> \/ Sends(p, 0)
  <2>1. PICK l \in 0 .. 2 : Arrive(p, l, l)
    BY <1>1 DEF Unanswered
  <2>2. CASE l = 0
    <3>1. chat \in Seq(Fills) /\ Fill(p) \in Fills /\ slips \in Int
      BY <1>1, AtLineIs, TypesAre DEF AlertsInv, HistoryType
    <3>2. chat' = chat \o [i \in 1 .. l |-> Fill(p)] /\ slips' = slips + l
      BY <2>1 DEF Arrive
    <3>3. chat' = chat
      BY <2>2, <3>1, <3>2, ChatIs
    <3> QED BY <2>2, <3>1, <3>2, <3>3
  <2>3. CASE l # 0
    <3>1. l \in {1, 2} /\ l - 0 = l
      BY <2>3
    <3> QED BY <2>1, <3>1 DEF Sends
  <2> QED BY <2>2, <2>3
<1>5. CASE mem' = SetFail(p, at[p], mem[p].fails[at[p]] + 1) /\ UNCHANGED skipped
  <2>1. mem' = Moved(p, at[p], mem[p].lines[at[p]], mem[p].fails[at[p]] + 1)
    BY <1>1, <1>3, <1>5, AtLineIs, MemChanges
  <2>2. mem'[p] = With(mem[p], at[p], mem[p].lines[at[p]], mem[p].fails[at[p]] + 1)
    BY <1>3, <2>1 DEF Moved, CursorsType
  <2> QED BY <1>1, <1>3, <1>4, <1>5, <2>2 DEF ScansType
<1>6. CASE mem' = Passed(p) /\ skipped' = skipped \union {Fill(p)}
  BY <1>1, <1>3, <1>4, <1>6, PassedIs DEF ScansType
<1> QED BY <1>2, <1>5, <1>6

\* A scan begins with the cursor of this directory, or a blank one.
LEMMA BeginIs ==
    ASSUME AlertsInv, NEW p \in Scanners, Begin(p)
    PROVE  /\ scanPc[p] = "off" /\ lock = NoScanner
           /\ scanPc'[p] = "look" /\ at'[p] = 1 /\ dir \in Dirs
           /\ \/ mem'[p] = cursor /\ cursor.dir = dir
              \/ mem'[p] = BlankCursor(dir) /\ cursor.dir # dir
           /\ UNCHANGED <<dir, logVars, cursor, chat, histVars, slips>>
<1>1. LogsType /\ ScansType /\ CursorsType
  BY TypesAre DEF AlertsInv
<1>2. /\ scanPc[p] = "off" /\ lock = NoScanner /\ mem' = [mem EXCEPT ![p] = CursorLoaded]
      /\ scanPc' = [scanPc EXCEPT ![p] = "look"] /\ at' = [at EXCEPT ![p] = 1]
      /\ UNCHANGED <<dir, logVars, cursor, chat, histVars, slips>>
  BY DEF Begin
<1> QED BY <1>1, <1>2 DEF CursorLoaded, LogsType, ScansType, CursorsType

\* The cursor is saved, or that is a slip.
Saved(p) ==
    \/ cursor' = mem[p] /\ UNCHANGED slips
    \/ UNCHANGED cursor /\ slips' = slips + 1

LEMMA SaveIs ==
    ASSUME AlertsInv, NEW p \in Scanners, Save(p)
    PROVE  /\ scanPc[p] = "save" /\ Saved(p)
           /\ mem'[p] = mem[p] /\ count'[p] = count[p] /\ dry'[p] = dry[p]
           /\ \/ scanPc'[p] = "send" /\ at'[p] = at[p]
              \/ scanPc'[p] = "look" /\ at'[p] = NumSleeves + 1
           /\ UNCHANGED <<dir, logVars, lock, chat, skipped, adopted, printed>>
<1>1. ScansType
  BY TypesAre DEF AlertsInv
<1> QED BY <1>1 DEF Save, SaveCursor, Saved, ScansType

LEMMA EndIs ==
    ASSUME AlertsInv, NEW p \in Scanners, Finish(p) \/ KillScanner(p)
    PROVE  /\ scanPc[p] # "off" /\ scanPc'[p] = "off" /\ lock' = NoScanner
           /\ Saved(p) /\ (cursor' = cursor \/ scanPc[p] # "save")
           /\ UNCHANGED <<dir, logVars, chat, skipped, adopted, printed>>
<1>1. ScansType
  BY TypesAre DEF AlertsInv
<1>2. CASE Finish(p)
  BY <1>1, <1>2 DEF Finish, SaveCursor, Saved, Gone, ScansType
<1>3. CASE KillScanner(p)
  BY <1>1, <1>3 DEF KillScanner, Saved, Gone, histVars, ScansType
<1> QED BY <1>2, <1>3

LEMMA NextSleeveIs ==
    ASSUME AlertsInv, NEW p \in Scanners, NextSleeve(p)
    PROVE  /\ scanPc[p] = "send" /\ scanPc'[p] = "look" /\ at'[p] = at[p] + 1 /\ at[p] \in Sleeves
           /\ mem'[p] = mem[p] /\ dry'[p] = dry[p]
           /\ UNCHANGED <<dir, logVars, cursor, lock, chat, histVars, slips>>
<1>1. ScansType /\ ReadsFit
  BY TypesAre DEF AlertsInv
<1> QED BY <1>1 DEF NextSleeve, ScansType, ReadsFit, ReadFits

\* The steps that are not a scanner's leave scans and cursors in memory alone.
LEMMA ScansAside ==
    ASSUME AlertsInv, [AlertsNext]_alertsVars,
           ~(\E p \in Scanners : Step(p) \/ KillScanner(p))
    PROVE  UNCHANGED <<lock, scanVars, chat, skipped, printed, slips>>
  BY DEF AlertsNext, alertsVars, StartLine, EndLine, KillSleeve, Switch, Reset, LoseCursor,
     scanVars, histVars

\* A scan reads on to what the log holds, and no further.
LEMMA ReadsFitStep ==
    ASSUME AlertsInv, [AlertsNext]_alertsVars
    PROVE  ReadsFit'
<1>0. CursorsType /\ ScansType /\ ReadsFit
  BY TypesAre DEF AlertsInv
<1>1. ASSUME NEW d \in Dirs, NEW s \in Sleeves
      PROVE  /\ Readable(d, s) \in Nat /\ Readable(d, s)' \in Nat
             /\ Readable(d, s) <= Readable(d, s)'
  <2>1. Readable(d, s) \in 0 .. Len(log[d][s]) /\ Len(log[d][s]) \in Nat
    BY ReadableType DEF AlertsInv
  <2>2. AlertsTypeOK => Readable(d, s) \in 0 .. Len(log[d][s]) /\ Len(log[d][s]) \in Nat
    BY ReadableType
  <2>3. LogsType' => Readable(d, s)' \in Nat
    <3> SUFFICES ASSUME LogsType' PROVE Readable(d, s)' \in Nat
      OBVIOUS
    <3>1. log'[d][s] \in Seq(BOOLEAN)
      BY DEF LogsType
    <3>2. (Len(log[d][s]) > 0)' => (Len(log[d][s]) - 1)' \in Nat
      BY <3>1
    <3> QED BY <3>1, <3>2 DEF Readable
  <2>4. Readable(d, s)' \in Nat
    BY <2>3, LogsTypeStep
  <2> QED BY <2>1, <2>4, LogsGrow DEF AlertsInv
<1> DEFINE LineAt(p, d, s) ==
             /\ mem'[p].dir = d /\ at'[p] = s /\ mem'[p].lines[s] \in 0 .. count'[p]
             /\ count'[p] \in Nat /\ count'[p] <= Readable(d, s)
<1>2. ASSUME NEW p \in Scanners,
             \/ UNCHANGED <<scanPc[p], at[p], mem[p], count[p]>>
             \/ scanPc'[p] = "look" /\ mem'[p].dir \in Dirs
             \/ scanPc'[p] = "off"
             \/ \E d \in Dirs, s \in Sleeves : LineAt(p, d, s)
      PROVE  ReadFits(p)'
  <2>1. ReadFits(p) /\ count[p] \in Nat
    BY <1>0 DEF ReadsFit, ScansType
  <2>2. ASSUME NEW d \in Dirs, NEW s \in Sleeves, LineAt(p, d, s) PROVE ReadFits(p)'
    <3>1. count'[p] <= Readable(d, s)' /\ mem'[p].dir = d /\ at'[p] = s
      BY <1>1, <2>2
    <3> QED BY <2>2, <3>1 DEF ReadFits, Readable
  <2>3. CASE \/ scanPc'[p] = "look" /\ mem'[p].dir \in Dirs
             \/ scanPc'[p] = "off"
    BY <2>3 DEF ReadFits
  <2>4. CASE UNCHANGED <<scanPc[p], at[p], mem[p], count[p]>>
    <3>1. CASE scanPc[p] \in {"send", "save"}
      <4>1. LineAt(p, mem[p].dir, at[p]) /\ mem[p].dir \in Dirs /\ at[p] \in Sleeves
        BY <2>1, <2>4, <3>1 DEF ReadFits
      <4> QED BY <2>2, <4>1
    <3>2. CASE scanPc[p] \notin {"send", "save"}
      BY <2>1, <2>4, <3>2 DEF ReadFits
    <3> QED BY <3>1, <3>2
  <2> QED BY <1>2, <2>2, <2>3, <2>4
<1> HIDE DEF LineAt
<1>3. CASE ~(\E p \in Scanners : Step(p) \/ KillScanner(p))
  BY <1>2, <1>3, ScansAside DEF scanVars, ReadsFit
<1>4. ASSUME NEW p \in Scanners, Step(p) \/ KillScanner(p), ReadFits(p)' PROVE ReadsFit'
  BY <1>4, OthersAreOff DEF ReadsFit, ReadFits
<1>5. ASSUME NEW p \in Scanners, Begin(p) PROVE ReadFits(p)'
  BY <1>2, <1>5, BeginIs DEF BlankCursor
<1>6. ASSUME NEW p \in Scanners, Look(p) PROVE ReadFits(p)'
  <2>1. mem[p] \in Cursors /\ Readable(mem[p].dir, at[p]) \in Nat
    BY <1>0, <1>6, LookIs DEF CursorsType
  <2>2. CASE Skips(p)
    BY <1>2, <1>6, <2>2, LookIs DEF Skips
  <2>3. ASSUME NEW n \in {Readable(mem[p].dir, at[p]), 0}, Adopts(p, n) PROVE ReadFits(p)'
    <3>1. mem'[p].dir = mem[p].dir /\ scanPc'[p] = "look"
      BY <1>6, <2>1, <2>3, LookIs, WithIs DEF Adopts
    <3> QED BY <1>2, <1>6, <3>1, LookIs
  <2>4. ASSUME NEW n \in {Readable(mem[p].dir, at[p]), 0}, Reads(p, n) PROVE ReadFits(p)'
    BY <1>2, <1>6, <2>1, <2>4, LookIs DEF Reads, LineAt
  <2> QED BY <1>6, <2>2, <2>3, <2>4, LookIs
<1>7. ASSUME NEW p \in Scanners, AtLine(p), NEW k, Advances(p, k),
             at'[p] = at[p], count'[p] = count[p]
      PROVE  ReadFits(p)'
  <2>1. mem'[p].dir = mem[p].dir /\ mem'[p].lines[at[p]] = Next1(p)
    BY <1>7, AtLineIs, WithIs DEF Advances
  <2>2. Next1(p) \in 0 .. count[p] /\ count[p] <= Readable(mem[p].dir, at[p])
    BY <1>0, <1>7, AtLineIs DEF ReadsFit, ReadFits
  <2> QED BY <1>2, <1>7, <2>1, <2>2, AtLineIs DEF LineAt
<1>8. ASSUME NEW p \in Scanners, PassCorrupt(p) \/ PrintFill(p) PROVE ReadFits(p)'
  BY <1>7, <1>8, PassIs
<1>9. ASSUME NEW p \in Scanners, Delivered(p) PROVE ReadFits(p)'
  BY <1>7, <1>9, DeliveredIs
<1>10. ASSUME NEW p \in Scanners, SendRefused(p) PROVE ReadFits(p)'
  <2>1. mem'[p].dir = mem[p].dir
    BY <1>10, RefusedIs, AtLineIs, WithIs DEF Advances
  <2> QED BY <1>2, <1>10, <2>1, RefusedIs, AtLineIs
<1>11. ASSUME NEW p \in Scanners, Save(p) PROVE ReadFits(p)'
  <2>1. ReadFits(p) /\ scanPc[p] = "save"
    BY <1>0, <1>11, SaveIs DEF ReadsFit
  <2>2. count[p] \in Nat
    BY <1>0 DEF ScansType
  <2> QED BY <1>2, <1>11, <2>1, <2>2, SaveIs DEF ReadFits, LineAt
<1>12. ASSUME NEW p \in Scanners, Finish(p) \/ KillScanner(p) PROVE ReadFits(p)'
  BY <1>2, <1>12, EndIs
<1>13. ASSUME NEW p \in Scanners, NextSleeve(p) PROVE ReadFits(p)'
  BY <1>0, <1>2, <1>13, NextSleeveIs DEF ReadsFit, ReadFits
<1>14. ASSUME NEW p \in Scanners, Step(p) \/ KillScanner(p) PROVE ReadFits(p)'
  BY <1>5, <1>6, <1>8, <1>9, <1>10, <1>11, <1>12, <1>13, <1>14 DEF Step
<1> QED BY <1>3, <1>4, <1>14

LEMMA AlertsInvStep ==
    ASSUME AlertsInv, [AlertsNext]_alertsVars
    PROVE  AlertsInv'
<1>1. LogsType' /\ LogsFit' /\ CursorsType' /\ ScansType' /\ LockHeld' /\ HistoryType'
      /\ slips' <= faults' /\ ReadsFit'
  BY LogsTypeStep, CursorsTypeStep, ScansTypeStep, HistoryTypeStep, ReadsFitStep
<1>2. AlertsTypeOK'
  BY <1>1, TypesAre DEF AlertsTypeOK, LogsType, CursorsType, ScansType, HistoryType
<1>3. cursor'.dir = NoDir => \A s \in Sleeves : cursor'.lines[s] = Unknown
  <2>1. \/ cursor' = cursor \/ Reset \/ LoseCursor
        \/ \E p \in Scanners : Step(p) \/ KillScanner(p)
    BY DEF AlertsNext, alertsVars, StartLine, EndLine, KillSleeve, Switch
  <2>2. CASE cursor' = cursor
    BY <2>2 DEF AlertsInv
  <2>3. CASE Reset
    <3>1. cursor'.dir = dir
      BY <2>3 DEF Reset, BlankCursor
    <3> QED BY <3>1, TypesAre, NamesAssumption DEF AlertsInv, LogsType
  <2>4. CASE LoseCursor
    BY <2>4 DEF LoseCursor, BlankCursor
  <2>5. ASSUME NEW p \in Scanners, Step(p) \/ KillScanner(p), cursor' # cursor
        PROVE  cursor' = mem[p] /\ scanPc[p] # "off"
    BY <2>5, BeginIs, LookIs, PassIs, DeliveredIs, RefusedIs, SaveIs, EndIs, NextSleeveIs
       DEF Step, Saved
  <2>6. ASSUME NEW p \in Scanners, scanPc[p] # "off" PROVE mem[p].dir # NoDir
    BY <2>6, NamesAssumption DEF AlertsInv, ReadsFit, ReadFits
  <2> QED BY <2>1, <2>2, <2>3, <2>4, <2>5, <2>6
<1> QED BY <1>1, <1>2, <1>3 DEF AlertsInv

\* Whatever directories, sleeves and scanners there are, a cursor never runs
\* past its log, and a lock is held by the scan that runs.
THEOREM AlertsTypeCorrect == AlertsSpec => []AlertsInv
  BY AlertsInvInit, AlertsInvStep, PTL DEF AlertsSpec

-----------------------------------------------------------------------------
(* The cursor is earned.                                                   *)

\* A message is one element more, or two, and one fill more that arrived.
LEMMA ArrivedIs ==
    ASSUME AlertsInv, [AlertsNext]_alertsVars
    PROVE  /\ \A p \in Scanners : \A due : Sends(p, due) => Arrived' = Arrived \union {Fill(p)}
           /\ (~\E p \in Scanners : Sends(p, 0) \/ Sends(p, 1)) => chat' = chat
<1>1. chat \in Seq(Fills)
  BY TypesAre DEF AlertsInv, HistoryType
<1>2. ASSUME NEW p \in Scanners, NEW due, Sends(p, due) PROVE Arrived' = Arrived \union {Fill(p)}
  <2>1. AtLine(p)
    BY <1>2, SendsIs DEF Sends
  <2>2. Fill(p) \in Fills
    BY <2>1, AtLineIs
  <2>3. PICK n \in {1, 2} : chat' = chat \o [i \in 1 .. n |-> Fill(p)]
    BY <1>2 DEF Sends, Arrive
  <2>4. n \in 0 .. 2 /\ n > 0
    OBVIOUS
  <2>5. ToSet(chat') = ToSet(chat) \union {Fill(p)}
    <3>1. PICK c \in Seq(Fills), f \in Fills : c = chat /\ f = Fill(p)
      BY <1>1, <2>2
    <3>2. PICK d : d = chat'
      OBVIOUS
    <3>3. d = c \o [i \in 1 .. n |-> f]
      BY <2>3, <3>1, <3>2
    <3>4. /\ d \in Seq(Fills) /\ Len(d) = Len(c) + n
          /\ \A i \in 1 .. Len(c) : d[i] = c[i]
          /\ \A i \in Len(c) + 1 .. Len(d) : d[i] = f
      BY <2>4, <3>3, ChatIs
    <3>5. Len(d) > Len(c)
      BY <2>4, <3>4
    <3>6. ToSet(d) = ToSet(c) \union {f}
      BY <3>4, <3>5, ChatSet
    <3> QED BY <3>1, <3>2, <3>6
  <2> QED BY <2>5 DEF Arrived
<1>3. ASSUME ~\E p \in Scanners : Sends(p, 0) \/ Sends(p, 1) PROVE chat' = chat
  <2>1. chat' = chat \/ \E p \in Scanners : Delivered(p) \/ SendRefused(p)
    BY ZenonT(40) DEF AlertsNext, alertsVars, StartLine, EndLine, KillSleeve, Step, Begin, Look, NextSleeve,
       PassCorrupt, PrintFill, Save, SaveCursor, Finish, KillScanner, Switch, Reset, LoseCursor
  <2> QED BY <1>3, <2>1, DeliveredIs, RefusedIs
<1> QED BY <1>2, <1>3

\* What happened stays.
LEMMA HistoriesGrow ==
    ASSUME AlertsInv, [AlertsNext]_alertsVars
    PROVE  /\ Arrived \subseteq Arrived' /\ skipped \subseteq skipped'
           /\ adopted \subseteq adopted' /\ printed \subseteq printed' /\ slips <= slips'
<1>1. Arrived \subseteq Arrived'
  BY ArrivedIs DEF Arrived
<1>2. skipped \subseteq skipped' /\ adopted \subseteq adopted' /\ printed \subseteq printed'
      /\ \/ slips' \in {slips, slips + 0, slips + 1}
         \/ \E p \in Scanners : Unanswered(p)
  BY ZenonT(40) DEF AlertsNext, alertsVars, histVars, StartLine, EndLine, KillSleeve, Step, Begin, Look,
     NextSleeve, PassCorrupt, PrintFill, Delivered, SendRefused, Arrive, Save, SaveCursor, Finish,
     KillScanner, Switch, Reset, LoseCursor
<1>3. slips \in Int
  BY TypesAre DEF AlertsInv, HistoryType
<1>4. CASE \E p \in Scanners : Unanswered(p)
  BY <1>1, <1>2, <1>3, <1>4 DEF Unanswered, Arrive
<1> QED BY <1>1, <1>2, <1>3, <1>4

\* What a cursor has earned it keeps.
LEMMA EarnedStays ==
    ASSUME AlertsInv, [AlertsNext]_alertsVars, NEW c \in Cursors, Earned(c),
           c.dir = NoDir => \A s \in Sleeves : c.lines[s] = Unknown
    PROVE  Earned(c)'
<1> SUFFICES ASSUME NEW s \in Sleeves, NEW i \in 1 .. c.lines[s]
             PROVE  \/ <<c.dir, s, i>> \in (Arrived \union skipped \union adopted \union printed)'
                    \/ i \in DOMAIN log'[c.dir][s] /\ ~log'[c.dir][s][i]
  BY DEF Earned
<1>1. c.dir \in Dirs
  BY DEF Cursors, Unknown
<1>2. CASE <<c.dir, s, i>> \in Arrived \union skipped \union adopted \union printed
  BY <1>2, HistoriesGrow
<1>3. CASE i \in DOMAIN log[c.dir][s] /\ ~log[c.dir][s][i]
  <2>1. /\ log'[c.dir][s] \in Seq(BOOLEAN) /\ Len(log[c.dir][s]) <= Len(log'[c.dir][s])
        /\ \A j \in 1 .. Len(log[c.dir][s]) : log'[c.dir][s][j] = log[c.dir][s][j]
    BY <1>1, LogsGrow DEF AlertsInv
  <2>2. log[c.dir][s] \in Seq(BOOLEAN)
    BY <1>1 DEF AlertsInv, AlertsTypeOK
  <2> QED BY <1>3, <2>1, <2>2
<1> QED BY <1>2, <1>3 DEF Earned

\* Setting the line of one sleeve, the rest is earned as before.
LEMMA EarnedWith ==
    ASSUME NEW c \in Cursors, NEW s \in Sleeves, NEW n \in Nat, NEW k, Earned(c)',
           \A i \in 1 .. n :
              \/ i \in 1 .. c.lines[s]
              \/ <<c.dir, s, i>> \in (Arrived \union skipped \union adopted \union printed)'
              \/ i \in DOMAIN log'[c.dir][s] /\ ~log'[c.dir][s][i]
    PROVE  Earned(With(c, s, n, k))'
<1> DEFINE w == With(c, s, n, k)
<1>1. /\ w.dir = c.dir /\ w.lines[s] = n
      /\ \A t \in Sleeves : t # s => w.lines[t] = c.lines[t]
  BY WithIs
<1> HIDE DEF w
<1>2. Earned(w)'
  BY <1>1 DEF Earned
<1> QED BY <1>2 DEF w

LEMMA EarnedStep ==
    ASSUME AlertsInv, EarnedInv, [AlertsNext]_alertsVars
    PROVE  EarnedInv'
<1>0. CursorsType /\ CursorsType' /\ ScansType /\ ReadsFit /\ LogsType
  BY CursorsTypeStep, TypesAre DEF AlertsInv
<1>1. Earned(cursor) /\ (cursor.dir = NoDir => \A s \in Sleeves : cursor.lines[s] = Unknown)
  BY DEF EarnedInv, AlertsInv
<1>2. ASSUME NEW c \in Cursors, c = cursor PROVE Earned(c)'
  BY <1>1, <1>2, EarnedStays
<1>3. ASSUME NEW p \in Scanners, scanPc[p] # "off", NEW c \in Cursors, c = mem[p]
      PROVE  Earned(c)'
  <2>1. Earned(c) /\ c.dir # NoDir
    BY <1>0, <1>3, NamesAssumption DEF EarnedInv, ReadsFit, ReadFits
  <2> QED BY <2>1, EarnedStays
<1>4. ASSUME NEW c \in Cursors, \A s \in Sleeves : c.lines[s] = Unknown PROVE Earned(c)'
  <2>1. \A s \in Sleeves : \A i \in 1 .. c.lines[s] : FALSE
    BY <1>4 DEF Unknown
  <2> QED BY <2>1 DEF Earned
<1>5. ASSUME NEW c \in Cursors, Earned(c)'
      PROVE  /\ cursor' = c => Earned(cursor)'
             /\ \A p \in Scanners : mem'[p] = c => Earned(mem[p])'
  BY <1>5 DEF Earned
<1>6. Earned(cursor)'
  <2>1. CASE cursor' = cursor
    BY <1>0, <1>2, <1>5, <2>1 DEF CursorsType
  <2>2. ASSUME NEW p \in Scanners, scanPc[p] # "off", cursor' = mem[p] PROVE Earned(cursor)'
    BY <1>0, <1>3, <1>5, <2>2 DEF CursorsType
  <2>3. CASE LoseCursor
    <3>1. cursor' \in Cursors /\ \A s \in Sleeves : cursor'.lines[s] = Unknown
      BY <1>0, <2>3 DEF LoseCursor, BlankCursor, CursorsType
    <3> QED BY <1>4, <1>5, <3>1
  <2>4. CASE Reset
    <3> DEFINE lengths == [s \in Sleeves |-> IF Exists(dir, s) THEN Readable(dir, s) ELSE Unknown]
    <3>1. cursor'.dir = dir /\ cursor'.lines = lengths
      BY <2>4 DEF Reset, BlankCursor
    <3>2. adopted' = adopted \union {f \in Fills : f[1] = dir /\ f[3] <= lengths[f[2]]}
      BY <2>4 DEF Reset
    <3>3. \A s \in Sleeves : lengths[s] \in (0 .. MaxFills) \union {Unknown}
      BY <1>0, <3>1 DEF CursorsType, Cursors
    <3> HIDE DEF lengths
    <3>4. ASSUME NEW s \in Sleeves, NEW i \in 1 .. lengths[s] PROVE <<dir, s, i>> \in adopted'
      <4>1. i \in 1 .. MaxFills /\ i <= lengths[s]
        BY <3>3, <3>4, LimitsAssumption DEF Unknown
      <4>2. <<dir, s, i>> \in Fills
        BY <1>0, <4>1 DEF Fills, LogsType
      <4> QED BY <3>2, <4>1, <4>2
    <3> QED BY <3>1, <3>4 DEF Earned
  <2>5. \/ cursor' = cursor \/ LoseCursor \/ Reset
        \/ \E p \in Scanners : scanPc[p] # "off" /\ cursor' = mem[p]
    <3>1. ASSUME NEW p \in Scanners, Step(p) \/ KillScanner(p)
          PROVE  cursor' = cursor \/ (scanPc[p] # "off" /\ cursor' = mem[p])
      BY <3>1, BeginIs, LookIs, PassIs, DeliveredIs, RefusedIs, SaveIs, EndIs, NextSleeveIs
         DEF Step, Saved
    <3> QED BY <3>1 DEF AlertsNext, alertsVars, StartLine, EndLine, KillSleeve, Switch
  <2> QED BY <2>1, <2>2, <2>3, <2>4, <2>5
<1>7. ASSUME NEW p \in Scanners, scanPc[p] # "off", mem'[p] = mem[p] PROVE Earned(mem[p])'
  BY <1>0, <1>3, <1>5, <1>7 DEF CursorsType
<1>8. CASE ~(\E p \in Scanners : Step(p) \/ KillScanner(p))
  BY <1>6, <1>7, <1>8, ScansAside DEF scanVars, EarnedInv
<1>9. ASSUME NEW p \in Scanners, Step(p) \/ KillScanner(p), scanPc'[p] = "off" \/ Earned(mem[p])'
      PROVE  EarnedInv'
  BY <1>6, <1>9, OthersAreOff DEF EarnedInv
<1>10. ASSUME NEW p \in Scanners, Begin(p) PROVE Earned(mem[p])'
  <2>1. CASE mem'[p] = cursor
    BY <1>0, <1>2, <1>5, <2>1 DEF CursorsType
  <2>2. CASE mem'[p] = BlankCursor(dir)
    <3>1. mem'[p] \in Cursors /\ \A s \in Sleeves : mem'[p].lines[s] = Unknown
      BY <1>0, <2>2 DEF CursorsType, BlankCursor
    <3> QED BY <1>4, <1>5, <3>1
  <2> QED BY <1>10, <2>1, <2>2, BeginIs
\* The line of the sleeve it is at is set, and what that passes is accounted for.
<1>11. ASSUME NEW p \in Scanners, scanPc[p] # "off", at[p] \in Sleeves, NEW n \in Nat, NEW k,
              mem'[p] = With(mem[p], at[p], n, k),
              \A i \in 1 .. n :
                 \/ i \in 1 .. mem[p].lines[at[p]]
                 \/ <<mem[p].dir, at[p], i>> \in (Arrived \union skipped \union adopted \union printed)'
                 \/ i \in DOMAIN log'[mem[p].dir][at[p]] /\ ~log'[mem[p].dir][at[p]][i]
       PROVE  Earned(mem[p])'
  <2>1. PICK c \in Cursors, s \in Sleeves : c = mem[p] /\ s = at[p]
    BY <1>0, <1>11 DEF CursorsType
  <2>2. Earned(c)'
    BY <1>3, <1>11, <2>1
  <2>3. Earned(With(c, s, n, k))'
    <3>1. \A i \in 1 .. n :
             \/ i \in 1 .. c.lines[s]
             \/ <<c.dir, s, i>> \in (Arrived \union skipped \union adopted \union printed)'
             \/ i \in DOMAIN log'[c.dir][s] /\ ~log'[c.dir][s][i]
      BY <1>11, <2>1
    <3> QED BY <2>2, <3>1, EarnedWith
  <2>4. mem'[p] = With(c, s, n, k) /\ mem'[p] \in Cursors
    BY <1>0, <1>11, <2>1 DEF CursorsType
  <2> QED BY <1>5, <2>3, <2>4
<1>12. ASSUME NEW p \in Scanners, Look(p) PROVE Earned(mem[p])'
  <2>1. scanPc[p] # "off" /\ at[p] \in Sleeves /\ Readable(mem[p].dir, at[p]) \in Nat
    BY <1>12, LookIs, LimitsAssumption
  <2>2. ASSUME NEW n \in {Readable(mem[p].dir, at[p]), 0}, Adopts(p, n) PROVE Earned(mem[p])'
    <3>1. n \in Nat /\ \A i \in 1 .. n : <<mem[p].dir, at[p], i>> \in adopted'
      BY <2>1, <2>2 DEF Adopts, Lines
    <3> QED BY <1>11, <2>1, <2>2, <3>1 DEF Adopts
  <2> QED BY <1>7, <1>12, <2>1, <2>2, LookIs DEF Skips, Reads
<1>13. ASSUME NEW p \in Scanners, AtLine(p), NEW k, Advances(p, k),
              \/ Fill(p) \in (Arrived \union skipped \union adopted \union printed)'
              \/ ~log[mem[p].dir][at[p]][Next1(p)]
       PROVE  Earned(mem[p])'
  <2>1. /\ scanPc[p] # "off" /\ at[p] \in Sleeves /\ mem[p].dir \in Dirs /\ mem[p].lines[at[p]] \in Nat
        /\ Next1(p) = mem[p].lines[at[p]] + 1 /\ Next1(p) \in 1 .. Len(log[mem[p].dir][at[p]])
    BY <1>13, AtLineIs
  <2>2. /\ log'[mem[p].dir][at[p]][Next1(p)] = log[mem[p].dir][at[p]][Next1(p)]
        /\ Next1(p) \in DOMAIN log'[mem[p].dir][at[p]]
    <3>1. log[mem[p].dir][at[p]] \in Seq(BOOLEAN)
      BY <1>0, <2>1 DEF LogsType
    <3>2. PICK d \in Dirs, s \in Sleeves : d = mem[p].dir /\ s = at[p]
      BY <2>1
    <3>3. Len(log[d][s]) <= Len(log'[d][s]) /\ log'[d][s] \in Seq(BOOLEAN)
          /\ \A i \in 1 .. Len(log[d][s]) : log'[d][s][i] = log[d][s][i]
      BY LogsGrow DEF AlertsInv
    <3>4. Next1(p) \in 1 .. Len(log[d][s]) /\ log[d][s] \in Seq(BOOLEAN)
      BY <2>1, <3>1, <3>2
    <3>5. Next1(p) \in DOMAIN log'[d][s] /\ log'[d][s][Next1(p)] = log[d][s][Next1(p)]
      <4> HIDE DEF Next1
      <4> QED BY <3>3, <3>4
    <3> QED BY <3>2, <3>5
  <2>3. ASSUME NEW i \in 1 .. Next1(p)
        PROVE  \/ i \in 1 .. mem[p].lines[at[p]]
               \/ <<mem[p].dir, at[p], i>> \in (Arrived \union skipped \union adopted \union printed)'
               \/ i \in DOMAIN log'[mem[p].dir][at[p]] /\ ~log'[mem[p].dir][at[p]][i]
    <3>1. i \in 1 .. mem[p].lines[at[p]] \/ i = Next1(p)
      BY <2>1
    <3> QED BY <1>13, <2>2, <3>1 DEF Fill
  <2>4. PICK n \in Nat : n = Next1(p)
    BY <2>1
  <2>5. mem'[p] = With(mem[p], at[p], n, k)
    BY <1>13, <2>4 DEF Advances
  <2>6. \A i \in 1 .. n :
           \/ i \in 1 .. mem[p].lines[at[p]]
           \/ <<mem[p].dir, at[p], i>> \in (Arrived \union skipped \union adopted \union printed)'
           \/ i \in DOMAIN log'[mem[p].dir][at[p]] /\ ~log'[mem[p].dir][at[p]][i]
    BY <2>3, <2>4
  <2> QED BY <1>11, <2>1, <2>5, <2>6
<1>14. ASSUME NEW p \in Scanners, PassCorrupt(p) \/ PrintFill(p) PROVE Earned(mem[p])'
  BY <1>13, <1>14, PassIs
<1>15. ASSUME NEW p \in Scanners, Delivered(p) PROVE Earned(mem[p])'
  BY <1>13, <1>15, DeliveredIs, ArrivedIs
<1>16. ASSUME NEW p \in Scanners, SendRefused(p) PROVE Earned(mem[p])'
  <2>1. CASE Advances(p, 0) /\ skipped' = skipped \union {Fill(p)}
    BY <1>13, <1>16, <2>1, RefusedIs
  <2>2. CASE mem'[p] = With(mem[p], at[p], mem[p].lines[at[p]], mem[p].fails[at[p]] + 1)
    BY <1>11, <1>16, <2>2, RefusedIs, AtLineIs
  <2> QED BY <1>16, <2>1, <2>2, RefusedIs
<1>17. ASSUME NEW p \in Scanners, Step(p) \/ KillScanner(p)
       PROVE  scanPc'[p] = "off" \/ Earned(mem[p])'
  BY <1>7, <1>10, <1>12, <1>14, <1>15, <1>16, <1>17, SaveIs, EndIs, NextSleeveIs DEF Step
<1> QED BY <1>8, <1>9, <1>17

\* "The cursor advances past a fill only once Telegram has accepted it": what
\* the cursor file has passed was announced, or need not be, whichever scans
\* were cut short and whatever the operator did.
THEOREM CursorEarned == AlertsSpec => []CursorIsEarned
<1>1. AlertsInit => EarnedInv
  <2> SUFFICES ASSUME AlertsInit PROVE EarnedInv
    OBVIOUS
  <2>1. \A s \in Sleeves : \A i \in 1 .. cursor.lines[s] : FALSE
    BY DEF AlertsInit, BlankCursor, Unknown
  <2> QED BY <2>1 DEF AlertsInit, EarnedInv, Earned
<1>2. AlertsInv /\ EarnedInv /\ [AlertsNext]_alertsVars => EarnedInv'
  BY EarnedStep
<1>3. EarnedInv => CursorIsEarned
  BY DEF EarnedInv, Earned, CursorIsEarned
<1>4. AlertsSpec => []AlertsInv
  BY AlertsTypeCorrect
<1> QED BY <1>1, <1>2, <1>3, <1>4, PTL DEF AlertsSpec

-----------------------------------------------------------------------------
(* The account of the messages.                                            *)

\* A log that cannot be opened reads as an empty one, and all of it is news
\* when it can be opened again.
LogsAreRead == "open" \notin Faults

LEMMA ArrivedIsFinite ==
    ASSUME AlertsInv
    PROVE  /\ IsFiniteSet(Arrived) /\ Cardinality(Arrived) \in Nat /\ Len(chat) \in Nat
           /\ Arrived \subseteq Fills /\ 0 <= Repeats /\ Repeats \in Int
           /\ \A c : IsFiniteSet(Ahead(c)) /\ Cardinality(Ahead(c)) \in Nat
<1>1. chat \in Seq(Fills) /\ Len(chat) \in Nat /\ DOMAIN chat = 1 .. Len(chat)
  BY TypesAre DEF AlertsInv, HistoryType
<1>2. chat \in Surjection(1 .. Len(chat), Arrived)
  BY <1>1 DEF Surjection, Arrived, ToSet
<1>3. IsFiniteSet(1 .. Len(chat)) /\ Cardinality(1 .. Len(chat)) = Len(chat)
  BY SMTT(30), <1>1, FS_Interval
<1>4. IsFiniteSet(Arrived) /\ Cardinality(Arrived) <= Len(chat)
  BY <1>2, <1>3, FS_Surjection
<1>5. Cardinality(Arrived) \in Nat
  BY <1>4, FS_CardinalityType
<1>6. ASSUME NEW c PROVE IsFiniteSet(Ahead(c)) /\ Cardinality(Ahead(c)) \in Nat
  <2>1. Ahead(c) \in SUBSET Arrived
    BY DEF Ahead
  <2> QED BY <1>4, <2>1, FS_Subset, FS_CardinalityType
<1>7. Arrived \subseteq Fills
  BY <1>1 DEF Arrived, ToSet
<1> QED BY <1>1, <1>4, <1>5, <1>6, <1>7 DEF Repeats

\* A fill that arrived is a line of a log.
LEMMA ArrivedType ==
    ASSUME AlertsInv, ChatInv, NEW f \in Arrived
    PROVE  /\ f[1] \in Dirs /\ f[2] \in Sleeves /\ f[3] \in 1 .. MaxFills
           /\ f = <<f[1], f[2], f[3]>>
           /\ f[3] \in 1 .. Len(log[f[1]][f[2]]) /\ log[f[1]][f[2]] \in Seq(BOOLEAN)
           /\ f[3] <= Readable(f[1], f[2]) /\ log[f[1]][f[2]][f[3]]
<1>1. f[1] \in Dirs /\ f[2] \in Sleeves /\ f[3] \in 1 .. MaxFills /\ f = <<f[1], f[2], f[3]>>
  BY ArrivedIsFinite DEF Fills
<1>2. /\ Readable(f[1], f[2]) \in 0 .. Len(log[f[1]][f[2]]) /\ Len(log[f[1]][f[2]]) \in Nat
      /\ log[f[1]][f[2]] \in Seq(BOOLEAN)
  BY SMTT(30), <1>1, ReadableType DEF AlertsInv, AlertsTypeOK
<1>3. f[3] <= Readable(f[1], f[2]) /\ log[f[1]][f[2]][f[3]]
  BY DEF ChatInv
<1> QED BY <1>1, <1>2, <1>3, LimitsAssumption

\* What nothing was sent beyond owes nothing.
LEMMA PaidClear ==
    ASSUME AlertsInv, NEW c, NEW due \in Nat, Paid(c, due), NEW d, Ahead(d) = {}
    PROVE  Paid(d, due)
<1>1. NoGap(d)
  BY DEF NoGap
<1>2. Cardinality(Ahead(d)) = 0
  BY FS_EmptySet
<1>3. slips \in Int
  BY TypesAre DEF AlertsInv, HistoryType
<1> QED BY <1>1, <1>2, <1>3, ArrivedIsFinite DEF Paid

\* A cursor that moves on over a sleeve, or past all that was sent of it,
\* owes no more than before.
LEMMA PaidWith ==
    ASSUME AlertsInv, NEW c \in Cursors, NEW s \in Sleeves, NEW n \in Nat, NEW k, Paid(c, 0),
           \/ c.lines[s] # Unknown /\ c.lines[s] <= n
           \/ \A f \in Arrived : f[1] = c.dir /\ f[2] = s => f[3] <= n
    PROVE  Paid(With(c, s, n, k), 0)
<1> DEFINE w == With(c, s, n, k)
<1>1. w.dir = c.dir /\ w.lines[s] = n /\ \A t \in Sleeves : t # s => w.lines[t] = c.lines[t]
  BY WithIs
<1>2. \A f \in Arrived : f[2] \in Sleeves /\ f[3] \in Nat
  BY ArrivedIsFinite DEF Fills
<1>3. \A t \in Sleeves : c.lines[t] \in Int
  BY LimitsAssumption DEF Cursors, Unknown
<1> HIDE DEF w
<1>4. \A f \in Ahead(w) : f \in Ahead(c) /\ c.lines[f[2]] <= w.lines[f[2]]
  <2> SUFFICES ASSUME NEW f \in Ahead(w)
               PROVE  f \in Ahead(c) /\ c.lines[f[2]] <= w.lines[f[2]]
    OBVIOUS
  <2>1. f \in Arrived /\ f[1] = c.dir /\ w.lines[f[2]] # Unknown /\ w.lines[f[2]] < f[3]
    BY <1>1 DEF Ahead
  <2>2. CASE f[2] = s
    <3>1. c.lines[s] # Unknown /\ c.lines[s] <= n /\ n < f[3]
      BY <1>1, <1>2, <2>1, <2>2
    <3>2. c.lines[s] < f[3]
      BY <1>2, <1>3, <2>1, <3>1
    <3> QED BY <1>1, <2>1, <2>2, <3>1, <3>2 DEF Ahead
  <2>3. CASE f[2] # s
    BY <1>1, <1>2, <1>3, <2>1, <2>3 DEF Ahead
  <2> QED BY <2>2, <2>3
<1>5. NoGap(w)
  <2> SUFFICES ASSUME NEW f \in Ahead(w), NEW i \in w.lines[f[2]] + 1 .. f[3], log[f[1]][f[2]][i]
               PROVE  <<f[1], f[2], i>> \in Arrived
    BY DEF NoGap
  <2>1. f[2] \in Sleeves /\ f[3] \in Nat
    BY <1>2 DEF Ahead
  <2>2. w.lines[f[2]] \in Int
    BY <1>1, <1>3, <2>1
  <2>3. i \in c.lines[f[2]] + 1 .. f[3]
    BY <1>3, <1>4, <2>1, <2>2
  <2> QED BY <1>4, <2>3 DEF Paid, NoGap
<1>6. Cardinality(Ahead(w)) <= Cardinality(Ahead(c)) /\ Cardinality(Ahead(w)) \in Nat
      /\ Cardinality(Ahead(c)) \in Nat
  BY <1>4, ArrivedIsFinite, FS_Subset
<1>7. slips \in Int
  BY TypesAre DEF AlertsInv, HistoryType
<1>8. Paid(w, 0)
  BY <1>5, <1>6, <1>7, ArrivedIsFinite DEF Paid
<1> QED BY <1>8 DEF w

\* Without a message nothing is owed that was not, and a slip pays.
LEMMA PaidStays ==
    ASSUME AlertsInv, ChatInv, [AlertsNext]_alertsVars, chat' = chat, NEW c \in Cursors
    PROVE  /\ ChatInv'
           /\ \A due \in Nat : Paid(c, due) => Paid(c, due)'
           /\ \A due \in Nat : Paid(c, due) /\ slips' = slips + 1 /\ due > 0 => Paid(c, due - 1)'
           /\ \A due \in Nat : Paid(c, due) => Paid(c, due + 1)
<1>1. Arrived' = Arrived /\ Ahead(c)' = Ahead(c) /\ Repeats' = Repeats
  BY DEF Arrived, Ahead, Repeats
<1>2. ASSUME NEW f \in Arrived, NEW i \in 1 .. f[3]
      PROVE  /\ log'[f[1]][f[2]][i] = log[f[1]][f[2]][i]
             /\ f[3] <= Readable(f[1], f[2])'
  <2>1. PICK d \in Dirs, s \in Sleeves : f[1] = d /\ f[2] = s
    BY ArrivedType
  <2>2. /\ f[3] \in 1 .. Len(log[d][s]) /\ log[d][s] \in Seq(BOOLEAN) /\ f[3] <= Readable(d, s)
    BY <2>1, ArrivedType
  <2>3. /\ \A j \in 1 .. Len(log[d][s]) : log'[d][s][j] = log[d][s][j]
        /\ Readable(d, s) <= Readable(d, s)' /\ log'[d][s] \in Seq(BOOLEAN)
    BY LogsGrow DEF AlertsInv
  <2>4. Readable(d, s) \in Int
    BY ReadableType DEF AlertsInv
  <2>5. Readable(d, s)' \in Int
    BY <2>3 DEF Readable
  <2>6. f[3] <= Readable(d, s)' /\ i \in 1 .. Len(log[d][s])
    BY <2>2, <2>3, <2>4, <2>5
  <2> QED BY <2>1, <2>3, <2>6
<1>3. ChatInv'
  <2> SUFFICES ASSUME NEW f \in Arrived PROVE f[3] <= Readable(f[1], f[2])' /\ log'[f[1]][f[2]][f[3]]
    BY <1>1 DEF ChatInv
  <2>1. f[3] \in 1 .. f[3] /\ log[f[1]][f[2]][f[3]]
    BY ArrivedType, LimitsAssumption
  <2> QED BY <1>2, <2>1
<1>4. NoGap(c) => NoGap(c)'
  <2> SUFFICES ASSUME NoGap(c), NEW f \in Ahead(c), NEW i \in c.lines[f[2]] + 1 .. f[3],
                      log'[f[1]][f[2]][i]
               PROVE  <<f[1], f[2], i>> \in Arrived
    BY <1>1 DEF NoGap
  <2>1. f \in Arrived /\ f[2] \in Sleeves /\ c.lines[f[2]] # Unknown /\ f[3] \in Nat
    BY ArrivedIsFinite DEF Ahead, Fills
  <2>2. c.lines[f[2]] \in Nat
    BY <2>1, LimitsAssumption DEF Cursors
  <2>3. i \in 1 .. f[3]
    BY <2>1, <2>2
  <2>4. log[f[1]][f[2]][i]
    BY <1>2, <2>1, <2>3
  <2> QED BY <2>4 DEF NoGap
<1>5. slips \in Int /\ slips' \in Int /\ slips <= slips'
  BY HistoryTypeStep, HistoriesGrow, TypesAre DEF AlertsInv, HistoryType
<1>6. Repeats \in Int /\ Cardinality(Ahead(c)) \in Int
  BY ArrivedIsFinite
<1>7. ASSUME NEW due \in Nat, Paid(c, due) PROVE Paid(c, due)' /\ Paid(c, due + 1)
  BY <1>1, <1>4, <1>5, <1>6, <1>7 DEF Paid
<1>8. ASSUME NEW due \in Nat, Paid(c, due), slips' = slips + 1 PROVE Paid(c, due - 1)'
  BY <1>1, <1>4, <1>5, <1>6, <1>8 DEF Paid
<1> QED BY <1>3, <1>7, <1>8

\* A message sent: one that was ahead is repeated, or one more is ahead of a
\* cursor that announced all it has not passed, and none of the scan once it
\* has passed it.
LEMMA PaidSends ==
    ASSUME AlertsInv, AccountInv, [AlertsNext]_alertsVars, NEW p \in Scanners,
           NEW due \in {0, 1}, Sends(p, due),
           NEW c \in Cursors, c = mem[p], NEW s \in Sleeves, s = at[p],
           NEW n \in Nat, n = Next1(p), NEW k,
           NEW b \in Cursors, Paid(b, 0),
           b.dir = c.dir => /\ b.lines[s] \in 0 .. c.lines[s]
                            /\ \A j \in b.lines[s] + 1 .. c.lines[s] :
                                  log[c.dir][s][j] => <<c.dir, s, j>> \in Arrived
    PROVE  /\ ChatInv'
           /\ Paid(With(c, s, n, k), 0)'
           /\ Paid(b, due)'
<1> DEFINE f == <<c.dir, s, n>>
           w == With(c, s, n, k)
<1>1. /\ log' = log /\ tail' = tail /\ scanPc[p] = "send" /\ ~dry[p]
      /\ c.dir \in Dirs /\ c.lines[s] \in Nat /\ n = c.lines[s] + 1
      /\ n <= Readable(c.dir, s) /\ log[c.dir][s][n] /\ f \in Fills /\ Fill(p) = f
  BY SendsIs, AtLineIs DEF Sends, Fill, logVars
<1>2. Arrived' = Arrived \union {f}
  BY <1>1, ArrivedIs
<1>3. Paid(c, 0)
  BY <1>1 DEF AccountInv, ScanAccount
<1>4. PICK more \in {0, 1} :
         /\ slips' = slips + more + 1 - due
         /\ Repeats' = Repeats + more + (IF f \in Arrived THEN 1 ELSE 0)
  <2>1. Cardinality(Arrived') = Cardinality(Arrived) + (IF f \in Arrived THEN 0 ELSE 1)
        /\ Cardinality(Arrived) \in Nat /\ Len(chat) \in Nat
    <3> HIDE DEF f
    <3>1. IsFiniteSet(Arrived) /\ Cardinality(Arrived) \in Nat /\ Len(chat) \in Nat
      BY ArrivedIsFinite
    <3>2. Cardinality(Arrived \union {f})
            = IF f \in Arrived THEN Cardinality(Arrived) ELSE Cardinality(Arrived) + 1
      BY <3>1, FS_AddElement
    <3> QED BY <1>2, <3>1, <3>2
  <2>2. chat \in Seq(Fills) /\ chat' \in Seq(Fills) /\ slips \in Int
    BY HistoryTypeStep, TypesAre DEF AlertsInv, HistoryType
  <2>3. PICK m \in {1, 2} : Len(chat') = Len(chat) + m /\ slips' = slips + (m - due)
    <3> HIDE DEF f
    <3>1. PICK m \in {1, 2} : chat' = chat \o [i \in 1 .. m |-> f] /\ slips' = slips + (m - due)
      BY <1>1 DEF Sends, Arrive
    <3>2. m \in 0 .. 2
      OBVIOUS
    <3>3. Len(chat') = Len(chat) + m
      BY <1>1, <2>2, <3>1, <3>2, ChatIs
    <3> QED BY <3>1, <3>3
  <2>4. PICK l \in Nat, a \in Nat, old \in {0, 1} :
            l = Len(chat) /\ a = Cardinality(Arrived) /\ old = IF f \in Arrived THEN 1 ELSE 0
    BY <2>1
  <2>5. Repeats = l - a /\ Repeats' = Len(chat') - (a + (1 - old))
    <3>1. Cardinality(Arrived') = a + (1 - old)
      BY <2>1, <2>4
    <3>2. Repeats' = Len(chat') - Cardinality(Arrived')
      BY DEF Repeats
    <3> QED BY <2>4, <3>1, <3>2 DEF Repeats
  <2>6. PICK more \in {0, 1} : slips' = slips + more + 1 - due /\ Len(chat') = l + 1 + more
    BY <2>2, <2>3, <2>4
  <2>7. Repeats' = Repeats + more + old
    BY SMTT(30), <2>4, <2>5, <2>6
  <2> QED BY <2>4, <2>6, <2>7
<1>5. w.dir = c.dir /\ w.lines[s] = n /\ \A t \in Sleeves : t # s => w.lines[t] = c.lines[t]
  BY WithIs
<1>6. /\ slips \in Int /\ Repeats \in Int
      /\ IsFiniteSet(Ahead(c)) /\ IsFiniteSet(Ahead(b))
      /\ Cardinality(Ahead(c)) \in Nat /\ Cardinality(Ahead(b)) \in Nat
  BY ArrivedIsFinite, TypesAre DEF AlertsInv, HistoryType
<1>7. f[1] = c.dir /\ f[2] = s /\ f[3] = n
  OBVIOUS
<1>8. \A g \in Fills : g = <<g[1], g[2], g[3]>> /\ g[2] \in Sleeves /\ g[3] \in Nat
  BY LimitsAssumption DEF Fills
<1>9. Arrived \subseteq Fills /\ Arrived' \subseteq Fills
  BY <1>1, <1>2, ArrivedIsFinite
<1>10. ChatInv'
  <2> SUFFICES ASSUME NEW g \in Arrived' PROVE g[3] <= Readable(g[1], g[2])' /\ log'[g[1]][g[2]][g[3]]
    BY DEF ChatInv
  <2>1. Readable(g[1], g[2])' = Readable(g[1], g[2])
    BY <1>1 DEF Readable
  <2>2. CASE g \in Arrived
    BY <1>1, <2>1, <2>2 DEF AccountInv, ChatInv
  <2>3. CASE g = f
    BY <1>1, <1>7, <2>1, <2>3
  <2> QED BY <1>2, <2>2, <2>3
<1>11. Ahead(w)' \subseteq Ahead(c) \ {f} /\ (f \in Arrived => f \in Ahead(c))
  <2> HIDE DEF f, w
  <2>1. ASSUME NEW g \in Ahead(w)' PROVE g \in Ahead(c) /\ g # f
    <3>1. g \in Arrived' /\ g[1] = c.dir /\ w.lines[g[2]] # Unknown /\ w.lines[g[2]] < g[3]
      BY <1>5, <2>1 DEF Ahead
    <3>2. g # f
      BY <1>1, <1>5, <1>7, <3>1
    <3>3. g \in Arrived /\ g \in Fills
      BY <1>2, <1>9, <3>1, <3>2
    <3>4. c.lines[g[2]] # Unknown /\ c.lines[g[2]] < g[3]
      <4>1. g[2] \in Sleeves /\ g[3] \in Nat
        BY <1>8, <3>3
      <4>2. CASE g[2] = s
        <5>1. n < g[3]
          BY <1>5, <3>1, <4>2
        <5> QED BY <1>1, <4>1, <4>2, <5>1 DEF Unknown
      <4>3. CASE g[2] # s
        BY <1>5, <3>1, <4>1, <4>3
      <4> QED BY <4>2, <4>3
    <3> QED BY <3>1, <3>2, <3>3, <3>4 DEF Ahead
  <2>2. f \in Arrived => f \in Ahead(c)
    BY <1>1, <1>7 DEF Ahead, Unknown
  <2> QED BY <2>1, <2>2
<1>12. NoGap(w)'
  <2> SUFFICES ASSUME NEW g \in Ahead(w)', NEW i \in w.lines[g[2]] + 1 .. g[3], log'[g[1]][g[2]][i]
               PROVE  <<g[1], g[2], i>> \in Arrived'
    BY DEF NoGap
  <2> HIDE DEF f, w
  <2>1. g \in Ahead(c) /\ g[2] \in Sleeves /\ g[3] \in Nat
    BY <1>8, <1>9, <1>11 DEF Ahead
  <2>2. c.lines[g[2]] \in Int
    BY <2>1, LimitsAssumption DEF Cursors, Unknown
  <2>3. w.lines[g[2]] \in Int /\ c.lines[g[2]] <= w.lines[g[2]]
    BY <1>1, <1>5, <2>1, <2>2
  <2>4. i \in c.lines[g[2]] + 1 .. g[3]
    BY <2>1, <2>2, <2>3
  <2> QED BY <1>1, <1>2, <1>3, <2>1, <2>4 DEF Paid, NoGap
<1>13. Paid(w, 0)'
  <2> HIDE DEF f, w
  <2>1. IsFiniteSet(Ahead(c) \ {f})
        /\ Cardinality(Ahead(c) \ {f}) = Cardinality(Ahead(c)) - (IF f \in Ahead(c) THEN 1 ELSE 0)
    BY SMTT(30), <1>6, FS_RemoveElement
  <2>2. Cardinality(Ahead(w)') <= Cardinality(Ahead(c) \ {f}) /\ Cardinality(Ahead(w)') \in Nat
    BY <1>11, <2>1, FS_Subset, FS_CardinalityType
  <2>3. Repeats + Cardinality(Ahead(c)) <= slips
    BY <1>3, <1>6 DEF Paid
  <2>4. Repeats' + Cardinality(Ahead(w)') <= slips' + 0
    BY <1>4, <1>6, <1>11, <2>1, <2>2, <2>3
  <2> QED BY <1>12, <2>4 DEF Paid
<1>14. Ahead(b)' = IF b.dir = c.dir /\ b.lines[s] # Unknown /\ b.lines[s] < n
                   THEN Ahead(b) \union {f} ELSE Ahead(b)
  <2> HIDE DEF f, w
  <2>1. Ahead(b)' = {g \in Arrived' : g[1] = b.dir /\ b.lines[g[2]] # Unknown /\ b.lines[g[2]] < g[3]}
    BY DEF Ahead
  <2>2. CASE b.dir = c.dir /\ b.lines[s] # Unknown /\ b.lines[s] < n
    BY <1>2, <1>7, <2>1, <2>2 DEF Ahead
  <2>3. CASE ~(b.dir = c.dir /\ b.lines[s] # Unknown /\ b.lines[s] < n)
    BY <1>2, <1>7, <2>1, <2>3 DEF Ahead
  <2> QED BY <2>2, <2>3
<1>15. NoGap(b)'
  <2> SUFFICES ASSUME NEW g \in Ahead(b)', NEW i \in b.lines[g[2]] + 1 .. g[3], log'[g[1]][g[2]][i]
               PROVE  <<g[1], g[2], i>> \in Arrived'
    BY DEF NoGap
  <2>1. CASE g \in Ahead(b)
    BY <1>1, <1>2, <2>1 DEF Paid, NoGap
  <2>2. CASE g = f /\ b.dir = c.dir
    <3>1. /\ b.lines[s] \in 0 .. c.lines[s]
          /\ \A j \in b.lines[s] + 1 .. c.lines[s] : log[c.dir][s][j] => <<c.dir, s, j>> \in Arrived
      BY <2>2
    <3>2. i \in b.lines[s] + 1 .. n /\ log[c.dir][s][i] /\ g[1] = c.dir /\ g[2] = s
      BY <1>1, <1>7, <2>2
    <3>3. i \in b.lines[s] + 1 .. c.lines[s] \/ i = n
      BY <1>1, <3>1, <3>2
    <3>4. <<c.dir, s, i>> \in Arrived'
      BY <1>2, <3>1, <3>2, <3>3
    <3> QED BY SMTT(30), <3>2, <3>4
  <2>3. g \in Ahead(b) \/ (g = f /\ b.dir = c.dir)
    BY <1>14
  <2> QED BY <2>1, <2>2, <2>3
<1>16. Paid(b, due)'
  <2> HIDE DEF f, w
  <2>1. IsFiniteSet(Ahead(b) \union {f})
        /\ Cardinality(Ahead(b) \union {f}) = IF f \in Ahead(b) THEN Cardinality(Ahead(b))
                                              ELSE Cardinality(Ahead(b)) + 1
    BY <1>6, FS_AddElement
  <2>2. Repeats + Cardinality(Ahead(b)) <= slips
    BY <1>6 DEF Paid
  <2>3. CASE Ahead(b)' = Ahead(b)
    <3>1. Repeats' + Cardinality(Ahead(b)') <= slips' + due
      BY <1>4, <1>6, <2>2, <2>3
    <3> QED BY <1>15, <3>1 DEF Paid
  <2>4. CASE Ahead(b)' = Ahead(b) \union {f} /\ b.dir = c.dir /\ b.lines[s] # Unknown /\ b.lines[s] < n
    <3>1. f \in Arrived => f \in Ahead(b)
      BY <1>7, <2>4 DEF Ahead
    <3>2. Repeats' + Cardinality(Ahead(b)') <= slips' + due
      BY <1>4, <1>6, <2>1, <2>2, <2>4, <3>1
    <3> QED BY <1>15, <3>2 DEF Paid
  <2> QED BY <1>14, <2>3, <2>4
<1> QED BY <1>10, <1>13, <1>16

\* A scan that stays at its line announced what it had announced.
LEMMA AnnouncedStays ==
    ASSUME AlertsInv, [AlertsNext]_alertsVars, chat' = chat, NEW p \in Scanners, AnnouncedSince(p),
           UNCHANGED <<cursor, mem[p], at[p], dry[p]>>,
           scanPc'[p] \in {"send", "save"} => scanPc[p] \in {"send", "save"}
    PROVE  AnnouncedSince(p)'
<1> SUFFICES ASSUME cursor.dir = mem[p].dir, ~dry[p], scanPc[p] \in {"send", "save"}
             PROVE  /\ cursor.lines[at[p]] \in 0 .. mem[p].lines[at[p]]
                    /\ \A i \in cursor.lines[at[p]] + 1 .. mem[p].lines[at[p]] :
                          log'[mem[p].dir][at[p]][i] => <<mem[p].dir, at[p], i>> \in Arrived
  BY DEF AnnouncedSince, Arrived
<1>1. PICK d \in Dirs, s \in Sleeves, n \in Nat, m \in Nat :
         /\ d = mem[p].dir /\ s = at[p] /\ n = mem[p].lines[at[p]] /\ m = cursor.lines[at[p]]
         /\ n <= Readable(d, s)
  <2>1. ReadFits(p) /\ count[p] \in Nat
    BY TypesAre DEF AlertsInv, ReadsFit, ScansType
  <2>2. /\ mem[p].dir \in Dirs /\ at[p] \in Sleeves /\ mem[p].lines[at[p]] \in Nat
        /\ mem[p].lines[at[p]] <= count[p] /\ count[p] <= Readable(mem[p].dir, at[p])
    BY <2>1 DEF ReadFits
  <2>3. cursor.lines[at[p]] \in Nat
    BY <2>2 DEF AnnouncedSince
  <2>4. Readable(mem[p].dir, at[p]) \in Int
    BY <2>2, ReadableType DEF AlertsInv
  <2> QED BY <2>1, <2>2, <2>3, <2>4
<1>2. \A i \in 1 .. n : log'[d][s][i] = log[d][s][i]
  <2>1. Readable(d, s) \in 0 .. Len(log[d][s]) /\ Len(log[d][s]) \in Nat
    BY ReadableType DEF AlertsInv
  <2>2. \A i \in 1 .. Len(log[d][s]) : log'[d][s][i] = log[d][s][i]
    BY LogsGrow DEF AlertsInv
  <2> QED BY SMTT(30), <1>1, <2>1, <2>2
<1>3. m \in 0 .. n /\ \A i \in m + 1 .. n : log[d][s][i] => <<d, s, i>> \in Arrived
  BY <1>1 DEF AnnouncedSince
<1>4. \A i \in m + 1 .. n : log'[d][s][i] => <<d, s, i>> \in Arrived
  BY <1>2, <1>3
<1> QED BY <1>1, <1>3, <1>4

LEMMA AccountStep ==
    ASSUME LogsAreRead, AlertsInv, AccountInv, [AlertsNext]_alertsVars
    PROVE  AccountInv'
<1>0. CursorsType /\ CursorsType' /\ ScansType /\ ReadsFit /\ LogsType /\ LockHeld /\ ChatInv
      /\ Paid(cursor, IF Unsaved THEN 1 ELSE 0)
      /\ \A p \in Scanners : ScanAccount(p)
  BY CursorsTypeStep, TypesAre DEF AlertsInv, AccountInv
<1>1. ASSUME NEW c \in Cursors, NEW due \in Nat, Paid(c, due)'
      PROVE  /\ cursor' = c => Paid(cursor, due)'
             /\ \A p \in Scanners : mem'[p] = c => Paid(mem[p], due)'
  BY <1>1 DEF Paid, NoGap, Ahead
<1>2. ASSUME NEW p \in Scanners, Step(p) \/ KillScanner(p)
      PROVE  /\ Unsaved = (scanPc[p] = "save") /\ Unsaved' = (scanPc'[p] = "save")
             /\ \A q \in Scanners : q # p => ScanAccount(q)'
  <2>1. \A q \in Scanners : q # p => scanPc[q] = "off" /\ scanPc'[q] = "off"
    BY <1>2, OthersAreOff
  <2> QED BY <2>1 DEF Unsaved, ScanAccount
<1>3. PICK b \in Cursors : b = cursor
  BY <1>0 DEF CursorsType
<1>4. ASSUME chat' = chat, cursor' = cursor, Unsaved' = Unsaved
      PROVE  Paid(cursor, IF Unsaved THEN 1 ELSE 0)'
  <2>1. PICK due \in {0, 1} : due = IF Unsaved THEN 1 ELSE 0
    OBVIOUS
  <2>2. Paid(b, due)
    BY <1>0, <1>3, <2>1
  <2>3. Paid(b, due)'
    BY <1>0, <1>4, <2>2, PaidStays
  <2>4. Paid(cursor, due)'
    BY <1>1, <1>3, <1>4, <2>3
  <2> QED BY <1>4, <2>1, <2>4 DEF Paid
<1>5. ASSUME chat' = chat, NEW p \in Scanners, scanPc[p] # "off",
             mem'[p] = mem[p]
      PROVE  Paid(mem[p], 0)'
  <2>1. PICK c \in Cursors : c = mem[p]
    BY <1>0 DEF CursorsType
  <2>2. Paid(c, 0)
    BY <1>0, <1>5, <2>1 DEF ScanAccount
  <2>3. Paid(c, 0)'
    BY <1>0, <1>5, <2>2, PaidStays
  <2> QED BY <1>1, <1>5, <2>1, <2>3
<1>6. chat' = chat => ChatInv'
  BY <1>0, <1>3, PaidStays
\* The steps that are not a scanner's.
<1>7. CASE ~(\E p \in Scanners : Step(p) \/ KillScanner(p))
  <2>1. UNCHANGED <<lock, scanPc, mem, at, dry, chat, slips>>
    BY <1>7, ScansAside DEF scanVars
  <2>2. Unsaved' = Unsaved
    BY <2>1 DEF Unsaved
  <2>3. CASE cursor' = cursor
    <3>1. ASSUME NEW p \in Scanners PROVE ScanAccount(p)'
      <4>1. CASE scanPc[p] = "off"
        BY <2>1, <4>1 DEF ScanAccount
      <4>2. CASE scanPc[p] # "off"
        <5>1. Paid(mem[p], 0)' /\ AnnouncedSince(p) /\ AsSaved(p)
          BY <1>0, <1>5, <2>1, <4>2 DEF ScanAccount
        <5>2. AsSaved(p)'
          BY <2>1, <2>3, <5>1 DEF AsSaved
        <5>3. AnnouncedSince(p)'
          BY <2>1, <2>3, <5>1, AnnouncedStays
        <5> QED BY <5>1, <5>2, <5>3 DEF ScanAccount
      <4> QED BY <4>1, <4>2
    <3> QED BY <1>4, <1>6, <2>1, <2>2, <2>3, <3>1 DEF AccountInv
  <2>4. CASE LoseCursor
    <3>1. cursor'.dir = NoDir /\ cursor' \in Cursors /\ \A s \in Sleeves : cursor'.lines[s] = Unknown
      BY <1>0, <2>4 DEF LoseCursor, BlankCursor, CursorsType
    <3>2. PICK d \in Cursors : d = cursor'
      BY <3>1
    <3>3. Ahead(d) = {}
      BY <3>1, <3>2, ArrivedIsFinite DEF Ahead, Fills
    <3>4. PICK due \in {0, 1} : due = IF Unsaved THEN 1 ELSE 0
      OBVIOUS
    <3>5. Paid(b, due)
      BY <1>0, <1>3, <3>4
    <3>6. Paid(d, due)
      BY <3>3, <3>5, PaidClear
    <3>7. Paid(d, due)'
      BY <1>0, <2>1, <3>6, PaidStays
    <3>8. Paid(cursor, due)'
      BY <1>1, <3>2, <3>7
    <3>9. Paid(cursor, IF Unsaved THEN 1 ELSE 0)'
      BY <2>2, <3>4, <3>8 DEF Paid
    <3>10. ASSUME NEW p \in Scanners PROVE ScanAccount(p)'
      <4>1. scanPc[p] # "off" => Paid(mem[p], 0)'
        BY <1>5, <2>1
      <4>2. scanPc[p] # "off" => mem'[p].dir # NoDir
        BY <1>0, <2>1, NamesAssumption DEF ReadsFit, ReadFits
      <4> QED BY <2>1, <3>1, <4>1, <4>2 DEF ScanAccount, AsSaved, AnnouncedSince
    <3> QED BY <1>6, <2>1, <3>9, <3>10 DEF AccountInv
  <2>5. CASE Reset
    <3> DEFINE lengths == [s \in Sleeves |-> IF Exists(dir, s) THEN Readable(dir, s) ELSE Unknown]
    <3>1. cursor'.dir = dir /\ cursor'.lines = lengths /\ lock = NoScanner
      BY <2>5 DEF Reset, BlankCursor
    <3>2. \A p \in Scanners : scanPc[p] = "off"
      BY <1>0, <3>1, NamesAssumption DEF LockHeld
    <3>3. PICK d \in Cursors : d = cursor'
      BY <1>0 DEF CursorsType
    <3>4. Ahead(d) = {}
      <4> SUFFICES ASSUME NEW f \in Arrived, f[1] = d.dir, d.lines[f[2]] # Unknown, d.lines[f[2]] < f[3]
                   PROVE  FALSE
        BY DEF Ahead
      <4>1. f[1] = dir /\ f[2] \in Sleeves /\ f[3] <= Readable(f[1], f[2]) /\ f[3] \in Nat
        BY <1>0, <3>1, <3>3, ArrivedType, LimitsAssumption
      <4>2. d.lines[f[2]] = Readable(f[1], f[2])
        BY <3>1, <3>3, <4>1
      <4>3. Readable(f[1], f[2]) \in Int
        BY <1>0, <4>1, ReadableType DEF AlertsInv, LogsType
      <4> QED BY <4>1, <4>2, <4>3
    <3>5. Paid(b, 0)
      BY <1>0, <1>3, <3>2 DEF Unsaved
    <3>6. Paid(d, 0)
      BY <3>4, <3>5, PaidClear
    <3>7. Paid(d, 0)'
      BY <1>0, <2>1, <3>6, PaidStays
    <3>8. Paid(cursor, 0)'
      BY <1>1, <3>3, <3>7
    <3>9. ~Unsaved'
      BY <2>1, <3>2 DEF Unsaved
    <3>10. \A p \in Scanners : ScanAccount(p)'
      BY <2>1, <3>2 DEF ScanAccount
    <3> QED BY <1>6, <2>1, <3>8, <3>9, <3>10 DEF AccountInv, Paid
  <2> QED BY <1>7, <2>3, <2>4, <2>5 DEF AlertsNext, alertsVars, StartLine, EndLine, KillSleeve, Switch
\* The steps of a scanner that leave the file alone, and send nothing.
<1>8. ASSUME NEW p \in Scanners, Step(p) \/ KillScanner(p), chat' = chat, cursor' = cursor,
             scanPc'[p] \notin {"off", "save"}, scanPc[p] # "save", Paid(mem[p], 0)',
             AsSaved(p)', AnnouncedSince(p)'
      PROVE  AccountInv'
  <2>1. Unsaved' = Unsaved
    BY <1>2, <1>8
  <2> QED BY <1>2, <1>4, <1>6, <1>8, <2>1 DEF AccountInv, ScanAccount
\* The line of the sleeve it is at moves on, or past all that was sent.
<1>9. ASSUME NEW p \in Scanners, chat' = chat, scanPc[p] # "off", at[p] \in Sleeves, NEW n \in Nat, NEW k,
             mem'[p] = With(mem[p], at[p], n, k),
             \/ mem[p].lines[at[p]] # Unknown /\ mem[p].lines[at[p]] <= n
             \/ \A f \in Arrived : f[1] = mem[p].dir /\ f[2] = at[p] => f[3] <= n
      PROVE  Paid(mem[p], 0)'
  <2>1. PICK c \in Cursors, s \in Sleeves : c = mem[p] /\ s = at[p]
    BY <1>0, <1>9 DEF CursorsType
  <2>2. Paid(c, 0)
    BY <1>0, <1>9, <2>1 DEF ScanAccount
  <2>3. PICK w \in Cursors : w = With(c, s, n, k) /\ w = mem'[p]
    BY <1>0, <1>9, <2>1 DEF CursorsType
  <2>4. Paid(w, 0)
    BY <1>9, <2>1, <2>2, <2>3, PaidWith
  <2>5. Paid(w, 0)'
    BY <1>0, <1>9, <2>4, PaidStays
  <2> QED BY <1>1, <2>3, <2>5
<1>10. ASSUME NEW p \in Scanners, Begin(p) PROVE AccountInv'
  <2>1. /\ scanPc[p] = "off" /\ lock = NoScanner /\ scanPc'[p] = "look" /\ dir \in Dirs
        /\ UNCHANGED <<chat, cursor>>
    BY <1>10, BeginIs
  <2>2. ~Unsaved
    BY <1>0, <2>1, NamesAssumption DEF LockHeld, Unsaved
  <2>3. Paid(b, 0)
    BY <1>0, <1>3, <2>2
  <2>4. AnnouncedSince(p)'
    BY <2>1 DEF AnnouncedSince
  <2>5. CASE mem'[p] = cursor
    <3>1. Paid(mem[p], 0)'
      BY <1>0, <1>1, <1>3, <2>1, <2>3, <2>5, PaidStays
    <3>2. AsSaved(p)'
      BY <2>1, <2>5 DEF AsSaved
    <3> QED BY <1>8, <1>10, <2>1, <2>4, <3>1, <3>2 DEF Step
  <2>6. CASE mem'[p] = BlankCursor(dir) /\ cursor.dir # dir
    <3>1. PICK d \in Cursors : d = mem'[p]
      BY <1>0 DEF CursorsType
    <3>2. Ahead(d) = {}
      BY <2>6, <3>1, ArrivedIsFinite DEF Ahead, BlankCursor, Fills
    <3>3. Paid(d, 0)'
      BY <1>0, <2>1, <2>3, <3>2, PaidClear, PaidStays
    <3>4. Paid(mem[p], 0)'
      BY <1>1, <3>1, <3>3
    <3>5. AsSaved(p)'
      BY <2>1, <2>6 DEF AsSaved, BlankCursor
    <3> QED BY <1>8, <1>10, <2>1, <2>4, <3>4, <3>5 DEF Step
  <2> QED BY <1>10, <2>5, <2>6, BeginIs
<1>11. ASSUME NEW p \in Scanners, Look(p) PROVE AccountInv'
  <2>1. /\ scanPc[p] = "look" /\ at[p] \in Sleeves /\ mem[p].dir \in Dirs
        /\ UNCHANGED <<chat, cursor>> /\ dry'[p] = dry[p] /\ mem[p] \in Cursors
        /\ Readable(mem[p].dir, at[p]) \in Nat /\ at[p] \in Int
    BY <1>0, <1>11, LookIs, LimitsAssumption DEF CursorsType, Sleeves
  <2>2. AsSaved(p)
    BY <1>0, <2>1 DEF ScanAccount
  <2>3. CASE Skips(p)
    <3>1. Paid(mem[p], 0)'
      BY <1>5, <2>1, <2>3 DEF Skips
    <3>2. AsSaved(p)'
      BY <2>1, <2>2, <2>3 DEF AsSaved, Skips, Sleeves
    <3>3. AnnouncedSince(p)'
      BY <2>3 DEF AnnouncedSince, Skips
    <3> QED BY <1>8, <1>11, <2>1, <2>3, <3>1, <3>2, <3>3 DEF Step, Skips
  <2>4. CASE Adopts(p, Readable(mem[p].dir, at[p]))
    <3>1. \A f \in Arrived : f[1] = mem[p].dir /\ f[2] = at[p] => f[3] <= Readable(mem[p].dir, at[p])
      BY <1>0, ArrivedType
    <3>2. Paid(mem[p], 0)'
      BY <1>9, <2>1, <2>4, <3>1 DEF Adopts
    <3>3. /\ mem'[p].dir = mem[p].dir
          /\ \A t \in Sleeves : t # at[p] => mem'[p].lines[t] = mem[p].lines[t]
      BY <2>1, <2>4, WithIs DEF Adopts
    <3>4. AsSaved(p)'
      BY <2>1, <2>2, <2>4, <3>3 DEF AsSaved, Adopts, Sleeves
    <3>5. AnnouncedSince(p)'
      BY <2>4 DEF AnnouncedSince, Adopts
    <3> QED BY <1>8, <1>11, <2>1, <2>4, <3>2, <3>4, <3>5 DEF Step, Adopts
  <2>5. ASSUME NEW n, Reads(p, n) PROVE AccountInv'
    <3>1. Paid(mem[p], 0)'
      BY <1>5, <2>1, <2>5 DEF Reads
    <3>2. AsSaved(p)'
      BY <2>1, <2>2, <2>5 DEF AsSaved, Reads, Sleeves
    <3>3. AnnouncedSince(p)'
      <4>1. cursor.dir = mem[p].dir => cursor.lines[at[p]] = mem[p].lines[at[p]]
        BY <2>1, <2>2 DEF AsSaved
      <4>2. mem[p].lines[at[p]] \in Int /\ mem[p].lines[at[p]] >= 0
        BY <2>1, <2>5, LimitsAssumption DEF Reads, Cursors, Unknown
      <4> QED BY <2>1, <2>5, <4>1, <4>2 DEF AnnouncedSince, Reads
    <3> QED BY <1>8, <1>11, <2>1, <2>5, <3>1, <3>2, <3>3 DEF Step, Reads
  <2>6. ~Fault("open")
    BY DEF LogsAreRead, Fault
  <2> QED BY <1>11, <2>3, <2>4, <2>5, <2>6, LookIs
<1>12. ASSUME NEW p \in Scanners, NextSleeve(p) PROVE AccountInv'
  <2>1. /\ scanPc[p] = "send" /\ scanPc'[p] = "look" /\ at'[p] = at[p] + 1 /\ at[p] \in Sleeves
        /\ mem'[p] = mem[p] /\ UNCHANGED <<chat, cursor>>
    BY <1>12, NextSleeveIs DEF histVars
  <2>2. Paid(mem[p], 0)' /\ AsSaved(p)
    BY <1>0, <1>5, <2>1 DEF ScanAccount
  <2>3. AsSaved(p)' /\ AnnouncedSince(p)'
    BY <2>1, <2>2 DEF AsSaved, AnnouncedSince, Sleeves
  <2> QED BY <1>8, <1>12, <2>1, <2>2, <2>3 DEF Step
<1>13. ASSUME NEW p \in Scanners, PassCorrupt(p) \/ PrintFill(p) PROVE AccountInv'
  <2> DEFINE k == mem[p].fails[at[p]]
  <2>1. /\ scanPc[p] = "send" /\ scanPc'[p] = "send" /\ at'[p] = at[p] /\ dry'[p] = dry[p]
        /\ at[p] \in Sleeves /\ mem[p] \in Cursors /\ mem[p].lines[at[p]] \in Nat
        /\ Next1(p) = mem[p].lines[at[p]] + 1 /\ mem'[p] = With(mem[p], at[p], Next1(p), k)
        /\ dry[p] \/ ~log[mem[p].dir][at[p]][Next1(p)]
        /\ mem[p].dir \in Dirs /\ Next1(p) \in 1 .. Len(log[mem[p].dir][at[p]])
        /\ UNCHANGED <<chat, cursor, log>>
    BY <1>13, PassIs, AtLineIs DEF Advances, logVars
  <2>2. AsSaved(p) /\ AnnouncedSince(p)
    BY <1>0, <2>1 DEF ScanAccount
  <2>3. /\ mem'[p].dir = mem[p].dir /\ mem'[p].lines[at[p]] = Next1(p)
        /\ \A t \in Sleeves : t # at[p] => mem'[p].lines[t] = mem[p].lines[t]
    <3>1. PICK c \in Cursors, s \in Sleeves, n \in Nat : c = mem[p] /\ s = at[p] /\ n = Next1(p)
      BY <2>1
    <3> HIDE DEF k
    <3>2. mem'[p] = With(c, s, n, k)
      BY <2>1, <3>1
    <3>3. /\ With(c, s, n, k).dir = c.dir /\ With(c, s, n, k).lines[s] = n
          /\ \A t \in Sleeves : t # s => With(c, s, n, k).lines[t] = c.lines[t]
      BY WithIs
    <3> QED BY <3>1, <3>2, <3>3, Zenon
  <2>4. Paid(mem[p], 0)'
    <3> HIDE DEF k
    <3>1. PICK n \in Nat : n = Next1(p)
      BY <2>1
    <3>2. mem[p].lines[at[p]] # Unknown /\ mem[p].lines[at[p]] <= n
      BY <2>1, <3>1 DEF Unknown
    <3>3. mem'[p] = With(mem[p], at[p], n, k)
      BY <2>1, <3>1
    <3>4. chat' = chat /\ scanPc[p] # "off" /\ at[p] \in Sleeves
      BY <2>1
    <3> QED BY <1>9, <3>2, <3>3, <3>4
  <2>5. AsSaved(p)'
    <3>1. AsSaved(p) /\ cursor' = cursor /\ at'[p] = at[p]
          /\ scanPc[p] = "send" /\ scanPc'[p] = "send" /\ mem'[p].dir = mem[p].dir
      BY ZenonT(40), <2>1, <2>2, <2>3
    <3>2. \A t \in Sleeves : t > at[p] => mem'[p].lines[t] = mem[p].lines[t]
      <4>1. at[p] \in Int /\ \A t \in Sleeves : t > at[p] => t # at[p]
        <5>1. at[p] \in Sleeves
          BY Zenon, <2>1
        <5> QED BY <5>1 DEF Sleeves
      <4> QED BY <2>3, <4>1
    <3>3. scanPc[p] # "look" /\ scanPc'[p] # "look"
      BY <3>1
    <3> QED BY <3>1, <3>2, <3>3, ZenonT(40) DEF AsSaved
  <2>6. AnnouncedSince(p)'
    <3> SUFFICES ASSUME cursor.dir = mem[p].dir, ~dry[p]
                 PROVE  /\ cursor.lines[at[p]] \in 0 .. Next1(p)
                        /\ \A i \in cursor.lines[at[p]] + 1 .. Next1(p) :
                              log[mem[p].dir][at[p]][i] => <<mem[p].dir, at[p], i>> \in Arrived
      BY ZenonT(40), <2>1, <2>3 DEF AnnouncedSince, Arrived
    <3>1. /\ cursor.lines[at[p]] \in 0 .. mem[p].lines[at[p]]
          /\ \A i \in cursor.lines[at[p]] + 1 .. mem[p].lines[at[p]] :
                log[mem[p].dir][at[p]][i] => <<mem[p].dir, at[p], i>> \in Arrived
      BY ZenonT(40), <2>1, <2>2 DEF AnnouncedSince
    <3>2. PICK old, new : old = mem[p].lines[at[p]] /\ new = Next1(p)
      OBVIOUS
    <3>3. PICK from : from = cursor.lines[at[p]]
      OBVIOUS
    <3>4. old \in Nat /\ new = old + 1
      BY <2>1, <3>2, Zenon
    <3>5. from \in 0 .. old
      BY <3>1, <3>2, <3>3, Zenon
    <3>6. from \in 0 .. new /\ \A i \in from + 1 .. new : i \in from + 1 .. old \/ i = new
      BY <3>4, <3>5
    <3> QED BY ZenonT(40), <2>1, <3>1, <3>2, <3>3, <3>6
  <2> HIDE DEF k
  <2> QED BY <1>8, <1>13, <2>1, <2>4, <2>5, <2>6 DEF Step
<1>14. ASSUME NEW p \in Scanners, SendRefused(p) PROVE AccountInv'
  <2>1. /\ scanPc[p] = "send" /\ scanPc'[p] = "look" /\ at[p] \in Sleeves /\ mem[p] \in Cursors
        /\ at'[p] \in {at[p] + 1, NumSleeves + 1} /\ mem[p].lines[at[p]] \in Nat
        /\ Next1(p) = mem[p].lines[at[p]] + 1 /\ cursor' = cursor /\ ~dry[p]
    BY <1>14, RefusedIs, AtLineIs, SendsIs
  <2>2. AsSaved(p) /\ AnnouncedSince(p) /\ Paid(mem[p], 0)
    BY <1>0, <2>1 DEF ScanAccount
  <2>3. PICK n \in {mem[p].lines[at[p]], Next1(p)}, k \in {0, mem[p].fails[at[p]] + 1} :
           mem'[p] = With(mem[p], at[p], n, k)
    BY <1>14, RefusedIs DEF Advances
  <2>4. /\ mem'[p].dir = mem[p].dir
        /\ \A t \in Sleeves : t # at[p] => mem'[p].lines[t] = mem[p].lines[t]
    <3>1. PICK c \in Cursors, s \in Sleeves : c = mem[p] /\ s = at[p]
      BY <2>1
    <3>2. mem'[p] = With(c, s, n, k)
      BY <2>3, <3>1
    <3>3. /\ With(c, s, n, k).dir = c.dir
          /\ \A t \in Sleeves : t # s => With(c, s, n, k).lines[t] = c.lines[t]
      BY WithIs
    <3> QED BY <3>1, <3>2, <3>3, Zenon
  <2>5. n \in Nat /\ mem[p].lines[at[p]] <= n /\ mem[p].lines[at[p]] # Unknown
    BY <2>1, <2>3 DEF Unknown
  <2>6. AsSaved(p)' /\ AnnouncedSince(p)'
    BY <2>1, <2>2, <2>4, LimitsAssumption DEF AsSaved, AnnouncedSince, Sleeves
  <2>7. CASE chat' = chat
    <3>1. Paid(mem[p], 0)'
      BY <1>9, <2>1, <2>3, <2>5, <2>7
    <3> QED BY <1>8, <1>14, <2>1, <2>6, <2>7, <3>1 DEF Step
  <2>8. CASE Sends(p, 0)
    <3>1. PICK c \in Cursors, s \in Sleeves, m \in Nat, l \in Nat :
             c = mem[p] /\ s = at[p] /\ m = Next1(p) /\ l = mem[p].lines[at[p]]
      BY <2>1
    <3>2. Paid(c, 0) /\ c.lines[s] = l
      BY <2>2, <3>1
    <3>3. Paid(b, 0)
      <4>1. ~Unsaved
        BY <1>2, <1>14, <2>1 DEF Step
      <4> QED BY <1>0, <1>3, <4>1
    <3>4. b.dir = c.dir => /\ b.lines[s] \in 0 .. c.lines[s]
                           /\ \A j \in b.lines[s] + 1 .. c.lines[s] :
                                 log[c.dir][s][j] => <<c.dir, s, j>> \in Arrived
      BY <1>3, <2>1, <2>2, <3>1 DEF AnnouncedSince
    <3>5. ChatInv' /\ Paid(With(c, s, m, k), 0)' /\ Paid(b, 0)'
      BY <2>8, <3>1, <3>3, <3>4, PaidSends
    <3>6. Paid(c, 0)'
      <4>1. c.lines[s] \in 0 .. c.lines[s] /\ \A j \in c.lines[s] + 1 .. c.lines[s] : FALSE
        BY <3>2
      <4> QED BY <2>8, <3>1, <3>2, <4>1, PaidSends
    <3>7. Paid(mem[p], 0)'
      <4>1. PICK w \in Cursors : w = mem'[p] /\ w = With(c, s, n, k)
        BY <1>0, <2>3, <3>1 DEF CursorsType
      <4>2. CASE n = l
        <5>1. w.dir = c.dir /\ w.lines = c.lines
          BY <3>2, <4>1, <4>2 DEF With, Cursors
        <5>2. Paid(w, 0)'
          BY <3>6, <5>1 DEF Paid, NoGap, Ahead
        <5> QED BY <1>1, <4>1, <5>2
      <4>3. CASE n = m
        <5>1. Paid(w, 0)'
          BY <3>5, <4>1, <4>3
        <5> QED BY <1>1, <4>1, <5>1
      <4> QED BY <2>3, <3>1, <4>2, <4>3
    <3>8. Paid(cursor, 0)' /\ ~Unsaved'
      BY <1>1, <1>2, <1>3, <1>14, <2>1, <3>5 DEF Step
    <3>9. ScanAccount(p)'
      BY <2>6, <3>7 DEF ScanAccount
    <3>10. \A q \in Scanners : ScanAccount(q)'
      BY <1>2, <1>14, <3>9 DEF Step
    <3> QED BY <3>5, <3>8, <3>10 DEF AccountInv
  <2> QED BY <1>14, <2>7, <2>8, RefusedIs
\* A save that fails is a slip; one that does not leaves nothing due.
<1>15. ASSUME NEW p \in Scanners, Saved(p), scanPc[p] # "off", chat' = chat,
              cursor' = cursor \/ scanPc[p] = "save" \/ scanPc'[p] = "off"
       PROVE  Paid(cursor, 0)'
  <2>1. CASE cursor' = mem[p]
    <3>1. PICK c \in Cursors : c = mem[p]
      BY <1>0 DEF CursorsType
    <3>2. Paid(c, 0)
      BY <1>0, <1>15, <3>1 DEF ScanAccount
    <3>3. Paid(c, 0)'
      BY <1>0, <1>15, <3>2, PaidStays
    <3> QED BY <1>1, <2>1, <3>1, <3>3
  <2>2. CASE cursor' = cursor /\ slips' = slips + 1
    <3>1. Paid(b, 1)
      <4>1. CASE Unsaved
        BY <1>0, <1>3, <4>1
      <4>2. CASE ~Unsaved
        <5>1. Paid(b, 0)
          BY <1>0, <1>3, <4>2
        <5>2. Paid(b, 0 + 1)
          BY <1>0, <1>15, <5>1, PaidStays
        <5> QED BY <5>2
      <4> QED BY <4>1, <4>2
    <3>2. Paid(b, 1 - 1)'
      BY <1>0, <1>15, <2>2, <3>1, PaidStays
    <3> QED BY <1>1, <1>3, <2>2, <3>2
  <2> QED BY <1>15, <2>1, <2>2 DEF Saved
<1>16. ASSUME NEW p \in Scanners, Save(p) PROVE AccountInv'
  <2>1. /\ scanPc[p] = "save" /\ Saved(p) /\ mem'[p] = mem[p] /\ dry'[p] = dry[p] /\ chat' = chat
        /\ \/ scanPc'[p] = "send" /\ at'[p] = at[p]
           \/ scanPc'[p] = "look" /\ at'[p] = NumSleeves + 1
    BY <1>16, SaveIs
  <2>2. Paid(cursor, 0)' /\ Paid(mem[p], 0)'
    BY <1>5, <1>15, <2>1
  <2>3. AsSaved(p) /\ AnnouncedSince(p) /\ at[p] \in Int
    BY <1>0, <2>1 DEF ScanAccount, ScansType
  <2>4. AsSaved(p)'
    BY <2>1, <2>3, LimitsAssumption DEF AsSaved, Sleeves, Saved
  <2>5. AnnouncedSince(p)'
    <3>1. CASE scanPc'[p] = "look"
      BY <3>1 DEF AnnouncedSince
    <3>2. CASE at'[p] = at[p] /\ cursor' = cursor
      BY <2>1, <2>3, <3>2, AnnouncedStays
    <3>3. CASE at'[p] = at[p] /\ cursor' = mem[p]
      <4>1. mem[p].lines[at[p]] \in Nat
        BY <1>0, <2>1 DEF ReadsFit, ReadFits
      <4> QED BY <2>1, <3>3, <4>1 DEF AnnouncedSince
    <3> QED BY <2>1, <3>1, <3>2, <3>3 DEF Saved
  <2>6. ~Unsaved'
    BY <1>2, <1>16, <2>1 DEF Step
  <2>7. ScanAccount(p)'
    BY <2>2, <2>4, <2>5 DEF ScanAccount
  <2>8. \A q \in Scanners : ScanAccount(q)'
    BY <1>2, <1>16, <2>7 DEF Step
  <2> QED BY <1>6, <2>1, <2>2, <2>6, <2>8 DEF AccountInv
<1>17. ASSUME NEW p \in Scanners, Finish(p) \/ KillScanner(p) PROVE AccountInv'
  <2>1. scanPc[p] # "off" /\ scanPc'[p] = "off" /\ Saved(p) /\ chat' = chat
    BY <1>17, EndIs
  <2>2. Paid(cursor, 0)'
    BY <1>15, <2>1
  <2>3. ~Unsaved' /\ \A q \in Scanners : ScanAccount(q)'
    <3>1. Step(p) \/ KillScanner(p)
      BY <1>17 DEF Step
    <3>2. ScanAccount(p)'
      BY <2>1 DEF ScanAccount
    <3> QED BY <1>2, <2>1, <3>1, <3>2
  <2> QED BY <1>6, <2>1, <2>2, <2>3 DEF AccountInv
<1>18. ASSUME NEW p \in Scanners, Delivered(p) PROVE AccountInv'
  <2>1. /\ scanPc[p] = "send" /\ scanPc'[p] = "save" /\ at'[p] = at[p] /\ dry'[p] = dry[p]
        /\ at[p] \in Sleeves /\ mem[p] \in Cursors /\ mem[p].lines[at[p]] \in Nat
        /\ Next1(p) = mem[p].lines[at[p]] + 1 /\ mem'[p] = With(mem[p], at[p], Next1(p), 0)
        /\ UNCHANGED <<cursor, log>>
    BY <1>18, DeliveredIs, AtLineIs DEF Advances, logVars
  <2>2. PICK c \in Cursors, s \in Sleeves, n \in Nat : c = mem[p] /\ s = at[p] /\ n = Next1(p)
    BY <2>1
  <2>3. ChatInv' /\ Paid(With(c, s, n, 0), 0)' /\ Paid(b, 1)'
    <3>1. Paid(b, 0)
      <4>1. ~Unsaved
        BY <1>2, <1>18, <2>1 DEF Step
      <4> QED BY <1>0, <1>3, <4>1
    <3>2. b.dir = c.dir => /\ b.lines[s] \in 0 .. c.lines[s]
                           /\ \A j \in b.lines[s] + 1 .. c.lines[s] :
                                 log[c.dir][s][j] => <<c.dir, s, j>> \in Arrived
      <4>1. AnnouncedSince(p) /\ ~dry[p]
        BY <1>0, <1>18, <2>1, DeliveredIs DEF ScanAccount
      <4> QED BY <1>3, <2>1, <2>2, <4>1 DEF AnnouncedSince
    <3>3. Sends(p, 1)
      BY <1>18, DeliveredIs
    <3> QED BY <2>2, <3>1, <3>2, <3>3, PaidSends
  <2>4. PICK w \in Cursors : w = With(c, s, n, 0) /\ mem'[p] = w
    BY <1>0, <2>1, <2>2 DEF CursorsType
  <2>5. Paid(w, 0)' /\ Paid(b, 1)'
    BY <2>3, <2>4
  <2>6. Paid(mem[p], 0)' /\ Paid(cursor, 1)'
    BY <1>1, <1>3, <2>1, <2>4, <2>5
  <2>7. AsSaved(p) /\ AnnouncedSince(p)
    BY <1>0, <2>1 DEF ScanAccount
  <2>8. w.dir = c.dir /\ w.lines[s] = n /\ \A t \in Sleeves : t # s => w.lines[t] = c.lines[t]
    BY <2>4, WithIs
  <2>9. AsSaved(p)'
    <3> SUFFICES ASSUME cursor.dir = c.dir, NEW t \in Sleeves, t > s
                 PROVE  w.lines[t] = cursor.lines[t]
      BY ZenonT(40), <2>1, <2>2, <2>4, <2>8 DEF AsSaved
    <3>1. t # s
      BY DEF Sleeves
    <3>2. c.lines[t] = cursor.lines[t]
      BY ZenonT(40), <2>2, <2>7 DEF AsSaved
    <3> QED BY <2>8, <3>1, <3>2, Zenon
  <2>10. Arrived' = Arrived \union {<<c.dir, s, n>>}
    <3>1. Arrived' = Arrived \union {Fill(p)}
      BY ZenonT(40), <1>18, ArrivedIs, DeliveredIs
    <3>2. Fill(p) = <<c.dir, s, n>>
      BY ZenonT(40), <2>2 DEF Fill
    <3> QED BY <3>1, <3>2, Zenon
  <2>11. AnnouncedSince(p)'
    <3> SUFFICES ASSUME cursor.dir = c.dir, ~dry[p]
                 PROVE  /\ cursor.lines[s] \in 0 .. n
                        /\ \A i \in cursor.lines[s] + 1 .. n :
                              log[c.dir][s][i] => <<c.dir, s, i>> \in Arrived'
      BY ZenonT(40), <2>1, <2>2, <2>4, <2>8 DEF AnnouncedSince
    <3>1. /\ cursor.lines[s] \in 0 .. c.lines[s] /\ c.lines[s] \in Nat /\ n = c.lines[s] + 1
          /\ \A i \in cursor.lines[s] + 1 .. c.lines[s] : log[c.dir][s][i] => <<c.dir, s, i>> \in Arrived
      BY <2>1, <2>2, <2>7 DEF AnnouncedSince
    <3>2. cursor.lines[s] \in 0 .. n
          /\ \A i \in cursor.lines[s] + 1 .. n : i \in cursor.lines[s] + 1 .. c.lines[s] \/ i = n
      BY <3>1
    <3> SUFFICES ASSUME NEW i \in cursor.lines[s] + 1 .. n, log[c.dir][s][i]
                 PROVE  <<c.dir, s, i>> \in Arrived'
      BY <3>2
    <3>3. CASE i = n
      BY <2>10, <3>3
    <3>4. CASE i # n
      BY <2>10, <3>1, <3>2, <3>4
    <3> QED BY <3>3, <3>4
  <2>12. Unsaved'
    BY <2>1 DEF Unsaved
  <2>13. ScanAccount(p)'
    BY <2>6, <2>9, <2>11 DEF ScanAccount
  <2>14. \A q \in Scanners : ScanAccount(q)'
    BY <1>2, <1>18, <2>13 DEF Step
  <2> QED BY <2>3, <2>6, <2>12, <2>14 DEF AccountInv
<1> QED BY <1>7, <1>10, <1>11, <1>12, <1>13, <1>14, <1>16, <1>17, <1>18 DEF Step

\* No message, nothing ahead.
LEMMA AccountInit == AlertsInit => AccountInv
<1> SUFFICES ASSUME AlertsInit PROVE AccountInv
  OBVIOUS
<1>1. Len(chat) = 0 /\ slips = 0 /\ \A p \in Scanners : scanPc[p] = "off"
  BY DEF AlertsInit
<1>2. Arrived = {}
  BY DEF AlertsInit, Arrived, ToSet
<1>3. Ahead(cursor) = {}
  BY <1>2 DEF Ahead
<1>4. Cardinality(Arrived) = 0 /\ Cardinality(Ahead(cursor)) = 0
  BY <1>2, <1>3, FS_EmptySet
<1>5. Repeats = 0
  BY <1>1, <1>4 DEF Repeats
<1> QED BY <1>1, <1>2, <1>3, <1>4, <1>5 DEF AccountInv, ChatInv, Paid, NoGap, Unsaved, ScanAccount

\* The account holds in every state.
LEMMA AccountKept == LogsAreRead /\ AlertsSpec => []AccountInv
<1>1. AlertsInit => AccountInv
  BY AccountInit
<1>2. LogsAreRead /\ AlertsInv /\ AccountInv /\ [AlertsNext]_alertsVars => AccountInv'
  BY AccountStep
<1>3. AlertsSpec => []AlertsInv
  BY AlertsTypeCorrect
<1>4. LogsAreRead => []LogsAreRead
  <2> SUFFICES ASSUME LogsAreRead PROVE []LogsAreRead
    OBVIOUS
  <2>1. LogsAreRead' = LogsAreRead
    BY DEF LogsAreRead
  <2> QED BY <2>1, PTL
<1> QED BY <1>1, <1>2, <1>3, <1>4, PTL DEF AlertsSpec

\* A message is repeated once for each scan that was killed, each answer that
\* was lost and each save that failed, and never more often.
THEOREM RepeatsArePaid == LogsAreRead /\ AlertsSpec => []RepeatsAreSlips
<1>1. AlertsInv /\ AccountInv => RepeatsAreSlips
  <2> SUFFICES ASSUME AlertsInv, AccountInv PROVE Repeats <= slips
    BY DEF RepeatsAreSlips, Repeats
  <2>1. slips \in Int
    BY TypesAre DEF AlertsInv, HistoryType
  <2>2. \E c : Paid(c, 0)
    <3>1. CASE Unsaved
      <4>1. PICK p \in Scanners : scanPc[p] = "save"
        BY <3>1 DEF Unsaved
      <4>2. Paid(mem[p], 0)
        BY <4>1 DEF AccountInv, ScanAccount
      <4> QED BY <4>2
    <3>2. CASE ~Unsaved
      <4>1. Paid(cursor, 0)
        BY <3>2 DEF AccountInv
      <4> QED BY <4>1
    <3> QED BY <3>1, <3>2
  <2>3. PICK c : Paid(c, 0)
    BY <2>2
  <2> QED BY <2>1, <2>3, ArrivedIsFinite DEF Paid
<1>2. AlertsSpec => []AlertsInv
  BY AlertsTypeCorrect
<1> QED BY <1>1, <1>2, AccountKept, PTL

-----------------------------------------------------------------------------
(* The order of the messages.                                              *)

\* The fills of a log from one line to another.
FillsOf(d, s, from, to) == {k \in from .. to : log[d][s][k]}

LEMMA FillsAreFinite ==
    ASSUME NEW d, NEW s, NEW from \in Int, NEW to \in Int
    PROVE  Cardinality(FillsOf(d, s, from, to)) \in Nat
<1>1. IsFiniteSet(from .. to)
  BY FS_Interval
<1>2. FillsOf(d, s, from, to) \in SUBSET (from .. to)
  BY DEF FillsOf
<1> HIDE DEF FillsOf
<1> QED BY <1>1, <1>2, FS_Subset, FS_CardinalityType

\* A later message goes back over no more fills than the scans slipped on.
LEMMA FewAgain ==
    ASSUME AlertsInv, AccountInv, NEW p \in Scanners, AtLine(p), log[mem[p].dir][at[p]][Next1(p)],
           NEW f \in Arrived, f[1] = mem[p].dir, f[2] = at[p]
    PROVE  Cardinality(FillsOf(f[1], f[2], Next1(p), f[3])) <= slips
<1> DEFINE d == f[1]
           s == f[2]
           again == FillsOf(d, s, Next1(p), f[3])
<1>0. /\ scanPc[p] # "off" /\ mem[p].lines[s] \in Nat /\ Next1(p) = mem[p].lines[s] + 1
      /\ f[3] \in Nat /\ f = <<d, s, f[3]>> /\ slips \in Nat /\ f[3] \in Int
  <2>1. f[3] \in 1 .. MaxFills /\ f = <<f[1], f[2], f[3]>>
    BY ArrivedType DEF AccountInv
  <2>2. slips \in Nat
    BY TypesAre, LimitsAssumption DEF AlertsInv, HistoryType
  <2>3. scanPc[p] = "send" /\ mem[p].lines[at[p]] \in Nat /\ Next1(p) = mem[p].lines[at[p]] + 1
    BY AtLineIs
  <2> QED BY <2>1, <2>2, <2>3, LimitsAssumption
<1>1. Paid(mem[p], 0)
  BY <1>0 DEF AccountInv, ScanAccount
<1> DEFINE first == Next1(p)
<1>2. first \in Nat /\ first > mem[p].lines[s] /\ mem[p].lines[s] # Unknown
  BY <1>0 DEF Unknown
<1> HIDE DEF first
<1>3. CASE f[3] < first
  <2>1. again = {}
    BY <1>0, <1>2, <1>3 DEF FillsOf, first
  <2> QED BY <1>0, <2>1, FS_EmptySet
<1>4. CASE first <= f[3]
  <2>1. f \in Ahead(mem[p])
    BY <1>0, <1>2, <1>4 DEF Ahead
  <2>2. \A k \in again : <<d, s, k>> \in Ahead(mem[p])
    <3> SUFFICES ASSUME NEW k \in again PROVE <<d, s, k>> \in Ahead(mem[p])
      OBVIOUS
    <3>1. k \in first .. f[3] /\ log[d][s][k]
      BY DEF FillsOf, first
    <3>2. k \in mem[p].lines[s] + 1 .. f[3] /\ mem[p].lines[s] < k
      BY <1>0, <1>2, <3>1
    <3>3. <<d, s, k>> \in Arrived
      BY <1>1, <2>1, <3>1, <3>2 DEF Paid, NoGap
    <3> QED BY <1>2, <3>2, <3>3 DEF Ahead
  <2> DEFINE place == [k \in again |-> <<d, s, k>>]
  <2>3. place \in Injection(again, Ahead(mem[p]))
    <3> HIDE DEF again
    <3> QED BY <2>2 DEF Injection, IsInjective
  <2>4. IsFiniteSet(Ahead(mem[p])) /\ Cardinality(Ahead(mem[p])) \in Nat /\ Repeats \in Int /\ 0 <= Repeats
    BY ArrivedIsFinite
  <2>5. IsFiniteSet(again) /\ Cardinality(again) <= Cardinality(Ahead(mem[p]))
    BY <2>3, <2>4, FS_Injection
  <2>6. Cardinality(again) \in Nat
    BY <2>5, FS_CardinalityType
  <2> HIDE DEF again
  <2>7. Cardinality(again) <= slips
    BY <1>0, <1>1, <2>4, <2>5, <2>6 DEF Paid
  <2> QED BY <2>7 DEF again
<1> QED BY <1>0, <1>2, <1>3, <1>4

\* The fills a log has up to one that arrived are what they were.
LEMMA FillsStay ==
    ASSUME AlertsInv, AccountInv, [AlertsNext]_alertsVars, NEW f \in Arrived, NEW from \in Nat \ {0}
    PROVE  FillsOf(f[1], f[2], from, f[3])' = FillsOf(f[1], f[2], from, f[3])
<1>1. PICK d \in Dirs, s \in Sleeves, n \in Nat : f = <<d, s, n>> /\ n <= Len(log[d][s]) /\ log[d][s] \in Seq(BOOLEAN)
  BY SMTT(30), ArrivedType, LimitsAssumption DEF AccountInv
<1>2. \A k \in 1 .. Len(log[d][s]) : log'[d][s][k] = log[d][s][k]
  BY LogsGrow DEF AlertsInv
<1>3. \A k \in from .. n : log'[d][s][k] = log[d][s][k]
  BY <1>1, <1>2
<1> QED BY <1>1, <1>3 DEF FillsOf

LEMMA OrderStep ==
    ASSUME AlertsInv, AccountInv, InOrder, [AlertsNext]_alertsVars
    PROVE  InOrder'
<1> DEFINE SameLog(f, g) == f[1] = g[1] /\ f[2] = g[2]
           Few(f, g) == Cardinality(FillsOf(f[1], f[2], g[3], f[3])) <= slips
<1>1. /\ chat \in Seq(Fills) /\ chat' \in Seq(Fills) /\ Len(chat) \in Nat
      /\ slips \in Nat /\ slips' \in Nat /\ slips <= slips'
  BY HistoryTypeStep, HistoriesGrow, TypesAre, LimitsAssumption DEF AlertsInv, HistoryType
<1>2. \A i \in DOMAIN chat : chat[i] \in Arrived /\ chat[i][3] \in Nat \ {0}
  <2>1. \A i \in DOMAIN chat : chat[i] \in Arrived
    BY DEF Arrived, ToSet
  <2> QED BY <2>1, ArrivedType, LimitsAssumption DEF AccountInv
<1>3. ASSUME NEW f \in Arrived, NEW g \in Arrived, Few(f, g), g[3] \in Nat \ {0} PROVE Few(f, g)'
  <2>1. FillsOf(f[1], f[2], g[3], f[3])' = FillsOf(f[1], f[2], g[3], f[3])
    BY <1>3, FillsStay
  <2>2. Cardinality(FillsOf(f[1], f[2], g[3], f[3])) \in Int
    <3>1. f[3] \in Int
      BY ArrivedType, LimitsAssumption DEF AccountInv
    <3> QED BY <1>3, <3>1, FillsAreFinite
  <2> QED BY <1>1, <1>3, <2>1, <2>2
<1>4. ASSUME NEW i \in DOMAIN chat, NEW j \in DOMAIN chat, i < j, SameLog(chat[i], chat[j])
      PROVE  Few(chat[i], chat[j])
  BY <1>4 DEF InOrder, FillsOf
<1>5. ASSUME NEW i \in DOMAIN chat, NEW j \in DOMAIN chat, i < j, SameLog(chat[i], chat[j]),
             chat'[i] = chat[i], chat'[j] = chat[j]
      PROVE  Cardinality(FillsOf(chat[i][1], chat[i][2], chat[j][3], chat[i][3]))' <= slips'
  <2>1. PICK f \in Arrived, g \in Arrived : f = chat[i] /\ g = chat[j] /\ g[3] \in Nat \ {0}
    BY <1>2
  <2>2. Few(f, g)
    BY <1>4, <1>5, <2>1
  <2>3. Few(f, g)'
    BY <1>3, <2>1, <2>2
  <2> QED BY <1>5, <2>1, <2>3 DEF FillsOf
<1>6. CASE chat' = chat
  <2> SUFFICES ASSUME NEW i \in DOMAIN chat, NEW j \in DOMAIN chat, i < j, SameLog(chat[i], chat[j])
               PROVE  Cardinality(FillsOf(chat[i][1], chat[i][2], chat[j][3], chat[i][3]))' <= slips'
    BY <1>6 DEF InOrder, FillsOf
  <2> QED BY <1>5, <1>6
<1>7. ASSUME NEW p \in Scanners, NEW due \in {0, 1}, Sends(p, due) PROVE InOrder'
  <2>1. PICK g \in Fills : g = Fill(p)
    BY <1>7, SendsIs, AtLineIs DEF Sends
  <2>2. /\ AtLine(p) /\ log[mem[p].dir][at[p]][Next1(p)] /\ log' = log
        /\ \E k \in {1, 2} : chat' = chat \o [i \in 1 .. k |-> g] /\ slips' = slips + (k - due)
    <3>1. AtLine(p) /\ log[mem[p].dir][at[p]][Next1(p)] /\ log' = log
      BY <1>7, SendsIs DEF Sends, logVars
    <3>2. \E k \in {1, 2} : Arrive(p, k, k - due)
      BY <1>7 DEF Sends
    <3> QED BY <2>1, <3>1, <3>2 DEF Arrive
  <2>3. g[1] = mem[p].dir /\ g[2] = at[p] /\ g[3] = Next1(p) /\ g[3] \in Nat \ {0}
    <3>1. Next1(p) \in 1 .. MaxFills
      BY SMTT(30), <2>2, AtLineIs
    <3> QED BY <2>1, <3>1, LimitsAssumption DEF Fill
  <2>4. PICK m \in Nat, o \in Nat :
           /\ DOMAIN chat = 1 .. m /\ DOMAIN chat' = 1 .. o
           /\ \A i \in 1 .. m : chat'[i] = chat[i]
           /\ \A i \in m + 1 .. o : chat'[i] = g
           /\ o = m + 1 \/ (o = m + 2 /\ slips' >= slips + 1)
    <3>1. PICK c \in Seq(Fills), d \in Seq(Fills) : c = chat /\ d = chat'
      BY <1>1
    <3>2. PICK k \in {1, 2} : d = c \o [i \in 1 .. k |-> g] /\ slips' = slips + (k - due)
      BY <2>2, <3>1
    <3>3. /\ Len(d) = Len(c) + k
          /\ \A i \in 1 .. Len(c) : d[i] = c[i]
          /\ \A i \in Len(c) + 1 .. Len(d) : d[i] = g
      <4>1. k \in 0 .. 2
        OBVIOUS
      <4> QED BY <3>2, <4>1, ChatIs
    <3>4. /\ Len(c) \in Nat /\ Len(d) \in Nat /\ DOMAIN c = 1 .. Len(c) /\ DOMAIN d = 1 .. Len(d)
          /\ Len(d) = Len(c) + 1 \/ (Len(d) = Len(c) + 2 /\ slips' >= slips + 1)
      BY <1>1, <3>1, <3>2, <3>3
    <3> QED BY <3>1, <3>3, <3>4
  <2> SUFFICES ASSUME NEW i \in DOMAIN chat', NEW j \in DOMAIN chat', i < j, SameLog(chat'[i], chat'[j])
               PROVE  Cardinality({k \in chat'[j][3] .. chat'[i][3] : log'[chat'[i][1]][chat'[i][2]][k]}) <= slips'
    BY DEF InOrder
  <2>5. i \in 1 .. o /\ j \in 1 .. o /\ i < j
    BY <2>4
  <2>6. CASE j <= m
    <3>1. i \in 1 .. m /\ j \in 1 .. m
      BY <2>5, <2>6
    <3>2. i \in DOMAIN chat /\ j \in DOMAIN chat /\ chat'[i] = chat[i] /\ chat'[j] = chat[j]
      BY <2>4, <3>1
    <3> QED BY <1>5, <3>2 DEF FillsOf
  <2>7. CASE i <= m /\ j > m
    <3>1. i \in 1 .. m /\ j \in m + 1 .. o
      BY <2>5, <2>7
    <3>2. i \in DOMAIN chat /\ chat'[i] = chat[i] /\ chat'[j] = g
      BY <2>4, <3>1
    <3>3. PICK f \in Arrived : f = chat[i] /\ f[3] \in Nat
      BY <1>2, <3>2
    <3>4. Cardinality(FillsOf(f[1], f[2], Next1(p), f[3])) <= slips
      BY <2>2, <2>3, <3>2, <3>3, FewAgain
    <3>5. Few(f, g)
      BY <2>3, <3>4
    <3>6. Cardinality(FillsOf(f[1], f[2], g[3], f[3])) \in Int
      BY <2>3, <3>3, FillsAreFinite
    <3>7. Cardinality(FillsOf(f[1], f[2], g[3], f[3])) <= slips'
      BY <1>1, <3>5, <3>6
    <3> QED BY <2>2, <3>2, <3>3, <3>7 DEF FillsOf
  <2>8. CASE i > m
    <3>1. i \in m + 1 .. o /\ j \in m + 1 .. o /\ o = m + 2
      BY <2>4, <2>5, <2>8
    <3>2. chat'[i] = g /\ chat'[j] = g /\ slips' >= slips + 1
      BY <2>4, <3>1
    <3>3. {k \in g[3] .. g[3] : log'[g[1]][g[2]][k]} \subseteq {g[3]}
      BY <2>3
    <3>4. IsFiniteSet({g[3]}) /\ Cardinality({g[3]}) = 1
      BY FS_Singleton
    <3>5. Cardinality({k \in g[3] .. g[3] : log'[g[1]][g[2]][k]}) <= 1
          /\ Cardinality({k \in g[3] .. g[3] : log'[g[1]][g[2]][k]}) \in Nat
      BY <3>3, <3>4, FS_Subset, FS_CardinalityType
    <3> QED BY <1>1, <3>2, <3>5
  <2> QED BY <2>5, <2>6, <2>7, <2>8
<1> QED BY <1>6, <1>7, ArrivedIs

\* "Fills from one sleeve always arrive in the order they happened": a message
\* goes back over no more fills of its log than there were kills, lost answers
\* and failed saves, and over none without one.
THEOREM ArriveInOrder == LogsAreRead /\ AlertsSpec => []InOrder
<1>1. AlertsInit => InOrder
  BY DEF AlertsInit, InOrder
<1>2. AlertsInv /\ AccountInv /\ InOrder /\ [AlertsNext]_alertsVars => InOrder'
  BY OrderStep
<1>3. AlertsSpec => []AlertsInv
  BY AlertsTypeCorrect
<1> QED BY <1>1, <1>2, <1>3, AccountKept, PTL DEF AlertsSpec
=============================================================================
