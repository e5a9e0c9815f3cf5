----------------------------- MODULE SymbolLock -----------------------------
(***************************************************************************)
(* The per-symbol advisory lock of src/src/trading/live_trader.h: a file   *)
(* created with O_CREAT|O_EXCL that names its owner's pid, taken by the    *)
(* constructor of SymbolLock, removed by its destructor, and reclaimed by  *)
(* a later process when the pid it names is not running.                   *)
(*                                                                         *)
(* A process is one `cli_trader run`, i.e. one pid; pids are not reused    *)
(* (the code's comment: reuse only makes it refuse, the safe direction).   *)
(* Every system call is a step of its own, since another process may run   *)
(* between any two of them.                                                *)
(***************************************************************************)
EXTENDS Naturals

CONSTANTS
    Procs,        \* the processes, one per pid
    NoProc        \* no pid: the file does not exist, or its content is empty

ASSUME ProcsAssumption == NoProc \notin Procs

VARIABLES
    lockPc,       \* lockPc[p]: where process p is
    attempt,      \* attempt[p]: the loop counter of the constructor
    owner,        \* owner[p]: the pid reclaimIfStale() read
    lockFile,     \* the directory entry: which process created the file it
                  \* points to, and the pid written in that file
    overlapped    \* history: a process has started while another was inside
                  \* the constructor (one systemd unit per symbol starts one
                  \* process after the other; an operator need not)

lockVars == <<lockPc, attempt, owner, lockFile, overlapped>>

-----------------------------------------------------------------------------
Exited == {"off", "dead", "refused", "done"}
Starting == {"open", "write", "read", "probe", "remove"}
LockPCs == Exited \union Starting \union {"held"}

NoFile == [by |-> NoProc, pid |-> NoProc]

Alive(p) == lockPc[p] \notin Exited

LockTypeOK ==
    /\ lockPc \in [Procs -> LockPCs]
    /\ attempt \in [Procs -> {0, 1}]
    /\ owner \in [Procs -> Procs \union {NoProc}]
    /\ lockFile \in [by : Procs \union {NoProc}, pid : Procs \union {NoProc}]
    /\ overlapped \in BOOLEAN
    /\ \A p \in Procs : lockPc[p] = "probe" => owner[p] \in Procs

LockInit ==
    /\ lockPc = [p \in Procs |-> "off"]
    /\ attempt = [p \in Procs |-> 0]
    /\ owner = [p \in Procs |-> NoProc]
    /\ lockFile = NoFile
    /\ overlapped = FALSE

-----------------------------------------------------------------------------
(* Plausible mistakes in the code, for checking that the properties can    *)
(* see them.                                                               *)

\* An unreadable owner is taken for a dead one.
ReadOwnerTrusting(p) ==
    /\ lockPc[p] = "read"
    /\ owner' = [owner EXCEPT ![p] = lockFile.pid]
    /\ lockPc' = [lockPc EXCEPT ![p] = IF lockFile.pid = NoProc THEN "remove" ELSE "probe"]
    /\ UNCHANGED <<attempt, lockFile, overlapped>>

\* kill() failing for any reason (EPERM too) counts as "not running".
ProbeTrusting(p) ==
    /\ lockPc[p] = "probe"
    /\ lockPc' = [lockPc EXCEPT ![p] = "remove"]
    /\ UNCHANGED <<attempt, owner, lockFile, overlapped>>

-----------------------------------------------------------------------------
\* `cli_trader run` starts: the constructor of LiveTrader constructs lock_.
Start(p) ==
    /\ lockPc[p] = "off"
    /\ lockPc' = [lockPc EXCEPT ![p] = "open"]
    /\ overlapped' = (overlapped \/ \E q \in Procs : lockPc[q] \in Starting)
    /\ UNCHANGED <<attempt, owner, lockFile>>

\* open(O_CREAT | O_EXCL) wins: the file now exists and is still empty.
Create(p) ==
    /\ lockPc[p] = "open"
    /\ lockFile = NoFile
    /\ lockFile' = [by |-> p, pid |-> NoProc]
    /\ lockPc' = [lockPc EXCEPT ![p] = "write"]
    /\ UNCHANGED <<attempt, owner, overlapped>>

\* open() fails with EEXIST on the first attempt: go and look at the owner.
FindExisting(p) ==
    /\ lockPc[p] = "open"
    /\ attempt[p] = 0
    /\ lockFile # NoFile
    /\ lockPc' = [lockPc EXCEPT ![p] = "read"]
    /\ UNCHANGED <<attempt, owner, lockFile, overlapped>>

\* open() fails with EEXIST on the second attempt: a live process took the
\* lock in between, and the constructor throws.
LoseRace(p) ==
    /\ lockPc[p] = "open"
    /\ attempt[p] = 1
    /\ lockFile # NoFile
    /\ lockPc' = [lockPc EXCEPT ![p] = "refused"]
    /\ UNCHANGED <<attempt, owner, lockFile, overlapped>>

\* write(fd, pid): it goes to the file this process created, even if the
\* directory entry meanwhile points to another file or to none.
WritePid(p) ==
    /\ lockPc[p] = "write"
    /\ lockFile' = IF lockFile.by = p THEN [lockFile EXCEPT !.pid = p] ELSE lockFile
    /\ lockPc' = [lockPc EXCEPT ![p] = "held"]
    /\ UNCHANGED <<attempt, owner, overlapped>>

\* readOwner(): no file, or an empty one, is "<unknown>", which is no usable
\* pid, and so is refused.
ReadOwner(p) ==
    /\ lockPc[p] = "read"
    /\ owner' = [owner EXCEPT ![p] = lockFile.pid]
    /\ lockPc' = [lockPc EXCEPT ![p] = IF lockFile.pid \in {NoProc, p} THEN "refused" ELSE "probe"]
    /\ UNCHANGED <<attempt, lockFile, overlapped>>

\* kill(pid, 0): ESRCH if and only if the owner is not running.
Probe(p) ==
    /\ lockPc[p] = "probe"
    /\ lockPc' = [lockPc EXCEPT ![p] = IF Alive(owner[p]) THEN "refused" ELSE "remove"]
    /\ UNCHANGED <<attempt, owner, lockFile, overlapped>>

\* remove(path): unlinks whatever is there NOW. An absent file is no error.
RemoveStale(p) ==
    /\ lockPc[p] = "remove"
    /\ lockFile' = NoFile
    /\ attempt' = [attempt EXCEPT ![p] = 1]
    /\ lockPc' = [lockPc EXCEPT ![p] = "open"]
    /\ UNCHANGED <<owner, overlapped>>

\* ~SymbolLock(): the process stops in an orderly way and unlinks the path.
Release(p) ==
    /\ lockPc[p] = "held"
    /\ lockFile' = NoFile
    /\ lockPc' = [lockPc EXCEPT ![p] = "done"]
    /\ UNCHANGED <<attempt, owner, overlapped>>

\* SIGKILL, the OOM killer or a power cut: nothing is cleaned up.
Crash(p) ==
    /\ Alive(p)
    /\ lockPc' = [lockPc EXCEPT ![p] = "dead"]
    /\ UNCHANGED <<attempt, owner, lockFile, overlapped>>

LockStep(p) ==
    \/ Create(p) \/ FindExisting(p) \/ LoseRace(p) \/ WritePid(p)
    \/ ReadOwner(p) \/ Probe(p) \/ RemoveStale(p)

LockNext == \E p \in Procs : Start(p) \/ LockStep(p) \/ Release(p) \/ Crash(p)

LockSpec == LockInit /\ [][LockNext]_lockVars

-----------------------------------------------------------------------------
\* A process whose constructor has created the file trades from then on.
Holds(p) == lockPc[p] \in {"write", "held"}

\* At most one live process holds the symbol ("One process per symbol",
\* docs/ARCHITECTURE.md section 8): otherwise both see the same signal, both
\* place the order and both write the one state file.
MutualExclusion ==
    \A p, q \in Procs : Holds(p) /\ Holds(q) => p = q

\* The file on disk is the one its holder created: nobody unlinked it, so a
\* newcomer that finds the path free really is alone.
HolderOwnsFile ==
    \A p \in Procs : Holds(p) => lockFile.by = p

\* Both hold for as long as starts have not overlapped, whatever crashes.
SerialStartsExclude == ~overlapped => MutualExclusion

SerialStartsKeepFile == ~overlapped => HolderOwnsFile

\* With overlapping starts exclusion still holds for as long as no process
\* that took the lock has died or stopped: it is the unlink of a dead owner's
\* file that another process can undercut, not the exclusive create.
ExclusiveWhileNoneExits ==
    (\A p \in Procs : lockPc[p] \notin {"dead", "done"}) => MutualExclusion

\* "A lock left behind by a killed process is reclaimed instead of blocking
\* every future run" (live_trader.h:113-115): nobody is refused by a file that
\* names nobody.
StaleLockIsReclaimed ==
    \A p \in Procs : lockPc[p] = "refused" => owner[p] # NoProc
=============================================================================
