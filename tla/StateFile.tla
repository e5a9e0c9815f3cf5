----------------------------- MODULE StateFile -----------------------------
(***************************************************************************)
(* TradingState::save() and load() of src/src/trading/trading_state.h: one *)
(* step per system call, over a file system that keeps what it was told in *)
(* memory until it is forced to disk.                                      *)
(*                                                                         *)
(* A process may be killed between any two steps (the file system stays as *)
(* it is), or the power may fail (what was not forced to disk may be lost).*)
(* A state is its version number: the code only ever saves newer ones.     *)
(***************************************************************************)
EXTENDS Naturals

CONSTANTS
    Refused,       \* what load() gives when it throws
    MaxSaves,      \* bound: states saved
    DiskFull,      \* TRUE: a write may fail half-way
    SyncFails      \* TRUE: so may the fsync() of the temporary file

ASSUME RefusedAssumption == Refused \notin Nat
ASSUME MaxSavesAssumption == MaxSaves \in Nat
ASSUME DiskAssumption == DiskFull \in BOOLEAN /\ SyncFails \in BOOLEAN

VARIABLES
    main,      \* <path> as every process sees it
    tmp,       \* <path>.tmp
    bak,       \* <path>.bak
    onDisk,    \* what <path> is if the power fails before the directory is
               \* written back: what it was then
    pc,        \* where the process is
    version,   \* the newest state it has built
    saved,     \* the newest state a completed save() has written
    loaded,    \* what the last load() gave
    cut,       \* history: the power has failed
    sync       \* history: what became of fsync: "kept" always; "lost" once it
               \* failed; "exposed" once the power failed after that

fileVars == <<main, tmp, bak, onDisk>>
vars == <<main, tmp, bak, onDisk, pc, version, saved, loaded, cut, sync>>

-----------------------------------------------------------------------------
\* A file is absent, or torn (there, and does not parse), or holds a state,
\* whose data may be dirty: not forced to disk yet.
Absent == [kind |-> "absent", version |-> 0]
Torn == [kind |-> "torn", version |-> 0]
Dirty(v) == [kind |-> "dirty", version |-> v]
Whole(v) == [kind |-> "whole", version |-> v]

Contents == [kind : {"absent", "torn"}, version : {0}]
            \union [kind : {"dirty", "whole"}, version : Nat \ {0}]

Parses(file) == file.kind \in {"dirty", "whole"}

\* What load() gives: the version of a state; 0 when it returns std::nullopt,
\* so that the bot starts from the blank state; Refused when it throws.
Blank == 0

PCs == {"down", "refused", "up", "write", "fsync", "backup", "copying", "rename"}

TypeOK ==
    /\ {main, tmp, bak, onDisk} \subseteq Contents
    /\ pc \in PCs
    /\ version \in Nat /\ saved \in Nat
    /\ loaded = Refused \/ loaded \in Nat
    /\ cut \in BOOLEAN
    /\ sync \in {"kept", "lost", "exposed"}

Init ==
    /\ main = Absent /\ tmp = Absent /\ bak = Absent
    /\ onDisk = Absent
    /\ pc = "down"
    /\ version = 0
    /\ saved = 0
    /\ loaded = Blank
    /\ cut = FALSE
    /\ sync = "kept"

-----------------------------------------------------------------------------
\* load(): the file, else its backup, else an exception.
Loaded(file, backup) ==
    CASE file = Absent -> Blank
      [] Parses(file) -> file.version
      [] file = Torn /\ Parses(backup) -> backup.version
      [] OTHER -> Refused

Load ==
    /\ pc = "down"
    /\ loaded' = Loaded(main, bak)
    /\ pc' = IF loaded' = Refused THEN "refused" ELSE "up"
    /\ version' = IF loaded' = Refused THEN version ELSE loaded'
    /\ UNCHANGED <<fileVars, saved, cut, sync>>

\* Mistake: the real file is opened for truncation (the old code).
OpenInPlace ==
    /\ pc = "up"
    /\ version < MaxSaves
    /\ version' = version + 1
    /\ tmp' = Torn
    /\ main' = Torn
    /\ pc' = "write"
    /\ UNCHANGED <<bak, onDisk, saved, loaded, cut, sync>>

\* save() of a newer state: the temporary file is opened, and truncated.
Open ==
    /\ pc = "up"
    /\ version < MaxSaves
    /\ version' = version + 1
    /\ tmp' = Torn
    /\ pc' = "write"
    /\ UNCHANGED <<main, bak, onDisk, saved, loaded, cut, sync>>

\* The document is written and flushed; if that fails save() throws.
Write ==
    /\ pc = "write"
    /\ \/ tmp' = Dirty(version) /\ pc' = "fsync"
       \/ DiskFull /\ UNCHANGED tmp /\ pc' = "up"
    /\ UNCHANGED <<main, bak, onDisk, version, saved, loaded, cut, sync>>

\* Mistake: flush() is thought to be enough.
FsyncSkipped ==
    /\ pc = "fsync"
    /\ pc' = "backup"
    /\ UNCHANGED <<fileVars, version, saved, loaded, cut, sync>>

\* The temporary file is forced to disk. Neither a failed open() nor a failed
\* fsync() is looked at: save() goes on.
Fsync ==
    /\ pc = "fsync"
    /\ \/ tmp' = Whole(tmp.version) /\ UNCHANGED sync
       \/ SyncFails /\ UNCHANGED tmp /\ sync' = IF sync = "kept" THEN "lost" ELSE sync
    /\ pc' = "backup"
    /\ UNCHANGED <<main, bak, onDisk, version, saved, loaded, cut>>

\* copy_file(path, bak) truncates the backup and then fills it; a copy that
\* fails is ignored. Without a file there is nothing to back up.
Backup ==
    /\ pc = "backup"
    /\ IF main = Absent THEN UNCHANGED bak /\ pc' = "rename"
                        ELSE bak' = Torn /\ pc' = "copying"
    /\ UNCHANGED <<main, tmp, onDisk, version, saved, loaded, cut, sync>>

Copy ==
    /\ pc = "copying"
    /\ \/ bak' = IF Parses(main) THEN Dirty(main.version) ELSE Torn
       \/ DiskFull /\ UNCHANGED bak
    /\ pc' = "rename"
    /\ UNCHANGED <<main, tmp, onDisk, version, saved, loaded, cut, sync>>

\* rename(tmp, path): save() returns. The directory is not forced to disk, so
\* what the path was before may still come back.
Rename ==
    /\ pc = "rename"
    /\ main' = tmp
    /\ tmp' = Absent
    /\ saved' = version
    /\ pc' = "up"
    /\ UNCHANGED <<bak, onDisk, version, loaded, cut, sync>>

\* The kernel writes the directory back in its own time.
WriteBack ==
    /\ onDisk # main
    /\ onDisk' = main
    /\ UNCHANGED <<main, tmp, bak, pc, version, saved, loaded, cut, sync>>

\* SIGKILL: the process is gone, the files stay.
Kill ==
    /\ pc # "down"
    /\ pc' = "down"
    /\ UNCHANGED <<fileVars, version, saved, loaded, cut, sync>>

\* What becomes of a file when the power fails.
AfterPowerCut(file) == IF file.kind = "dirty" THEN {file, Torn} ELSE {file}

\* The power fails: the path is what it is now or what the directory on disk
\* says, and data that was not forced out may be torn.
PowerFails ==
    /\ main' \in AfterPowerCut(main) \union AfterPowerCut(onDisk)
    /\ onDisk' = main'
    /\ tmp' \in AfterPowerCut(tmp)
    /\ bak' \in AfterPowerCut(bak) \union {Absent}
    /\ pc' = "down"
    /\ cut' = TRUE
    /\ sync' = IF sync = "kept" THEN "kept" ELSE "exposed"
    /\ UNCHANGED <<version, saved, loaded>>

Next ==
    \/ Load
    \/ Open \/ Write \/ Fsync \/ Backup \/ Copy \/ Rename
    \/ WriteBack \/ Kill \/ PowerFails

Spec == Init /\ [][Next]_vars

-----------------------------------------------------------------------------
\* What a start would read now.
WouldLoad == Loaded(main, bak)

\* Once a state has reached the disk the bot never again starts as if there
\* had been none: no kill, no power cut, no full disk and no failed fsync turns
\* a position into "flat, $1,000". Nor does it need the operator to repair a
\* file, unless the power fails after a failed fsync.
NeverForgets ==
    onDisk # Absent =>
        /\ WouldLoad # Blank
        /\ sync # "exposed" => WouldLoad \in 1 .. MaxSaves

\* Until the power fails a start reads the newest state that was saved:
\* nothing older comes back, and nothing of a save that was cut short.
ReadsTheNewest == ~cut => WouldLoad = saved

\* Eight system calls, killed anywhere, are an atomic cell; and a power cut
\* brings back a whole earlier state, not a blank or a mixed one, while fsync
\* does what it says.
Cell == INSTANCE StateCell
        WITH cell <- WouldLoad, durable <- Loaded(onDisk, bak), read <- loaded,
             trust <- sync, Blank <- Blank, Value <- 1 .. MaxSaves, Unreadable <- Refused

ImplementsCell == Cell!CellSpec

\* "fsync is what survives a power loss, and a bot that trades real money is
\* exactly the case where the extra syscall is worth it" (trading_state.h:254):
\* a state whose save() returned is read after the power fails.
SurvivesPowerLoss == saved > 0 => WouldLoad = saved
=============================================================================
