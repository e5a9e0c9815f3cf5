\* Kills and power cuts at every system call, a disk that fills up and an fsync
\* that fails; four runs of the bot that start at will; two scanners, an operator
\* and sleeves that may all be cut short; a book that breaks, checked by a timer
\* and by hand.
SPECIFICATION FilesSpec
CONSTANTS
    Refused = Refused
    MaxSaves = 4
    DiskFull = TRUE
    SyncFails = TRUE
    Procs = {p1, p2, p3, p4}
    NoProc = NoProc
    NumSleeves = 1
    Dirs = {live, paper}
    FirstDir = live
    NoDir = NoDir
    Scanners = {bot, hand}
    NoScanner = NoScanner
    History = 1
    MaxFills = 3
    MaxFailures = 2
    MaxPerScan = 2
    Faults = {"kill", "killSleeve", "refuse", "lost", "save", "dry", "switch", "reset", "loseCursor"}
    MaxFaults = 2
    Problems = {stale}
    Aging = {stale}
    Checkers = {timer, hand}
    Timer = timer
    RepeatHours = 1
\* The lock's processes exit for good.
CHECK_DEADLOCK FALSE
INVARIANTS
    NeverForgets
    ReadsTheNewest
    SerialStartsExclude
    ExclusiveWhileNoneExits
    CursorIsEarned
    InOrder
    RepeatsAreSlips
PROPERTIES
    ImplementsCell
    FillsAreHandled
    BreakIsHeardOf
