\* `fetch --repair` alone, with the default of an overlap, against a venue that
\* re-bases its history once; one fetch may miss bars.
SPECIFICATION Spec
CONSTANTS
    Bots = {}
    Fetchers = {f1}
    TakeTurns = TRUE
    MaxBars = 4
    BadBars = {}
    Overlaps = {2}
    Repair = TRUE
    MaxRebases = 1
    MaxCuts = 1
    MaxKills = 0
INVARIANTS
    RebaseIsDetected
CHECK_DEADLOCK FALSE
