\* Two bots append to the store they share.
SPECIFICATION Spec
CONSTANTS
    Bots = {b1, b2}
    Fetchers = {}
    TakeTurns = FALSE
    MaxBars = 3
    BadBars = {}
    Overlaps = {2}
    Repair = FALSE
    MaxRebases = 0
    MaxCuts = 0
    MaxKills = 0
INVARIANTS
    Sorted
CHECK_DEADLOCK FALSE
