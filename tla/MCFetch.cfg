\* A bot and fetch --repair take turns, killed anywhere, against a venue that
\* re-bases its history and serves a broken bar; every kind of failure of a
\* page at any time, and --max-pages.
SPECIFICATION FetchSpec
CONSTANTS
    Bots = {b1}
    Fetchers = {f1}
    TakeTurns = TRUE
    MaxBars = 4
    BadBars = {4}
    Overlaps = {0, 2}
    Repair = TRUE
    MaxRebases = 1
    MaxCuts = 1
    MaxKills = 2
    Width = 2
    Retries = 1
    EmptyLimit = 2
    UnusableLimit = 3
    PageCap = 80
    MaxPages = 2
    MaxWalkBars = 4
    Faults = {"request", "notArray", "refuse", "unreadable", "badRow"}
INVARIANTS
    Gapless
    OneBasis
    HoleHasItsCause
    CapIsOnlyABackstop
PROPERTIES
    BarsReachTheDisk
CHECK_DEADLOCK FALSE
