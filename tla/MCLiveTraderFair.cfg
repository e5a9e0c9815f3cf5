\* Failures, dust and others' coins under fair scheduling.
SPECIFICATION FairSpec
CONSTANTS
    StartCash = 2
    AtomicMatch = TRUE
    MaxThin = 1
    MaxForeign = 2
    NoId = NoId
    MaxBars = 2
    Dusts = {0, 1}
    Fractions = {2}
    QuoteCap = 0
    AdoptVenueBase = FALSE
    ReconcileBalances = TRUE
    MaxBarsPerCycle = 0
    Faults = {"crash", "fetch", "post", "reply", "readback"}
    MaxFaults = 1
PROPERTIES
    Settles
    ExcessHaltHolds
    HaltLifts
