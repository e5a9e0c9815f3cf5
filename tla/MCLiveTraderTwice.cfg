\* A read-back that fails, then balances that cannot be read.
SPECIFICATION Spec
CONSTANTS
    StartCash = 4
    AtomicMatch = TRUE
    MaxThin = 1
    MaxForeign = 0
    NoId = NoId
    MaxBars = 1
    Dusts = {0}
    Fractions = {1}
    QuoteCap = 0
    AdoptVenueBase = FALSE
    ReconcileBalances = TRUE
    MaxBarsPerCycle = 0
    Faults = {"readback", "balances"}
    MaxFaults = 3
PROPERTIES
    NoDoubleEntry
