\* Crashes and every failure but unreadable balances and order lists; a
\* capped sleeve, a bounded replay and an entry the volatility may skip.
SPECIFICATION Spec
CONSTANTS
    StartCash = 4
    AtomicMatch = TRUE
    MaxThin = 1
    MaxForeign = 0
    NoId = NoId
    MaxBars = 3
    Dusts = {0}
    Fractions = {0, 2}
    QuoteCap = 2
    AdoptVenueBase = FALSE
    ReconcileBalances = TRUE
    MaxBarsPerCycle = 2
    Faults = {"crash", "fetch", "post", "reply", "readback", "save"}
    MaxFaults = 3
INVARIANTS
    InFlightIsDurable
    BooksMatchVenue
    LogIsTruthful
PROPERTIES
    CapRespected
    ImplementsOneOrder
