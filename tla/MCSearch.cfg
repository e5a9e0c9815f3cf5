\* Two workers, three individuals and two generations, where an evaluation may
\* throw; two families, one a control, two generations of tuning, then X; five
\* bars of three prices, two sizes and an unmeasurable one.
SPECIFICATION SearchSpec
CONSTANTS
    Workers = {w1, w2}
    Size = 3
    Keys = {k1, k2, k3}
    Failing = {k3}
    EvalGenerations = 2
    None = None
    Error = Error
    NumFamilies = 2
    Controls = {1}
    Scores = {0, 1}
    Threshold = 1
    Population = 6
    SeedsPerFamily = 1
    Generations = 4
    TuneGenerations = 2
    TuneKeepPerFamily = 1
    EliteKeep = 1
    EliteKeepPerFamily = 1
    Immigrants = 1
    Speciate = TRUE
    Want = 1
    Prices = {10, 20, 40}
    Sizes = {0, 40, 100}
    StartingEquity = 10000
    FeePct = 5
    SlippagePct = 10
    BandPct = 20
    LongCost = 0
    ShortCost = 1
    MaxPosition = 100
    NumBars = 5
    Configs <- MCConfigs
INVARIANTS
    RankedByOwnFitness
    PopulationOutlivesTasks
    NobodyIsForgotten
    NeverBorrows
    TradesExplainCash
    HoldingIsTheBenchmark
    AlwaysIn
PROPERTIES
    RunsEnd
    TuningIsFair
CHECK_DEADLOCK FALSE
