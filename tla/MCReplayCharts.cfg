SPECIFICATION PartsSpec
CONSTANTS
    NaN = NaN
    Log <- MCLog
    Coin <- MCCoin
    Weekday <- MCWeekday
    Bubble <- MCBubble
    MemoryOrder <- MCMemoryOrder
    WalkRange <- MCWalkRange
    ModesMove <- MCModesMove
    OnBar <- OnBarOfFamily
    Prepared <- PreparedFamily
    Setups <- Charts
    MaxBarsPerCycle = 0
    MaxBacklog = 2
    FactorRule <- MCRule
    Histories <- MCHistories
    MaxLead = 1
CHECK_DEADLOCK FALSE
INVARIANT
    EveryFamilyReplays
