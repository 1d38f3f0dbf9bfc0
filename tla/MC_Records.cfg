\* Two cycles with aborts between any two steps, over every kind of call outcome.
CONSTANTS
    Assets = {"BTC", "ETH", "DOGE"}
    AllowedAssets = {"BTC", "ETH", "DOGE"}
    CorrelatedAssets = {"BTC", "ETH"}
    Risk <- LooseRisk
    Calls <- LogCalls
    MaxTurns = 2
    MaxCalls = 1
    MaxCycles = 2
    Marks <- OneMark
    MaxResting = 1
    MaxMoves = 1
    InitialCash = 100
    InitialPositions <- FlatOnly
    InitialDayStarts <- NewDay
    InitialResting <- NoneResting
    None = None
SPECIFICATION FairSpec
INVARIANTS
    OnlySameCycleBlocks
    FillsTrailOrders
    DecisionVouchesForCycle
PROPERTIES
    CycleEnds
CHECK_DEADLOCK FALSE
