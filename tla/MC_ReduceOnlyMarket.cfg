\* Reduce-only market orders.
CONSTANTS
    Assets = {"BTC"}
    AllowedAssets = {"BTC"}
    CorrelatedAssets = {"BTC", "ETH"}
    Risk <- LooseRisk
    Calls <- ReduceCalls
    MaxTurns = 1
    MaxCalls = 1
    MaxCycles = 1
    Marks <- OneMark
    MaxResting = 1
    MaxMoves = 2
    InitialCash = 100
    InitialPositions <- LongOnly
    InitialDayStarts <- NewDay
    InitialResting <- NoneResting
    None = None
SPECIFICATION Spec
PROPERTIES
    ReduceOnlyReduces
CHECK_DEADLOCK FALSE
