\* One order after the price has moved.
CONSTANTS
    Assets = {"BTC"}
    AllowedAssets = {"BTC"}
    CorrelatedAssets = {"BTC", "ETH"}
    Risk <- TightRisk
    Calls <- DayCalls
    MaxTurns = 1
    MaxCalls = 1
    MaxCycles = 1
    Marks <- TwoMarks
    MaxResting = 1
    MaxMoves = 2
    InitialCash = 100
    InitialPositions <- LongOnly
    InitialDayStarts <- NewDay
    InitialResting <- NoneResting
    None = None
SPECIFICATION Spec
INVARIANTS
    IncreaseWithinAssetCap
CHECK_DEADLOCK FALSE
