\* Three orders of a cycle against the caps, the correlation block and the kill switch.
CONSTANTS
    Assets = {"BTC", "ETH"}
    AllowedAssets = {"BTC", "ETH"}
    CorrelatedAssets = {"BTC", "ETH"}
    Risk <- CapRisk
    Calls <- OrderCalls
    MaxTurns = 1
    MaxCalls = 3
    MaxCycles = 1
    Marks <- TwoMarks
    MaxResting = 1
    MaxMoves = 1
    InitialCash = 100
    InitialPositions <- LongOrFlat
    InitialDayStarts <- AnyDay
    InitialResting <- OneOrNoneResting
    None = None
SPECIFICATION Spec
INVARIANTS
    TypeOK
    NoStackOnFirstLeg
    KillSwitchAllowsCloses
    OvershootBound
    FirstOrderMarkExposure
PROPERTIES
    ReduceOnlyLimitReduces
CHECK_DEADLOCK FALSE
