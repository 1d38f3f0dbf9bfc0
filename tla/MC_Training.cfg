\* Two retrainings on files with an outage anywhere, two deployments beside them.
SPECIFICATION RolloutSpec
CONSTANTS
    Bars = 14
    Datasets <- OneOutage
    HourFiles <- HoursOrCut
    WarmupBars = 200
    LabelHorizon = 2
    TrainSpan = 3
    ValSpan = 2
    TestSpan = 2
    StepSpan = 2
    MinTrain = 1
    MinVal = 1
    MinTest = 0
    Candles15 = 12
    Candles1h = 24
    Contexts <- JustRestarted
    MaxTrainings = 2
    MaxDeploys = 2
    None = None
    Partial = Partial
INVARIANTS
    TestIsUnseen
    FoldsGoForward
    RowsAreComparable
    ServedPairMatches
    RollbackKept
CHECK_DEADLOCK FALSE
