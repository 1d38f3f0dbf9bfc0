\* The same with the whole file: predictions with the candle counts of config.yaml.
SPECIFICATION RolloutSpec
CONSTANTS
    Bars = 13
    Datasets <- WholeFile
    HourFiles <- HoursOrCut
    WarmupBars = 200
    LabelHorizon = 2
    TrainSpan = 3
    ValSpan = 2
    TestSpan = 2
    StepSpan = 2
    MinTrain = 1
    MinVal = 1
    MinTest = 0
    Candles15 = 12
    Candles1h = 24
    Contexts <- Refilled
    MaxTrainings = 2
    MaxDeploys = 2
    None = None
    Partial = Partial
INVARIANTS
    LiveFeaturesAsTrained
CHECK_DEADLOCK FALSE
