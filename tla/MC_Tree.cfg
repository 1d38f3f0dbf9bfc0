\* Cycles of any phase within the bar, candles that reach back one bar, restarts in between.
SPECIFICATION Spec
CONSTANTS
    Bar = 15
    CloseMatchTol = 8
    Candles = 2
    HorizonBars = 1
    MaxAge = 25
    OiBuffer = 15
    OiLag = 10
    OiTol = 8
    FundingKeep = 2
    Step = 5
    MaxTime = 35
    MaxPredictions = 3
    None = None
    BacktestMean = 60
    BacktestVar = 4
    MinSamples = 2
INVARIANTS
    ScoredNearTarget
    NoneFallsBetweenCandles
    OiReadingWhenSteady
    MoreHitsNeverWorse
PROPERTIES
    ScoredOnceAfterHorizon
CHECK_DEADLOCK FALSE
