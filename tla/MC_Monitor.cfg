\* One position through every toggle, threshold, fault and price move.
CONSTANTS
    Assets = {btc}
    Levels <- LossAndProfit
    Thresholds <- OffOrOne
    RequireChecks <- TwoChecks
    MaxStreak = 2
    MaxFaults = 1
SPECIFICATION FairSpec
INVARIANTS
    FireNeedsConsecutiveBreaches
    OneRecordedClosePerAsset
PROPERTIES
    PersistentLossIsClosed
