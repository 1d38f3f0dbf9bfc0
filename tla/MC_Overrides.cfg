\* Two windows posting to any rows at the same time, with a restart at any point.
CONSTANTS
    Clients = {first, second}
    Requests <- Windows
    Models <- ModelNames
    Supported <- Providers
    Base <- Yaml
    Assets = {"BTC", "ETH"}
    MaxRequests = 3
    MaxRestarts = 1
    None = None
SPECIFICATION Spec
SYMMETRY Interchangeable
INVARIANTS
    PatchesStick
    MatchedPairWhenSettled
    TotalCapCoversAssetCap
    ExchangeHasStoredLeverage
CHECK_DEADLOCK FALSE
