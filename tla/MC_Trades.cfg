\* Fills of a coin in a window that may begin inside a position.
CONSTANTS
    Prices = {10, 13}
    Lots = {1, 2}
    MaxSize = 2
    MaxFills = 5
    InitialSizes <- AnyStart
    Fee = 1
SPECIFICATION ViewsSpec
INVARIANTS
    WalkFollowsPosition
    RoundTripsAddUp
    ViewsAgreeWhenSeen
PROPERTIES
    EmittedWhenPositionEnds
CHECK_DEADLOCK FALSE
