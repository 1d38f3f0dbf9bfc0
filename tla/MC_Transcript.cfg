\* Two cycles, on any two models, of up to two turns.
CONSTANTS
    Models = {"claude-opus-4-7", "deepseek/deepseek-v3.2", "unknown"}
    Provider <- Served
    Replies <- SomeReplies
    Usages <- SomeUsages
    ListPrice <- Prices
    MaxTurns = 2
    MaxCycles = 2
SPECIFICATION Spec
INVARIANTS
    EveryCallAnswered
    DecisionTellsEveryCall
    SpendIsBooked
PROPERTIES
    RequestsExtend
CHECK_DEADLOCK FALSE
