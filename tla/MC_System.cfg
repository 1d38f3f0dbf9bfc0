SPECIFICATION Spec
CONSTANTS
    Workers = 1
    Cadence = 3
    JobTime = 1
    MaxOrders = 2
    MaxCrashes = 1
INVARIANTS
    SnapshotHeldAlone
    MonitorRunsInTime
PROPERTIES
    CyclesAreSpaced
    PauseTakesEffect
    LogSpec
