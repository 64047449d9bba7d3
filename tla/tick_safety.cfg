SPECIFICATION Spec
CONSTANTS
    Base = 2
    Slash = 0
    Axes = {"x"}
    INT16_MAX = 7
    V_MAX = 10
    PosHalf = 64
    SeedStride = 16
    SeedVelX = 3
    Zones = {0, 1}
    Entities = {0, 1}
    Runs = {r1, r2}
    TickCounts = {1, 2}
    SeedCounts = {1, 2}
    ReadLimit = 4
    Faults = {"refuse", "submit_read", "submit_commit", "submit_on_error", "badarray", "retryable", "commit_unknown", "fatal", "crash"}
    MaxFaults = 2
    MaxSeeds = 2
SYMMETRY RunSymmetry
INVARIANTS
    TypeOK
    CallbacksHaveContext
    DoneOnce
    OkMeansApplied
    OnCourse
    ReadIsCurrent
PROPERTIES
    NoLostUpdate
    ZoneIsolation
CHECK_DEADLOCK FALSE
