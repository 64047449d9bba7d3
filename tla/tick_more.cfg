SPECIFICATION Spec
CONSTANTS
    Base = 2
    Slash = 0
    Axes = {"x"}
    INT16_MAX = 7
    V_MAX = 10
    PosHalf = 64
    SeedStride = 16
    SeedVelX = 3
    Zones = {0, 1}
    Entities = {0, 1}
    Runs = {r1, r2}
    TickCounts = {1}
    SeedCounts = {2}
    ReadLimit = 1
    Faults = {}
    MaxFaults = 0
    MaxSeeds = 1
INVARIANTS
    RestPickedUp
CHECK_DEADLOCK FALSE
