SPECIFICATION FairSpec
CONSTANTS
    Base = 2
    Slash = 0
    Axes = {"x"}
    INT16_MAX = 7
    V_MAX = 10
    PosHalf = 64
    SeedStride = 16
    SeedVelX = 3
    Zones = {0, 1}
    Entities = {0, 1}
    Runs = {r1}
    TickCounts = {1}
    SeedCounts = {1}
    ReadLimit = 4
    Faults = {"fatal"}
    MaxFaults = 1
    MaxSeeds = 1
PROPERTIES
    TickFinishes
CHECK_DEADLOCK FALSE
