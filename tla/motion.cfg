SPECIFICATION SpecBytes
CONSTANTS
    Base = 4
    Axes = {"x", "y", "z"}
    INT16_MAX = 7
    V_MAX = 10
    PosHalf = 32768
    SeedStride = 16
    SeedVelX = 3
    StartPos <- MCStartPos
    StartVel <- MCStartVel
    Others <- MCOthers
    TickCounts = {0, 1, 2}
    MaxTicks = 3
INVARIANTS
    TicksCompose
    SpeedLimit
    NoDrift
    BytesAgree
PROPERTIES
    OnlyPositionMoves
CHECK_DEADLOCK FALSE
