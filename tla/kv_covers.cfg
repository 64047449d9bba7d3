SPECIFICATION KeysSpec
CONSTANTS
    Base = 3
    Slash = 1
    ZoneIds = {0, 1, 3, 40, 41, 80}
    EntityIds = {0, 1, 2, 3, 9, 26, 27, 40, 41, 52, 53, 54, 55, 79, 80}
    MaxKeys = 2
INVARIANTS
    ScanCoversEveryId
CHECK_DEADLOCK FALSE
