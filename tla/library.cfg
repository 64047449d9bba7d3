SPECIFICATION LibrarySpec
CONSTANTS
    Base = 3
    Slash = 1
    ZoneIds = {0, 1, 3, 40, 41, 80}
    EntityIds = {0, 1, 2, 3, 9, 26, 27, 40, 41, 52, 53, 54, 55, 79, 80}
    MaxKeys = 2
    Actions = {"OBSERVE", "INTERACT", "MODIFY", "unknown"}
    ClaimLengths = {0, 1, 2, 3}
    Nodes = {n1, n2, n3}
    NULL = NULL
    HEAD = HEAD
    Unit = 2000
    EPS = 40
    Tiny = 0
    Small = 8
    Tol = 20
    Turns = 30
    Sweeps = 50
    AlignCalls <- MCAlignCalls
    KabschCalls <- MCKabschCalls
INVARIANTS
    KeysAreDistinct
    ScanIsolated
    ScanInIdOrder
    ScanFindsLowIds
    GrantedByOneRelation
    Represents
    RodriguesRotates
    
    NsBounded
    
PROPERTIES
    QueueIsFifo
CHECK_DEADLOCK FALSE
