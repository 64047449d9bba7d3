SPECIFICATION FairSpecTick
CONSTANTS
    MaxTicks = 3
    CallThreads = {"main", "net"}
    NetThread = "net"
    MaxErrors = 2
INVARIANTS
    TypeOK
    OneInFlight
    CountsHonest
    NoCallbackAfterExit
    FramesHaveObjects
    NothingLeaks
    OneOwner
    StackBounded
    PrintedTotals

    
CHECK_DEADLOCK FALSE
