SPECIFICATION FairSpec
CONSTANTS
    MaxWorkers = 3
    WorkerArgs <- MCWorkerArgs
    SizeWidth = 8
    ZoneWidth = 4
    ZoneArgs = {1, 5}
INVARIANTS
    WorkersHaveMemory
    CleanExit
PROPERTIES
    ShutsDown
CHECK_DEADLOCK FALSE
