CONSTANTS
    max_workers = 2
    ClientFds = {5, 6, 7, 8}
    MapSize = 8
    MaxConnections = 4
    SleepCoversStartup = TRUE
    WorkersMayDie = {0, 1}
    StartMayFail = {0, 1}
    MasterMayDie = TRUE
SPECIFICATION FairSpec
INVARIANTS TypeOK NoStaleEvent OneOwner NoOrphan
PROPERTY EventuallyHandled
CHECK_DEADLOCK FALSE
