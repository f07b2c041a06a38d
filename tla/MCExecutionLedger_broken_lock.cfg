\* Processes may die or stall while they hold the lock file.
SPECIFICATION FairSpec
CONSTANTS
    a1 = a1
    a2 = a2
    w1 = w1
    api = api
    worker = worker
    Free = Free
    Stale = Stale
    Actors <- MCPair
    Hosts <- MCHosts
    HostOf <- MCPairHostOf
    Keys = {k1, k2}
    MaxRecords = 1
    FileLock = TRUE
    HolderMayDie = TRUE
    HolderMayStall = TRUE
    MaxAttempts = 2
    MaxCrashes = 1
PROPERTIES
    EveryCallReturns
    StaleLockRemoved
CHECK_DEADLOCK FALSE
