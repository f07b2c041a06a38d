\* A process dies while it holds the lock file.
SPECIFICATION Spec
CONSTANTS
    a1 = a1
    a2 = a2
    w1 = w1
    api = api
    worker = worker
    Free = Free
    Stale = Stale
    Actors <- MCActors
    Hosts <- MCHosts
    HostOf <- MCHostOf
    Keys = {k1}
    MaxRecords = 0
    FileLock = TRUE
    HolderMayDie = TRUE
    HolderMayStall = FALSE
    MaxAttempts = 3
    MaxCrashes = 1
INVARIANT
    AtMostOnce
CHECK_DEADLOCK FALSE
