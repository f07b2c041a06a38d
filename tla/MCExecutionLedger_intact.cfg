\* The lock works: nobody dies or stalls while it holds the lock file.
SPECIFICATION Spec
CONSTANTS
    a1 = a1
    a2 = a2
    w1 = w1
    api = api
    worker = worker
    Free = Free
    Stale = Stale
    Actors <- MCActors
    Hosts <- MCHosts
    HostOf <- MCHostOf
    Keys = {k1, k2}
    MaxRecords = 2
    FileLock = TRUE
    HolderMayDie = FALSE
    HolderMayStall = FALSE
    MaxAttempts = 4
    MaxCrashes = 1
INVARIANTS
    TypeOK
    AtMostOnce
    ExclusiveRun
    
PROPERTY
    ImplementsTable
CHECK_DEADLOCK FALSE
