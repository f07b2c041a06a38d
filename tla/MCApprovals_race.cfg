SPECIFICATION Spec
CONSTANTS
    a1 = a1
    w1 = w1
    api = api
    worker = worker
    Actors <- MCActors
    Hosts <- MCHosts
    HostOf <- MCHostOf
    Ids = {i1}
    AutoCleans <- Cleaning
    Regimes <- Concurrent
    MaxRequests = 3
    MaxToggles = 0
    MaxCrashes = 0
INVARIANT
    RejectedNeverExecuted
CHECK_DEADLOCK FALSE
