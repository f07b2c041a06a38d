SPECIFICATION Spec
CONSTANTS
    a1 = a1
    w1 = w1
    api = api
    worker = worker
    Actors <- MCActors
    Hosts <- MCHosts
    HostOf <- MCHostOf
    Ids = {i1, i2}
    AutoCleans <- Both
    Regimes <- Both
    MaxRequests = 4
    MaxToggles = 1
    MaxCrashes = 1
INVARIANTS
    TypeOK
    
    BarredRequestWritesNothing
    UndecidedIsPending
    DecisionIsFinal
CHECK_DEADLOCK FALSE
