SPECIFICATION Spec
CONSTANTS
    a1 = a1
    w1 = w1
    early = early
    late = late
    undated = undated
    holiday = holiday
    s1 = s1
    NoItem = NoItem
    NoRule = NoRule
    Actors <- MCActors
    Hosts <- MCActors
    HostOf <- MCHostOf
    RuleIds = {r1}
    Items <- Events
    TsOf <- EventTs
    AllDay <- Holidays
    Bodies <- OneBody
    SeenMax = 2
    Policies <- Open
    Regimes <- Orderly
    MaxTime = 1
    MaxRequests <- ThreeOrTwo
    MaxToggles <- None
    MaxCrashes = 0
INVARIANT
    NoDuplicateNotification
CHECK_DEADLOCK FALSE
