SPECIFICATION Spec
CONSTANTS
    a1 = a1
    w1 = w1
    api = api
    worker = worker
    Briefing = Briefing
    Actors <- MCActors
    Hosts <- MCHosts
    HostOf <- MCHostOf
    Reminders = {r1}
    Discords = {TRUE, FALSE}
    Retries = 1
    MaxTime = 1
    MaxEdits = 2
    MaxFaults = 1
INVARIANTS
    TypeOK
    SentOnceUnlessFailed
    DeliveriesBounded

    
    
CHECK_DEADLOCK FALSE
