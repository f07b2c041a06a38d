SPECIFICATION Spec
CONSTANTS
    a1 = a1
    w1 = w1
    early = early
    late = late
    undated = undated
    holiday = holiday
    s1 = s1
    NoItem = NoItem
    NoRule = NoRule
    Actors <- MCActors
    Hosts <- MCActors
    HostOf <- MCHostOf
    RuleIds = {r1}
    Items <- Mails
    TsOf <- MailTs
    AllDay <- NoHolidays
    Bodies <- TwoBodies
    SeenMax = 1
    Policies <- Open
    Regimes <- Both
    MaxTime = 1
    MaxRequests <- ThreeOrTwo
    MaxToggles <- TwoOrOne
    MaxCrashes = 1
INVARIANTS
    TypeOK
    
    PreviewIsKept
    NotifiedOnce
    
    
    EditSurvives
SYMMETRY Threads
CHECK_DEADLOCK FALSE
