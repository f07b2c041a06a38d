\* Two threads on one manager, with a restart.
SPECIFICATION FairSpec
CONSTANTS
    t1 = t1
    t2 = t2
    m1 = m1
    gmail = gmail
    Threads = {t1, t2}
    Managers = {m1}
    ManagerOf <- Shared
    Services = {gmail}
    Uses <- OnlyGmail
    Threshold = 3
    OpenSeconds = 2
    MaxTrials = 2
    MaxCrashes = 1
INVARIANTS
    TypeOK
    
    DiskIsCurrent
PROPERTIES
    NoCallInCooldown
    
