\* One thread, and one restart at a bad moment.
SPECIFICATION FairSpec
CONSTANTS
    t1 = t1
    t2 = t2
    m1 = m1
    gmail = gmail
    Threads = {t1}
    Managers = {m1}
    ManagerOf <- Shared
    Services = {gmail}
    Uses <- OnlyGmail
    Threshold = 2
    OpenSeconds = 1
    MaxTrials = 1
    MaxCrashes = 1
PROPERTIES
    AlwaysRetried
