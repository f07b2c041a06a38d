SPECIFICATION Spec
CONSTANTS
    a1 = a1
    a2 = a2
    Actors <- MCActors
    Artifacts <- ThreeFiles
    Deduped <- ById
    Retention <- KeepTwo
    FactKeys = {1, 2}
    Starts <- Damaged
    StartIds = 2
    Flags <- Repairing
    MaxTime = 1
    MaxRequests = 3
    MaxOverlap = 2
    MaxCrashes = 1
INVARIANTS
    TypeOK
    NothingVanishes
    NewestCopiesSurvive
    OneFactPerKey
    RepairHeals
    StatusIsLatest
SYMMETRY Threads
CHECK_DEADLOCK FALSE
