SPECIFICATION Spec
CONSTANTS
    a1 = a1
    a2 = a2
    remind = remind
    draft = draft
    search = search
    rem = rem
    mail = mail
    cal = cal
    NoSkill = NoSkill
    NoTask = NoTask
    Actors <- MCActors
    Skills <- MCSkills
    WriteSkills <- Writes
    ScopeOf <- MCScopeOf
    ReadScopes = {cal}
    Commands <- MCCommands
    Answers <- MCAnswers
    Allowlist = FALSE
    EnvScopes = {rem, mail}
    EnvRules = {mail}
    DefaultRules = {rem}
    MaxChats = 2
    MaxChanges = 2
    MaxFaults = 1
INVARIANTS
    TypeOK
    WritesNeedApproval
    OnlyReviewedSteps
    Recorded
    
SYMMETRY Threads
CHECK_DEADLOCK FALSE
