\* Times, generations and versions are bounded: each component stops.
SPECIFICATION MCSpec
CONSTANTS
    Downloads = {d1, d2}
    Files = {f1}
    Refs = {r1, r2, r3}
    Scopes = {s1, s2}
    Released = {s1}
    Storers = {t1, t2}
    MaxAge = 1
    Reloads = TRUE
    None = None
    CronMaxJobs = 2
    CronMaxTime = 2
    CronMaxGen = 2
    HeartChannels = {c1, c2}
    HeartMaxRecords = 2
    HeartMaxServices = 3
    MaxVersions = 4
    MayFail = TRUE
    PromptCallers = {k1, k2}
    PromptBootstrap <- MCBootstrap
    PromptMemory <- MCMemory
    PromptNotes <- MCNotes
    PromptRoots <- MCRoots
    PromptSkills = {a}
    PromptMaxEdits = 2
CHECK_DEADLOCK FALSE
INVARIANTS
    MapsAgree
    
    CronInv
    FilesInv
PROPERTY
    OnlyTheNewest
