SPECIFICATION FairSpec
CONSTANTS
    Entities = {e1}
    Exts = {x}
    None = None
    MaxJobs = 2
    MaxDeps = 1
    CreditLimit = 2
    Credits <- MCCredits
    CancelJob = {TRUE, FALSE}
    OwnWq = TRUE
CHECK_DEADLOCK FALSE
PROPERTIES JobsFreed FlushEnds
