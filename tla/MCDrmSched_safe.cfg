SPECIFICATION Spec
CONSTANTS
    Entities = {e1, e2}
    Exts = {x}
    None = None
    MaxJobs = 2
    MaxDeps = 1
    CreditLimit = 2
    Credits <- MCCredits
    CancelJob = {TRUE, FALSE}
    OwnWq = TRUE
SYMMETRY Symm
CHECK_DEADLOCK FALSE
INVARIANTS OneOwner CreditBalance OrderKept DepsHonoured EntityHeld
PROPERTIES ImplementsJobServer
