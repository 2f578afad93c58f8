CONSTANTS
    j1 = j1  j2 = j2
    i1 = i1  i2 = i2
    o1 = o1  o2 = o2
    None = None
    Jobs <- TwoJobs
    Ids <- OneId
    Owners <- TwoOwners
    MaxRunning = 1
    MaxAttempts = 0
    MaxEpoch = 1
    Kinds = {"queued"}
    Messages = FALSE
    Refusals = TRUE
    Timely = TRUE
SPECIFICATION Spec
SYMMETRY Symmetry
INVARIANT ResultsGoToOwner
PROPERTY KeepsContract
CHECK_DEADLOCK FALSE
