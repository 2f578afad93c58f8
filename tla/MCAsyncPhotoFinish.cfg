CONSTANTS
    j1 = j1  j2 = j2
    i1 = i1  i2 = i2
    o1 = o1  o2 = o2
    None = None
    Jobs <- OneJob
    Ids <- OneId
    Owners <- OneOwner
    MaxRunning = 1
    MaxAttempts = 0
    MaxEpoch = 0
    Kinds = {"running"}
    Messages = TRUE
    Refusals = FALSE
    Timely = TRUE
SPECIFICATION Spec
INVARIANT NoLostResult
CHECK_DEADLOCK FALSE
