CONSTANTS
    j1 = j1  j2 = j2
    i1 = i1  i2 = i2
    o1 = o1  o2 = o2
    None = None
    Jobs <- TwoJobs
    Ids <- TwoIds
    Owners <- OneOwner
    MaxRunning = 2
    MaxAttempts = 1
    MaxEpoch = 0
    Kinds = {"running", "foreground"}
    Messages = TRUE
    Refusals = TRUE
    Timely = TRUE
SPECIFICATION FairSpec
INVARIANTS TypeOK NoRepeat
PROPERTIES ReapMeansSettled EveryResultArrives
CHECK_DEADLOCK FALSE
