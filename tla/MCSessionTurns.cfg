CONSTANTS
    p1 = p1  r1 = r1  r2 = r2  r3 = r3  r4 = r4  r5 = r5  w1 = w1  w2 = w2  k1 = k1
    None = None
    Prompts <- MCPrompts
    Resumes <- MCResumes
    Wakes <- MCWakes
    Aborts <- MCAborts
    MaxMsgs = 2
    FromParent <- MCFromParent
    MaxRecords = 1
    Preflight = TRUE
SPECIFICATION Spec
INVARIANTS TypeOK NeverStuck RestIsSettled
CHECK_DEADLOCK FALSE
