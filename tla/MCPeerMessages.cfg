CONSTANTS
    main = main  s1 = s1  s2 = s2
    None = None
    Agents <- MCAgents
    Root = main
    MaxMsgs = 2
    MaxCalls = 2
    Synchronous <- MCSynchronous
    Planning <- MCPlanning
    Steady <- MCSteady
    MailboxCap = 1
SPECIFICATION FairSpec
INVARIANTS TypeOK WaitersWait NoHopelessWait
PROPERTIES KeepsContract MessagesArrive
CHECK_DEADLOCK FALSE
