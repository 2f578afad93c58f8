CONSTANTS
    c1 = c1
    c2 = c2
    l1 = l1
    x1 = x1
    x2 = x2
    Callers <- TwoCallers
    Releasers <- OneRelease
    Scanners <- OneScan
    MaxRefs = 2
    MaxSessions = 2
    Endings <- AllEndings
    Kills = {"kill", "cancel"}
    Resumed = FALSE
SPECIFICATION FairSpec
INVARIANTS TypeOK IdleIsTimed OneSession
PROPERTIES HandsOutAttached DeathIsFinal EveryCallEnds
