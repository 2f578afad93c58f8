CONSTANTS
    c1 = c1
    c2 = c2
    l1 = l1
    x1 = x1
    x2 = x2
    Callers <- OneCaller
    Releasers <- OneRelease
    Scanners <- TwoScans
    MaxRefs = 2
    MaxSessions = 1
    Endings <- KeptAlive
    Kills = {"kill"}
    Resumed = TRUE
SPECIFICATION Spec
PROPERTIES KilledStaysKilled
