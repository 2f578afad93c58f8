CONSTANTS
    MaxMessages = 2
    MaxRuns = 2
    Opening = "user"
    OneAtATime = TRUE
    MaxLeaks = 1
    MaxNudges = 1

SPECIFICATION FairSpec

INVARIANT TypeOK
INVARIANT AbortReachesTheRun
INVARIANT TranscriptSound
PROPERTY NothingUnanswered
PROPERTY NothingVanishes
PROPERTY AbortedTakesNothing
PROPERTY AbortUnwinds
