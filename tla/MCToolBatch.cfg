CONSTANTS
    N = 2
    Batches <- Pairs
    Immediate = TRUE

SPECIFICATION FairSpec

INVARIANT TypeOK
INVARIANT TellsWhatHappened
INVARIANT InBatchOrder
INVARIANT PeersSpareForeground
PROPERTY StartsAllowed
PROPERTY AbortUnwinds
PROPERTY MessagesGetThrough
