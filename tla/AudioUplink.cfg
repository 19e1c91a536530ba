SPECIFICATION FairSpec
CONSTANTS
    Depth = 2
    MaxFrames = 3
    MaxConns = 2
    MaxStops = 1
    MaxSeq = 3
    Spent <- MCSpent
INVARIANT TypeOK
INVARIANT SlotOwnership
INVARIANT PacketsInPlace
PROPERTY SentInOrder
PROPERTY WorkerDrains
CHECK_DEADLOCK FALSE
