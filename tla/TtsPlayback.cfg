SPECIFICATION FairSpec
CONSTANTS
    Depth = 2
    Start = 2
    MaxFrames = 3
    MaxChunks = 2
    MaxEvents = 1
INVARIANT TypeOK
PROPERTY PlayedRight
PROPERTY LocalSounds
PROPERTY Completes
CHECK_DEADLOCK FALSE
