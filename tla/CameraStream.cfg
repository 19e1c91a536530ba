SPECIFICATION FairSpec
CONSTANTS
    MaxCmds = 3
    MaxEnds = 1
    MaxReplies = 1
INVARIANT TypeOK
INVARIANT FrameCopies
PROPERTY ServerGets
PROPERTY StopAndStart
CHECK_DEADLOCK FALSE
