CONSTANTS
    MaxTurns = 4
    MaxFailures = 2
    MaxSessions = 3
    MaxSuspends = 2
SPECIFICATION RecorderFairSpec
INVARIANT RecorderTypeOK
INVARIANT OnlyWhileHeld
INVARIANT ListensAgain
PROPERTY TalkEnds
CHECK_DEADLOCK FALSE
