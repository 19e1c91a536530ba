CONSTANTS
    Types = {"happy", "standby", "error"}
    FrameCount <- MCFrameCount
    Looping = {"happy", "standby"}
    Ring = 2
    MaxStarts = 3
    MaxFailures = 1
    Texts = {"hi"}
    Notices = {"bye"}
    Happy = "happy"
    Standby = "standby"
    MaxStops = 1
    MaxUpdates = 3
SPECIFICATION DisplayFairSpec
INVARIANT DisplayTypeOK
INVARIANT LastAskedShown
PROPERTY DrawnRight
PROPERTY GoesOn
CHECK_DEADLOCK FALSE
