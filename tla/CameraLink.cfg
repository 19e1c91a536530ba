CONSTANTS
    Clients = {"ws", "stream"}
    Profiles = {0, 1}
    Power = 0
    EventQueue = 1
    MaxRequests = 3
    MaxLosses = 1
    MaxCrashes = 1
    MaxCalls = 3
SPECIFICATION FairSpec
INVARIANT TypeOK
INVARIANT MarksTrue
PROPERTY CallsReturn
CHECK_DEADLOCK FALSE
