SPECIFICATION FairSpec
CONSTANTS
    Poses <- MCPoses
    Home = "home"
    Depth = 2
    States <- MCStates
    Actions <- MCActions
    Default = "standby"
    Hold = 1
    Asks <- MCAsks
    Statuses <- MCKnown
    MaxAge = 1
    MaxAsks = 2
    MaxManual = 1
    MinY = 90
    MaxY = 150
    StepMs = 10
INVARIANT TypeOK
INVARIANT MovesInOrder
PROPERTY FallsBack
CHECK_DEADLOCK FALSE
