SPECIFICATION Spec
CONSTANTS
    QueueDepth = 2
    Actions = {"happy"}
    Statuses = {"unconfigured", "disconnected"}
    MaxSessions = 1
    StatusShapes <- MCShapes
    Configs <- MCConfigs
    Supported <- MCSupported
    MaxLines = 2
    MaxCommands = 3
    MaxOther = 1
INVARIANT TypeOK
INVARIANT StatusTold
PROPERTY AnswersKept
CHECK_DEADLOCK FALSE
