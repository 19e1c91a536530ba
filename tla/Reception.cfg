SPECIFICATION Spec
CONSTANTS
    HeaderLen = 2
    MaxLen = 4
    BufferLen = 3
    MaxFrames = 3
    MaxLost = 1
INVARIANT TypeOK
PROPERTIES ImplementsChannel CleanFrameDelivered
CHECK_DEADLOCK FALSE
