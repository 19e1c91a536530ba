SPECIFICATION FairSpec
CONSTANTS
    u1 = u1
    u2 = u2
    Urls = {u1, u2}
    WifiResumeDefers = 3
    WsStartDefers = 3
    Bounds <- MCBounds
INVARIANT TypeOK
INVARIANT BleGoesFirst
INVARIANT StartsNeverRecover
PROPERTY Recovers
CHECK_DEADLOCK FALSE
