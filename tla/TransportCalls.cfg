SPECIFICATION FairSpec
CONSTANTS
    t1 = t1
    t2 = t2
    Tasks = {t1, t2}
    None = None
    MaxSockets = 3
    MaxDrops = 2
    MaxCancels = 1
CHECK_DEADLOCK FALSE
INVARIANT TypeOK
INVARIANT SocketsAreServed
PROPERTY CallsEnd
