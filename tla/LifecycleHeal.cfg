SPECIFICATION Spec
CONSTANTS
    s1 = s1
    s2 = s2
    c1 = c1
    c2 = c2
    k1 = k1
    k2 = k2
    Sessions = {s1, s2}
    Resilient = {s1, s2}
    Restored = {}
    Callers = {c1}
    Stoppers = {}
    MaxRestarts = 2
    SharedPort = TRUE
    MayFail = {"save"}
    MaxCrashes = 1
    MaxIdle = 0
    MaxCancels = 0
    MaxGcCycles = 0
    None = None
    Closing = Closing
CHECK_DEADLOCK FALSE
INVARIANT TypeOK
PROPERTY NothingOrphaned
