SPECIFICATION Spec
CONSTANTS
    s1 = s1
    s2 = s2
    c1 = c1
    c2 = c2
    k1 = k1
    k2 = k2
    Sessions = {s1, s2}
    Resilient = {}
    Restored = {s2}
    Callers = {c1, c2}
    Stoppers = {k1}
    MaxRestarts = 0
    SharedPort = FALSE
    MayFail = {"launcher", "reclaim"}
    MaxCrashes = 0
    MaxIdle = 1
    MaxCancels = 0
    MaxGcCycles = 1
    None = None
    Closing = Closing
CHECK_DEADLOCK FALSE
PROPERTY ProcessFindable
