SPECIFICATION FairSpec
CONSTANTS
    s1 = s1
    s2 = s2
    c1 = c1
    c2 = c2
    k1 = k1
    k2 = k2
    Sessions = {s1, s2}
    Resilient = {s1}
    Restored = {s2}
    Callers = {c1}
    Stoppers = {k1}
    MaxRestarts = 1
    SharedPort = TRUE
    MayFail = {"start", "launcher", "pid", "save"}
    MaxCrashes = 0
    MaxIdle = 0
    MaxCancels = 1
    MaxGcCycles = 0
    None = None
    Closing = Closing
CHECK_DEADLOCK FALSE
PROPERTY StartsEnd
PROPERTY StopsEnd
PROPERTY CallsEnd
