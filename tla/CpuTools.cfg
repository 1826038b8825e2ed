SPECIFICATION Spec
CONSTANTS
    t1 = t1
    t2 = t2
    t3 = t3
    b1 = b1
    b2 = b2
    Tasks = {t1, t2}
    Ops = {"read", "pause", "resume", "snapshot", "step", "until", "wait", "trace", "stats", "set", "update", "remove"}
    Bps = {b1}
    None = None
    MaxTicks = 4
    EventQueueMax = 2
    SubQueueMax = 2
    MaxNoAdvance = 2
    MaxFaults = 1
    MaxCancels = 1
    StormHits = 2
CHECK_DEADLOCK FALSE
INVARIANT CpuSafe
INVARIANT TraceReleases
PROPERTY WaitMissesNothing
PROPERTY ResumeIsFresh
SYMMETRY TaskSymmetry
