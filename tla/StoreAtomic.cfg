SPECIFICATION FairSpec
CONSTANTS
    s1 = s1
    s2 = s2
    r1 = r1
    r2 = r2
    r3 = r3
    Sessions = {s1, s2}
    Requests = {r1, r2, r3}
    CancelAt = {"loading"}
    SaveMayFail = TRUE
    MaxRestarts = 1
    None = None
    Torn = Torn
    Original = Original
CHECK_DEADLOCK FALSE
INVARIANT StoreInv
PROPERTY LockFreed
PROPERTY StoreIsAtomic
