SPECIFICATION FairSpec
CONSTANTS
    s1 = s1
    s2 = s2
    b1 = b1
    b2 = b2
    b3 = b3
    c1 = c1
    Sessions = {s1, s2}
    Jobs = {b1, b2, b3}
    Callers = {c1}
    Retention = 1
    Steps = 1
    None = None
CHECK_DEADLOCK FALSE
INVARIANT TypeOK
INVARIANT OneActivePerSession
INVARIANT RegistryInv
INVARIANT LockFollowsBody
PROPERTY TerminalIsFinal
PROPERTY JobsEnd
