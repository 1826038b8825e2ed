SPECIFICATION MCSpec
CONSTANTS
    Parts = {"search"}
    KernelEnd = 4
    PlainInKernel <- MCPlain
    Declared <- MCDeclared
    Base = 8
    Margin = 1
    HeuristicSize = 6
    Images <- MCImages
    Writes <- MCWrites
    InstrWidth = 2
    MaxInstructions = 2
    MemTop = 5
    ByteValues = {0, 1}
    ScanJobs <- MCScanJobs
    DefaultLength = 2
    MaxRead = 4
    ForegroundMax = 3
    MaxLines = 2
    MaxTimeouts = 1
    MaxChanges = 2
    MaxPokes = 2
    Callers = {"t1", "t2", "t3"}
    Sessions = {"s1"}
    Handles = {1, 2, 3, 4}
    Cells = {1, 2}
    Configured = {"p"}
    UserProbes = {"u"}
    TableCap = 2
    Streak = 2
    MaxFileEdits = 1
    Spots = {4}
    Sizes = {4, 16}
    Conditions = {"c"}
    MaxEdits = 2
    MaxFaults = 1
    CodeTop = 4
    EndArguments = {0, 3, 4}
    Maxes = {0, 1, 9}
    ResultsCap = 9
    MatchCap = 2
    LogMax = 3
    LogLines <- MCLogLines
    MaxPatches = 1
    MaxMeddling = 1
    MaxLost = 2
    Requesters = {"r1", "r2"}
    LockFree = {"r2"}
    RingCap = 2
    MaxWire = 1
    MaxRequests = 2
    TapeNames = {"a"}
    Buttons = {"x"}
    Sticks = {0}
    MaxFrames = 1
    PollBudget = 2
    WaitFrames = 2
    LivenessChunk = 1
    StepPlans <- MCStepPlans
    ForeBudget = 6
    BackBudget = 8
    StepCap = 3
    BusyWait = 1
    Windows = {"s1"}
    Platforms = {"win32", "posix"}
    WholeSize = 2
    MaxScans = 4
    MaxFiles = 2
    Sites <- MCSites
    Ports = {1, 2}
    ConfigPort = 2
    Attempts = 2
    PortPolls = 1
    GatePolls = 1
    MaxOthers = 1
    MaxKept = 1
    Scripts = {"a"}
    Reloaders = {"start", "r1"}
    MaxManifests = 1
    MaxVersions = 2
    Clients = {"c1"}
    Games = {"g1"}
    ToolNames = {"t"}
    Rates = {0, 1}
    BucketTtl = 1
    PruneAbove = 0
    PruneEvery = 1
    Placements = {"params"}
    BootPolls = 2
    MaxClock = 2
    MaxCalls = 3
CHECK_DEADLOCK FALSE
INVARIANT LoopIgnoresEnd
