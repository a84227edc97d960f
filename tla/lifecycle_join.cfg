SPECIFICATION LifecycleSpec
CONSTANTS
    a = a
    b = b
    c = c
    Threads = {a, b}
    NodeOf <- OnePerNode
    NodeCount = 2
    LockCount = 1
    NoThread = NoThread
    NoNode = NoNode
    SpinLimit = 0
    CallModes = {"timed"}
    StrayRelease = FALSE
    MayStop = TRUE
    MaxStarts = 1
INVARIANT MutualExclusion
CHECK_DEADLOCK FALSE
