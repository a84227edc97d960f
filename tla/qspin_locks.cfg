SPECIFICATION Spec
CONSTANTS
    a = a
    b = b
    Threads = {a, b}
    NodeOf <- OnePerTwoNodes
    NodeCount = 2
    LockCount = 2
    NoThread = NoThread
    NoNode = NoNode
    NoLock = NoLock
    SpinLimit = 0
    CallModes = {"long"}
    StrayRelease = FALSE
    MayStop = FALSE
INVARIANT MutualExclusion
