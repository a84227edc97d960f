SPECIFICATION Spec
CONSTANTS
    a = a
    b = b
    c = c
    Threads = {a, b}
    NodeOf <- OnePerTwoNodes
    NodeCount = 2
    LockCount = 2
    NoThread = NoThread
    NoNode = NoNode
    SpinLimit = 0
    CallModes = {"timed", "zero", "try"}
    StrayRelease = FALSE
    MayStop = FALSE
INVARIANTS TypeOK NoOrphanSlot HolderProtected NoLeakedMutex
PROPERTY ImplementsGlobalLock
