SPECIFICATION FairSpec
CONSTANTS
    a = a
    b = b
    Threads = {a, b}
    NodeOf <- OnePerTwoNodes
    NodeCount = 2
    LockCount = 1
    NoThread = NoThread
    NoNode = NoNode
    NoLock = NoLock
    SpinLimit = 0
    CallModes = {"long"}
    StrayRelease = FALSE
    MayStop = FALSE
INVARIANTS MutualExclusion QspinInv
PROPERTIES ImplementsGlobalLock ReleasesReturn
