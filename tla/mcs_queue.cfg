SPECIFICATION FairSpec
CONSTANTS
    a = a
    b = b
    c = c
    Threads = {a, b, c}
    NodeOf <- OnePerNode
    NodeCount = 3
    LockCount = 1
    NoThread = NoThread
    NoNode = NoNode
    NoLock = NoLock
    SpinLimit = 0
    CallModes = {"long"}
    StrayRelease = FALSE
    MayStop = FALSE
INVARIANTS MutualExclusion HandoverToWaiter McsInv
PROPERTIES FifoGrants ReleasesLetGo
