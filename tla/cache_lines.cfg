SPECIFICATION Spec
CONSTANTS
    a = a
    b = b
    c = c
    Threads = {a, b, c}
    NodeOf <- TwoOnNode1
    NodeCount = 2
    LockCount = 1
    NoThread = NoThread
    NoNode = NoNode
    SpinLimit = 0
    CallModes = {"timed"}
    StrayRelease = FALSE
    MayStop = FALSE
INVARIANTS ExclusionUnlessClobbered LostOnlyByLateGrant CacheInv
