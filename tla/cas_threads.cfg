SPECIFICATION FairSpec
CONSTANTS
    a = a
    b = b
    c = c
    Threads = {a, b, c}
    NodeOf <- TwoOnNode0
    NodeCount = 2
    LockCount = 1
    NoThread = NoThread
    NoNode = NoNode
    SpinLimit = 0
    CallModes = {"timed", "long", "try"}
    StrayRelease = FALSE
    MayStop = TRUE
INVARIANTS IInv MutualExclusion
PROPERTIES CallsReturn StopCompletes NoStuckWaiter LowestNodeServed
