SPECIFICATION Spec
CONSTANTS
    a = a
    b = b
    c = c
    Threads = {a, b}
    NodeOf <- OnePerTwoNodes
    NodeCount = 2
    LockCount = 1
    NoThread = NoThread
    NoNode = NoNode
    TicketBound = 4
    SpinLimit = 0
    CallModes = {"long"}
    StrayRelease = FALSE
    MayStop = FALSE
INVARIANT MutualExclusion
