SPECIFICATION Spec
CONSTANTS
    a = a
    b = b
    c = c
    Threads = {a, b, c}
    NodeOf <- TwoOnNode0
    NodeCount = 2
    LockCount = 1
    NoThread = NoThread
    NoNode = NoNode
    TicketBound = 4
    SpinLimit = 0
    CallModes = {"timed"}
    StrayRelease = FALSE
    MayStop = FALSE
INVARIANTS TypeOK WaiterVisible NoOrphanTicket ServesDrawnTickets RecordInv
