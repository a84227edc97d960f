---------------------------- MODULE GlobalLockSpec ----------------------------
(***************************************************************************)
(* What a GlobalLockAlgorithm promises (src/include/lock_interface.h),     *)
(* whatever its shared-memory protocol: a node asks for a lock and may     *)
(* take the request back at any time; a lock without owner is given to one *)
(* of the nodes asking for it; the owner, and nobody else, may use the     *)
(* lock; only the owner ends its ownership, whether it used the lock or    *)
(* was given it too late to want it.                                       *)
(***************************************************************************)
CONSTANTS Nodes, Locks, NoNode

VARIABLES
    waiting,   \* waiting[l]: nodes asking for lock l
    owner,     \* owner[l]: the node the lock is given to, or NoNode
    using      \* using[l]: nodes whose acquisition of l returned SUCCESS

absVars == <<waiting, owner, using>>

Init ==
    /\ waiting = [l \in Locks |-> {}]
    /\ owner = [l \in Locks |-> NoNode]
    /\ using = [l \in Locks |-> {}]

Request(n, l) ==
    /\ n \notin waiting[l] /\ owner[l] # n
    /\ waiting' = [waiting EXCEPT ![l] = @ \cup {n}]
    /\ UNCHANGED <<owner, using>>

Withdraw(n, l) ==
    /\ n \in waiting[l]
    /\ waiting' = [waiting EXCEPT ![l] = @ \ {n}]
    /\ UNCHANGED <<owner, using>>

Grant(n, l) ==
    /\ owner[l] = NoNode
    /\ n \in waiting[l]
    /\ waiting' = [waiting EXCEPT ![l] = @ \ {n}]
    /\ owner' = [owner EXCEPT ![l] = n]
    /\ UNCHANGED using

Enter(n, l) ==
    /\ owner[l] = n
    /\ n \notin using[l]
    /\ using' = [using EXCEPT ![l] = @ \cup {n}]
    /\ UNCHANGED <<waiting, owner>>

Leave(n, l) ==
    /\ n \in using[l]
    /\ using' = [using EXCEPT ![l] = @ \ {n}]
    /\ UNCHANGED <<waiting, owner>>

Free(n, l) ==
    /\ owner[l] = n
    /\ n \notin using[l]
    /\ owner' = [owner EXCEPT ![l] = NoNode]
    /\ UNCHANGED <<waiting, using>>

Next ==
    \E n \in Nodes, l \in Locks :
        \/ Request(n, l) \/ Withdraw(n, l) \/ Grant(n, l)
        \/ Enter(n, l) \/ Leave(n, l) \/ Free(n, l)

Spec == Init /\ [][Next]_absVars
=============================================================================
