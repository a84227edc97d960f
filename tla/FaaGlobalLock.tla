---------------------------- MODULE FaaGlobalLock ----------------------------
(***************************************************************************)
(* The FAA (ticket) algorithm (src/src/faa_global_lock.cpp) under the      *)
(* two-tier lock and the lock manager: counters per lock, one ticket       *)
(* record per node that all locks share.  One action per shared-memory     *)
(* access.                                                                 *)
(***************************************************************************)
EXTENDS LockManager

CONSTANT TicketBound    \* tickets a lock gives out (2^32 - 1 in the code)

ASSUME TicketAssumption == TicketBound \in Nat

VARIABLES
    next_ticket, now_serving, owner,  \* FaaGlobalLockEntry of each lock
    ticket, active,                   \* FaaNodeTicket of each node
    step,       \* where thread t is inside acquire_lock, release_lock or a poll
    mine,       \* its local my_ticket in acquire_lock
    seen,       \* now_serving as its poll loaded it
    mstep,      \* where the manager is inside check_grant or grant_lock
    nid,        \* nid of check_grant
    min_ticket, min_node,    \* locals of check_grant
    grant_ticket             \* local of grant_lock

entryVars == <<next_ticket, now_serving, owner>>
recordVars == <<ticket, active>>
callVars == <<step, mine, seen>>
checkVars == <<mstep, nid, min_ticket, min_node, grant_ticket>>
algoVars == <<entryVars, recordVars, callVars, checkVars>>
vars == <<clientVars, managerVars, algoVars>>

Tickets == 0 .. TicketBound
SomeNode == Nodes \cup {NoNode}

TypeOK ==
    /\ ClientTypeOK
    /\ ManagerTypeOK
    /\ next_ticket \in [Locks -> Tickets]
    /\ now_serving \in [Locks -> Tickets]
    /\ owner \in [Locks -> SomeNode]
    /\ ticket \in [Nodes -> Tickets]
    /\ active \in [Nodes -> 0 .. 1]
    /\ step \in [Threads -> {"start", "ticket", "active", "owner"}]
    /\ mine \in [Threads -> Tickets]
    /\ seen \in [Threads -> Tickets]
    /\ mstep \in {"start", "active", "ticket", "owner", "serving"}
    /\ nid \in Nodes
    /\ min_ticket \in Tickets
    /\ min_node \in SomeNode
    /\ grant_ticket \in Tickets

Init ==
    /\ ClientInit
    /\ ManagerInit
    /\ next_ticket = [l \in Locks |-> 0]
    /\ now_serving = [l \in Locks |-> 0]
    /\ owner = [l \in Locks |-> NoNode]
    /\ ticket = [n \in Nodes |-> 0]
    /\ active = [n \in Nodes |-> 0]
    /\ step = [t \in Threads |-> "start"]
    /\ mine = [t \in Threads |-> 0]
    /\ seen = [t \in Threads |-> 0]
    /\ mstep = "start"
    /\ nid = 0
    /\ min_ticket = TicketBound
    /\ min_node = NoNode
    /\ grant_ticket = 0

-----------------------------------------------------------------------------
(* Steps of the clients. *)

Go(t, s) == step' = [step EXCEPT ![t] = s]

\* The algorithm's function returns to the two-tier lock.
Finish(t, label) ==
    /\ Goto(t, label)
    /\ Go(t, "start")
    /\ UNCHANGED <<arg, mode, spins, mutex, held>>

Forget(f, t) == [f EXCEPT ![t] = 0]

\* Mutant of AcquireLock: the active flag is not set.
AcquireLockInactive(t) ==
    LET l == arg[t] IN
    /\ pc[t] = "request"
    /\ \/ /\ step[t] = "start"
          /\ next_ticket[l] < TicketBound
          /\ mine' = [mine EXCEPT ![t] = next_ticket[l]]
          /\ next_ticket' = [next_ticket EXCEPT ![l] = @ + 1]
          /\ Go(t, "ticket")
          /\ UNCHANGED <<clientVars, ticket>>
       \/ /\ step[t] = "ticket"
          /\ ticket' = [ticket EXCEPT ![NodeOf[t]] = mine[t]]
          /\ mine' = Forget(mine, t)
          /\ Finish(t, "poll")
          /\ UNCHANGED next_ticket
    /\ UNCHANGED <<now_serving, owner, active, seen>>

\* acquire_lock: fetch_add of next_ticket, then plain stores of the ticket and
\* of the active flag.
AcquireLock(t) ==
    LET n == NodeOf[t]
        l == arg[t]
    IN
    /\ pc[t] = "request"
    /\ \/ /\ step[t] = "start"
          /\ next_ticket[l] < TicketBound
          /\ mine' = [mine EXCEPT ![t] = next_ticket[l]]
          /\ next_ticket' = [next_ticket EXCEPT ![l] = @ + 1]
          /\ Go(t, "ticket")
          /\ UNCHANGED <<clientVars, recordVars>>
       \/ /\ step[t] = "ticket"
          /\ ticket' = [ticket EXCEPT ![n] = mine[t]]
          /\ mine' = Forget(mine, t)
          /\ Go(t, "active")
          /\ UNCHANGED <<clientVars, next_ticket, active>>
       \/ /\ step[t] = "active"
          /\ active' = [active EXCEPT ![n] = 1]
          /\ Finish(t, "poll")
          /\ UNCHANGED <<next_ticket, ticket, mine>>
    /\ UNCHANGED <<now_serving, owner, seen>>

\* poll_for_grant loads now_serving, the node's ticket and its active flag;
\* granted = now_serving >= ticket /\ active.
Poll(t) ==
    LET n == NodeOf[t]
        late == step[t] = "ticket" /\ seen[t] < ticket[n]
        inactive == step[t] = "active" /\ active[n] = 0
    IN
    /\ pc[t] = "poll"
    /\ \/ /\ step[t] = "start"
          /\ seen' = [seen EXCEPT ![t] = now_serving[arg[t]]]
          /\ Go(t, "ticket")
          /\ UNCHANGED clientVars
       \/ /\ step[t] = "ticket" /\ ~late
          /\ seen' = Forget(seen, t)
          /\ Go(t, "active")
          /\ UNCHANGED clientVars
       \/ /\ step[t] = "active" /\ ~inactive
          /\ PollGranted(t)
          /\ Go(t, "start")
          /\ UNCHANGED seen
       \/ /\ late \/ inactive
          /\ PollAgain(t) \/ PollGivesUp(t)
          /\ Go(t, "start") /\ seen' = Forget(seen, t)
    /\ UNCHANGED <<entryVars, recordVars, mine>>

AfterRelease(t) == IF pc[t] = "release" THEN "releaseLocal" ELSE "cancelLocal"

\* Mutant of ReleaseLock: the ticket stays active.
ReleaseLockActive(t) ==
    LET n == NodeOf[t] IN
    /\ pc[t] \in {"release", "cancel"}
    /\ \/ /\ step[t] = "start"
          /\ ticket' = [ticket EXCEPT ![n] = 0]
          /\ Go(t, "owner")
          /\ UNCHANGED <<clientVars, owner>>
       \/ /\ step[t] = "owner"
          /\ owner' = [owner EXCEPT ![arg[t]] = NoNode]
          /\ Finish(t, AfterRelease(t))
          /\ UNCHANGED ticket
    /\ UNCHANGED <<next_ticket, now_serving, active, mine, seen>>

\* release_lock: clears the node's ticket and active flag, and the owner
\* whoever that is.
ReleaseLock(t) ==
    LET n == NodeOf[t] IN
    /\ pc[t] \in {"release", "cancel"}
    /\ \/ /\ step[t] = "start"
          /\ ticket' = [ticket EXCEPT ![n] = 0]
          /\ Go(t, "active")
          /\ UNCHANGED <<clientVars, active, owner>>
       \/ /\ step[t] = "active"
          /\ active' = [active EXCEPT ![n] = 0]
          /\ Go(t, "owner")
          /\ UNCHANGED <<clientVars, ticket, owner>>
       \/ /\ step[t] = "owner"
          /\ owner' = [owner EXCEPT ![arg[t]] = NoNode]
          /\ Finish(t, AfterRelease(t))
          /\ UNCHANGED recordVars
    /\ UNCHANGED <<next_ticket, now_serving, mine, seen>>

-----------------------------------------------------------------------------
(* Steps of the manager. *)

\* check_grant goes to the next node with (mt, mn) the smallest ticket so far,
\* or returns after the last.
Scanned(mt, mn) ==
    \/ /\ nid + 1 < NodeCount
       /\ nid' = nid + 1 /\ min_ticket' = mt /\ min_node' = mn
       /\ mstep' = "active"
       /\ UNCHANGED managerVars
    \/ /\ nid + 1 = NodeCount
       /\ CheckReturns(mn)
       /\ nid' = 0 /\ min_ticket' = TicketBound /\ min_node' = NoNode
       /\ mstep' = "start"

\* check_grant: loads the owner, then each node's active flag and ticket.
CheckGrant ==
    /\ mpc = "check"
    /\ \/ /\ mstep = "start"
          /\ \/ /\ owner[mlock] # NoNode
                /\ CheckReturns(NoNode)
                /\ UNCHANGED mstep
             \/ /\ owner[mlock] = NoNode
                /\ mstep' = "active"
                /\ UNCHANGED managerVars
          /\ UNCHANGED <<nid, min_ticket, min_node>>
       \/ /\ mstep = "active" /\ active[nid] = 1
          /\ mstep' = "ticket"
          /\ UNCHANGED <<managerVars, nid, min_ticket, min_node>>
       \/ /\ mstep = "active" /\ active[nid] = 0
          /\ Scanned(min_ticket, min_node)
       \/ /\ mstep = "ticket"
          /\ IF ticket[nid] < min_ticket THEN Scanned(ticket[nid], nid)
             ELSE Scanned(min_ticket, min_node)
    /\ UNCHANGED grant_ticket

\* Mutant of GrantLock: now_serving is set one ticket too far.
GrantLockNext ==
    /\ mpc = "grant"
    /\ \/ /\ mstep = "start"
          /\ grant_ticket' = ticket[grantee] + 1
          /\ mstep' = "owner"
          /\ UNCHANGED <<owner, now_serving, managerVars>>
       \/ /\ mstep = "owner"
          /\ owner' = [owner EXCEPT ![mlock] = grantee]
          /\ mstep' = "serving"
          /\ UNCHANGED <<now_serving, grant_ticket, managerVars>>
       \/ /\ mstep = "serving"
          /\ now_serving' = [now_serving EXCEPT ![mlock] = grant_ticket]
          /\ GrantReturns
          /\ mstep' = "start" /\ grant_ticket' = 0
          /\ UNCHANGED owner
    /\ UNCHANGED <<nid, min_ticket, min_node>>

\* grant_lock: loads the node's ticket again, stores the owner, then now_serving.
GrantLock ==
    /\ mpc = "grant"
    /\ \/ /\ mstep = "start"
          /\ grant_ticket' = ticket[grantee]
          /\ mstep' = "owner"
          /\ UNCHANGED <<owner, now_serving, managerVars>>
       \/ /\ mstep = "owner"
          /\ owner' = [owner EXCEPT ![mlock] = grantee]
          /\ mstep' = "serving"
          /\ UNCHANGED <<now_serving, grant_ticket, managerVars>>
       \/ /\ mstep = "serving"
          /\ now_serving' = [now_serving EXCEPT ![mlock] = grant_ticket]
          /\ GrantReturns
          /\ mstep' = "start" /\ grant_ticket' = 0
          /\ UNCHANGED owner
    /\ UNCHANGED <<nid, min_ticket, min_node>>

-----------------------------------------------------------------------------
Manager ==
    /\ \/ ManagerStep /\ UNCHANGED <<entryVars, checkVars>>
       \/ CheckGrant /\ UNCHANGED entryVars
       \/ GrantLock /\ UNCHANGED next_ticket
    /\ UNCHANGED <<clientVars, recordVars, callVars>>

Thread(t) ==
    /\ \/ ClientStep(t) /\ UNCHANGED <<entryVars, recordVars, callVars>>
       \/ AcquireLock(t)
       \/ Poll(t)
       \/ ReleaseLock(t)
    /\ UNCHANGED <<managerVars, checkVars>>

Environment ==
    /\ \/ (\E t \in Threads : ClientCall(t)) /\ UNCHANGED managerVars
       \/ (Start \/ StopRequest) /\ UNCHANGED clientVars
    /\ UNCHANGED algoVars

Next == Manager \/ Environment \/ \E t \in Threads : Thread(t)

Spec == Init /\ [][Next]_vars

-----------------------------------------------------------------------------
(* What the algorithm promises. *)

\* "active: Non-zero if this node is waiting": a thread that polls is visible to
\* the manager, which serves active nodes only.
WaiterVisible ==
    \A t \in Threads : pc[t] = "poll" => active[NodeOf[t]] = 1

\* An active ticket belongs to a thread that waits for the lock, holds it or is
\* about to give it up: no cancelled request is left for the manager to serve.
NoOrphanTicket ==
    \A n \in Nodes : active[n] = 1 =>
        \E t \in Threads :
            /\ NodeOf[t] = n
            /\ held[t] # {} \/ pc[t] \in {"poll", "cancel", "release"}

\* now_serving, which only the manager moves, never runs ahead of the tickets
\* that were drawn: a ticket not yet drawn is never served in advance.
ServesDrawnTickets ==
    \A l \in Locks : now_serving[l] = 0 \/ now_serving[l] < next_ticket[l]

-----------------------------------------------------------------------------
(* The invariants behind these, for clients that release only what they hold. *)

\* The record of a node is used by one call at a time: there is one lock, or one
\* thread on each node.
UnsharedRecord ==
    \/ LockCount = 1
    \/ \A t, u \in Threads : NodeOf[t] = NodeOf[u] => t = u

\* The thread that will clear the active flag of its node, or is about to.
KeepsTicket(t) ==
    \/ held[t] # {}
    \/ pc[t] = "poll"
    \/ pc[t] \in {"cancel", "release"} /\ step[t] \in {"start", "active"}

\* Where a thread is inside the algorithm fits the call it is in.
StepInv ==
    \A t \in Threads :
        /\ pc[t] \notin {"request", "poll", "cancel", "release"} => step[t] = "start"
        /\ pc[t] \in {"request", "poll"} => step[t] # "owner"
        /\ pc[t] \in {"cancel", "release"} => step[t] # "ticket"

\* An active flag has a thread that waits with it or will clear it.
TicketKept ==
    \A n \in Nodes : active[n] = 1 => \E t \in Threads : NodeOf[t] = n /\ KeepsTicket(t)

\* The inductive invariant behind the active flags: a node is active while a
\* thread of it polls, and while it is active a thread of it will clear the flag.
RecordInv ==
    /\ StepInv
    /\ MutexInv
    /\ NoLeakedMutex
    /\ WaiterVisible
    /\ TicketKept

\* Every ticket on its way from acquire_lock to now_serving was drawn: the one a
\* caller has not stored yet, the one in the record, the one grant_lock loaded.
DrawnOrNone(v, l) == v = 0 \/ v < next_ticket[l]

TicketInv ==
    \A l \in Locks :
        /\ \A t \in Threads : DrawnOrNone(mine[t], l)
        /\ \A n \in Nodes : DrawnOrNone(ticket[n], l)
        /\ DrawnOrNone(grant_ticket, l)
        /\ DrawnOrNone(now_serving[l], l)
=============================================================================
