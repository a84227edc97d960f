---------------------------- MODULE CasGlobalLock ----------------------------
(***************************************************************************)
(* The CAS algorithm (src/src/cas_global_lock.cpp) under the two-tier lock *)
(* and the lock manager: one slot per lock and node; the node writes       *)
(* WAITING and IDLE, the manager turns WAITING into LOCKED.  One action    *)
(* per shared-memory access, so the manager's scan of the slots interleaves*)
(* with every client's requests, cancellations and releases.               *)
(***************************************************************************)
EXTENDS LockManager

VARIABLES
    slot,   \* slot[l][n]: the LockSlotState of node n for lock l
    pass,   \* which of check_grant's two loops is running
    nid     \* the node that loop reads next

vars == <<pc, arg, mode, spins, mutex, held,
          running, stop_requested, mpc, mlock, grantee, slot, pass, nid>>

SlotStates == {"IDLE", "WAITING", "LOCKED"}

TypeOK ==
    /\ ClientTypeOK
    /\ ManagerTypeOK
    /\ slot \in [Locks -> [Nodes -> SlotStates]]
    /\ pass \in {1, 2}
    /\ nid \in Nodes

\* initialize(): the whole region is zeroed, that is every slot IDLE.
Init ==
    /\ ClientInit
    /\ ManagerInit
    /\ slot = [l \in Locks |-> [n \in Nodes |-> "IDLE"]]
    /\ pass = 1
    /\ nid = 0

WriteSlot(t, state) == slot' = [slot EXCEPT ![arg[t]][NodeOf[t]] = state]

AcquireLock(t) ==
    /\ pc[t] = "request"
    /\ WriteSlot(t, "WAITING")
    /\ Goto(t, "poll")
    /\ UNCHANGED <<arg, mode, spins, mutex, held, managerVars, pass, nid>>

\* release_lock: the slot becomes IDLE whatever it was, both for release() and
\* to cancel a request that gave up (a grant may have come meanwhile).
ReleaseLock(t) ==
    /\ pc[t] \in {"release", "cancel"}
    /\ WriteSlot(t, "IDLE")
    /\ Goto(t, IF pc[t] = "release" THEN "releaseLocal" ELSE "cancelLocal")
    /\ UNCHANGED <<arg, mode, spins, mutex, held, managerVars, pass, nid>>

\* Mutant of Granted: any slot that is not IDLE counts as granted.
GrantedIfNotIdle(t) == slot[arg[t]][NodeOf[t]] # "IDLE"

\* The test of poll_for_grant: this node's slot reads LOCKED.
Granted(t) == slot[arg[t]][NodeOf[t]] = "LOCKED"

Poll(t) ==
    /\ \/ Granted(t) /\ PollGranted(t)
       \/ ~Granted(t) /\ (PollAgain(t) \/ PollGivesUp(t))
    /\ UNCHANGED <<managerVars, slot, pass, nid>>

\* Mutants of CheckLocked, the first loop of check_grant: it ends before the
\* last node, or one past it, or reads the slots of lock 0 for every lock, or
\* leaves the second loop to begin at node 1.
CheckLockedTo(last, lid, first) ==
    /\ mpc = "check" /\ pass = 1
    /\ \/ /\ slot[lid][nid] = "LOCKED"
          /\ CheckReturns(NoNode)
          /\ nid' = 0
          /\ UNCHANGED pass
       \/ /\ slot[lid][nid] # "LOCKED"
          /\ nid' = IF nid + 1 < last THEN nid + 1 ELSE first
          /\ pass' = IF nid + 1 < last THEN 1 ELSE 2
          /\ UNCHANGED managerVars
    /\ UNCHANGED <<clientVars, slot>>
CheckLockedShort == CheckLockedTo(NodeCount - 1, mlock, 0)
CheckLockedLong == CheckLockedTo(NodeCount + 1, mlock, 0)
CheckLockedOfLock0 == CheckLockedTo(NodeCount, 0, 0)
CheckLockedThenNode1 == CheckLockedTo(NodeCount, mlock, 1)

\* check_grant, first loop: one slot read; a LOCKED slot ends the check.
CheckLocked ==
    /\ mpc = "check" /\ pass = 1
    /\ \/ /\ slot[mlock][nid] = "LOCKED"
          /\ CheckReturns(NoNode)
          /\ nid' = 0
          /\ UNCHANGED pass
       \/ /\ slot[mlock][nid] # "LOCKED"
          /\ nid' = IF nid + 1 < NodeCount THEN nid + 1 ELSE 0
          /\ pass' = IF nid + 1 < NodeCount THEN 1 ELSE 2
          /\ UNCHANGED managerVars
    /\ UNCHANGED <<clientVars, slot>>

\* Mutant of CheckWaiting: the second loop never reaches the last node.
CheckWaitingShort ==
    /\ mpc = "check" /\ pass = 2
    /\ \/ /\ slot[mlock][nid] = "WAITING" /\ nid + 1 < NodeCount
          /\ CheckReturns(nid)
          /\ nid' = 0 /\ pass' = 1
       \/ /\ slot[mlock][nid] # "WAITING" /\ nid + 1 < NodeCount
          /\ nid' = nid + 1
          /\ UNCHANGED <<managerVars, pass>>
       \/ /\ nid + 1 = NodeCount
          /\ CheckReturns(NoNode)
          /\ nid' = 0 /\ pass' = 1
    /\ UNCHANGED <<clientVars, slot>>

\* check_grant, second loop: the first WAITING node in id order is chosen.
CheckWaiting ==
    /\ mpc = "check" /\ pass = 2
    /\ \/ /\ slot[mlock][nid] = "WAITING"
          /\ CheckReturns(nid)
          /\ nid' = 0 /\ pass' = 1
       \/ /\ slot[mlock][nid] # "WAITING"
          /\ nid + 1 < NodeCount
          /\ nid' = nid + 1
          /\ UNCHANGED <<managerVars, pass>>
       \/ /\ slot[mlock][nid] # "WAITING"
          /\ nid + 1 = NodeCount
          /\ CheckReturns(NoNode)
          /\ nid' = 0 /\ pass' = 1
    /\ UNCHANGED <<clientVars, slot>>

\* Mutant of GrantLock: a plain store instead of the compare-exchange.
GrantByStore ==
    /\ GrantReturns
    /\ slot' = [slot EXCEPT ![mlock][grantee] = "LOCKED"]
    /\ UNCHANGED <<clientVars, pass, nid>>

\* grant_lock: compare-exchange of the chosen slot from WAITING to LOCKED.
GrantLock ==
    /\ GrantReturns
    /\ slot' = IF slot[mlock][grantee] = "WAITING"
               THEN [slot EXCEPT ![mlock][grantee] = "LOCKED"]
               ELSE slot
    /\ UNCHANGED <<clientVars, pass, nid>>

Manager ==
    \/ ManagerStep /\ UNCHANGED <<clientVars, slot, pass, nid>>
    \/ CheckLocked
    \/ CheckWaiting
    \/ GrantLock

\* Steps a thread takes inside a call, and calls its application makes.
Thread(t) ==
    \/ ClientStep(t) /\ UNCHANGED <<managerVars, slot, pass, nid>>
    \/ AcquireLock(t)
    \/ ReleaseLock(t)
    \/ Poll(t)

Environment ==
    /\ \/ (\E t \in Threads : ClientCall(t)) /\ UNCHANGED managerVars
       \/ (Start \/ StopRequest) /\ UNCHANGED clientVars
    /\ UNCHANGED <<slot, pass, nid>>

Next == Manager \/ Environment \/ \E t \in Threads : Thread(t)

Spec == Init /\ [][Next]_vars

-----------------------------------------------------------------------------
(* Fairness: the manager's worker and each thread inside a call are scheduled  *)
(* by their operating system; the manager is started.  Nothing is assumed of   *)
(* what applications call.  A timeout need not expire in Fairness; that it     *)
(* eventually does is TimeoutsExpire.                                          *)

GiveUp(t) == Poll(t) /\ pc'[t] = "cancel"

Fairness ==
    /\ WF_vars(Manager)
    /\ WF_vars(Start /\ UNCHANGED <<clientVars, slot, pass, nid>>)
    /\ \A t \in Threads :
        WF_vars(Thread(t) /\ (pc'[t] = "cancel" => mode[t] # "timed"))

TimeoutsExpire == \A t \in Threads : WF_vars(GiveUp(t))

\* An application that keeps returning from calls with a lock in its hands
\* releases it sooner or later.
HoldersRelease ==
    \A t \in Threads :
        SF_vars(/\ \E l \in held[t] : Release(t, l)
                /\ UNCHANGED <<managerVars, slot, pass, nid>>)

FairSpec == Spec /\ Fairness /\ TimeoutsExpire /\ HoldersRelease

-----------------------------------------------------------------------------
(* Correctness *)

\* The node's slot for lock l is in the hands of a thread that is about to clear
\* it or that was given the lock, and that thread owns the node's mutex l.
Responsible(t, l) ==
    \/ l \in held[t]
    \/ pc[t] \in {"poll", "cancel", "release"} /\ arg[t] = l

\* A grant that comes after the waiter gave up is never left behind: whenever a
\* slot is WAITING or LOCKED, the owner of that node's local mutex either holds
\* the lock or is in a call whose release_lock is still to come.  So a slot no
\* thread will clear, which would block every node for ever, cannot arise.
NoOrphanSlot ==
    \A l \in Locks, n \in Nodes :
        slot[l][n] # "IDLE" =>
            \E t \in Threads : mutex[n][l] = t /\ NodeOf[t] = n /\ Responsible(t, l)

\* Whoever holds a lock is protected by both tiers until it calls release():
\* its node's slot reads LOCKED, no other node's does, and the local mutex is
\* its own.  A cancellation, a failed call or a grant in flight, of any thread,
\* does not take either away.
HolderProtected ==
    \A t \in Threads : \A l \in held[t] :
        /\ mutex[NodeOf[t]][l] = t
        /\ \A n \in Nodes : slot[l][n] = "LOCKED" <=> n = NodeOf[t]

\* A waiter is not forgotten: if a slot stays WAITING, the lock is sooner or
\* later granted to somebody, unless the manager is told to stop or threads of
\* lower-numbered nodes keep cancelling (check_grant chooses a lower node, whose
\* grant then fails).
NoStuckWaiter ==
    \A l \in Locks, n \in Nodes :
        slot[l][n] = "WAITING" ~>
            \/ slot[l][n] # "WAITING"
            \/ \E m \in Nodes : slot[l][m] = "LOCKED"
            \/ stop_requested
            \/ \E t \in Threads :
                NodeOf[t] < n /\ arg[t] = l /\ pc[t] = "cancelLocal"

\* check_grant prefers low node ids, so node 0 is never starved: while holders
\* release and the manager is not stopped, a request of node 0 that is not
\* withdrawn is granted.
LowestNodeServed ==
    \A l \in Locks :
        slot[l][0] = "WAITING" ~> slot[l][0] # "WAITING" \/ stop_requested

-----------------------------------------------------------------------------
(* The inductive invariant behind the safety properties, for clients that only *)
(* release what they hold.                                                     *)

\* What the owner's position in its call says of its node's slot.
SlotInv ==
    \A t \in Threads :
        /\ \A l \in held[t] : slot[l][NodeOf[t]] = "LOCKED"
        /\ pc[t] \in {"request", "cancelLocal", "releaseLocal"} =>
            slot[arg[t]][NodeOf[t]] = "IDLE"
        /\ pc[t] = "release" => slot[arg[t]][NodeOf[t]] = "LOCKED"

\* Only the manager writes LOCKED, so what check_grant has read stays true until
\* its grant: no LOCKED slot among those the first loop has passed, none at all
\* once the second loop or grant_lock runs.  While the worker exists running_ is
\* set, so start() cannot create a second one.
ScanInv ==
    /\ \A n \in Nodes :
        (\/ mpc = "check" /\ (pass = 2 \/ n < nid)
         \/ mpc = "grant") => slot[mlock][n] # "LOCKED"
    /\ mpc = "grant" => grantee \in Nodes
    /\ mpc # "check" => pass = 1 /\ nid = 0
    /\ mpc # "off" => running

\* One LOCKED slot per lock.
OneLocked ==
    \A l \in Locks, m, n \in Nodes :
        slot[l][m] = "LOCKED" /\ slot[l][n] = "LOCKED" => m = n

\* Together, with types, the invariant that every step preserves.
IInv ==
    /\ TypeOK /\ MutexInv /\ SlotInv /\ ScanInv
    /\ OneLocked /\ NoOrphanSlot /\ NoLeakedMutex

-----------------------------------------------------------------------------
(* The algorithm implements GlobalLockSpec: the slots show who waits and who   *)
(* owns, and the nodes using a lock are those of the threads that hold it.     *)

OwnerIn(row) ==
    IF \E n \in Nodes : row[n] = "LOCKED"
    THEN CHOOSE n \in Nodes : row[n] = "LOCKED"
    ELSE NoNode

Abstract == INSTANCE GlobalLockSpec WITH
    waiting <- [l \in Locks |-> {n \in Nodes : slot[l][n] = "WAITING"}],
    owner <- [l \in Locks |-> OwnerIn(slot[l])],
    using <- [l \in Locks |-> {NodeOf[t] : t \in {u \in Threads : l \in held[u]}}]

\* Every step of clients and manager is a step of the abstract lock service or
\* changes nothing it can see: in particular a lock is granted only when no node
\* owns it, and only to a node that still wants it.
ImplementsGlobalLock == Abstract!Spec
=============================================================================
