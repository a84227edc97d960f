---------------------------- MODULE McsGlobalLock ----------------------------
(***************************************************************************)
(* The MCS algorithm (src/src/mcs_global_lock.cpp) under the two-tier lock *)
(* and the lock manager: a queue of nodes per lock, built from one record  *)
(* per node that all locks share.  One action per shared-memory access.    *)
(***************************************************************************)
EXTENDS LockManager

CONSTANT NoLock    \* INVALID_LOCK_ID

ASSUME NoLockAssumption == NoLock \notin Locks

VARIABLES
    tail, head, owner,       \* McsLockEntry of each lock
    next, locked, waiting,   \* McsNode of each node
    step,       \* where thread t is inside acquire_lock, release_lock or a poll
    link,       \* its local old_tail or succ
    mstep,      \* where the manager is inside check_grant or grant_lock
    mhead,      \* its local head
    ahead       \* history: ahead[l][n] is empty until node n swaps the tail of l;
                \* then n itself and those that swapped before it, each until its
                \* call is granted or gives up

entryVars == <<tail, head, owner>>
nodeVars == <<next, locked, waiting>>
callVars == <<step, link>>
checkVars == <<mstep, mhead>>
vars == <<clientVars, managerVars, entryVars, nodeVars, callVars, checkVars, ahead>>

SomeNode == Nodes \cup {NoNode}

Steps == {"start", "locked", "waiting", "swap", "reload", "link",
          "succ", "unlink", "clearHead", "clearOwner", "spin",
          "passHead", "passOwner", "wake", "resetNext", "resetLocked", "resetWaiting"}

TypeOK ==
    /\ ClientTypeOK
    /\ ManagerTypeOK
    /\ tail \in [Locks -> SomeNode]
    /\ head \in [Locks -> SomeNode]
    /\ owner \in [Locks -> SomeNode]
    /\ next \in [Nodes -> SomeNode]
    /\ locked \in [Nodes -> 0 .. 2]
    /\ waiting \in [Nodes -> Locks \cup {NoLock}]
    /\ step \in [Threads -> Steps]
    /\ link \in [Threads -> SomeNode]
    /\ mstep \in {"start", "head", "locked", "waiting", "owner"}
    /\ mhead \in SomeNode
    /\ ahead \in [Locks -> [Nodes -> SUBSET Nodes]]

\* initialize(): the records are zeroed, so next is 0, the id of a node.
Init ==
    /\ ClientInit
    /\ ManagerInit
    /\ tail = [l \in Locks |-> NoNode]
    /\ head = [l \in Locks |-> NoNode]
    /\ owner = [l \in Locks |-> NoNode]
    /\ next = [n \in Nodes |-> 0]
    /\ locked = [n \in Nodes |-> 0]
    /\ waiting = [n \in Nodes |-> NoLock]
    /\ step = [t \in Threads |-> "start"]
    /\ link = [t \in Threads |-> NoNode]
    /\ mstep = "start"
    /\ mhead = NoNode
    /\ ahead = [l \in Locks |-> [n \in Nodes |-> {}]]

-----------------------------------------------------------------------------
(* Steps of the clients.  Go(t, s): the call goes on at s; Finish(t, label):  *)
(* the algorithm's function returns to the two-tier lock.                      *)

Go(t, s) ==
    /\ step' = [step EXCEPT ![t] = s]
    /\ UNCHANGED <<clientVars, managerVars, checkVars>>

Finish(t, label) ==
    /\ Goto(t, label)
    /\ step' = [step EXCEPT ![t] = "start"]
    /\ link' = [link EXCEPT ![t] = NoNode]
    /\ UNCHANGED <<arg, mode, spins, mutex, held, managerVars, checkVars>>

AfterRelease(t) == IF pc[t] = "release" THEN "releaseLocal" ELSE "cancelLocal"

Releasing(t) == pc[t] \in {"release", "cancel"}

Queued(l) == {n \in Nodes : ahead[l][n] # {}}

Arrives(n, l) == ahead' = [ahead EXCEPT ![l][n] = Queued(l) \cup {n}]

Leaves(n, l) ==
    ahead' = [ahead EXCEPT ![l] = [m \in Nodes |-> IF m = n THEN {} ELSE @[m] \ {n}]]

\* Mutant of Prepare: locked is not set to 1 (waiting).
PrepareNotWaiting(t) ==
    LET n == NodeOf[t] IN
    /\ pc[t] = "request"
    /\ \/ /\ step[t] = "start"
          /\ next' = [next EXCEPT ![n] = NoNode]
          /\ Go(t, "waiting")
          /\ UNCHANGED waiting
       \/ /\ step[t] = "waiting"
          /\ waiting' = [waiting EXCEPT ![n] = arg[t]]
          /\ Go(t, "swap")
          /\ UNCHANGED next
    /\ UNCHANGED <<entryVars, locked, link, ahead>>

\* Mutant of Prepare: next_node is not reset.
PrepareOldLink(t) ==
    LET n == NodeOf[t] IN
    /\ pc[t] = "request"
    /\ \/ /\ step[t] = "start"
          /\ locked' = [locked EXCEPT ![n] = 1]
          /\ Go(t, "waiting")
          /\ UNCHANGED waiting
       \/ /\ step[t] = "waiting"
          /\ waiting' = [waiting EXCEPT ![n] = arg[t]]
          /\ Go(t, "swap")
          /\ UNCHANGED locked
    /\ UNCHANGED <<entryVars, next, link, ahead>>

\* acquire_lock, step 1: three plain stores prepare the node's record.
Prepare(t) ==
    LET n == NodeOf[t] IN
    /\ pc[t] = "request"
    /\ \/ /\ step[t] = "start"
          /\ next' = [next EXCEPT ![n] = NoNode]
          /\ Go(t, "locked")
          /\ UNCHANGED <<locked, waiting>>
       \/ /\ step[t] = "locked"
          /\ locked' = [locked EXCEPT ![n] = 1]
          /\ Go(t, "waiting")
          /\ UNCHANGED <<next, waiting>>
       \/ /\ step[t] = "waiting"
          /\ waiting' = [waiting EXCEPT ![n] = arg[t]]
          /\ Go(t, "swap")
          /\ UNCHANGED <<next, locked>>
    /\ UNCHANGED <<entryVars, link, ahead>>

\* Step 3: compare-exchange of the tail from old_tail (at first INVALID).
SwapTail(t) ==
    LET l == arg[t] IN
    /\ step[t] = "swap"
    /\ \/ /\ tail[l] = link[t]
          /\ tail' = [tail EXCEPT ![l] = NodeOf[t]]
          /\ Arrives(NodeOf[t], l)
          /\ Go(t, "link")
       \/ /\ tail[l] # link[t]
          /\ Go(t, "reload")
          /\ UNCHANGED <<tail, ahead>>
    /\ UNCHANGED <<head, owner, nodeVars, link>>

\* It failed: reload the tail and try again, unless the tail is this node.
ReloadTail(t) ==
    /\ step[t] = "reload"
    /\ link' = [link EXCEPT ![t] = tail[arg[t]]]
    /\ Go(t, IF tail[arg[t]] = NodeOf[t] THEN "link" ELSE "swap")
    /\ UNCHANGED <<entryVars, nodeVars, ahead>>

\* Mutant of LinkIn: the head is always overwritten, as if the queue was empty.
LinkInAtHead(t) ==
    /\ step[t] = "link"
    /\ head' = [head EXCEPT ![arg[t]] = NodeOf[t]]
    /\ next' = IF link[t] = NoNode THEN next
               ELSE [next EXCEPT ![link[t]] = NodeOf[t]]
    /\ Finish(t, "poll")
    /\ UNCHANGED <<tail, owner, locked, waiting, ahead>>

\* Mutant of LinkIn: the old tail is not told of its successor.
LinkInForgotten(t) ==
    /\ step[t] = "link"
    /\ head' = IF link[t] = NoNode THEN [head EXCEPT ![arg[t]] = NodeOf[t]] ELSE head
    /\ Finish(t, "poll")
    /\ UNCHANGED <<tail, owner, nodeVars, ahead>>

\* Step 4: become the head of an empty queue or the successor of the old tail.
LinkIn(t) ==
    /\ step[t] = "link"
    /\ \/ /\ link[t] = NoNode
          /\ head' = [head EXCEPT ![arg[t]] = NodeOf[t]]
          /\ UNCHANGED next
       \/ /\ link[t] # NoNode
          /\ next' = [next EXCEPT ![link[t]] = NodeOf[t]]
          /\ UNCHANGED head
    /\ Finish(t, "poll")
    /\ UNCHANGED <<tail, owner, locked, waiting, ahead>>

\* poll_for_grant loads locked, then waiting_lock; locked = 1 decides alone.
Poll(t) ==
    LET n == NodeOf[t]
        granted == step[t] = "waiting" /\ waiting[n] = arg[t]
        refused == \/ step[t] = "start" /\ locked[n] = 1
                   \/ step[t] = "waiting" /\ waiting[n] # arg[t]
    IN
    /\ pc[t] = "poll"
    /\ \/ /\ step[t] = "start" /\ locked[n] # 1
          /\ Go(t, "waiting")
          /\ UNCHANGED <<link, ahead>>
       \/ /\ granted /\ PollGranted(t)
          /\ Leaves(n, arg[t])
          /\ step' = [step EXCEPT ![t] = "start"]
          /\ UNCHANGED <<link, managerVars, checkVars>>
       \/ /\ refused /\ (PollAgain(t) \/ PollGivesUp(t))
          /\ step' = [step EXCEPT ![t] = "start"]
          /\ UNCHANGED <<link, managerVars, checkVars, ahead>>
    /\ UNCHANGED <<entryVars, nodeVars>>

\* release_lock refuses a node that is not recorded as owner (ERROR_NOT_OWNER).
CheckOwner(t) ==
    LET l == arg[t] IN
    /\ Releasing(t) /\ step[t] = "start"
    /\ \/ /\ owner[l] # NodeOf[t]
          /\ Finish(t, AfterRelease(t))
          /\ Leaves(NodeOf[t], l)
       \/ /\ owner[l] = NodeOf[t]
          /\ Go(t, "succ")
          /\ UNCHANGED <<link, ahead>>
    /\ UNCHANGED <<entryVars, nodeVars>>

ReadSuccessor(t) ==
    LET succ == next[NodeOf[t]] IN
    /\ step[t] \in {"succ", "spin"}
    /\ step[t] = "spin" => succ # NoNode      \* busy-wait for the link
    /\ link' = [link EXCEPT ![t] = succ]
    /\ Go(t, IF succ = NoNode THEN "unlink" ELSE "passHead")
    /\ UNCHANGED <<entryVars, nodeVars, ahead>>

\* No successor: compare-exchange of the tail from this node to INVALID.
Unlink(t) ==
    LET l == arg[t]
        last == tail[l] = NodeOf[t]
    IN
    /\ step[t] = "unlink"
    /\ tail' = IF last THEN [tail EXCEPT ![l] = NoNode] ELSE tail
    /\ Go(t, IF last THEN "clearHead" ELSE "spin")
    /\ UNCHANGED <<head, owner, nodeVars, link, ahead>>

\* The queue was emptied: head, then owner, become INVALID.
ClearEntry(t) ==
    LET l == arg[t] IN
    /\ \/ /\ step[t] = "clearHead"
          /\ head' = [head EXCEPT ![l] = NoNode]
          /\ Go(t, "clearOwner")
          /\ UNCHANGED owner
       \/ /\ step[t] = "clearOwner"
          /\ owner' = [owner EXCEPT ![l] = NoNode]
          /\ Go(t, "resetNext")
          /\ UNCHANGED head
    /\ UNCHANGED <<tail, nodeVars, link, ahead>>

\* There is a successor: head, owner, and then its locked = 0.
PassOn(t) ==
    LET l == arg[t] IN
    /\ \/ /\ step[t] = "passHead"
          /\ head' = [head EXCEPT ![l] = link[t]]
          /\ Go(t, "passOwner")
          /\ UNCHANGED <<owner, locked>>
       \/ /\ step[t] = "passOwner"
          /\ owner' = [owner EXCEPT ![l] = link[t]]
          /\ Go(t, "wake")
          /\ UNCHANGED <<head, locked>>
       \/ /\ step[t] = "wake"
          /\ locked' = [locked EXCEPT ![link[t]] = 0]
          /\ Go(t, "resetNext")
          /\ UNCHANGED <<head, owner>>
    /\ UNCHANGED <<tail, next, waiting, link, ahead>>

\* Three plain stores reset the node's record and release_lock returns.
ResetRecord(t) ==
    LET n == NodeOf[t] IN
    /\ \/ /\ step[t] = "resetNext"
          /\ next' = [next EXCEPT ![n] = NoNode]
          /\ Go(t, "resetLocked")
          /\ UNCHANGED <<locked, waiting, link, ahead>>
       \/ /\ step[t] = "resetLocked"
          /\ locked' = [locked EXCEPT ![n] = 0]
          /\ Go(t, "resetWaiting")
          /\ UNCHANGED <<next, waiting, link, ahead>>
       \/ /\ step[t] = "resetWaiting"
          /\ waiting' = [waiting EXCEPT ![n] = NoLock]
          /\ Finish(t, AfterRelease(t))
          /\ Leaves(n, arg[t])
          /\ UNCHANGED <<next, locked>>
    /\ UNCHANGED entryVars

-----------------------------------------------------------------------------
(* Steps of the manager. *)

At(s) == mstep' = s

\* check_grant: loads owner, head, and the head's locked and waiting_lock.
CheckGrant ==
    /\ mpc = "check"
    /\ \/ /\ mstep = "start" /\ owner[mlock] = NoNode
          /\ At("head")
          /\ UNCHANGED <<managerVars, mhead>>
       \/ /\ mstep = "head" /\ head[mlock] # NoNode
          /\ mhead' = head[mlock]
          /\ At("locked")
          /\ UNCHANGED managerVars
       \/ /\ mstep = "locked" /\ locked[mhead] = 1
          /\ At("waiting")
          /\ UNCHANGED <<managerVars, mhead>>
       \/ /\ mstep = "waiting" /\ waiting[mhead] = mlock
          /\ CheckReturns(mhead)
          /\ At("start") /\ mhead' = NoNode
       \/ /\ \/ mstep = "start" /\ owner[mlock] # NoNode
             \/ mstep = "head" /\ head[mlock] = NoNode
             \/ mstep = "locked" /\ locked[mhead] # 1
             \/ mstep = "waiting" /\ waiting[mhead] # mlock
          /\ CheckReturns(NoNode)
          /\ At("start") /\ mhead' = NoNode
    /\ UNCHANGED <<clientVars, entryVars, nodeVars, callVars, ahead>>

\* grant_lock: the node's locked = 2, then the owner.
GrantLock ==
    /\ mpc = "grant"
    /\ \/ /\ mstep = "start"
          /\ locked' = [locked EXCEPT ![grantee] = 2]
          /\ At("owner")
          /\ UNCHANGED <<owner, managerVars>>
       \/ /\ mstep = "owner"
          /\ owner' = [owner EXCEPT ![mlock] = grantee]
          /\ At("start")
          /\ GrantReturns
          /\ UNCHANGED locked
    /\ UNCHANGED <<clientVars, tail, head, next, waiting, callVars, mhead, ahead>>

-----------------------------------------------------------------------------
algoVars == <<entryVars, nodeVars, callVars, checkVars, ahead>>

Manager ==
    \/ ManagerStep /\ UNCHANGED <<clientVars, algoVars>>
    \/ CheckGrant
    \/ GrantLock

Thread(t) ==
    \/ ClientStep(t) /\ UNCHANGED <<managerVars, algoVars>>
    \/ Prepare(t) \/ SwapTail(t) \/ ReloadTail(t) \/ LinkIn(t)
    \/ Poll(t)
    \/ CheckOwner(t) \/ ReadSuccessor(t) \/ Unlink(t)
    \/ ClearEntry(t) \/ PassOn(t) \/ ResetRecord(t)

Environment ==
    /\ \/ (\E t \in Threads : ClientCall(t)) /\ UNCHANGED managerVars
       \/ (Start \/ StopRequest) /\ UNCHANGED clientVars
    /\ UNCHANGED algoVars

Next == Manager \/ Environment \/ \E t \in Threads : Thread(t)

Spec == Init /\ [][Next]_vars

\* Fair scheduling of each thread inside a call; the manager may be as slow as it
\* likes.
FairSpec == Spec /\ \A t \in Threads : WF_vars(Thread(t))

-----------------------------------------------------------------------------
(* What the algorithm promises. *)

\* "The MCS lock provides fair FIFO ordering": an acquisition that returns
\* SUCCESS is the longest waiting of those that swapped the tail and have
\* neither been granted nor given up.
FifoGrants ==
    [][\A t \in Threads : \A l \in held'[t] \ held[t] :
          ahead[l][NodeOf[t]] = {NodeOf[t]}]_vars

\* "head_node: the first node in queue (next to be granted)": while no request
\* or release is in flight, a queue that has a tail has a head.
QueueHasHead ==
    \A l \in Locks :
        \/ tail[l] = NoNode
        \/ head[l] # NoNode
        \/ \E t \in Threads : arg[t] = l /\ pc[t] \in {"request", "release", "cancel"}

\* A releaser hands the lock only to a node that still waits for it: the
\* successor it read has not been woken, and has not gone on to something else,
\* when its wake-up is stored.
HandoverToWaiter ==
    \A t \in Threads : step[t] \in {"passHead", "passOwner", "wake"} =>
        locked[link[t]] = 1 /\ waiting[link[t]] = arg[t]

-----------------------------------------------------------------------------
(* The inductive invariant, for one lock and calls that do not time out.        *)

Passing(t) == step[t] \in {"passHead", "passOwner", "wake"}

\* The lock is t's, whether t has noticed or not, until t has let go of it.
Has(t) ==
    \/ held[t] # {}
    \/ pc[t] = "poll" /\ locked[NodeOf[t]] # 1
    \/ /\ pc[t] = "release"
       /\ \/ step[t] \in {"start", "succ", "unlink", "clearHead", "clearOwner", "spin"}
          \/ Passing(t)

Waits(n) == Caller(n) \in Threads /\ pc[Caller(n)] = "poll" /\ locked[n] = 1

\* The manager has woken the grantee and not yet recorded it as owner.
Granting == mpc = "grant" /\ mstep = "owner"

\* Where a thread can be in the algorithm's functions, and what its request has put
\* in the record of its node.
CallInv(t) ==
    /\ pc[t] = "request" =>
           step[t] \in {"start", "locked", "waiting", "swap", "reload", "link"}
    /\ pc[t] = "poll" => step[t] \in {"start", "waiting"}
    /\ pc[t] = "release" => step[t] \in
           {"start", "succ", "unlink", "clearHead", "clearOwner", "spin",
            "passHead", "passOwner", "wake", "resetNext", "resetLocked", "resetWaiting"}
    /\ pc[t] \notin {"request", "poll", "release"} => step[t] = "start"
    /\ pc[t] \notin {"cancel", "cancelLocal"} /\ spins[t] = 0
    /\ pc[t] \in {"local", "request", "poll"} => mode[t] = "long"
    /\ pc[t] = "request" /\ step[t] \in {"waiting", "swap", "reload", "link"} =>
           locked[NodeOf[t]] = 1
    /\ pc[t] = "poll" \/ step[t] \in {"swap", "reload", "link"} =>
           waiting[NodeOf[t]] = arg[t]
    /\ pc[t] = "poll" /\ step[t] = "waiting" => locked[NodeOf[t]] # 1
    /\ Passing(t) => link[t] \in Nodes

ControlInv ==
    /\ \A t \in Threads : CallInv(t)
    /\ ~running => mpc = "off"
    /\ mpc \notin {"check", "grant"} => mstep = "start"
    /\ mpc = "check" => mstep # "owner" /\ (mstep \in {"locked", "waiting"} => mhead \in Nodes)
    /\ mpc = "grant" => mstep \in {"start", "owner"} /\ grantee \in Nodes

\* At most one thread has the lock, and it is the recorded owner, or is about to
\* be recorded; a manager past its look at the owner still finds none.
OwnerInv ==
    /\ \A t, u \in Threads : Has(t) /\ Has(u) => t = u
    /\ \A t \in Threads : Has(t) =>
        \/ step[t] = "wake" /\ owner[0] = link[t]
        \/ step[t] # "wake" /\ owner[0] = NodeOf[t]
        \/ /\ Granting /\ grantee = NodeOf[t]
           /\ pc[t] = "release" => step[t] = "start"
    /\ (mpc = "check" /\ mstep # "start") \/ mpc = "grant" => owner[0] = NoNode

\* Somebody has the lock or the manager can still grant it.  Otherwise an owner is
\* recorded who has released already (it was woken before it was recorded, and
\* its release refused), and nobody will ever have the lock again.
Alive == (\E t \in Threads : Has(t)) \/ (owner[0] = NoNode /\ ~Granting)

\* Node n is in the queue, from its swap of the tail until it has let go of the lock.
Joined(n) ==
    LET t == Caller(n) IN
    /\ t \in Threads
    /\ \/ step[t] = "link" \/ pc[t] = "poll" \/ held[t] # {}
       \/ pc[t] = "release" /\ (step[t] \in {"start", "succ", "unlink", "spin"} \/ Passing(t))

\* A link of the queue leads to the next waiter in order of arrival.
LinkInv ==
    \A n \in Nodes : Joined(n) /\ next[n] # NoNode =>
        /\ Waits(next[n])
        /\ ahead[0][next[n]] = ahead[0][n] \cup {next[n]}
        /\ \A m \in Nodes : Joined(m) /\ next[m] = next[n] => m = n

\* A node that has swapped the tail and is not linked yet has a predecessor that
\* stays and has no other successor.
LinkingInv ==
    \A t \in Threads : step[t] = "link" =>
        IF link[t] = NoNode
        THEN ahead[0][NodeOf[t]] = {NodeOf[t]}
        ELSE /\ link[t] # NodeOf[t] /\ Joined(link[t]) /\ next[link[t]] = NoNode
             /\ ahead[0][NodeOf[t]] = ahead[0][link[t]] \cup {NodeOf[t]}
             /\ \A u \in Threads : step[u] = "link" /\ link[u] = link[t] => u = t

\* Until it swaps the tail a node has no successor.
Prepared(t) == pc[t] = "request" /\ step[t] \in {"locked", "waiting", "swap", "reload"}

PreparedInv == \A t \in Threads : Prepared(t) => next[NodeOf[t]] = NoNode

\* The tail is the last to arrive.
TailInv ==
    /\ tail[0] = NoNode => Queued(0) = {}
    /\ tail[0] # NoNode =>
        /\ Joined(tail[0]) /\ next[tail[0]] = NoNode
        /\ \A t \in Threads : step[t] = "link" => link[t] # tail[0]
        /\ Queued(0) = ahead[0][tail[0]]

\* Exactly the nodes between their swap and their grant are counted as arrived.
Arrived(n) ==
    Caller(n) \in Threads /\ (pc[Caller(n)] = "poll" \/ step[Caller(n)] = "link")

AheadInv == \A n \in Nodes : IF Arrived(n) THEN n \in ahead[0][n] ELSE ahead[0][n] = {}

\* Node n waits, and nobody is before it.
First(n) ==
    /\ Waits(n)
    /\ ahead[0][n] = {n}
    /\ \A m \in Nodes : Joined(m) => next[m] # n

\* A head that the manager may find is the first of the queue, and so is the node
\* that it has found.
HeadInv ==
    /\ \/ \E t \in Threads : Has(t) /\ step[t] # "clearOwner"
       \/ head[0] # NoNode => First(head[0])
    /\ mpc = "check" /\ mstep \in {"locked", "waiting"} => First(mhead)
    /\ mpc = "grant" /\ mstep = "start" => First(grantee)

\* Who has the lock has nobody before it; who passes it on, passes it along the link.
TurnInv ==
    \A t \in Threads :
        /\ Has(t) /\ pc[t] = "poll" => ahead[0][NodeOf[t]] = {NodeOf[t]}
        /\ Passing(t) => next[NodeOf[t]] = link[t]

QueueInv == LinkInv /\ LinkingInv /\ PreparedInv /\ TailInv /\ AheadInv /\ HeadInv /\ TurnInv

McsInv ==
    /\ TypeOK
    /\ MutexInv
    /\ NoLeakedMutex
    /\ ControlInv
    /\ OwnerInv
    /\ Alive => QueueInv

-----------------------------------------------------------------------------
(* Liveness. *)

\* The owner's release_lock always lets go of the lock, also where it waits without
\* a bound for the link of a node that has swapped the tail.  As only one thread has
\* the lock, and the next one has it before it releases it, one formula speaks of
\* every release; the stores that are left then wait for nothing.
ReleasesLetGo ==
    (\E t \in Threads : pc[t] = "release" /\ Has(t))
        ~> ~(\E t \in Threads : pc[t] = "release" /\ Has(t))
=============================================================================
