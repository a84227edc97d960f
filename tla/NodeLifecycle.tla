---------------------------- MODULE NodeLifecycle ----------------------------
(***************************************************************************)
(* The life of a node around the CAS lock: DistributedLockSystem's         *)
(* initialize() and shutdown() (src/src/distributed_lock.cpp), with what   *)
(* they call in CxlMemoryPool, SharedMemoryRegion, LocalLockArray,         *)
(* TwoTierLock and LockManager, and the crash of a process.  Starting a    *)
(* node zeroes the lock state that all nodes share up to three times, word *)
(* by word, while the others go on; node 0 runs the manager.  As the code  *)
(* requires, no thread is inside a call when shutdown() is called.         *)
(***************************************************************************)
EXTENDS CasGlobalLock

CONSTANT MaxStarts   \* bound on the calls of initialize() of one node

ASSUME StartsAssumption == MaxStarts \in Nat

VARIABLES
    backing,  \* what all nodes map: a DAX "device" or a "file"
    phase,    \* where node n is in initialize() or shutdown(): "closed" before
              \* and after, "up" when initialized_
    cursor,   \* the next word memset writes, while it runs
    mapped,   \* the pool is open: shm's base is mapped
    locals,   \* the array of local mutexes exists
    tier,     \* TwoTierLock's initialized_
    starts,   \* calls of initialize() so far
    wiped     \* history: wiped[t], locks of t whose slot was zeroed while held

nodeVars == <<phase, cursor, mapped, locals, tier, starts>>
casVars == vars
lifeVars == <<vars, backing, nodeVars, wiped>>

ManagerNode == 0

\* The words of the lock state in memory order: row l, column n.
Words == 0 .. LockCount * NodeCount - 1
LockAt(w) == w \div NodeCount
NodeAt(w) == w % NodeCount

Wipes == {"zeroFile", "zeroTier", "zeroManager"}
Phases == {"closed", "open", "choose", "local", "tier", "manager", "start", "up",
           "stop", "teardown"} \cup Wipes

LifecycleTypeOK ==
    /\ TypeOK
    /\ backing \in {"device", "file"}
    /\ phase \in [Nodes -> Phases]
    /\ cursor \in [Nodes -> Words]
    /\ mapped \in [Nodes -> BOOLEAN]
    /\ locals \in [Nodes -> BOOLEAN]
    /\ tier \in [Nodes -> BOOLEAN]
    /\ starts \in [Nodes -> 0 .. MaxStarts]
    /\ wiped \in [Threads -> SUBSET Locks]

LifecycleInit ==
    /\ Init
    /\ backing \in {"device", "file"}
    /\ phase = [n \in Nodes |-> "closed"]
    /\ cursor = [n \in Nodes |-> 0]
    /\ mapped = [n \in Nodes |-> FALSE]
    /\ locals = [n \in Nodes |-> FALSE]
    /\ tier = [n \in Nodes |-> FALSE]
    /\ starts = [n \in Nodes |-> 0]
    /\ wiped = [t \in Threads |-> {}]

Enter(n, p) == phase' = [phase EXCEPT ![n] = p]

-----------------------------------------------------------------------------
(* initialize() *)

\* initialize() begins: refused while initialized_.  The new pool object replaces
\* and so closes one a failed call may have left open.
BeginInitialize(n) ==
    /\ phase[n] = "closed"
    /\ starts[n] < MaxStarts
    /\ starts' = [starts EXCEPT ![n] = @ + 1]
    /\ mapped' = [mapped EXCEPT ![n] = FALSE]
    /\ Enter(n, "open")
    /\ UNCHANGED <<casVars, cursor, locals, tier>>

\* CxlMemoryPool::open or open_file_backed: open, ftruncate and mmap succeed; a
\* file is then zeroed, a device is not.  The file is also the memory of nodes
\* none of which can open the device.
OpenPool(n) ==
    /\ phase[n] = "open"
    /\ mapped' = [mapped EXCEPT ![n] = TRUE]
    /\ Enter(n, IF backing = "file" THEN "zeroFile" ELSE "choose")
    /\ UNCHANGED <<casVars, cursor, locals, tier, starts>>

\* One of them fails, for the file too: cleanup() and an error to the caller.
OpenFails(n) ==
    /\ phase[n] = "open"
    /\ Enter(n, "closed")
    /\ UNCHANGED <<casVars, cursor, mapped, locals, tier, starts>>

\* The algorithm is created by name; an unknown name is an error that leaves the
\* pool open.
ChooseAlgorithm(n) ==
    /\ phase[n] = "choose"
    /\ \E known \in BOOLEAN : Enter(n, IF known THEN "local" ELSE "closed")
    /\ UNCHANGED <<casVars, cursor, mapped, locals, tier, starts>>

\* LocalLockArray::initialize: all mutexes or none.
InitLocals(n) ==
    /\ phase[n] = "local"
    /\ \/ /\ locals' = [locals EXCEPT ![n] = TRUE]
          /\ Enter(n, "tier")
          /\ UNCHANGED mapped
       \/ /\ mapped' = [mapped EXCEPT ![n] = FALSE]
          /\ Enter(n, "closed")
          /\ UNCHANGED locals
    /\ UNCHANGED <<casVars, cursor, tier, starts>>

\* The error paths after the local locks exist: TwoTierLock::shutdown, destroy
\* and close.
Undo(n) ==
    /\ tier' = [tier EXCEPT ![n] = FALSE]
    /\ locals' = [locals EXCEPT ![n] = FALSE]
    /\ mapped' = [mapped EXCEPT ![n] = FALSE]
    /\ Enter(n, "closed")

\* TwoTierLock::initialize and LockManager::initialize test their parameters and
\* let the algorithm zero the state.
InitTierOrManager(n) ==
    /\ \/ phase[n] = "tier" /\ Enter(n, "zeroTier") /\ UNCHANGED <<mapped, locals, tier>>
       \/ phase[n] = "manager" /\ Enter(n, "zeroManager") /\ UNCHANGED <<mapped, locals, tier>>
       \/ phase[n] \in {"tier", "manager"} /\ Undo(n)
    /\ UNCHANGED <<casVars, cursor, starts>>

\* Where initialize() goes on after a memset.
AfterWipe(n) ==
    CASE phase[n] = "zeroFile" -> "choose"
      [] phase[n] = "zeroTier" -> IF n = ManagerNode THEN "manager" ELSE "up"
      [] phase[n] = "zeroManager" -> "start"

\* Mutants of WipeWord: the state is left as it is; the loop goes one word too far.
WipeNothing(n) ==
    /\ phase[n] \in Wipes
    /\ Enter(n, AfterWipe(n))
    /\ tier' = [tier EXCEPT ![n] = @ \/ phase[n] = "zeroTier"]
    /\ UNCHANGED <<casVars, cursor, mapped, locals, starts, wiped>>
WipeTooFar(n) ==
    /\ phase[n] \in Wipes
    /\ slot' = [slot EXCEPT ![LockAt(cursor[n])][NodeAt(cursor[n])] = "IDLE"]
    /\ IF cursor[n] < LockCount * NodeCount
       THEN cursor' = [cursor EXCEPT ![n] = @ + 1] /\ UNCHANGED <<phase, tier>>
       ELSE /\ cursor' = [cursor EXCEPT ![n] = 0]
            /\ Enter(n, AfterWipe(n))
            /\ tier' = [tier EXCEPT ![n] = @ \/ phase[n] = "zeroTier"]
    /\ UNCHANGED <<clientVars, managerVars, pass, nid, mapped, locals, starts, wiped>>

\* memset writes one word, whoever it belongs to and whatever it says; after the
\* last, initialize() goes on (TwoTierLock is initialized_ after its own).
WipeWord(n) ==
    /\ phase[n] \in Wipes
    /\ LET l == LockAt(cursor[n])
           m == NodeAt(cursor[n])
       IN /\ slot' = [slot EXCEPT ![l][m] = "IDLE"]
          /\ wiped' = [t \in Threads |->
                        IF NodeOf[t] = m /\ l \in held[t] THEN wiped[t] \cup {l}
                        ELSE wiped[t]]
    /\ IF cursor[n] + 1 \in Words
       THEN cursor' = [cursor EXCEPT ![n] = @ + 1] /\ UNCHANGED <<phase, tier>>
       ELSE /\ cursor' = [cursor EXCEPT ![n] = 0]
            /\ Enter(n, AfterWipe(n))
            /\ tier' = [tier EXCEPT ![n] = @ \/ phase[n] = "zeroTier"]
    /\ UNCHANGED <<clientVars, managerVars, pass, nid, mapped, locals, starts>>

\* LockManager::start on the manager's node; initialized_ is set.
StartManager(n) ==
    /\ phase[n] = "start"
    /\ Start
    /\ Enter(n, "up")
    /\ UNCHANGED <<clientVars, slot, pass, nid, cursor, mapped, locals, tier, starts>>

-----------------------------------------------------------------------------
(* shutdown() and crash *)

NoCalls(n) == \A t \in Threads : NodeOf[t] = n => pc[t] = "idle"

\* Mutant of BeginShutdown: the worker is asked to stop and not waited for.
BeginShutdownNoJoin(n) ==
    /\ phase[n] = "up" /\ NoCalls(n)
    /\ IF n = ManagerNode THEN StopRequest ELSE UNCHANGED managerVars
    /\ Enter(n, "teardown")
    /\ UNCHANGED <<clientVars, slot, pass, nid, cursor, mapped, locals, tier, starts>>

\* shutdown() of a node none of whose threads is in a call: the manager's worker
\* is asked to stop first, and joined (StopReturns).
BeginShutdown(n) ==
    /\ phase[n] = "up" /\ NoCalls(n)
    /\ \/ n = ManagerNode /\ StopRequest /\ Enter(n, "stop")
       \/ n # ManagerNode /\ UNCHANGED managerVars /\ Enter(n, "teardown")
    /\ UNCHANGED <<clientVars, slot, pass, nid, cursor, mapped, locals, tier, starts>>

StopReturned(n) ==
    /\ phase[n] = "stop"
    /\ ~running
    /\ Enter(n, "teardown")
    /\ UNCHANGED <<casVars, cursor, mapped, locals, tier, starts>>

\* The node's threads lose what they held with the system they called.
Forget(n) ==
    LET mine(t) == NodeOf[t] = n
    IN /\ pc' = [t \in Threads |-> IF mine(t) THEN "idle" ELSE pc[t]]
       /\ arg' = [t \in Threads |-> IF mine(t) THEN 0 ELSE arg[t]]
       /\ mode' = [t \in Threads |-> IF mine(t) THEN "timed" ELSE mode[t]]
       /\ spins' = [t \in Threads |-> IF mine(t) THEN 0 ELSE spins[t]]
       /\ held' = [t \in Threads |-> IF mine(t) THEN {} ELSE held[t]]
       /\ mutex' = [mutex EXCEPT ![n] = [l \in Locks |-> NoThread]]

\* The two-tier lock, the local locks and the pool go; slots of locks still held
\* stay LOCKED in the shared memory.
TearDown(n) ==
    /\ phase[n] = "teardown"
    /\ Undo(n)
    /\ Forget(n)
    /\ UNCHANGED <<managerVars, slot, pass, nid, cursor, starts>>

\* The process of node n dies anywhere, with its threads and the manager if it
\* ran there; the shared memory stays as it is.
Crash(n) ==
    /\ phase[n] # "closed"
    /\ Undo(n)
    /\ cursor' = [cursor EXCEPT ![n] = 0]
    /\ Forget(n)
    /\ IF n = ManagerNode
       THEN /\ running' = FALSE /\ stop_requested' = FALSE
            /\ mpc' = "off" /\ mlock' = 0 /\ grantee' = NoNode
            /\ pass' = 1 /\ nid' = 0
       ELSE UNCHANGED <<managerVars, pass, nid>>
    /\ UNCHANGED <<slot, starts>>

-----------------------------------------------------------------------------
\* What node n does by itself once initialize() or shutdown() was called.
NodeStep(n) ==
    /\ \/ OpenPool(n) \/ OpenFails(n) \/ ChooseAlgorithm(n) \/ InitLocals(n)
       \/ InitTierOrManager(n) \/ StartManager(n)
       \/ StopReturned(n) \/ TearDown(n)
    /\ wiped' = [t \in Threads |-> wiped[t] \cap held'[t]]
    /\ UNCHANGED backing

NodeWipes(n) == WipeWord(n) /\ UNCHANGED backing

\* What the application or the machine decides.
NodeEvent(n) ==
    /\ BeginInitialize(n) \/ BeginShutdown(n) \/ Crash(n)
    /\ wiped' = [t \in Threads |-> wiped[t] \cap held'[t]]
    /\ UNCHANGED backing

\* The lock service itself: acquire_lock, try_lock and release_lock are forwarded
\* to the two-tier lock only while initialized_, the calls by data key to these
\* with the lock the key hashes to.
Service ==
    /\ \/ Manager
       \/ \E t \in Threads :
            \/ Thread(t)
            \/ /\ phase[NodeOf[t]] = "up"
               /\ ClientCall(t)
               /\ UNCHANGED <<managerVars, slot, pass, nid>>
    /\ wiped' = [t \in Threads |-> wiped[t] \cap held'[t]]
    /\ UNCHANGED <<backing, nodeVars>>

LifecycleNext ==
    Service \/ \E n \in Nodes : NodeStep(n) \/ NodeWipes(n) \/ NodeEvent(n)

\* The steps of a call that was made are taken.
LifecycleFairness ==
    /\ WF_lifeVars(Manager /\ Service)
    /\ \A n \in Nodes : WF_lifeVars(NodeStep(n) \/ NodeWipes(n))

LifecycleSpec == LifecycleInit /\ [][LifecycleNext]_lifeVars /\ LifecycleFairness

-----------------------------------------------------------------------------
(* Correctness *)

\* What a start of a node can spoil, and nothing else can: of the threads that
\* hold a lock at most one has not had its slot zeroed under it, and that one's
\* slot still reads LOCKED, the only one of the lock.  So without a start while locks are
\* held exclusion survives every crash, restart and failed initialize().
OneUnwipedHolder ==
    \A t \in Threads : \A l \in held[t] \ wiped[t] :
        \A n \in Nodes : slot[l][n] = "LOCKED" <=> n = NodeOf[t]

\* A node that is up has no slot that nobody will clear: what it left LOCKED or
\* WAITING when it crashed, was shut down or failed to start is gone once it is
\* back, also when the manager was about to grant it.
RestartLeavesNoOrphan ==
    \A n \in Nodes, l \in Locks :
        phase[n] = "up" /\ slot[l][n] # "IDLE" =>
            \E t \in Threads : mutex[n][l] = t /\ NodeOf[t] = n /\ Responsible(t, l)

\* No thread and no worker touches memory that is unmapped or mutexes that are
\* gone: a thread is inside a call, and the manager's worker exists, only while
\* the pool is open and the parts they use are there.
NoUseAfterClose ==
    /\ \A t \in Threads :
        LET n == NodeOf[t] IN
        pc[t] # "idle" => mapped[n] /\ locals[n] /\ tier[n]
    /\ mpc \in {"top", "check", "grant"} => mapped[ManagerNode]

\* initialize() and shutdown() return: in particular stop() is answered by the
\* worker in the middle of whatever scan it is in.
LifecycleCallsReturn ==
    \A n \in Nodes : phase[n] \notin {"closed", "up"} ~> phase[n] \in {"closed", "up"}

-----------------------------------------------------------------------------
(* The inductive invariant behind the safety properties, for clients that only *)
(* release what they hold.                                                     *)

\* What is there in each phase, and who may run: the worker exists between start()
\* and the end of stop(), threads are in a call only while the node is up and hold
\* locks only until it is torn down.
PhaseInv ==
    /\ \A n \in Nodes :
        /\ phase[n] \notin {"closed", "open"} => mapped[n]
        /\ phase[n] \notin {"closed", "open", "zeroFile", "choose", "local"} => locals[n]
        /\ phase[n] \in {"manager", "zeroManager", "start", "up", "stop", "teardown"} => tier[n]
        /\ phase[n] \in {"manager", "zeroManager", "start", "stop"} => n = ManagerNode
        /\ phase[n] \notin Wipes => cursor[n] = 0
    /\ \A t \in Threads :
        /\ pc[t] # "idle" => phase[NodeOf[t]] = "up"
        /\ held[t] # {} => phase[NodeOf[t]] \in {"up", "stop", "teardown"}
    /\ mpc # "off" => phase[ManagerNode] \in {"up", "stop"}

\* The memset of TwoTierLock::initialize clears the node's own slots, and nobody
\* writes them again before the node is up.
ColumnInv ==
    \A n \in Nodes :
        /\ phase[n] = "zeroTier" =>
            \A w \in Words : w < cursor[n] /\ NodeAt(w) = n => slot[LockAt(w)][n] = "IDLE"
        /\ phase[n] \in {"manager", "zeroManager", "start"} =>
            \A l \in Locks : slot[l][n] = "IDLE"

\* What the owner's position in its call says of its node's slot, which any node's
\* start may have zeroed meanwhile.
WipedSlotInv ==
    \A t \in Threads :
        /\ wiped[t] \subseteq held[t]
        /\ \A l \in held[t] \ wiped[t] : slot[l][NodeOf[t]] = "LOCKED"
        /\ pc[t] \in {"request", "cancelLocal", "releaseLocal"} =>
            slot[arg[t]][NodeOf[t]] = "IDLE"

\* Together, with types, the invariant that every step preserves.
LifecycleInv ==
    /\ LifecycleTypeOK /\ PhaseInv /\ ColumnInv /\ WipedSlotInv
    /\ MutexInv /\ NoLeakedMutex /\ ScanInv /\ OneLocked /\ RestartLeavesNoOrphan
=============================================================================
