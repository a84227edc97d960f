------------------------- MODULE NodeLifecycleProofs -------------------------
(***************************************************************************)
(* Proofs that the CAS lock survives crashes, restarts and shutdowns of    *)
(* its nodes up to what the zeroing of shared memory at each start spoils, *)
(* for any number of nodes, locks, threads and starts.                     *)
(***************************************************************************)
EXTENDS NodeLifecycle, CasGlobalLockProofs

\* The memset passes every slot of a node: word l * NodeCount + n is node n's slot
\* for lock l.
LEMMA WordOfSlot ==
    ASSUME NEW l \in Locks, NEW n \in Nodes
    PROVE  \E w \in Words : LockAt(w) = l /\ NodeAt(w) = n
<1> DEFINE w == l * NodeCount + n
<1>1. l \in Nat /\ n \in Nat /\ n < NodeCount /\ l + 1 <= LockCount
      /\ NodeCount \in Nat /\ LockCount \in Nat /\ NodeCount > 0
  BY CountAssumption DEF Locks, Nodes
<1>2. w \in Nat
  BY <1>1
<1>3. (l + 1) * NodeCount <= LockCount * NodeCount
  BY <1>1
<1>4. w + 1 <= (l + 1) * NodeCount
  BY <1>1
<1>5. w \in Words
  <2>1. LockCount * NodeCount \in Nat
    BY <1>1
  <2>2. (l + 1) * NodeCount \in Nat
    BY <1>1
  <2> HIDE DEF w
  <2> QED BY <1>2, <1>3, <1>4, <2>1, <2>2 DEF Words
<1>6. w \div NodeCount = l
  BY <1>1
<1>7. w % NodeCount = n
  BY <1>1
<1> QED BY <1>5, <1>6, <1>7 DEF LockAt, NodeAt

\* And every word it passes is the slot of some lock and node.
LEMMA WordIsSlot ==
    ASSUME NEW w \in Words
    PROVE  LockAt(w) \in Locks /\ NodeAt(w) \in Nodes
<1>1. w \in Nat /\ w < LockCount * NodeCount
      /\ NodeCount \in Nat /\ LockCount \in Nat /\ NodeCount > 0
  BY CountAssumption DEF Words
<1>2. w % NodeCount \in Nodes
  BY <1>1 DEF Nodes
<1>3. w \div NodeCount \in Nat /\ w \div NodeCount < LockCount
  BY <1>1
<1> QED BY <1>1, <1>2, <1>3 DEF LockAt, NodeAt, Locks

\* Node 0, which runs the manager, exists.
LEMMA ManagerNodeExists == ManagerNode \in Nodes
  BY CountAssumption DEF ManagerNode, Nodes

\* Every step of the lock service is a step the lock could take without nodes that
\* come and go, and moves no node.
LEMMA ServiceIsNext ==
    ASSUME Service
    PROVE  Next /\ UNCHANGED <<backing, phase, cursor, mapped, locals, tier, starts>>
  BY DEF Service, Next, Environment, nodeVars

\* A thread writes at most its own node's slot of the lock its call is about, and
\* never LOCKED.
LEMMA ThreadSlot ==
    ASSUME TypeOK, NEW t \in Threads, Thread(t)
    PROVE  /\ pc[t] # "idle"
           /\ \A l \in Locks, n \in Nodes :
                \/ slot'[l][n] = slot[l][n]
                \/ n = NodeOf[t] /\ l = arg[t] /\ slot'[l][n] # "LOCKED"
<1>1. pc[t] # "idle"
  BY DEF Thread, ClientStep, LocalAcquire, LocalRefused, LocalRelease, AcquireLock,
         ReleaseLock, Poll, PollGranted, PollAgain, PollGivesUp
<1>2. slot' = slot \/ WriteSlot(t, "WAITING") \/ WriteSlot(t, "IDLE")
  BY DEF Thread, AcquireLock, ReleaseLock, Poll
<1>3. ASSUME NEW state \in {"WAITING", "IDLE"}, WriteSlot(t, state),
             NEW l \in Locks, NEW n \in Nodes
      PROVE  \/ slot'[l][n] = slot[l][n]
             \/ n = NodeOf[t] /\ l = arg[t] /\ slot'[l][n] # "LOCKED"
  BY <1>3, NodeOfType DEF WriteSlot, TypeOK, ClientTypeOK
<1> QED BY <1>1, <1>2, <1>3

-----------------------------------------------------------------------------
(* Types *)

LEMMA LifecycleTypeInit == LifecycleInit => LifecycleTypeOK
<1> SUFFICES ASSUME LifecycleInit PROVE LifecycleTypeOK
    OBVIOUS
<1>1. TypeOK
  BY TypeInit DEF LifecycleInit
<1>2. 0 \in Words
  BY WordOfSlot, ZeroIsLock, ManagerNodeExists, CountAssumption DEF Words
<1> QED BY <1>1, <1>2, StartsAssumption DEF LifecycleInit, LifecycleTypeOK, Phases

\* Calls, shutdown and crash keep the types of the node's variables.
LEMMA NodeTypeStep ==
    ASSUME LifecycleTypeOK, NEW n \in Nodes,
           \/ BeginInitialize(n) \/ OpenPool(n) \/ OpenFails(n) \/ ChooseAlgorithm(n)
           \/ InitLocals(n) \/ InitTierOrManager(n) \/ WipeWord(n) \/ StartManager(n)
           \/ BeginShutdown(n) \/ StopReturned(n) \/ TearDown(n) \/ Crash(n)
    PROVE  /\ phase' \in [Nodes -> Phases] /\ cursor' \in [Nodes -> Words]
           /\ mapped' \in [Nodes -> BOOLEAN] /\ locals' \in [Nodes -> BOOLEAN]
           /\ tier' \in [Nodes -> BOOLEAN] /\ starts' \in [Nodes -> 0 .. MaxStarts]
<1> DEFINE Good == /\ phase \in [Nodes -> Phases] /\ cursor \in [Nodes -> Words]
                   /\ mapped \in [Nodes -> BOOLEAN] /\ locals \in [Nodes -> BOOLEAN]
                   /\ tier \in [Nodes -> BOOLEAN] /\ starts \in [Nodes -> 0 .. MaxStarts]
<1> SUFFICES Good' OBVIOUS
<1> USE DEF LifecycleTypeOK, Enter
<1>0. 0 \in Words
  BY WordOfSlot, ZeroIsLock, ManagerNodeExists, CountAssumption DEF Words
<1>1. CASE BeginInitialize(n)
  BY <1>1, StartsAssumption DEF BeginInitialize, Phases
<1>2. CASE OpenPool(n) \/ OpenFails(n) \/ ChooseAlgorithm(n)
  BY <1>2 DEF OpenPool, OpenFails, ChooseAlgorithm, Phases, Wipes
<1>3. CASE InitLocals(n)
  BY <1>3 DEF InitLocals, Phases
<1>4. CASE InitTierOrManager(n)
  BY <1>4 DEF InitTierOrManager, Undo, Phases, Wipes
<1>5. CASE WipeWord(n)
  <2>1. AfterWipe(n) \in Phases
    BY <1>5 DEF WipeWord, AfterWipe, Phases, Wipes
  <2> QED BY <1>0, <1>5, <2>1 DEF WipeWord
<1>6. CASE StartManager(n) \/ BeginShutdown(n) \/ StopReturned(n)
  BY <1>6 DEF StartManager, BeginShutdown, StopReturned, Phases
<1>7. CASE TearDown(n)
  BY <1>7 DEF TearDown, Undo, Phases
<1>8. CASE Crash(n)
  BY <1>0, <1>8 DEF Crash, Undo, Phases
<1> QED BY <1>1, <1>2, <1>3, <1>4, <1>5, <1>6, <1>7, <1>8

\* A node that goes leaves its threads with well-typed, empty state.
LEMMA ForgetType ==
    ASSUME ClientTypeOK, NEW n \in Nodes, Forget(n)
    PROVE  ClientTypeOK'
  BY ZeroIsLock, SpinAssumption DEF Forget, ClientTypeOK, Modes, PCs

\* They keep the types of the lock's variables.
LEMMA NodeKeepsLockType ==
    ASSUME LifecycleTypeOK, NEW n \in Nodes,
           \/ BeginInitialize(n) \/ OpenPool(n) \/ OpenFails(n) \/ ChooseAlgorithm(n)
           \/ InitLocals(n) \/ InitTierOrManager(n) \/ WipeWord(n) \/ StartManager(n)
           \/ BeginShutdown(n) \/ StopReturned(n) \/ TearDown(n) \/ Crash(n)
    PROVE  TypeOK'
<1>0. TypeOK /\ ClientTypeOK /\ ManagerTypeOK
  BY DEF LifecycleTypeOK, TypeOK
<1>1. CASE \/ BeginInitialize(n) \/ OpenPool(n) \/ OpenFails(n) \/ ChooseAlgorithm(n)
           \/ InitLocals(n) \/ InitTierOrManager(n) \/ StopReturned(n)
  <2>1. UNCHANGED vars
    BY <1>1 DEF BeginInitialize, OpenPool, OpenFails, ChooseAlgorithm, InitLocals,
                InitTierOrManager, StopReturned, casVars
  <2> QED BY <1>0, <2>1, TypeStep
<1>2. CASE WipeWord(n)
  <2>1. UNCHANGED <<clientVars, managerVars, pass, nid>>
    BY <1>2 DEF WipeWord
  <2>2. ClientTypeOK' /\ ManagerTypeOK'
    BY <1>0, <2>1 DEF clientVars, managerVars, ClientTypeOK, ManagerTypeOK
  <2>3. (slot \in [Locks -> [Nodes -> SlotStates]])'
    BY <1>0, <1>2 DEF WipeWord, TypeOK, SlotStates
  <2> QED BY <1>0, <2>1, <2>2, <2>3 DEF TypeOK
<1>3. CASE StartManager(n)
  BY <1>0, <1>3, TypeStep DEF StartManager, Next, Environment
<1>4. CASE BeginShutdown(n)
  <2>1. CASE StopRequest
    BY <1>0, <1>4, <2>1, TypeStep DEF BeginShutdown, Next, Environment
  <2>2. CASE UNCHANGED managerVars
    <3>1. UNCHANGED vars
      BY <1>4, <2>2 DEF BeginShutdown, vars, clientVars, managerVars
    <3> QED BY <1>0, <3>1, TypeStep
  <2> QED BY <1>4, <2>1, <2>2 DEF BeginShutdown
<1>5. CASE TearDown(n)
  <2>1. ClientTypeOK'
    BY <1>0, <1>5, ForgetType DEF TearDown
  <2> QED BY <1>0, <1>5, <2>1 DEF TearDown, TypeOK, managerVars, ManagerTypeOK
<1>6. CASE Crash(n)
  <2>1. ClientTypeOK'
    BY <1>0, <1>6, ForgetType DEF Crash
  <2>2. ManagerTypeOK' /\ pass' \in {1, 2} /\ nid' \in Nodes
    BY <1>0, <1>6, ZeroIsLock, ManagerNodeExists
    DEF Crash, managerVars, ManagerTypeOK, ManagerPCs, ManagerNode, TypeOK
  <2> QED BY <1>0, <1>6, <2>1, <2>2 DEF Crash, TypeOK
<1> QED BY <1>1, <1>2, <1>3, <1>4, <1>5, <1>6

\* Every variable keeps its type through every step of nodes, clients and manager.
LEMMA LifecycleTypeStep == LifecycleTypeOK /\ [LifecycleNext]_lifeVars => LifecycleTypeOK'
<1> SUFFICES ASSUME LifecycleTypeOK, [LifecycleNext]_lifeVars PROVE LifecycleTypeOK'
    OBVIOUS
<1>1. CASE UNCHANGED lifeVars
  <2>1. UNCHANGED vars
    BY <1>1 DEF lifeVars
  <2>2. TypeOK'
    BY <2>1, TypeStep DEF LifecycleTypeOK
  <2> QED BY <1>1, <2>2 DEF lifeVars, nodeVars, LifecycleTypeOK
<1>2. ASSUME TypeOK', wiped' = [t \in Threads |-> wiped[t] \cap held'[t]]
      PROVE  wiped' \in [Threads -> SUBSET Locks]
  BY <1>2 DEF TypeOK, ClientTypeOK
<1>3. CASE Service
  <2>1. TypeOK'
    BY <1>3, ServiceIsNext, TypeStep DEF LifecycleTypeOK
  <2> QED BY <1>2, <1>3, <2>1, ServiceIsNext DEF Service, LifecycleTypeOK
<1>4. ASSUME NEW n \in Nodes, NodeStep(n) \/ NodeEvent(n) PROVE LifecycleTypeOK'
  <2>1. TypeOK'
    BY <1>4, NodeKeepsLockType DEF NodeStep, NodeEvent
  <2>2. backing' = backing /\ wiped' = [t \in Threads |-> wiped[t] \cap held'[t]]
    BY <1>4 DEF NodeStep, NodeEvent
  <2> QED BY <1>2, <1>4, <2>1, <2>2, NodeTypeStep DEF NodeStep, NodeEvent, LifecycleTypeOK
<1>5. ASSUME NEW n \in Nodes, NodeWipes(n) PROVE LifecycleTypeOK'
  <2>1. TypeOK'
    BY <1>5, NodeKeepsLockType DEF NodeWipes
  <2>2. wiped' \in [Threads -> SUBSET Locks]
    <3>1. \A t \in Threads : wiped[t] \in SUBSET Locks /\ held[t] \in SUBSET Locks
      BY DEF LifecycleTypeOK, TypeOK, ClientTypeOK
    <3> QED BY <1>5, <3>1 DEF NodeWipes, WipeWord
  <2> QED BY <1>5, <2>1, <2>2, NodeTypeStep DEF NodeWipes, LifecycleTypeOK
<1> QED BY <1>1, <1>3, <1>4, <1>5 DEF LifecycleNext

\* Every reachable state of nodes that start, stop and crash is well typed; in
\* particular no memset writes outside the lock state.
THEOREM LifecycleTypeCorrect == LifecycleSpec => []LifecycleTypeOK
  BY LifecycleTypeInit, LifecycleTypeStep, PTL DEF LifecycleSpec

-----------------------------------------------------------------------------
(* Phases *)

\* A thread inside a call, and a manager that is there, keep their node up.
LEMMA PhaseService ==
    ASSUME LifecycleInv, LifecycleTypeOK', Service
    PROVE  PhaseInv'
<1>0. PhaseInv /\ UNCHANGED <<phase, cursor, mapped, locals, tier>>
  BY ServiceIsNext DEF LifecycleInv
<1> USE DEF LifecycleInv, LifecycleTypeOK, TypeOK, ClientTypeOK
<1>1. CASE Manager
  <2>1. UNCHANGED clientVars
    BY <1>1 DEF Manager, CheckLocked, CheckWaiting, GrantLock
  <2>2. mpc = "off" => mpc' = "off"
    BY <1>1 DEF Manager, ManagerStep, RunLoop, StopReturns, CheckLocked, CheckWaiting,
                GrantLock, GrantReturns
  <2> QED BY <1>0, <2>1, <2>2 DEF PhaseInv, clientVars
<1>2. ASSUME NEW t \in Threads, Thread(t) PROVE PhaseInv'
  <2>1. mpc' = mpc /\ pc[t] # "idle"
    BY <1>2 DEF Thread, ClientStep, LocalAcquire, LocalRefused, LocalRelease, AcquireLock,
                ReleaseLock, Poll, PollGranted, PollAgain, PollGivesUp, managerVars
  <2>2. \A u \in Threads \ {t} : pc'[u] = pc[u] /\ held'[u] = held[u]
    BY <1>2 DEF Thread, ClientStep, LocalAcquire, LocalRefused, LocalRelease, AcquireLock,
                ReleaseLock, Poll, PollGranted, PollAgain, PollGivesUp, Return, Goto
  <2> QED BY <1>0, <2>1, <2>2 DEF PhaseInv
<1>3. ASSUME NEW t \in Threads, phase[NodeOf[t]] = "up", ClientCall(t),
             UNCHANGED managerVars
      PROVE  PhaseInv'
  <2>1. \A u \in Threads \ {t} : pc'[u] = pc[u] /\ held'[u] = held[u]
    BY <1>3 DEF ClientCall, Acquire, Release
  <2> QED BY <1>0, <1>3, <2>1 DEF PhaseInv, managerVars
<1> QED BY <1>1, <1>2, <1>3 DEF Service

\* initialize() and shutdown() create and destroy the parts in the order that
\* keeps what is in use alive.
LEMMA PhaseNode ==
    ASSUME LifecycleInv, LifecycleTypeOK', NEW n \in Nodes,
           \/ BeginInitialize(n) \/ OpenPool(n) \/ OpenFails(n) \/ ChooseAlgorithm(n)
           \/ InitLocals(n) \/ InitTierOrManager(n) \/ WipeWord(n) \/ StartManager(n)
           \/ BeginShutdown(n) \/ StopReturned(n) \/ TearDown(n) \/ Crash(n)
    PROVE  PhaseInv'
<1>0. /\ PhaseInv /\ ScanInv
      /\ phase \in [Nodes -> Phases] /\ cursor \in [Nodes -> Words]
      /\ mapped \in [Nodes -> BOOLEAN] /\ locals \in [Nodes -> BOOLEAN]
      /\ tier \in [Nodes -> BOOLEAN]
  BY DEF LifecycleInv, LifecycleTypeOK
<1> USE <1>0, ManagerNodeExists, NodeOfType DEF Enter, PhaseInv
<1>1. CASE \/ BeginInitialize(n) \/ OpenPool(n) \/ OpenFails(n) \/ ChooseAlgorithm(n)
           \/ InitLocals(n) \/ InitTierOrManager(n)
  <2>1. UNCHANGED <<pc, held, mpc>>
    BY <1>1 DEF BeginInitialize, OpenPool, OpenFails, ChooseAlgorithm, InitLocals,
                InitTierOrManager, casVars, vars
  <2>2. CASE BeginInitialize(n)
    BY <2>1, <2>2 DEF BeginInitialize, Wipes
  <2>3. CASE OpenPool(n) \/ OpenFails(n) \/ ChooseAlgorithm(n)
    BY <2>1, <2>3 DEF OpenPool, OpenFails, ChooseAlgorithm, Wipes
  <2>4. CASE InitLocals(n)
    BY <2>1, <2>4 DEF InitLocals, Wipes
  <2>5. CASE InitTierOrManager(n) /\ Undo(n)
    BY <2>1, <2>5 DEF InitTierOrManager, Undo, Wipes
  <2>6. CASE InitTierOrManager(n) /\ ~Undo(n)
    BY <2>1, <2>6 DEF InitTierOrManager, Wipes
  <2> QED BY <1>1, <2>2, <2>3, <2>4, <2>5, <2>6
<1>3. CASE WipeWord(n)
  <2>1. UNCHANGED <<pc, held, mpc, mapped, locals>>
    BY <1>3 DEF WipeWord, clientVars, managerVars
  <2>2. CASE UNCHANGED <<phase, tier>>
    BY <1>3, <2>1, <2>2 DEF WipeWord
  <2>3. CASE cursor' = [cursor EXCEPT ![n] = 0] /\ Enter(n, AfterWipe(n))
             /\ tier' = [tier EXCEPT ![n] = @ \/ phase[n] = "zeroTier"]
    BY <1>3, <2>1, <2>3 DEF WipeWord, AfterWipe, Wipes
  <2> QED BY <1>3, <2>2, <2>3 DEF WipeWord
<1>4. CASE StartManager(n)
  BY <1>4 DEF StartManager, Start, clientVars, Wipes
<1>5. CASE BeginShutdown(n)
  <2>1. UNCHANGED <<pc, held, mpc, mapped, locals, tier, cursor>>
    BY <1>5 DEF BeginShutdown, StopRequest, clientVars, managerVars
  <2> QED BY <1>5, <2>1, NodeOfType DEF BeginShutdown, NoCalls, Wipes
<1>6. CASE StopReturned(n)
  <2>1. UNCHANGED <<pc, held, mpc>> /\ mpc = "off"
    BY <1>6 DEF StopReturned, casVars, vars, ScanInv
  <2> QED BY <1>6, <2>1 DEF StopReturned, Wipes
<1>7. CASE TearDown(n)
  BY <1>7 DEF TearDown, Undo, Forget, managerVars, Wipes
<1>8. CASE Crash(n)
  <2>1. mpc' # "off" => mpc' = mpc /\ n # ManagerNode
    BY <1>8 DEF Crash, managerVars
  <2> QED BY <1>8, <2>1 DEF Crash, Undo, Forget, Wipes
<1> QED BY <1>1, <1>3, <1>4, <1>5, <1>6, <1>7, <1>8

-----------------------------------------------------------------------------
(* Mutexes *)

LEMMA MutexService ==
    ASSUME LifecycleInv, ~StrayRelease, Service
    PROVE  MutexInv' /\ NoLeakedMutex'
<1>0. ClientTypeOK /\ MutexInv /\ NoLeakedMutex
  BY DEF LifecycleInv, LifecycleTypeOK, TypeOK
<1>1. CASE Manager
  <2>1. UNCHANGED <<pc, arg, mutex, held>>
    BY <1>1 DEF Manager, CheckLocked, CheckWaiting, GrantLock, clientVars
  <2> QED BY <1>0, <2>1 DEF MutexInv, NoLeakedMutex, MutexOwner
<1>2. ASSUME NEW t \in Threads, Thread(t) PROVE MutexInv' /\ NoLeakedMutex'
  <2>1. CASE ClientStep(t) \/ Poll(t)
    BY <1>0, <2>1, MutexStep DEF Poll
  <2>2. CASE AcquireLock(t)
    BY <1>0, <2>2, MutexMove DEF AcquireLock, AcquirePCs
  <2>3. CASE ReleaseLock(t)
    BY <1>0, <2>3, MutexMove DEF ReleaseLock, AcquirePCs, ReleasePCs
  <2> QED BY <1>2, <2>1, <2>2, <2>3 DEF Thread
<1>3. ASSUME NEW t \in Threads, ClientCall(t) PROVE MutexInv' /\ NoLeakedMutex'
  BY <1>0, <1>3, MutexStep
<1> QED BY <1>1, <1>2, <1>3 DEF Service

\* A node that is torn down or dies takes its mutexes and its threads' holds with
\* it, and no other node's.
LEMMA MutexForget ==
    ASSUME ClientTypeOK, MutexInv, NoLeakedMutex, NEW n \in Nodes, Forget(n)
    PROVE  MutexInv' /\ NoLeakedMutex'
<1> USE NodeOfType, ThreadAssumption DEF ClientTypeOK, Forget
<1>1. MutexInv'
  BY DEF MutexInv, MutexOwner, AcquirePCs, ReleasePCs
<1>2. NoLeakedMutex'
  BY DEF NoLeakedMutex
<1> QED BY <1>1, <1>2

\* Steps of a node that leave its threads alone leave the mutexes alone.
LEMMA MutexNode ==
    ASSUME LifecycleInv, NEW n \in Nodes,
           UNCHANGED <<pc, arg, mutex, held>> \/ Forget(n)
    PROVE  MutexInv' /\ NoLeakedMutex'
<1>0. ClientTypeOK /\ MutexInv /\ NoLeakedMutex
  BY DEF LifecycleInv, LifecycleTypeOK, TypeOK
<1>1. CASE UNCHANGED <<pc, arg, mutex, held>>
  BY <1>0, <1>1 DEF MutexInv, NoLeakedMutex, MutexOwner
<1> QED BY <1>0, <1>1, MutexForget

-----------------------------------------------------------------------------
(* The manager's scan *)

\* Clients and nodes write no LOCKED, so what check_grant read stays true.
LEMMA ScanService ==
    ASSUME LifecycleInv, Service
    PROVE  ScanInv' /\ OneLocked'
<1>0. TypeOK /\ ScanInv /\ OneLocked /\ mlock \in Locks
  BY DEF LifecycleInv, LifecycleTypeOK, TypeOK, ManagerTypeOK
<1>1. CASE Manager
  <2>1. CASE GrantLock
    BY <1>0, <2>1, ScanGrantLock
  <2>2. CASE ManagerStep /\ UNCHANGED <<clientVars, slot, pass, nid>>
    BY <1>0, <2>2, ScanManagerStep DEF OneLocked
  <2>3. CASE CheckLocked
    BY <1>0, <2>3, ScanCheckLocked DEF CheckLocked, OneLocked
  <2>4. CASE CheckWaiting
    BY <1>0, <2>4, ScanCheckWaiting DEF CheckWaiting, OneLocked
  <2> QED BY <1>1, <2>1, <2>2, <2>3, <2>4 DEF Manager
<1>2. ASSUME NEW t \in Threads,
             Thread(t) \/ (ClientCall(t) /\ UNCHANGED <<managerVars, slot, pass, nid>>)
      PROVE  ScanInv' /\ OneLocked'
  <2>1. UNCHANGED <<running, mpc, mlock, grantee, pass, nid>>
    BY <1>2 DEF Thread, AcquireLock, ReleaseLock, Poll, managerVars
  <2>2. \A l \in Locks, m \in Nodes : slot'[l][m] = "LOCKED" => slot[l][m] = "LOCKED"
    BY <1>0, <1>2, ThreadSlot
  <2> QED BY <1>0, <2>1, <2>2, ScanStable
<1> QED BY <1>1, <1>2 DEF Service

\* Nor do nodes; a manager that starts or dies has read nothing.
LEMMA ScanNode ==
    ASSUME LifecycleInv, NEW n \in Nodes,
           \/ BeginInitialize(n) \/ OpenPool(n) \/ OpenFails(n) \/ ChooseAlgorithm(n)
           \/ InitLocals(n) \/ InitTierOrManager(n) \/ WipeWord(n) \/ StartManager(n)
           \/ BeginShutdown(n) \/ StopReturned(n) \/ TearDown(n) \/ Crash(n)
    PROVE  ScanInv' /\ OneLocked'
<1>0. TypeOK /\ ScanInv /\ OneLocked /\ mlock \in Locks /\ slot \in [Locks -> [Nodes -> SlotStates]]
  BY DEF LifecycleInv, LifecycleTypeOK, TypeOK, ManagerTypeOK
<1>1. CASE \/ BeginInitialize(n) \/ OpenPool(n) \/ OpenFails(n) \/ ChooseAlgorithm(n)
           \/ InitLocals(n) \/ InitTierOrManager(n) \/ StopReturned(n) \/ TearDown(n)
  <2>1. UNCHANGED <<running, mpc, mlock, grantee, slot, pass, nid>>
    BY <1>1 DEF BeginInitialize, OpenPool, OpenFails, ChooseAlgorithm, InitLocals,
                InitTierOrManager, StopReturned, TearDown, casVars, vars, managerVars
  <2> QED BY <1>0, <2>1, ScanStable
<1>2. CASE WipeWord(n)
  <2>1. UNCHANGED <<running, mpc, mlock, grantee, pass, nid>>
    BY <1>2 DEF WipeWord, managerVars
  <2>2. \A l \in Locks, m \in Nodes : slot'[l][m] = "LOCKED" => slot[l][m] = "LOCKED"
    BY <1>0, <1>2 DEF WipeWord
  <2> QED BY <1>0, <2>1, <2>2, ScanStable
<1>3. CASE StartManager(n)
  BY <1>0, <1>3, ScanManagerStep DEF StartManager, OneLocked
<1>4. CASE BeginShutdown(n)
  <2>1. CASE StopRequest
    BY <1>0, <1>4, <2>1, ScanManagerStep DEF BeginShutdown, OneLocked
  <2>2. CASE UNCHANGED managerVars
    BY <1>0, <1>4, <2>2, ScanStable DEF BeginShutdown, managerVars
  <2> QED BY <1>4, <2>1, <2>2 DEF BeginShutdown
<1>5. CASE Crash(n)
  <2>1. CASE n = ManagerNode
    <3>1. mpc' = "off" /\ pass' = 1 /\ nid' = 0 /\ slot' = slot
      BY <1>5, <2>1 DEF Crash
    <3> QED BY <1>0, <3>1 DEF ScanInv, OneLocked
  <2>2. CASE n # ManagerNode
    BY <1>0, <1>5, <2>2, ScanStable DEF Crash, managerVars
  <2> QED BY <2>1, <2>2
<1> QED BY <1>1, <1>2, <1>3, <1>4, <1>5

-----------------------------------------------------------------------------
(* Slots of holders, of nodes that start and of nodes that are up *)

\* Outside the nodes that are up no IDLE slot is written: no thread of theirs is
\* in a call and a grant needs a WAITING slot.
LEMMA ColumnService ==
    ASSUME LifecycleInv, Service
    PROVE  ColumnInv'
<1>0. /\ TypeOK /\ PhaseInv /\ ColumnInv
      /\ slot \in [Locks -> [Nodes -> SlotStates]] /\ UNCHANGED <<phase, cursor>>
  BY ServiceIsNext DEF LifecycleInv, LifecycleTypeOK, TypeOK
<1>1. ASSUME NEW n \in Nodes, NEW l \in Locks, phase[n] # "up", slot[l][n] = "IDLE"
      PROVE  slot'[l][n] = "IDLE"
  <2>1. CASE Manager
    BY <1>0, <1>1, <2>1 DEF Manager, CheckLocked, CheckWaiting, GrantLock
  <2>2. ASSUME NEW t \in Threads, Thread(t) PROVE slot'[l][n] = "IDLE"
    <3>1. NodeOf[t] # n
      BY <1>0, <1>1, <2>2, ThreadSlot DEF PhaseInv
    <3> QED BY <1>0, <1>1, <2>2, <3>1, ThreadSlot
  <2>3. CASE UNCHANGED slot
    BY <1>1, <2>3
  <2> QED BY <2>1, <2>2, <2>3 DEF Service
<1>2. \A w \in Words : LockAt(w) \in Locks
  BY WordIsSlot
<1> QED BY <1>0, <1>1, <1>2 DEF ColumnInv

\* The memset of a start clears the words one by one; a grant to a slot behind it
\* finds IDLE.
LEMMA ColumnNode ==
    ASSUME LifecycleInv, NEW n \in Nodes,
           \/ BeginInitialize(n) \/ OpenPool(n) \/ OpenFails(n) \/ ChooseAlgorithm(n)
           \/ InitLocals(n) \/ InitTierOrManager(n) \/ WipeWord(n) \/ StartManager(n)
           \/ BeginShutdown(n) \/ StopReturned(n) \/ TearDown(n) \/ Crash(n)
    PROVE  /\ ColumnInv'
           /\ phase'[n] = "up" /\ phase[n] # "up" => \A l \in Locks : slot'[l][n] = "IDLE"
<1>0. /\ PhaseInv /\ ColumnInv /\ slot \in [Locks -> [Nodes -> SlotStates]]
      /\ phase \in [Nodes -> Phases] /\ cursor \in [Nodes -> Words]
      /\ \A w \in Words : LockAt(w) \in Locks /\ NodeAt(w) \in Nodes /\ w \in Nat
  BY WordIsSlot DEF LifecycleInv, LifecycleTypeOK, TypeOK, Words
<1> USE <1>0 DEF Enter
<1>1. CASE WipeWord(n)
  <2> DEFINE l == LockAt(cursor[n])
             m == NodeAt(cursor[n])
  <2>1. l \in Locks /\ m \in Nodes /\ slot' = [slot EXCEPT ![l][m] = "IDLE"] /\ phase[n] \in Wipes
    BY <1>1 DEF WipeWord
  <2> HIDE DEF l, m
  <2>2. \A k \in Locks, p \in Nodes : slot[k][p] = "IDLE" => slot'[k][p] = "IDLE"
    BY <2>1
  <2>3. slot'[l][m] = "IDLE"
    BY <2>1
  <2>4. \A p \in Nodes \ {n} : phase'[p] = phase[p] /\ cursor'[p] = cursor[p]
    BY <1>1 DEF WipeWord
  <2>5. ASSUME phase[n] = "zeroTier", NEW w \in Words, w <= cursor[n], NodeAt(w) = n
        PROVE  slot'[LockAt(w)][n] = "IDLE"
    <3>1. CASE w < cursor[n]
      BY <2>2, <2>5, <3>1 DEF ColumnInv
    <3>2. CASE w = cursor[n]
      BY <2>3, <2>5, <3>2 DEF l, m
    <3> QED BY <2>5, <3>1, <3>2
  <2>6. CASE cursor[n] + 1 \in Words
    <3>1. phase' = phase /\ cursor'[n] = cursor[n] + 1
      BY <1>1, <2>6 DEF WipeWord
    <3>2. phase[n] = "zeroTier" =>
            \A w \in Words : w < cursor'[n] /\ NodeAt(w) = n => slot'[LockAt(w)][n] = "IDLE"
      BY <2>5, <3>1
    <3> QED BY <2>1, <2>2, <2>4, <3>1, <3>2 DEF ColumnInv
  <2>7. CASE cursor[n] + 1 \notin Words
    <3>1. phase'[n] = AfterWipe(n) /\ cursor'[n] = 0
      BY <1>1, <2>7 DEF WipeWord
    <3>2. \A w \in Words : w <= cursor[n]
      <4> DEFINE size == LockCount * NodeCount
      <4>1. size \in Nat /\ Words = 0 .. size - 1 /\ cursor[n] \in Words
        BY CountAssumption DEF Words
      <4> HIDE DEF size
      <4> QED BY <2>7, <4>1
    <3>3. phase[n] = "zeroTier" => \A k \in Locks : slot'[k][n] = "IDLE"
      BY <2>5, <3>2, WordOfSlot
    <3>4. phase'[n] \in {"manager", "start", "up"} => \A k \in Locks : slot'[k][n] = "IDLE"
      BY <2>1, <2>2, <3>1, <3>3 DEF ColumnInv, AfterWipe, Wipes
    <3>5. phase'[n] \in {"choose", "manager", "start", "up"}
      BY <2>1, <3>1 DEF AfterWipe, Wipes
    <3> QED BY <2>2, <2>4, <3>4, <3>5 DEF ColumnInv
  <2> QED BY <2>6, <2>7
<1>2. CASE ~WipeWord(n)
  <2>1. UNCHANGED slot /\ \A p \in Nodes \ {n} : phase'[p] = phase[p] /\ cursor'[p] = cursor[p]
    BY <1>2 DEF BeginInitialize, OpenPool, OpenFails, ChooseAlgorithm, InitLocals,
         InitTierOrManager, StartManager, BeginShutdown, StopReturned, TearDown, Crash, Undo,
         casVars, vars
  <2>2. \/ phase'[n] \in Phases \ {"zeroTier", "manager", "zeroManager", "start", "up"}
        \/ phase[n] = "tier" /\ phase'[n] = "zeroTier" /\ cursor' = cursor
        \/ phase[n] = "manager" /\ phase'[n] = "zeroManager"
        \/ phase[n] = "start" /\ phase'[n] = "up"
    <3>1. CASE BeginInitialize(n) \/ OpenPool(n) \/ OpenFails(n) \/ ChooseAlgorithm(n)
      BY <3>1 DEF BeginInitialize, OpenPool, OpenFails, ChooseAlgorithm, Phases, Wipes
    <3>2. CASE InitLocals(n) \/ InitTierOrManager(n)
      <4>1. CASE InitLocals(n)
        BY <4>1 DEF InitLocals, Phases
      <4>2. CASE InitTierOrManager(n)
        BY <4>2 DEF InitTierOrManager, Undo, Phases
      <4> QED BY <3>2, <4>1, <4>2
    <3>3. CASE StartManager(n) \/ BeginShutdown(n) \/ StopReturned(n)
      BY <3>3 DEF StartManager, BeginShutdown, StopReturned, Phases
    <3>4. CASE TearDown(n) \/ Crash(n)
      BY <3>4 DEF TearDown, Crash, Undo, Phases
    <3> QED BY <1>2, <3>1, <3>2, <3>3, <3>4
  <2>3. phase[n] = "tier" => \A w \in Words : ~(w < cursor[n])
    BY DEF PhaseInv, Wipes
  <2> QED BY <2>1, <2>2, <2>3 DEF ColumnInv
<1> QED BY <1>1, <1>2

\* A lock that was not wiped under its holder is LOCKED in the holder's slot, and
\* a slot that is not IDLE has an owner, through every step of a thread.
LEMMA SlotsThread ==
    ASSUME LifecycleInv, ~StrayRelease, MutexInv', TypeOK', NEW t \in Threads,
           \/ Thread(t)
           \/ ClientCall(t) /\ UNCHANGED <<managerVars, slot, pass, nid>>,
           UNCHANGED phase, wiped' = [u \in Threads |-> wiped[u] \cap held'[u]]
    PROVE  WipedSlotInv' /\ RestartLeavesNoOrphan'
<1>0. /\ MutexInv /\ WipedSlotInv /\ RestartLeavesNoOrphan /\ TypeOK /\ ClientTypeOK
      /\ slot \in [Locks -> [Nodes -> SlotStates]] /\ wiped \in [Threads -> SUBSET Locks]
      /\ pc[t] # "idle" => phase[NodeOf[t]] = "up"
  BY DEF LifecycleInv, LifecycleTypeOK, TypeOK, PhaseInv
<1> USE <1>0, NodeOfType, ThreadAssumption DEF ClientTypeOK, MutexOwner
<1>1. CASE LocalAcquire(t) /\ UNCHANGED slot
  <2>1. slot[arg[t]][NodeOf[t]] = "IDLE"
    BY <1>1 DEF LocalAcquire, RestartLeavesNoOrphan
  <2>2. WipedSlotInv'
    BY <1>1, <2>1 DEF LocalAcquire, Goto, WipedSlotInv
  <2>3. RestartLeavesNoOrphan'
    BY <1>1, <2>1 DEF LocalAcquire, Goto, RestartLeavesNoOrphan, Responsible
  <2> QED BY <2>2, <2>3
<1>2. CASE LocalRefused(t) /\ UNCHANGED slot
  <2>1. WipedSlotInv'
    BY <1>2 DEF LocalRefused, Return, WipedSlotInv
  <2>2. RestartLeavesNoOrphan'
    BY <1>2 DEF LocalRefused, Return, RestartLeavesNoOrphan, Responsible
  <2> QED BY <2>1, <2>2
<1>3. CASE LocalRelease(t) /\ UNCHANGED slot
  <2>1. slot[arg[t]][NodeOf[t]] = "IDLE" /\ MutexOwner(t) = t /\ arg[t] \notin held[t]
    BY <1>3 DEF LocalRelease, WipedSlotInv, MutexInv, AcquirePCs, ReleasePCs
  <2>2. WipedSlotInv'
    BY <1>3 DEF LocalRelease, Return, WipedSlotInv
  <2>3. RestartLeavesNoOrphan'
    BY <1>3, <2>1 DEF LocalRelease, Return, RestartLeavesNoOrphan, Responsible
  <2> QED BY <2>2, <2>3
<1>4. CASE AcquireLock(t)
  <2>1. MutexOwner(t) = t /\ arg[t] \notin held[t] /\ pc[t] = "request"
    BY <1>4 DEF AcquireLock, MutexInv, AcquirePCs
  <2>2. WipedSlotInv'
    BY <1>4, <2>1 DEF AcquireLock, WriteSlot, Goto, WipedSlotInv, MutexInv, AcquirePCs, ReleasePCs
  <2>3. RestartLeavesNoOrphan'
    BY <1>4, <2>1 DEF AcquireLock, WriteSlot, Goto, RestartLeavesNoOrphan, Responsible
  <2> QED BY <2>2, <2>3
<1>5. CASE ReleaseLock(t)
  <2>1. MutexOwner(t) = t /\ arg[t] \notin held[t]
    BY <1>5 DEF ReleaseLock, MutexInv, AcquirePCs, ReleasePCs
  <2>2. WipedSlotInv'
    BY <1>5, <2>1 DEF ReleaseLock, WriteSlot, Goto, WipedSlotInv, MutexInv, AcquirePCs, ReleasePCs
  <2>3. RestartLeavesNoOrphan'
    BY <1>5, <2>1 DEF ReleaseLock, WriteSlot, Goto, RestartLeavesNoOrphan, Responsible
  <2> QED BY <2>2, <2>3
<1>6. CASE Granted(t) /\ PollGranted(t) /\ UNCHANGED slot
  <2>1. MutexOwner(t) = t /\ arg[t] \notin held[t] /\ pc[t] = "poll"
    BY <1>6 DEF PollGranted, MutexInv, AcquirePCs
  <2>2. WipedSlotInv'
    BY <1>6, <2>1 DEF PollGranted, Return, Granted, WipedSlotInv
  <2>3. RestartLeavesNoOrphan'
    BY <1>6, <2>1 DEF PollGranted, Return, RestartLeavesNoOrphan, Responsible
  <2> QED BY <2>2, <2>3
<1>7. CASE (PollAgain(t) \/ PollGivesUp(t)) /\ UNCHANGED slot
  <2>1. WipedSlotInv'
    BY <1>7 DEF PollAgain, PollGivesUp, Goto, WipedSlotInv
  <2>2. RestartLeavesNoOrphan'
    BY <1>7 DEF PollAgain, PollGivesUp, Goto, RestartLeavesNoOrphan, Responsible
  <2> QED BY <2>1, <2>2
<1>8. ASSUME NEW l \in Locks, NEW m \in CallModes, Acquire(t, l, m), UNCHANGED slot
      PROVE  WipedSlotInv' /\ RestartLeavesNoOrphan'
  <2>1. WipedSlotInv'
    BY <1>8 DEF Acquire, WipedSlotInv
  <2>2. RestartLeavesNoOrphan'
    BY <1>8 DEF Acquire, RestartLeavesNoOrphan, Responsible
  <2> QED BY <2>1, <2>2
<1>9. ASSUME NEW l \in Locks, Release(t, l), UNCHANGED slot
      PROVE  WipedSlotInv' /\ RestartLeavesNoOrphan'
  <2>1. WipedSlotInv'
    BY <1>9 DEF Release, WipedSlotInv
  <2>2. RestartLeavesNoOrphan'
    BY <1>9 DEF Release, RestartLeavesNoOrphan, Responsible
  <2> QED BY <2>1, <2>2
<1> QED BY <1>1, <1>2, <1>3, <1>4, <1>5, <1>6, <1>7, <1>8, <1>9
    DEF Thread, ClientStep, Poll, ClientCall

\* A grant writes only a WAITING slot, so it disturbs no holder and gives no idle
\* slot away.
LEMMA SlotsManager ==
    ASSUME LifecycleInv, Manager, UNCHANGED phase,
           wiped' = [u \in Threads |-> wiped[u] \cap held'[u]]
    PROVE  WipedSlotInv' /\ RestartLeavesNoOrphan'
<1>0. /\ WipedSlotInv /\ RestartLeavesNoOrphan /\ TypeOK /\ ClientTypeOK
      /\ slot \in [Locks -> [Nodes -> SlotStates]] /\ wiped \in [Threads -> SUBSET Locks]
  BY DEF LifecycleInv, LifecycleTypeOK, TypeOK
<1>1. UNCHANGED <<pc, arg, mutex, held>>
  BY DEF Manager, CheckLocked, CheckWaiting, GrantLock, clientVars
<1>2. wiped' = wiped
  BY <1>0, <1>1 DEF WipedSlotInv
<1>3. \A l \in Locks, n \in Nodes :
        \/ slot'[l][n] = slot[l][n]
        \/ slot[l][n] = "WAITING" /\ slot'[l][n] = "LOCKED"
  BY <1>0 DEF Manager, CheckLocked, CheckWaiting, GrantLock, TypeOK, ManagerTypeOK
<1>4. WipedSlotInv'
  <2>1. ASSUME NEW t \in Threads
        PROVE  NodeOf[t] \in Nodes /\ arg[t] \in Locks /\ held[t] \subseteq Locks
    BY <1>0, NodeOfType DEF ClientTypeOK
  <2> QED BY <1>0, <1>1, <1>2, <1>3, <2>1 DEF WipedSlotInv
<1>5. RestartLeavesNoOrphan'
  BY <1>0, <1>1, <1>3 DEF RestartLeavesNoOrphan, Responsible
<1> QED BY <1>4, <1>5

\* A start records whose slots it zeroes; the node that comes up has none but
\* IDLE ones; a node that goes takes its holds with it.
LEMMA SlotsNode ==
    ASSUME LifecycleInv, LifecycleTypeOK', NEW n \in Nodes,
           NodeStep(n) \/ NodeWipes(n) \/ NodeEvent(n)
    PROVE  WipedSlotInv' /\ RestartLeavesNoOrphan'
<1>0. /\ PhaseInv /\ WipedSlotInv /\ RestartLeavesNoOrphan /\ TypeOK /\ ClientTypeOK
      /\ slot \in [Locks -> [Nodes -> SlotStates]] /\ wiped \in [Threads -> SUBSET Locks]
      /\ phase \in [Nodes -> Phases]
  BY DEF LifecycleInv, LifecycleTypeOK, TypeOK
<1>1. phase'[n] = "up" /\ phase[n] # "up" => \A l \in Locks : slot'[l][n] = "IDLE"
  BY ColumnNode DEF NodeStep, NodeWipes, NodeEvent
<1>2. \A p \in Nodes \ {n} : phase'[p] = phase[p]
  <2>1. phase' = phase \/ \E p \in Phases : Enter(n, p)
    <3>1. CASE NodeStep(n)
      BY <3>1 DEF NodeStep, OpenPool, OpenFails, ChooseAlgorithm, InitLocals,
         InitTierOrManager, StartManager, StopReturned, TearDown, Undo, Phases, Wipes
    <3>2. CASE NodeWipes(n)
      BY <3>2 DEF NodeWipes, WipeWord, AfterWipe, Phases, Wipes
    <3>3. CASE NodeEvent(n)
      BY <3>3 DEF NodeEvent, BeginInitialize, BeginShutdown, Crash, Undo, Phases
    <3> QED BY <3>1, <3>2, <3>3
  <2> QED BY <1>0, <2>1 DEF Enter
<1>3. CASE NodeWipes(n)
  <2> DEFINE l == LockAt(cursor[n])
             m == NodeAt(cursor[n])
  <2>1. /\ slot' = [slot EXCEPT ![l][m] = "IDLE"] /\ UNCHANGED <<pc, arg, mutex, held>>
        /\ wiped' = [t \in Threads |->
                        IF NodeOf[t] = m /\ l \in held[t] THEN wiped[t] \cup {l}
                        ELSE wiped[t]]
    BY <1>3 DEF NodeWipes, WipeWord, clientVars
  <2>2. l \in Locks /\ m \in Nodes
    BY WordIsSlot DEF LifecycleInv, LifecycleTypeOK
  <2> HIDE DEF l, m
  <2>3. WipedSlotInv'
    BY <1>0, <2>1, <2>2, NodeOfType DEF WipedSlotInv, ClientTypeOK
  <2>4. RestartLeavesNoOrphan'
    BY <1>0, <1>1, <1>2, <2>1, <2>2 DEF RestartLeavesNoOrphan, Responsible
  <2> QED BY <2>3, <2>4
<1>4. CASE ~NodeWipes(n)
  <2>1. slot' = slot /\ wiped' = [t \in Threads |-> wiped[t] \cap held'[t]]
    BY <1>4 DEF NodeStep, NodeEvent, BeginInitialize, OpenPool, OpenFails, ChooseAlgorithm,
       InitLocals, InitTierOrManager, StartManager, BeginShutdown, StopReturned, TearDown,
       Crash, casVars, vars
  <2>2. UNCHANGED <<pc, arg, mutex, held>> \/ (Forget(n) /\ phase'[n] # "up")
    <3>1. CASE TearDown(n) \/ Crash(n)
      BY <1>0, <3>1 DEF TearDown, Crash, Undo, Enter
    <3>2. CASE ~(TearDown(n) \/ Crash(n))
      BY <1>4, <3>2 DEF NodeStep, NodeEvent, BeginInitialize, OpenPool, OpenFails,
         ChooseAlgorithm, InitLocals, InitTierOrManager, StartManager, BeginShutdown,
         StopReturned, casVars, vars, clientVars
    <3> QED BY <3>1, <3>2
  <2>3. CASE UNCHANGED <<pc, arg, mutex, held>>
    <3>1. wiped' = wiped
      BY <1>0, <2>1, <2>3 DEF WipedSlotInv
    <3>2. WipedSlotInv'
      BY <1>0, <2>1, <2>3, <3>1 DEF WipedSlotInv
    <3>3. RestartLeavesNoOrphan'
      BY <1>0, <1>1, <1>2, <2>1, <2>3 DEF RestartLeavesNoOrphan, Responsible
    <3> QED BY <3>2, <3>3
  <2>4. CASE Forget(n) /\ phase'[n] # "up"
    <3>1. WipedSlotInv'
      BY <1>0, <2>1, <2>4, NodeOfType DEF Forget, WipedSlotInv
    <3>2. RestartLeavesNoOrphan'
      <4>1. \A t \in Threads : NodeOf[t] # n =>
                pc'[t] = pc[t] /\ arg'[t] = arg[t] /\ held'[t] = held[t]
        BY <2>4 DEF Forget
      <4>2. \A p \in Nodes \ {n} : mutex'[p] = mutex[p]
        BY <1>0, <2>4 DEF Forget, ClientTypeOK
      <4> QED BY <1>0, <1>2, <2>1, <2>4, <4>1, <4>2 DEF RestartLeavesNoOrphan, Responsible
    <3> QED BY <3>1, <3>2
  <2> QED BY <2>2, <2>3, <2>4
<1> QED BY <1>3, <1>4

-----------------------------------------------------------------------------
(* The theorems *)

LEMMA LifecycleInvInit == LifecycleInit => LifecycleInv
<1> SUFFICES ASSUME LifecycleInit PROVE LifecycleInv
    OBVIOUS
<1>1. LifecycleTypeOK
  BY LifecycleTypeInit
<1>2. MutexInv /\ NoLeakedMutex /\ ScanInv /\ OneLocked
  BY InvInit DEF LifecycleInit, IInv
<1>3. PhaseInv
  BY DEF LifecycleInit, Init, ClientInit, ManagerInit, PhaseInv, Wipes
<1>4. ColumnInv /\ RestartLeavesNoOrphan
  BY DEF LifecycleInit, Init, ColumnInv, RestartLeavesNoOrphan
<1>5. WipedSlotInv
  BY DEF LifecycleInit, Init, ClientInit, WipedSlotInv
<1> QED BY <1>1, <1>2, <1>3, <1>4, <1>5 DEF LifecycleInv

LEMMA LifecycleInvStep ==
    ASSUME ~StrayRelease
    PROVE  LifecycleInv /\ [LifecycleNext]_lifeVars => LifecycleInv'
<1> SUFFICES ASSUME LifecycleInv, [LifecycleNext]_lifeVars PROVE LifecycleInv'
    OBVIOUS
<1>0. LifecycleTypeOK' /\ TypeOK'
  BY LifecycleTypeStep DEF LifecycleInv, LifecycleTypeOK
<1>1. CASE UNCHANGED lifeVars
  <2>1. UNCHANGED <<pc, arg, mutex, held, running, mpc, mlock, grantee, slot, pass, nid>>
        /\ UNCHANGED <<phase, cursor, mapped, locals, tier, wiped>>
    BY <1>1 DEF lifeVars, vars, nodeVars
  <2>2. PhaseInv' /\ ColumnInv' /\ WipedSlotInv'
    BY <2>1 DEF LifecycleInv, PhaseInv, ColumnInv, WipedSlotInv
  <2>3. MutexInv' /\ NoLeakedMutex' /\ ScanInv' /\ OneLocked'
    BY <2>1 DEF LifecycleInv, MutexInv, MutexOwner, NoLeakedMutex, ScanInv, OneLocked
  <2>4. RestartLeavesNoOrphan'
    BY <2>1 DEF LifecycleInv, RestartLeavesNoOrphan, Responsible
  <2> QED BY <1>0, <2>2, <2>3, <2>4 DEF LifecycleInv
<1>2. CASE Service
  <2>1. PhaseInv' /\ ColumnInv' /\ MutexInv' /\ NoLeakedMutex' /\ ScanInv' /\ OneLocked'
    BY <1>0, <1>2, PhaseService, ColumnService, MutexService, ScanService
  <2>2. UNCHANGED phase /\ wiped' = [t \in Threads |-> wiped[t] \cap held'[t]]
    BY <1>2, ServiceIsNext DEF Service
  <2>3. WipedSlotInv' /\ RestartLeavesNoOrphan'
    BY <1>0, <1>2, <2>1, <2>2, SlotsThread, SlotsManager DEF Service
  <2> QED BY <1>0, <2>1, <2>3 DEF LifecycleInv
<1>3. ASSUME NEW n \in Nodes, NodeStep(n) \/ NodeWipes(n) \/ NodeEvent(n)
      PROVE  LifecycleInv'
  <2>1. \/ BeginInitialize(n) \/ OpenPool(n) \/ OpenFails(n) \/ ChooseAlgorithm(n)
        \/ InitLocals(n) \/ InitTierOrManager(n) \/ WipeWord(n) \/ StartManager(n)
        \/ BeginShutdown(n) \/ StopReturned(n) \/ TearDown(n) \/ Crash(n)
    BY <1>3 DEF NodeStep, NodeWipes, NodeEvent
  <2>2. PhaseInv' /\ ColumnInv' /\ ScanInv' /\ OneLocked'
    BY <1>0, <2>1, PhaseNode, ColumnNode, ScanNode
  <2>3. UNCHANGED <<pc, arg, mutex, held>> \/ Forget(n)
    BY <2>1 DEF BeginInitialize, OpenPool, OpenFails, ChooseAlgorithm, InitLocals,
       InitTierOrManager, WipeWord, StartManager, BeginShutdown, StopReturned, TearDown,
       Crash, casVars, vars, clientVars
  <2>4. MutexInv' /\ NoLeakedMutex'
    BY <2>3, MutexNode
  <2>5. WipedSlotInv' /\ RestartLeavesNoOrphan'
    BY <1>0, <1>3, SlotsNode
  <2> QED BY <1>0, <2>2, <2>4, <2>5 DEF LifecycleInv
<1> QED BY <1>1, <1>2, <1>3 DEF LifecycleNext

\* The invariant that relates phases, slots, mutexes and what starts have wiped
\* always holds when applications release only what they hold.
THEOREM LifecycleInvCorrect ==
    ASSUME ~StrayRelease
    PROVE  LifecycleSpec => []LifecycleInv
  BY LifecycleInvInit, LifecycleInvStep, PTL DEF LifecycleSpec

\* Of the threads that hold a lock at most one has not had its slot zeroed by the
\* start of a node: nothing but that zeroing breaks exclusion, no crash, restart,
\* failed initialize() or shutdown at whatever point.
THEOREM OnlyStartsBreakExclusion ==
    ASSUME ~StrayRelease
    PROVE  LifecycleSpec => []OneUnwipedHolder
<1>1. LifecycleInv => OneUnwipedHolder
  BY NodeOfType DEF LifecycleInv, LifecycleTypeOK, TypeOK, ClientTypeOK, WipedSlotInv,
     OneLocked, OneUnwipedHolder
<1> QED BY <1>1, LifecycleInvCorrect, PTL

\* A node that is back up has no slot left over from its earlier life, also when
\* the manager was granting it at the time.
THEOREM RestartIsClean ==
    ASSUME ~StrayRelease
    PROVE  LifecycleSpec => []RestartLeavesNoOrphan
<1>1. LifecycleInv => RestartLeavesNoOrphan
  BY DEF LifecycleInv
<1> QED BY <1>1, LifecycleInvCorrect, PTL

\* shutdown(), the error paths of initialize() and the destruction of the parts
\* never pull the memory or the mutexes from under a call or the manager's worker.
THEOREM NothingUsedAfterClose ==
    ASSUME ~StrayRelease
    PROVE  LifecycleSpec => []NoUseAfterClose
<1>1. LifecycleInv => NoUseAfterClose
  BY NodeOfType, ManagerNodeExists DEF LifecycleInv, PhaseInv, NoUseAfterClose
<1> QED BY <1>1, LifecycleInvCorrect, PTL
=============================================================================
