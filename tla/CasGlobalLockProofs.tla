------------------------- MODULE CasGlobalLockProofs -------------------------
(***************************************************************************)
(* Proofs that the CAS algorithm under the two-tier lock is correct for    *)
(* any number of nodes, locks and threads.                                 *)
(***************************************************************************)
EXTENDS CasGlobalLock, TwoTierLockProofs

\* Every variable keeps its type through every step of clients and manager.
LEMMA TypeStep == TypeOK /\ [Next]_vars => TypeOK'
<1> SUFFICES ASSUME TypeOK, [Next]_vars PROVE TypeOK'
    OBVIOUS
<1> USE NodeOfType, CountAssumption DEF TypeOK
<1>1. CASE UNCHANGED vars
  BY <1>1 DEF vars, ClientTypeOK, ManagerTypeOK
<1>2. CASE Manager
  <2>1. UNCHANGED clientVars
    BY <1>2 DEF Manager, CheckLocked, CheckWaiting, GrantLock
  <2>2. ClientTypeOK'
    BY <2>1 DEF clientVars, ClientTypeOK
  <2>3. ManagerTypeOK'
    <3>1. CASE ManagerStep
      BY <3>1, ManagerTypeStep
    <3>2. CASE CheckLocked
      BY <3>2, ManagerTypeStep DEF CheckLocked, managerVars, ManagerTypeOK
    <3>3. CASE CheckWaiting
      BY <3>3, ManagerTypeStep DEF CheckWaiting, managerVars, ManagerTypeOK
    <3>4. CASE GrantLock
      BY <3>4, ManagerTypeStep DEF GrantLock
    <3> QED BY <1>2, <3>1, <3>2, <3>3, <3>4 DEF Manager
  <2>4. (slot \in [Locks -> [Nodes -> SlotStates]])'
    BY <1>2 DEF Manager, CheckLocked, CheckWaiting, GrantLock, SlotStates
  <2>5. (pass \in {1, 2} /\ nid \in Nodes)'
    BY <1>2 DEF Manager, CheckLocked, CheckWaiting, GrantLock, Nodes
  <2> QED BY <2>2, <2>3, <2>4, <2>5
<1>3. CASE Environment
  <2>1. (slot \in [Locks -> [Nodes -> SlotStates]] /\ pass \in {1, 2} /\ nid \in Nodes)'
    BY <1>3 DEF Environment
  <2>2. ClientTypeOK'
    BY <1>3, ClientTypeStep DEF Environment, clientVars, ClientTypeOK
  <2>3. ManagerTypeOK'
    BY <1>3, ManagerTypeStep DEF Environment, managerVars, ManagerTypeOK
  <2> QED BY <2>1, <2>2, <2>3
<1>4. ASSUME NEW t \in Threads, Thread(t) PROVE TypeOK'
  <2>1. UNCHANGED <<managerVars, pass, nid>>
    BY <1>4 DEF Thread, AcquireLock, ReleaseLock, Poll
  <2>2. ManagerTypeOK'
    BY <2>1 DEF managerVars, ManagerTypeOK
  <2>3. ClientTypeOK'
    <3>1. CASE AcquireLock(t) \/ ReleaseLock(t)
      BY <3>1 DEF AcquireLock, ReleaseLock, Goto, ClientTypeOK, PCs, AcquirePCs, ReleasePCs
    <3>2. CASE ClientStep(t) \/ Poll(t)
      BY <3>2, ClientTypeStep DEF Poll
    <3> QED BY <1>4, <3>1, <3>2 DEF Thread
  <2>4. (slot \in [Locks -> [Nodes -> SlotStates]])'
    <3>1. ASSUME NEW state \in SlotStates, WriteSlot(t, state)
          PROVE  (slot \in [Locks -> [Nodes -> SlotStates]])'
      BY <3>1 DEF WriteSlot, ClientTypeOK
    <3> QED BY <1>4, <3>1 DEF Thread, AcquireLock, ReleaseLock, Poll, SlotStates
  <2> QED BY <2>1, <2>2, <2>3, <2>4
<1> QED BY <1>1, <1>2, <1>3, <1>4 DEF Next

LEMMA TypeInit == Init => TypeOK
<1> SUFFICES ASSUME Init PROVE TypeOK
    OBVIOUS
<1>1. ClientTypeOK
  BY ZeroIsLock, SpinAssumption
  DEF Init, ClientInit, ClientTypeOK, Modes, PCs
<1>2. ManagerTypeOK
  BY ZeroIsLock DEF Init, ManagerInit, ManagerTypeOK, ManagerPCs
<1> QED
  BY <1>1, <1>2, CountAssumption DEF Init, TypeOK, SlotStates, Nodes

\* Every reachable state of clients, manager and slots is well typed.
THEOREM TypeCorrect == Spec => []TypeOK
  BY TypeInit, TypeStep, PTL DEF Spec

-----------------------------------------------------------------------------
(* The inductive invariant.  Clients touch mutex, slot, pc and held; the       *)
(* manager touches slot and its own scan.  Each lemma below is one action.     *)

LEMMA InvInit == Init => IInv
<1> SUFFICES ASSUME Init PROVE IInv
    OBVIOUS
<1>1. TypeOK
  BY TypeInit
<1>2. ScanInv
  BY DEF Init, ManagerInit, ScanInv
<1>3. MutexInv /\ SlotInv /\ NoLeakedMutex
  BY NodeOfType DEF Init, ClientInit, MutexInv, SlotInv, NoLeakedMutex, AcquirePCs, ReleasePCs
<1>4. OneLocked /\ NoOrphanSlot
  BY DEF Init, OneLocked, NoOrphanSlot
<1> QED BY <1>1, <1>2, <1>3, <1>4 DEF IInv

\* The part of the invariant that only the manager's scan can disturb holds
\* after a step that leaves the manager alone and writes no LOCKED.
LEMMA ScanStable ==
    ASSUME ScanInv, OneLocked, UNCHANGED <<running, mpc, mlock, grantee, pass, nid>>,
           \A l \in Locks, n \in Nodes : slot'[l][n] = "LOCKED" => slot[l][n] = "LOCKED",
           mlock \in Locks
    PROVE  ScanInv' /\ OneLocked'
  BY DEF ScanInv, OneLocked

\* LocalLockArray::acquire: a free mutex has an IDLE slot behind it.
LEMMA InvLocalAcquire ==
    ASSUME IInv, NEW t \in Threads, LocalAcquire(t),
           UNCHANGED <<managerVars, slot, pass, nid>>, TypeOK'
    PROVE  IInv'
<1> USE NodeOfType, ThreadAssumption
    DEF IInv, TypeOK, ClientTypeOK, ManagerTypeOK, LocalAcquire, Goto, MutexOwner, managerVars
<1>1. slot[arg[t]][NodeOf[t]] = "IDLE"
  BY DEF NoOrphanSlot
<1>2. MutexInv'
  BY DEF MutexInv, AcquirePCs, ReleasePCs
<1>3. SlotInv'
  BY <1>1 DEF SlotInv
<1>4. ScanInv' /\ OneLocked'
  BY ScanStable
<1>5. NoOrphanSlot'
  BY <1>1 DEF NoOrphanSlot, Responsible
<1>6. NoLeakedMutex'
  BY DEF NoLeakedMutex
<1> QED BY <1>2, <1>3, <1>4, <1>5, <1>6

\* A refused local acquisition changes nothing but the thread's own call.
LEMMA InvLocalRefused ==
    ASSUME IInv, NEW t \in Threads, LocalRefused(t),
           UNCHANGED <<managerVars, slot, pass, nid>>, TypeOK'
    PROVE  IInv'
<1> USE NodeOfType, ThreadAssumption
    DEF IInv, TypeOK, ClientTypeOK, ManagerTypeOK, LocalRefused, Return, MutexOwner, managerVars
<1>2. MutexInv'
  BY DEF MutexInv, AcquirePCs, ReleasePCs
<1>3. SlotInv'
  BY DEF SlotInv
<1>4. ScanInv' /\ OneLocked'
  BY ScanStable
<1>5. NoOrphanSlot'
  BY DEF NoOrphanSlot, Responsible
<1>6. NoLeakedMutex'
  BY DEF NoLeakedMutex
<1> QED BY <1>2, <1>3, <1>4, <1>5, <1>6

\* LocalLockArray::release: the slot is already IDLE, so nothing is orphaned.
LEMMA InvLocalRelease ==
    ASSUME IInv, NEW t \in Threads, LocalRelease(t),
           UNCHANGED <<managerVars, slot, pass, nid>>, TypeOK'
    PROVE  IInv'
<1> USE NodeOfType, ThreadAssumption
    DEF IInv, TypeOK, ClientTypeOK, ManagerTypeOK, LocalRelease, Return, MutexOwner, managerVars
<1>1. MutexOwner(t) = t /\ arg[t] \notin held[t] /\ slot[arg[t]][NodeOf[t]] = "IDLE"
  BY DEF MutexInv, SlotInv, AcquirePCs, ReleasePCs
<1>2. MutexInv'
  BY <1>1 DEF MutexInv, AcquirePCs, ReleasePCs
<1>3. SlotInv'
  BY DEF SlotInv
<1>4. ScanInv' /\ OneLocked'
  BY ScanStable
<1>5. NoOrphanSlot'
  BY <1>1 DEF NoOrphanSlot, Responsible
<1>6. NoLeakedMutex'
  BY <1>1 DEF NoLeakedMutex
<1> QED BY <1>2, <1>3, <1>4, <1>5, <1>6

\* acquire_lock: only the owner of the mutex writes its node's slot.
LEMMA InvAcquireLock ==
    ASSUME IInv, NEW t \in Threads, AcquireLock(t), TypeOK'
    PROVE  IInv'
<1> USE NodeOfType, ThreadAssumption
    DEF IInv, TypeOK, ClientTypeOK, ManagerTypeOK, AcquireLock, WriteSlot, Goto,
        MutexOwner, managerVars
<1>1. MutexOwner(t) = t /\ arg[t] \notin held[t]
  BY DEF MutexInv, AcquirePCs
<1>2. MutexInv'
  BY <1>1 DEF MutexInv, AcquirePCs, ReleasePCs
<1>3. SlotInv'
  BY <1>1 DEF SlotInv, MutexInv, AcquirePCs, ReleasePCs
<1>4. ScanInv' /\ OneLocked'
  BY ScanStable
<1>5. NoOrphanSlot'
  BY <1>1 DEF NoOrphanSlot, Responsible
<1>6. NoLeakedMutex'
  BY <1>1 DEF NoLeakedMutex
<1> QED BY <1>2, <1>3, <1>4, <1>5, <1>6

\* release_lock, as the end of a hold or as a cancellation: a grant that came
\* in between is given back together with the request.
LEMMA InvReleaseLock ==
    ASSUME IInv, NEW t \in Threads, ReleaseLock(t), TypeOK'
    PROVE  IInv'
<1> USE NodeOfType, ThreadAssumption
    DEF IInv, TypeOK, ClientTypeOK, ManagerTypeOK, ReleaseLock, WriteSlot, Goto,
        MutexOwner, managerVars
<1>1. MutexOwner(t) = t /\ arg[t] \notin held[t]
  BY DEF MutexInv, AcquirePCs, ReleasePCs
<1>2. MutexInv'
  BY <1>1 DEF MutexInv, AcquirePCs, ReleasePCs
<1>3. SlotInv'
  BY <1>1 DEF SlotInv, MutexInv, AcquirePCs, ReleasePCs
<1>4. ScanInv' /\ OneLocked'
  BY ScanStable
<1>5. NoOrphanSlot'
  BY <1>1 DEF NoOrphanSlot, Responsible
<1>6. NoLeakedMutex'
  BY <1>1 DEF NoLeakedMutex
<1> QED BY <1>2, <1>3, <1>4, <1>5, <1>6

\* poll_for_grant returns SUCCESS, which it does only on a LOCKED slot.
LEMMA InvPollGranted ==
    ASSUME IInv, NEW t \in Threads, Granted(t), PollGranted(t),
           UNCHANGED <<managerVars, slot, pass, nid>>, TypeOK'
    PROVE  IInv'
<1> USE NodeOfType, ThreadAssumption
    DEF IInv, TypeOK, ClientTypeOK, ManagerTypeOK, PollGranted, Return, MutexOwner, managerVars
<1>1. pc[t] = "poll" /\ MutexOwner(t) = t /\ arg[t] \notin held[t]
  BY DEF MutexInv, AcquirePCs
<1>2. MutexInv'
  BY <1>1 DEF MutexInv, AcquirePCs, ReleasePCs
<1>3. SlotInv'
  BY <1>1 DEF SlotInv, Granted
<1>4. ScanInv' /\ OneLocked'
  BY ScanStable
<1>5. NoOrphanSlot'
  BY <1>1 DEF NoOrphanSlot, Responsible
<1>6. NoLeakedMutex'
  BY <1>1 DEF NoLeakedMutex
<1> QED BY <1>2, <1>3, <1>4, <1>5, <1>6

\* It polls once more.
LEMMA InvPollAgain ==
    ASSUME IInv, NEW t \in Threads, PollAgain(t),
           UNCHANGED <<managerVars, slot, pass, nid>>, TypeOK'
    PROVE  IInv'
<1> USE NodeOfType, ThreadAssumption
    DEF IInv, TypeOK, ClientTypeOK, ManagerTypeOK, PollAgain, MutexOwner, managerVars
<1>1. pc[t] = "poll" /\ MutexOwner(t) = t /\ arg[t] \notin held[t]
  BY DEF MutexInv, AcquirePCs
<1>2. MutexInv'
  BY <1>1 DEF MutexInv, AcquirePCs, ReleasePCs
<1>3. SlotInv'
  BY <1>1 DEF SlotInv
<1>4. ScanInv' /\ OneLocked'
  BY ScanStable
<1>5. NoOrphanSlot'
  BY <1>1 DEF NoOrphanSlot, Responsible
<1>6. NoLeakedMutex'
  BY <1>1 DEF NoLeakedMutex
<1> QED BY <1>2, <1>3, <1>4, <1>5, <1>6

\* It gives up, whatever the slot has become since it was read.
LEMMA InvPollGivesUp ==
    ASSUME IInv, NEW t \in Threads, PollGivesUp(t),
           UNCHANGED <<managerVars, slot, pass, nid>>, TypeOK'
    PROVE  IInv'
<1> USE NodeOfType, ThreadAssumption
    DEF IInv, TypeOK, ClientTypeOK, ManagerTypeOK, PollGivesUp, Goto, MutexOwner, managerVars
<1>1. pc[t] = "poll" /\ MutexOwner(t) = t /\ arg[t] \notin held[t]
  BY DEF MutexInv, AcquirePCs
<1>2. MutexInv'
  BY <1>1 DEF MutexInv, AcquirePCs, ReleasePCs
<1>3. SlotInv'
  BY <1>1 DEF SlotInv
<1>4. ScanInv' /\ OneLocked'
  BY ScanStable
<1>5. NoOrphanSlot'
  BY <1>1 DEF NoOrphanSlot, Responsible
<1>6. NoLeakedMutex'
  BY <1>1 DEF NoLeakedMutex
<1> QED BY <1>2, <1>3, <1>4, <1>5, <1>6

\* The application's calls; release() only of a lock the thread holds.
LEMMA InvCall ==
    ASSUME IInv, ~StrayRelease, NEW t \in Threads, ClientCall(t),
           UNCHANGED <<managerVars, slot, pass, nid>>, TypeOK'
    PROVE  IInv'
<1> USE NodeOfType, ThreadAssumption
    DEF IInv, TypeOK, ClientTypeOK, ManagerTypeOK, MutexOwner, managerVars
<1>1. ASSUME NEW l \in Locks, NEW m \in CallModes, Acquire(t, l, m)
      PROVE  MutexInv' /\ SlotInv' /\ NoOrphanSlot' /\ NoLeakedMutex'
  <2> USE <1>1 DEF Acquire
  <2>1. MutexInv'
    BY DEF MutexInv, AcquirePCs, ReleasePCs
  <2>2. SlotInv'
    BY DEF SlotInv
  <2>3. NoOrphanSlot'
    BY DEF NoOrphanSlot, Responsible
  <2>4. NoLeakedMutex'
    BY DEF NoLeakedMutex
  <2> QED BY <2>1, <2>2, <2>3, <2>4
<1>2. ASSUME NEW l \in Locks, Release(t, l)
      PROVE  MutexInv' /\ SlotInv' /\ NoOrphanSlot' /\ NoLeakedMutex'
  <2> USE <1>2 DEF Release
  <2>1. MutexInv'
    BY DEF MutexInv, AcquirePCs, ReleasePCs
  <2>2. SlotInv'
    BY DEF SlotInv
  <2>3. NoOrphanSlot'
    BY DEF NoOrphanSlot, Responsible
  <2>4. NoLeakedMutex'
    BY DEF NoLeakedMutex
  <2> QED BY <2>1, <2>2, <2>3, <2>4
<1>3. ScanInv' /\ OneLocked'
  BY ScanStable
<1> QED BY <1>1, <1>2, <1>3 DEF ClientCall

\* Steps that change neither the slots nor the clients leave them as they were.
LEMMA ClientStable ==
    ASSUME IInv, UNCHANGED <<clientVars, slot>>
    PROVE  MutexInv' /\ SlotInv' /\ NoOrphanSlot' /\ NoLeakedMutex' /\ OneLocked'
<1> USE DEF IInv, clientVars
<1>1. MutexInv'
  BY DEF MutexInv, MutexOwner
<1>2. SlotInv'
  BY DEF SlotInv
<1>3. NoOrphanSlot'
  BY DEF NoOrphanSlot, Responsible
<1>4. NoLeakedMutex'
  BY DEF NoLeakedMutex
<1>5. OneLocked'
  BY DEF OneLocked
<1> QED BY <1>1, <1>2, <1>3, <1>4, <1>5

\* start(), stop() and the top of run()'s loop: a scan begins with nothing read.
LEMMA ScanManagerStep ==
    ASSUME TypeOK, ScanInv, ManagerStep \/ Start \/ StopRequest, UNCHANGED <<slot, pass, nid>>
    PROVE  ScanInv'
  BY CountAssumption DEF TypeOK, ManagerTypeOK, ScanInv, ManagerStep, RunLoop,
     StopReturns, Start, StopRequest, Nodes, Locks

\* check_grant's first loop extends what is known not to be LOCKED.
LEMMA ScanCheckLocked ==
    ASSUME TypeOK, ScanInv, CheckLocked
    PROVE  ScanInv'
<1> USE CountAssumption, NoNodeAssumption DEF TypeOK, ManagerTypeOK, CheckLocked,
        managerVars, Nodes, Locks
<1>1. CASE slot[mlock][nid] = "LOCKED"
  <2>1. mpc' \in {"check", "top"} /\ nid' = 0 /\ pass' = 1 /\ running' = running
    BY <1>1 DEF CheckReturns, NextLock
  <2>2. mpc = "check"
    OBVIOUS
  <2> QED BY <2>1, <2>2 DEF ScanInv
<1>2. CASE slot[mlock][nid] # "LOCKED"
  <2>1. mpc = "check" /\ pass = 1 /\ UNCHANGED <<running, mpc, mlock, grantee, slot>>
    BY <1>2
  <2>2. \A n \in Nodes : n < nid + 1 => slot[mlock][n] # "LOCKED"
    BY <1>2, <2>1 DEF ScanInv
  <2>3. \/ nid' = nid + 1 /\ pass' = 1
        \/ nid' = 0 /\ pass' = 2 /\ nid + 1 = NodeCount
    BY <1>2
  <2> QED BY <2>1, <2>2, <2>3 DEF ScanInv
<1> QED BY <1>1, <1>2

\* check_grant's second loop chooses a node while no slot is LOCKED.
LEMMA ScanCheckWaiting ==
    ASSUME TypeOK, ScanInv, CheckWaiting
    PROVE  ScanInv'
<1> USE CountAssumption, NoNodeAssumption DEF TypeOK, ManagerTypeOK, CheckWaiting,
        managerVars, Nodes, Locks
<1>1. CASE slot[mlock][nid] = "WAITING"
  <2>1. mpc' = "grant" /\ grantee' = nid /\ nid' = 0 /\ pass' = 1
    BY <1>1 DEF CheckReturns
  <2>2. UNCHANGED <<running, mlock, slot>>
    BY <1>1, <2>1 DEF CheckReturns, NextLock
  <2> QED BY <2>1, <2>2 DEF ScanInv
<1>2. CASE slot[mlock][nid] # "WAITING" /\ nid + 1 < NodeCount
  <2>1. mpc = "check" /\ pass = 2 /\ pass' = pass
        /\ UNCHANGED <<running, mpc, mlock, grantee, slot>>
    BY <1>2
  <2> QED BY <2>1 DEF ScanInv
<1>3. CASE slot[mlock][nid] # "WAITING" /\ nid + 1 = NodeCount
  <2>1. mpc' \in {"check", "top"} /\ nid' = 0 /\ pass' = 1 /\ running' = running
    BY <1>3 DEF CheckReturns, NextLock
  <2>2. mpc = "check"
    OBVIOUS
  <2> QED BY <2>1, <2>2 DEF ScanInv
<1> QED BY <1>1, <1>2, <1>3

\* grant_lock: the compare-exchange makes the one LOCKED slot of its lock.
LEMMA ScanGrantLock ==
    ASSUME TypeOK, ScanInv, OneLocked, GrantLock
    PROVE  /\ ScanInv' /\ OneLocked'
           /\ grantee \in Nodes /\ \A n \in Nodes : slot[mlock][n] # "LOCKED"
<1> USE DEF TypeOK, ManagerTypeOK, GrantLock, GrantReturns
<1>1. grantee \in Nodes /\ \A n \in Nodes : slot[mlock][n] # "LOCKED"
  BY DEF ScanInv
<1>2. ScanInv'
  BY CountAssumption DEF ScanInv, NextLock, Nodes, Locks
<1>3. OneLocked'
  BY <1>1 DEF OneLocked
<1> QED BY <1>1, <1>2, <1>3

\* The manager's reads leave slots and clients alone.
LEMMA InvManagerReads ==
    ASSUME IInv, TypeOK',
           \/ /\ ManagerStep \/ Start \/ StopRequest
              /\ UNCHANGED <<clientVars, slot, pass, nid>>
           \/ CheckLocked \/ CheckWaiting
    PROVE  IInv'
<1>1. ScanInv'
  BY ScanManagerStep, ScanCheckLocked, ScanCheckWaiting DEF IInv
<1>2. UNCHANGED <<clientVars, slot>>
  BY DEF CheckLocked, CheckWaiting
<1> QED BY <1>1, <1>2, ClientStable DEF IInv

\* A grant changes no slot but that of a waiting node, whose mutex is owned.
LEMMA InvGrantLock ==
    ASSUME IInv, GrantLock, TypeOK'
    PROVE  IInv'
<1>1. /\ ScanInv' /\ OneLocked'
      /\ grantee \in Nodes /\ \A n \in Nodes : slot[mlock][n] # "LOCKED"
  BY ScanGrantLock DEF IInv
<1> USE NodeOfType DEF IInv, TypeOK, ClientTypeOK, ManagerTypeOK, GrantLock, clientVars
<1>2. MutexInv' /\ NoLeakedMutex'
  BY DEF MutexInv, NoLeakedMutex, MutexOwner
<1>3. SlotInv'
  BY <1>1 DEF SlotInv
<1>4. NoOrphanSlot'
  BY <1>1 DEF NoOrphanSlot, Responsible
<1> QED BY <1>1, <1>2, <1>3, <1>4

LEMMA InvUnchanged ==
    ASSUME IInv, UNCHANGED vars
    PROVE  IInv'
<1>1. TypeOK'
  BY TypeStep DEF IInv
<1>2. ScanInv'
  BY DEF IInv, ScanInv, vars
<1> QED BY <1>1, <1>2, ClientStable DEF IInv, vars, clientVars

LEMMA InvStep ==
    ASSUME ~StrayRelease
    PROVE  IInv /\ [Next]_vars => IInv'
<1> SUFFICES ASSUME IInv, [Next]_vars PROVE IInv'
    OBVIOUS
<1>1. TypeOK'
  BY TypeStep DEF IInv
<1>2. CASE UNCHANGED vars
  BY <1>2, InvUnchanged
<1>3. CASE Manager
  BY <1>1, <1>3, InvManagerReads, InvGrantLock DEF Manager
<1>4. CASE Environment
  <2>1. CASE Start \/ StopRequest
    <3>1. CASE UNCHANGED clientVars
      BY <1>1, <1>4, <2>1, <3>1, InvManagerReads DEF Environment
    <3>2. CASE \E t \in Threads : ClientCall(t) /\ UNCHANGED managerVars
      BY <1>1, <1>4, <3>2, InvCall DEF Environment
    <3> QED BY <1>4, <3>1, <3>2 DEF Environment
  <2>2. CASE \E t \in Threads : ClientCall(t) /\ UNCHANGED managerVars
    BY <1>1, <1>4, <2>2, InvCall DEF Environment
  <2> QED BY <1>4, <2>1, <2>2 DEF Environment
<1>5. ASSUME NEW t \in Threads, Thread(t) PROVE IInv'
  <2>1. CASE ClientStep(t) /\ UNCHANGED <<managerVars, slot, pass, nid>>
    BY <1>1, <2>1, InvLocalAcquire, InvLocalRefused, InvLocalRelease DEF ClientStep
  <2>2. CASE AcquireLock(t)
    BY <1>1, <2>2, InvAcquireLock
  <2>3. CASE ReleaseLock(t)
    BY <1>1, <2>3, InvReleaseLock
  <2>4. CASE Poll(t)
    BY <1>1, <2>4, InvPollGranted, InvPollAgain, InvPollGivesUp DEF Poll
  <2> QED BY <1>5, <2>1, <2>2, <2>3, <2>4 DEF Thread
<1> QED BY <1>2, <1>3, <1>4, <1>5 DEF Next

\* The inductive invariant holds in every reachable state when applications
\* release only what they hold.
THEOREM InvCorrect ==
    ASSUME ~StrayRelease
    PROVE  Spec => []IInv
  BY InvInit, InvStep, PTL DEF Spec

\* At most one thread in the whole system holds a lock: two threads of one node
\* are kept apart by the local mutex, threads of two nodes by the single LOCKED
\* slot, in spite of timeouts, cancellations and the manager's stale reads.
THEOREM MutualExclusionHolds ==
    ASSUME ~StrayRelease
    PROVE  Spec => []MutualExclusion
<1>1. ASSUME IInv, NEW t \in Threads, NEW u \in Threads, NEW l \in Locks,
             l \in held[t], l \in held[u]
      PROVE  t = u
  <2>1. slot[l][NodeOf[t]] = "LOCKED" /\ slot[l][NodeOf[u]] = "LOCKED"
    BY <1>1 DEF IInv, SlotInv
  <2>2. NodeOf[t] = NodeOf[u]
    BY <1>1, <2>1, NodeOfType DEF IInv, OneLocked
  <2>3. mutex[NodeOf[t]][l] = t /\ mutex[NodeOf[u]][l] = u
    BY <1>1 DEF IInv, MutexInv
  <2> QED BY <2>2, <2>3
<1>2. IInv => MutualExclusion
  BY <1>1 DEF IInv, TypeOK, ClientTypeOK, MutualExclusion
<1> QED BY <1>2, InvCorrect, PTL

\* A holder keeps both its local mutex and its LOCKED slot, and is the only node
\* LOCKED, until it calls release().
THEOREM HolderProtectedHolds ==
    ASSUME ~StrayRelease
    PROVE  Spec => []HolderProtected
<1>1. IInv => HolderProtected
  BY NodeOfType DEF IInv, TypeOK, ClientTypeOK, MutexInv, SlotInv, OneLocked, HolderProtected
<1> QED BY <1>1, InvCorrect, PTL

\* No WAITING or LOCKED slot is ever left without a thread that will clear it,
\* by whatever path acquire, try_acquire or release returned.
THEOREM NothingOrphaned ==
    ASSUME ~StrayRelease
    PROVE  Spec => []NoOrphanSlot
<1>1. IInv => NoOrphanSlot
  BY DEF IInv
<1> QED BY <1>1, InvCorrect, PTL

\* No local mutex stays locked without a thread of its node that holds the lock
\* or is still in a call that will unlock it.
THEOREM NoMutexLeaks ==
    ASSUME ~StrayRelease
    PROVE  Spec => []NoLeakedMutex
<1>1. IInv => NoLeakedMutex
  BY DEF IInv
<1> QED BY <1>1, InvCorrect, PTL

-----------------------------------------------------------------------------
(* Refinement: the CAS algorithm implements GlobalLockSpec.                    *)

\* The owner the abstract service sees is the node whose slot is LOCKED.
LEMMA OwnerIsLocked ==
    ASSUME NEW row, \A m, n \in Nodes : row[m] = "LOCKED" /\ row[n] = "LOCKED" => m = n
    PROVE  /\ \A n \in Nodes : OwnerIn(row) = n <=> row[n] = "LOCKED"
           /\ OwnerIn(row) = NoNode <=> \A n \in Nodes : row[n] # "LOCKED"
  BY NoNodeAssumption DEF OwnerIn

\* Two rows with the same LOCKED slot have the same owner.
LEMMA SameOwner ==
    ASSUME NEW row1, NEW row2,
           \A m, n \in Nodes : row1[m] = "LOCKED" /\ row1[n] = "LOCKED" => m = n,
           \A n \in Nodes : row1[n] = "LOCKED" <=> row2[n] = "LOCKED"
    PROVE  OwnerIn(row1) = OwnerIn(row2)
<1>1. CASE \E n \in Nodes : row1[n] = "LOCKED"
  BY <1>1, OwnerIsLocked
<1>2. CASE ~ \E n \in Nodes : row1[n] = "LOCKED"
  BY <1>2 DEF OwnerIn
<1> QED BY <1>1, <1>2

LEMMA RefinesInit == Init => Abstract!Init
  BY NoNodeAssumption
  DEF Init, ClientInit, OwnerIn, Abstract!Init

\* A step that moves no slot and no held lock is invisible.
LEMMA RefinesStutter ==
    ASSUME UNCHANGED <<slot, held>>
    PROVE  UNCHANGED Abstract!absVars
  BY DEF Abstract!absVars

\* acquire_lock is the abstract Request.
LEMMA RefinesRequest ==
    ASSUME IInv, NEW t \in Threads, NEW k \in Locks, k = arg[t], AcquireLock(t)
    PROVE  Abstract!Request(NodeOf[t], k)
<1> USE NodeOfType DEF IInv, TypeOK, ClientTypeOK, AcquireLock, WriteSlot
<1>1. slot[arg[t]][NodeOf[t]] = "IDLE"
  BY DEF SlotInv
<1>2. \A l \in Locks : OwnerIn(slot'[l]) = OwnerIn(slot[l])
  <2> SUFFICES ASSUME NEW l \in Locks PROVE OwnerIn(slot'[l]) = OwnerIn(slot[l])
      OBVIOUS
  <2>1. \A m \in Nodes : slot[l][m] = "LOCKED" <=> slot'[l][m] = "LOCKED"
    BY <1>1
  <2>2. \A m, n \in Nodes : slot[l][m] = "LOCKED" /\ slot[l][n] = "LOCKED" => m = n
    BY DEF OneLocked
  <2> HIDE DEF IInv, TypeOK, AcquireLock, WriteSlot
  <2> QED BY <2>1, <2>2, SameOwner
<1>3. OwnerIn(slot[arg[t]]) # NodeOf[t]
  BY <1>1, OwnerIsLocked DEF OneLocked
<1>4. \A l \in Locks :
        {n \in Nodes : slot'[l][n] = "WAITING"} =
            IF l = arg[t] THEN {n \in Nodes : slot[l][n] = "WAITING"} \cup {NodeOf[t]}
            ELSE {n \in Nodes : slot[l][n] = "WAITING"}
  BY <1>1
<1> QED BY <1>1, <1>2, <1>3, <1>4 DEF Abstract!Request

\* release_lock frees the lock if this node owns it, also when the owner is a
\* waiter that gave up, and otherwise withdraws the request.
LEMMA RefinesRelease ==
    ASSUME IInv, NEW t \in Threads, NEW k \in Locks, k = arg[t], ReleaseLock(t)
    PROVE  \/ Abstract!Free(NodeOf[t], k)
           \/ Abstract!Withdraw(NodeOf[t], k)
           \/ UNCHANGED Abstract!absVars
<1> USE NodeOfType DEF IInv, TypeOK, ClientTypeOK, ReleaseLock, WriteSlot
<1> DEFINE n == NodeOf[t]
<1>1. CASE slot[k][n] = "LOCKED"
  <2>1. n \notin {NodeOf[v] : v \in {u \in Threads : k \in held[u]}}
    BY <1>1 DEF MutexInv, MutexOwner, AcquirePCs, ReleasePCs
  <2>2. OwnerIn(slot[k]) = n
    BY <1>1, OwnerIsLocked DEF OneLocked
  <2>3. \A m \in Nodes : slot'[k][m] # "LOCKED"
    BY <1>1 DEF OneLocked
  <2>4. OwnerIn(slot'[k]) = NoNode
    BY <2>3 DEF OwnerIn
  <2>5. \A l \in Locks : l # k => OwnerIn(slot'[l]) = OwnerIn(slot[l])
    OBVIOUS
  <2>6. \A l \in Locks : {m \in Nodes : slot'[l][m] = "WAITING"} =
                         {m \in Nodes : slot[l][m] = "WAITING"}
    BY <1>1
  <2>7. k \in Locks /\ n \in Nodes /\ held' = held
    OBVIOUS
  <2> HIDE DEF IInv, TypeOK, ReleaseLock, WriteSlot, n
  <2>8. [l \in Locks |-> OwnerIn(slot'[l])] =
        [[l \in Locks |-> OwnerIn(slot[l])] EXCEPT ![k] = NoNode]
    BY <2>4, <2>5, <2>7
  <2>9. Abstract!Free(n, k)
    BY <2>1, <2>2, <2>6, <2>7, <2>8 DEF Abstract!Free
  <2> QED BY <2>9 DEF n
<1>2. CASE slot[k][n] = "WAITING"
  <2>1. \A l \in Locks : OwnerIn(slot'[l]) = OwnerIn(slot[l])
    <3> SUFFICES ASSUME NEW l \in Locks PROVE OwnerIn(slot'[l]) = OwnerIn(slot[l])
        OBVIOUS
    <3>1. \A m \in Nodes : slot[l][m] = "LOCKED" <=> slot'[l][m] = "LOCKED"
      BY <1>2
    <3>2. \A i, j \in Nodes : slot[l][i] = "LOCKED" /\ slot[l][j] = "LOCKED" => i = j
      BY DEF OneLocked
    <3> HIDE DEF IInv, TypeOK, ReleaseLock, WriteSlot
    <3> QED BY <3>1, <3>2, SameOwner
  <2>2. \A l \in Locks :
          {m \in Nodes : slot'[l][m] = "WAITING"} =
              IF l = k THEN {m \in Nodes : slot[l][m] = "WAITING"} \ {n}
              ELSE {m \in Nodes : slot[l][m] = "WAITING"}
    BY <1>2
  <2>3. n \in Nodes /\ held' = held
    OBVIOUS
  <2> HIDE DEF IInv, TypeOK, ReleaseLock, WriteSlot, n
  <2>4. [l \in Locks |-> {m \in Nodes : slot'[l][m] = "WAITING"}] =
        [[l \in Locks |-> {m \in Nodes : slot[l][m] = "WAITING"}] EXCEPT ![k] = @ \ {n}]
    BY <2>2
  <2>5. Abstract!Withdraw(n, k)
    BY <1>2, <2>1, <2>3, <2>4 DEF Abstract!Withdraw
  <2> QED BY <2>5 DEF n
<1>3. CASE slot[k][n] = "IDLE"
  <2>1. slot' = slot
    BY <1>3
  <2> QED BY <2>1, RefinesStutter
<1> QED BY <1>1, <1>2, <1>3 DEF SlotStates

\* A poll that sees LOCKED is the abstract Enter.
LEMMA RefinesEnter ==
    ASSUME IInv, NEW t \in Threads, NEW k \in Locks, k = arg[t],
           Granted(t), PollGranted(t), slot' = slot
    PROVE  Abstract!Enter(NodeOf[t], k)
<1> USE NodeOfType DEF IInv, TypeOK, ClientTypeOK
<1> DEFINE U(h, l) == {NodeOf[v] : v \in {u \in Threads : l \in h[u]}}
<1>1. OwnerIn(slot[k]) = NodeOf[t]
  BY OwnerIsLocked DEF Granted, OneLocked
<1>2. NodeOf[t] \notin U(held, k)
  BY DEF PollGranted, MutexInv, MutexOwner, AcquirePCs
<1>3. k \in Locks /\ held' = [held EXCEPT ![t] = @ \cup {k}] /\ held \in [Threads -> SUBSET Locks]
  BY DEF PollGranted
<1>4. \A l \in Locks : U(held', l) =
        IF l = k THEN U(held, l) \cup {NodeOf[t]} ELSE U(held, l)
  BY <1>3
<1> HIDE DEF IInv, TypeOK, ClientTypeOK, U
<1>5. [l \in Locks |-> U(held', l)] =
        [[l \in Locks |-> U(held, l)] EXCEPT ![k] = @ \cup {NodeOf[t]}]
  BY <1>4
<1> QED BY <1>1, <1>2, <1>3, <1>5 DEF Abstract!Enter, U

\* The call of release() is the abstract Leave: no other thread of this node
\* holds the lock.
LEMMA RefinesLeave ==
    ASSUME IInv, ~StrayRelease, NEW t \in Threads, NEW k \in Locks, Release(t, k), slot' = slot
    PROVE  Abstract!Leave(NodeOf[t], k)
<1> USE NodeOfType DEF IInv, TypeOK, ClientTypeOK
<1> DEFINE U(h, l) == {NodeOf[v] : v \in {u \in Threads : l \in h[u]}}
<1>1. k \in held[t] /\ held' = [held EXCEPT ![t] = @ \ {k}] /\ held \in [Threads -> SUBSET Locks]
  BY DEF Release
<1>2. \A u \in Threads : k \in held[u] /\ NodeOf[u] = NodeOf[t] => u = t
  BY <1>1 DEF MutexInv
<1>3. \A l \in Locks : U(held', l) =
        IF l = k THEN U(held, l) \ {NodeOf[t]} ELSE U(held, l)
  BY <1>1, <1>2
<1> HIDE DEF IInv, TypeOK, ClientTypeOK
<1>4. [l \in Locks |-> U(held', l)] =
        [[l \in Locks |-> U(held, l)] EXCEPT ![k] = @ \ {NodeOf[t]}]
  BY <1>3
<1> QED BY <1>1, <1>4 DEF Abstract!Leave

\* grant_lock is the abstract Grant, or nothing if the request was withdrawn.
LEMMA RefinesGrant ==
    ASSUME IInv, GrantLock, NEW g \in Nodes, NEW k \in Locks, g = grantee, k = mlock
    PROVE  Abstract!Grant(g, k) \/ UNCHANGED Abstract!absVars
<1> USE DEF IInv, TypeOK, ManagerTypeOK, GrantLock, GrantReturns, clientVars
<1>1. \A n \in Nodes : slot[k][n] # "LOCKED"
  BY DEF ScanInv
<1>2. CASE slot[k][g] = "WAITING"
  <2>1. OwnerIn(slot[k]) = NoNode
    BY <1>1 DEF OwnerIn
  <2>2. \A m \in Nodes : slot'[k][m] = "LOCKED" <=> m = g
    BY <1>1, <1>2
  <2>3. OwnerIn(slot'[k]) = g
    BY <1>1, <2>2, OwnerIsLocked
  <2>4. \A l \in Locks : l # k => OwnerIn(slot'[l]) = OwnerIn(slot[l])
    BY <1>2
  <2>5. \A l \in Locks :
          {m \in Nodes : slot'[l][m] = "WAITING"} =
              IF l = k THEN {m \in Nodes : slot[l][m] = "WAITING"} \ {g}
              ELSE {m \in Nodes : slot[l][m] = "WAITING"}
    BY <1>1, <1>2
  <2>6. held' = held
    OBVIOUS
  <2> HIDE DEF IInv, TypeOK, ManagerTypeOK, GrantLock
  <2>7. [l \in Locks |-> OwnerIn(slot'[l])] =
        [[l \in Locks |-> OwnerIn(slot[l])] EXCEPT ![k] = g]
    BY <2>3, <2>4
  <2>8. [l \in Locks |-> {m \in Nodes : slot'[l][m] = "WAITING"}] =
        [[l \in Locks |-> {m \in Nodes : slot[l][m] = "WAITING"}]
            EXCEPT ![k] = @ \ {g}]
    BY <2>5
  <2> QED BY <1>1, <1>2, <2>1, <2>6, <2>7, <2>8 DEF Abstract!Grant
<1>3. CASE slot[k][g] # "WAITING"
  BY <1>3, RefinesStutter
<1> QED BY <1>2, <1>3

\* Every step of the detailed specification is an abstract step or a stutter.
LEMMA RefinesStep ==
    ASSUME ~StrayRelease, IInv, [Next]_vars
    PROVE  [Abstract!Next]_(Abstract!absVars)
<1> USE NodeOfType DEF Abstract!Next
<1>1. CASE UNCHANGED vars
  BY <1>1, RefinesStutter DEF vars
<1>2. CASE Manager
  <2>1. CASE GrantLock
    <3>1. PICK g \in Nodes, l \in Locks : g = grantee /\ l = mlock
      BY <2>1 DEF IInv, TypeOK, ManagerTypeOK, ScanInv, GrantLock, GrantReturns
    <3> QED BY <2>1, <3>1, RefinesGrant
  <2>2. CASE ~GrantLock
    BY <1>2, <2>2, RefinesStutter DEF Manager, CheckLocked, CheckWaiting, clientVars
  <2> QED BY <2>1, <2>2
<1>3. CASE Environment
  <2>1. slot' = slot
    BY <1>3 DEF Environment
  <2>2. CASE UNCHANGED clientVars
    BY <2>1, <2>2, RefinesStutter DEF clientVars
  <2>3. ASSUME NEW t \in Threads, NEW l \in Locks, Release(t, l)
        PROVE  [Abstract!Next]_(Abstract!absVars)
    BY <2>1, <2>3, RefinesLeave
  <2>4. ASSUME NEW t \in Threads, NEW l \in Locks, NEW m \in CallModes, Acquire(t, l, m)
        PROVE  [Abstract!Next]_(Abstract!absVars)
    BY <2>1, <2>4, RefinesStutter DEF Acquire
  <2> QED BY <1>3, <2>2, <2>3, <2>4 DEF Environment, ClientCall
<1>4. ASSUME NEW t \in Threads, Thread(t) PROVE [Abstract!Next]_(Abstract!absVars)
  <2>1. PICK k \in Locks : k = arg[t]
    BY DEF IInv, TypeOK, ClientTypeOK
  <2>2. CASE ClientStep(t) /\ UNCHANGED <<managerVars, slot, pass, nid>>
    BY <2>2, RefinesStutter DEF ClientStep, LocalAcquire, LocalRefused, LocalRelease
  <2>3. CASE AcquireLock(t)
    BY <2>1, <2>3, RefinesRequest
  <2>4. CASE ReleaseLock(t)
    BY <2>1, <2>4, RefinesRelease
  <2>5. CASE Poll(t)
    <3>1. CASE Granted(t) /\ PollGranted(t)
      BY <2>1, <2>5, <3>1, RefinesEnter DEF Poll
    <3>2. CASE PollAgain(t) \/ PollGivesUp(t)
      BY <2>5, <3>2, RefinesStutter DEF Poll, PollAgain, PollGivesUp
    <3> QED BY <2>5, <3>1, <3>2 DEF Poll
  <2> QED BY <1>4, <2>2, <2>3, <2>4, <2>5 DEF Thread
<1> QED BY <1>1, <1>2, <1>3, <1>4 DEF Next

\* For any number of nodes, locks and threads the CAS algorithm, with its local
\* tier and its manager, implements the abstract lock service.
THEOREM Refinement ==
    ASSUME ~StrayRelease
    PROVE  Spec => ImplementsGlobalLock
<1>1. Spec => []IInv
  BY InvCorrect
<1>2. IInv /\ [Next]_vars => [Abstract!Next]_(Abstract!absVars)
  BY RefinesStep
<1> QED BY <1>1, <1>2, RefinesInit, PTL DEF Spec, ImplementsGlobalLock, Abstract!Spec
=============================================================================
