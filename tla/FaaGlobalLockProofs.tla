------------------------ MODULE FaaGlobalLockProofs ------------------------
(***************************************************************************)
(* Proofs about the FAA (ticket) algorithm.  It does not exclude, so what  *)
(* is proved is what its records promise: a waiter is visible, no ticket   *)
(* is orphaned, and no ticket is served before it is drawn.                *)
(***************************************************************************)
EXTENDS FaaGlobalLock, TwoTierLockProofs

\* What TypeOK needs to be inductive: grant_lock reads the record of a node.
GrantsNode == mpc = "grant" => grantee \in Nodes

LEMMA TypeInit == Init => TypeOK /\ GrantsNode
<1> SUFFICES ASSUME Init PROVE TypeOK /\ GrantsNode
    OBVIOUS
<1>1. ClientTypeOK
  BY ZeroIsLock, SpinAssumption
  DEF Init, ClientInit, ClientTypeOK, Modes, PCs
<1>2. ManagerTypeOK
  BY ZeroIsLock DEF Init, ManagerInit, ManagerTypeOK, ManagerPCs
<1> QED
  BY <1>1, <1>2, CountAssumption, TicketAssumption
  DEF Init, ManagerInit, TypeOK, GrantsNode, Tickets, SomeNode, Nodes

\* The steps inside acquire_lock and release_lock, and the loads of
\* poll_for_grant, keep the types of the client's variables.
LEMMA ClientTypeAlgorithm ==
    ASSUME ClientTypeOK, NEW t \in Threads,
           AcquireLock(t) \/ Poll(t) \/ ReleaseLock(t)
    PROVE  ClientTypeOK'
<1>1. CASE UNCHANGED clientVars
  BY <1>1 DEF clientVars, ClientTypeOK
<1>2. ASSUME NEW label \in {"poll", "cancelLocal", "releaseLocal"}, Finish(t, label)
      PROVE  ClientTypeOK'
  BY <1>2 DEF Finish, Goto, ClientTypeOK, PCs, AcquirePCs, ReleasePCs
<1>3. CASE PollGranted(t) \/ PollAgain(t) \/ PollGivesUp(t)
  BY <1>3, ClientTypeStep
<1> QED
  BY <1>1, <1>2, <1>3 DEF AcquireLock, Poll, ReleaseLock, AfterRelease

\* The returns of check_grant and grant_lock keep the manager's types, and
\* the scan stays within the nodes.
LEMMA CheckTypeStep ==
    ASSUME TypeOK, CheckGrant
    PROVE  /\ ManagerTypeOK'
           /\ mstep' \in {"start", "active", "ticket", "owner", "serving"}
           /\ nid' \in Nodes /\ min_ticket' \in Tickets /\ min_node' \in SomeNode
<1> USE DEF TypeOK, SomeNode
<1>1. ASSUME NEW mt \in Tickets, NEW mn \in SomeNode, Scanned(mt, mn)
      PROVE  /\ ManagerTypeOK'
             /\ mstep' \in {"start", "active", "ticket", "owner", "serving"}
             /\ nid' \in Nodes /\ min_ticket' \in Tickets /\ min_node' \in SomeNode
  <2>1. ManagerTypeOK'
    BY <1>1, ManagerTypeStep DEF Scanned, managerVars, ManagerTypeOK
  <2> QED
    BY <1>1, <2>1, CountAssumption, TicketAssumption DEF Scanned, Nodes, Tickets
<1>2. CASE mstep = "start"
  <2>1. ManagerTypeOK'
    BY <1>2, ManagerTypeStep DEF CheckGrant, managerVars, ManagerTypeOK
  <2> QED BY <1>2, <2>1 DEF CheckGrant
<1>3. CASE mstep = "active"
  <2>1. CASE active[nid] = 1
    BY <1>3, <2>1 DEF CheckGrant, managerVars, ManagerTypeOK
  <2>2. CASE active[nid] = 0
    BY <1>1, <1>3, <2>2 DEF CheckGrant
  <2> QED BY <2>1, <2>2
<1>4. CASE mstep = "ticket"
  BY <1>1, <1>4 DEF CheckGrant
<1> QED BY <1>2, <1>3, <1>4 DEF CheckGrant

\* Every variable keeps its type through every step of clients and manager.
LEMMA TypeStep == TypeOK /\ GrantsNode /\ [Next]_vars => TypeOK' /\ GrantsNode'
<1> SUFFICES ASSUME TypeOK, GrantsNode, [Next]_vars PROVE TypeOK' /\ GrantsNode'
    OBVIOUS
<1>0. GrantsNode'
  <2>1. CASE Manager
    <3>1. CASE ManagerStep
      BY <3>1 DEF ManagerStep, RunLoop, StopReturns, GrantsNode
    <3>2. CASE CheckGrant
      <4>1. ASSUME NEW g \in SomeNode, CheckReturns(g) PROVE GrantsNode'
        BY <4>1 DEF CheckReturns, NextLock, GrantsNode, SomeNode
      <4>2. CASE UNCHANGED managerVars
        BY <4>2 DEF managerVars, GrantsNode
      <4>3. nid \in SomeNode /\ min_node \in SomeNode /\ NoNode \in SomeNode
        BY DEF TypeOK, SomeNode
      <4> QED BY <3>2, <4>1, <4>2, <4>3 DEF CheckGrant, Scanned
    <3>3. CASE GrantLock
      BY <3>3 DEF GrantLock, GrantReturns, NextLock, managerVars, GrantsNode
    <3> QED BY <2>1, <3>1, <3>2, <3>3 DEF Manager
  <2>2. CASE Environment
    BY <2>2 DEF Environment, Start, StopRequest, managerVars, GrantsNode
  <2>3. CASE UNCHANGED managerVars
    BY <2>3 DEF managerVars, GrantsNode
  <2> QED BY <2>1, <2>2, <2>3 DEF Next, Thread, vars
<1> SUFFICES TypeOK'
    BY <1>0
<1>1. CASE UNCHANGED vars
  BY <1>1 DEF TypeOK, vars, clientVars, managerVars, algoVars, entryVars, recordVars,
     callVars, checkVars, ClientTypeOK, ManagerTypeOK
<1>2. CASE Manager
  <2>1. UNCHANGED <<clientVars, recordVars, callVars>>
    BY <1>2 DEF Manager
  <2>2. ClientTypeOK'
    BY <2>1 DEF TypeOK, clientVars, ClientTypeOK
  <2>3. CASE ManagerStep /\ UNCHANGED <<entryVars, checkVars>>
    <3>1. ManagerTypeOK'
      BY <2>3, ManagerTypeStep DEF TypeOK
    <3> QED BY <2>1, <2>2, <2>3, <3>1 DEF TypeOK, entryVars, recordVars, callVars, checkVars
  <2>4. CASE CheckGrant /\ UNCHANGED entryVars
    <3>1. UNCHANGED grant_ticket
      BY <2>4 DEF CheckGrant
    <3> QED
      BY <2>1, <2>2, <2>4, <3>1, CheckTypeStep DEF TypeOK, entryVars, recordVars, callVars
  <2>5. CASE GrantLock /\ UNCHANGED next_ticket
    <3>1. ManagerTypeOK'
      BY <2>5, ManagerTypeStep DEF TypeOK, GrantLock, managerVars, ManagerTypeOK
    <3>2. grantee \in Nodes /\ ticket[grantee] \in Tickets /\ mlock \in Locks
      BY <2>5 DEF TypeOK, ManagerTypeOK, GrantsNode, GrantLock
    <3>3. /\ now_serving' \in [Locks -> Tickets]
          /\ owner' \in [Locks -> SomeNode]
          /\ grant_ticket' \in Tickets
          /\ mstep' \in {"start", "owner", "serving"}
      BY <2>5, <3>2, TicketAssumption DEF TypeOK, GrantLock, SomeNode, Tickets
    <3>4. UNCHANGED <<nid, min_ticket, min_node>>
      BY <2>5 DEF GrantLock
    <3> QED
      BY <2>1, <2>2, <2>5, <3>1, <3>3, <3>4 DEF TypeOK, recordVars, callVars
  <2> QED BY <1>2, <2>3, <2>4, <2>5 DEF Manager
<1>3. CASE Environment
  <2>1. ClientTypeOK'
    BY <1>3, ClientTypeStep DEF TypeOK, Environment, clientVars, ClientTypeOK
  <2>2. ManagerTypeOK'
    BY <1>3, ManagerTypeStep DEF TypeOK, Environment, managerVars, ManagerTypeOK
  <2> QED
    BY <1>3, <2>1, <2>2
    DEF TypeOK, Environment, algoVars, entryVars, recordVars, callVars, checkVars
<1>4. ASSUME NEW t \in Threads, Thread(t) PROVE TypeOK'
  <2>1. ClientTypeOK'
    BY <1>4, ClientTypeStep, ClientTypeAlgorithm DEF TypeOK, Thread
  <2>2. ManagerTypeOK' /\ UNCHANGED checkVars
    BY <1>4 DEF TypeOK, Thread, managerVars, ManagerTypeOK
  <2>3. CASE ClientStep(t) /\ UNCHANGED <<entryVars, recordVars, callVars>>
    BY <2>1, <2>2, <2>3 DEF TypeOK, entryVars, recordVars, callVars, checkVars
  <2>4. CASE AcquireLock(t)
    <3>1. NodeOf[t] \in Nodes /\ arg[t] \in Locks /\ 0 \in Tickets
      BY NodeOfType, TicketAssumption DEF TypeOK, ClientTypeOK, Tickets
    <3>2. next_ticket' \in [Locks -> Tickets] /\ mine' \in [Threads -> Tickets]
      BY <2>4, <3>1, TicketAssumption DEF TypeOK, AcquireLock, Forget, Tickets
    <3>3. ticket' \in [Nodes -> Tickets] /\ active' \in [Nodes -> 0 .. 1]
      BY <2>4, <3>1 DEF TypeOK, AcquireLock, recordVars
    <3>4. step' \in [Threads -> {"start", "ticket", "active", "owner"}]
      BY <2>4 DEF TypeOK, AcquireLock, Go, Finish
    <3>5. UNCHANGED <<now_serving, owner, seen>>
      BY <2>4 DEF AcquireLock
    <3> QED BY <2>1, <2>2, <3>2, <3>3, <3>4, <3>5 DEF TypeOK, checkVars
  <2>5. CASE Poll(t)
    <3>1. now_serving[arg[t]] \in Tickets
      BY DEF TypeOK, ClientTypeOK
    <3> QED
      BY <2>1, <2>2, <2>5, <3>1, TicketAssumption
      DEF TypeOK, Poll, Go, Forget, checkVars, entryVars, recordVars, Tickets
  <2>6. CASE ReleaseLock(t)
    <3>1. NodeOf[t] \in Nodes /\ arg[t] \in Locks /\ 0 \in Tickets
      BY NodeOfType, TicketAssumption DEF TypeOK, ClientTypeOK, Tickets
    <3>2. owner' \in [Locks -> SomeNode]
      BY <2>6, <3>1 DEF TypeOK, ReleaseLock, SomeNode
    <3>3. ticket' \in [Nodes -> Tickets] /\ active' \in [Nodes -> 0 .. 1]
      BY <2>6, <3>1 DEF TypeOK, ReleaseLock, recordVars
    <3>4. step' \in [Threads -> {"start", "ticket", "active", "owner"}]
      BY <2>6 DEF TypeOK, ReleaseLock, Go, Finish
    <3>5. UNCHANGED <<next_ticket, now_serving, mine, seen>>
      BY <2>6 DEF ReleaseLock
    <3> QED BY <2>1, <2>2, <3>2, <3>3, <3>4, <3>5 DEF TypeOK, checkVars
  <2> QED BY <1>4, <2>3, <2>4, <2>5, <2>6 DEF Thread
<1> QED BY <1>1, <1>2, <1>3, <1>4 DEF Next

\* Every reachable state is well typed: no counter runs past its width, and
\* check_grant reads the records of existing nodes only.
THEOREM TypeCorrect == Spec => []TypeOK
  BY TypeInit, TypeStep, PTL DEF Spec

-----------------------------------------------------------------------------
(* Tickets: one lock, so that the record of a node only ever has tickets of it. *)

LEMMA TicketInit == Init => TicketInv
  BY DEF Init, TicketInv, DrawnOrNone

\* A ticket is drawn by the fetch_add of acquire_lock and only copied after that.
LEMMA TicketStep ==
    ASSUME LockCount = 1
    PROVE  TypeOK /\ GrantsNode /\ TicketInv /\ [Next]_vars => TicketInv'
<1> SUFFICES ASSUME TypeOK, GrantsNode, TicketInv, [Next]_vars PROVE TicketInv'
    OBVIOUS
<1>0. Locks = {0}
  BY DEF Locks
<1>1. /\ next_ticket[0] \in Nat
      /\ \A t \in Threads : arg[t] = 0 /\ mine[t] \in Nat /\ NodeOf[t] \in Nodes
      /\ \A n \in Nodes : ticket[n] \in Nat
      /\ mlock = 0 /\ grant_ticket \in Nat /\ now_serving[0] \in Nat
  BY <1>0, NodeOfType, TicketAssumption
  DEF TypeOK, ClientTypeOK, ManagerTypeOK, Tickets
<1>2. CASE UNCHANGED <<next_ticket, mine, ticket, grant_ticket, now_serving>>
  BY <1>2 DEF TicketInv, DrawnOrNone
<1>3. ASSUME NEW t \in Threads, AcquireLock(t), UNCHANGED checkVars PROVE TicketInv'
  <2>1. UNCHANGED <<now_serving, grant_ticket>>
    BY <1>3 DEF AcquireLock, checkVars
  <2>2. CASE step[t] = "start"
    <3>1. /\ mine' = [mine EXCEPT ![t] = next_ticket[0]]
          /\ next_ticket' = [next_ticket EXCEPT ![0] = @ + 1]
          /\ UNCHANGED ticket
      BY <1>1, <1>3, <2>2 DEF AcquireLock, recordVars
    <3>2. next_ticket'[0] = next_ticket[0] + 1
      BY <1>0, <3>1 DEF TypeOK
    <3> QED BY <1>0, <1>1, <2>1, <3>1, <3>2 DEF TypeOK, TicketInv, DrawnOrNone
  <2>3. CASE step[t] = "ticket"
    BY <1>0, <1>1, <1>3, <2>1, <2>3 DEF AcquireLock, Forget, TypeOK, TicketInv, DrawnOrNone
  <2>4. CASE step[t] = "active"
    BY <1>3, <2>1, <2>4 DEF AcquireLock, TicketInv, DrawnOrNone
  <2> QED BY <1>3, <2>2, <2>3, <2>4 DEF AcquireLock
<1>4. ASSUME NEW t \in Threads, ReleaseLock(t), UNCHANGED checkVars PROVE TicketInv'
  BY <1>1, <1>4 DEF ReleaseLock, recordVars, checkVars, TypeOK, TicketInv, DrawnOrNone
<1>5. CASE GrantLock /\ UNCHANGED <<next_ticket, recordVars, callVars>>
  <2>1. grantee \in Nodes
    BY <1>5 DEF GrantLock, GrantsNode
  <2> QED
    BY <1>0, <1>1, <1>5, <2>1
    DEF GrantLock, recordVars, callVars, TypeOK, TicketInv, DrawnOrNone
<1>6. CASE Manager
  BY <1>2, <1>5, <1>6 DEF Manager, CheckGrant, entryVars, recordVars, callVars, checkVars
<1>7. CASE Environment \/ UNCHANGED vars
  BY <1>2, <1>7 DEF Environment, vars, algoVars, entryVars, recordVars, callVars, checkVars
<1>8. ASSUME NEW t \in Threads, Thread(t) PROVE TicketInv'
  BY <1>2, <1>3, <1>4, <1>8 DEF Thread, Poll, entryVars, recordVars, callVars, checkVars
<1> QED BY <1>6, <1>7, <1>8 DEF Next

\* With one lock no ticket is served before it is drawn: now_serving, the owner
\* and the record are written separately, and grant_lock reads a ticket again
\* that the node may have cleared or replaced since check_grant read it.
THEOREM NothingServedEarly ==
    ASSUME LockCount = 1
    PROVE  Spec => []ServesDrawnTickets
<1>1. TicketInv => ServesDrawnTickets
  BY DEF TicketInv, DrawnOrNone, ServesDrawnTickets
<1> QED BY <1>1, TypeInit, TypeStep, TicketInit, TicketStep, PTL DEF Spec

-----------------------------------------------------------------------------
(* Records: one lock or one thread per node, so that calls of one node take     *)
(* turns at its record.                                                         *)

LEMMA RecordInit == Init => RecordInv
<1> SUFFICES ASSUME Init PROVE RecordInv
    OBVIOUS
<1>1. MutexInv /\ NoLeakedMutex
  BY NodeOfType DEF Init, ClientInit, MutexInv, NoLeakedMutex, AcquirePCs, ReleasePCs
<1> QED BY <1>1 DEF Init, ClientInit, RecordInv, StepInv, WaiterVisible, TicketKept

\* Two calls past the local mutex of one node are the same call.
LEMMA OneCallPerRecord ==
    ASSUME TypeOK, MutexInv, UnsharedRecord, NEW t \in Threads, NEW u \in Threads,
           NodeOf[t] = NodeOf[u],
           pc[t] \in AcquirePCs \cup ReleasePCs, pc[u] \in AcquirePCs \cup ReleasePCs
    PROVE  t = u
<1>1. CASE LockCount = 1
  <2>1. arg[t] = 0 /\ arg[u] = 0
    BY <1>1 DEF TypeOK, ClientTypeOK, Locks
  <2> QED BY <2>1 DEF MutexInv, MutexOwner
<1> QED BY <1>1 DEF UnsharedRecord

\* The local mutexes through every step.
LEMMA RecordMutex ==
    ASSUME TypeOK, MutexInv, NoLeakedMutex, ~StrayRelease, [Next]_vars
    PROVE  MutexInv' /\ NoLeakedMutex'
<1>0. ClientTypeOK
  BY DEF TypeOK
<1>1. CASE UNCHANGED clientVars
  BY <1>1 DEF clientVars, MutexInv, NoLeakedMutex, MutexOwner
<1>2. ASSUME NEW t \in Threads, ClientCall(t) PROVE MutexInv' /\ NoLeakedMutex'
  BY <1>0, <1>2, MutexStep
<1>3. ASSUME NEW t \in Threads, Thread(t) PROVE MutexInv' /\ NoLeakedMutex'
  <2>1. CASE ClientStep(t) \/ PollGranted(t) \/ PollAgain(t) \/ PollGivesUp(t)
    BY <1>0, <2>1, MutexStep
  <2>2. ASSUME NEW label \in {"poll", "cancelLocal", "releaseLocal"}, Finish(t, label),
               pc[t] \in {"request", "release", "cancel"}
        PROVE  MutexInv' /\ NoLeakedMutex'
    BY <1>0, <2>2, MutexMove DEF Finish, AcquirePCs, ReleasePCs
  <2> QED
    BY <1>1, <1>3, <2>1, <2>2 DEF Thread, AcquireLock, Poll, ReleaseLock, AfterRelease
<1> QED BY <1>1, <1>2, <1>3 DEF Next, Manager, Environment, vars

\* Steps of the two-tier lock outside the algorithm leave the record alone; the
\* thread they move keeps its ticket if it had one.
LEMMA RecordClient ==
    ASSUME TypeOK, RecordInv, NEW t \in Threads, ClientStep(t) \/ ClientCall(t),
           UNCHANGED <<recordVars, callVars>>
    PROVE  StepInv' /\ WaiterVisible' /\ TicketKept'
<1> USE DEF TypeOK, ClientTypeOK
<1>0. UNCHANGED <<active, step>>
  BY DEF recordVars, callVars
<1>1. /\ pc[t] \in {"idle", "local", "cancelLocal", "releaseLocal"}
      /\ \A u \in Threads \ {t} : pc'[u] = pc[u] /\ held'[u] = held[u]
      /\ pc'[t] \in {"idle", "local", "request", "release"}
      /\ held'[t] = held[t] \/ pc'[t] = "release"
  BY DEF ClientStep, ClientCall, LocalAcquire, LocalRefused, LocalRelease, Acquire, Release,
     Goto, Return
<1>2. step[t] = "start"
  BY <1>1 DEF RecordInv, StepInv
<1>3. StepInv'
  BY <1>0, <1>1, <1>2 DEF RecordInv, StepInv
<1>4. WaiterVisible'
  BY <1>0, <1>1 DEF RecordInv, WaiterVisible
<1>5. \A u \in Threads : KeepsTicket(u) => KeepsTicket(u)'
  BY <1>0, <1>1, <1>2 DEF KeepsTicket
<1>6. TicketKept'
  BY <1>0, <1>5 DEF RecordInv, TicketKept
<1> QED BY <1>3, <1>4, <1>6

\* acquire_lock activates the record just before its thread starts to poll.
LEMMA RecordAcquire ==
    ASSUME TypeOK, RecordInv, NEW t \in Threads, AcquireLock(t)
    PROVE  StepInv' /\ WaiterVisible' /\ TicketKept'
<1> USE NodeOfType DEF TypeOK, ClientTypeOK
<1>0. pc[t] = "request" /\ UNCHANGED held
  BY DEF AcquireLock, Finish, clientVars
<1>1. CASE step[t] # "active"
  <2>1. UNCHANGED <<pc, active>>
    BY <1>1 DEF AcquireLock, clientVars, recordVars
  <2>2. \A u \in Threads : step'[u] # step[u] => u = t /\ step'[u] \in {"ticket", "active"}
    BY <1>1 DEF AcquireLock, Go
  <2>3. \A u \in Threads : KeepsTicket(u) => KeepsTicket(u)'
    BY <1>0, <2>1, <2>2 DEF KeepsTicket
  <2> QED BY <1>0, <2>1, <2>2, <2>3 DEF RecordInv, StepInv, WaiterVisible, TicketKept
<1>2. CASE step[t] = "active"
  <2>1. /\ active' = [active EXCEPT ![NodeOf[t]] = 1]
        /\ pc' = [pc EXCEPT ![t] = "poll"]
        /\ step' = [step EXCEPT ![t] = "start"]
    BY <1>2 DEF AcquireLock, Finish, Goto, Go
  <2>2. KeepsTicket(t)' /\ \A u \in Threads : KeepsTicket(u) => KeepsTicket(u)'
    BY <1>0, <2>1 DEF KeepsTicket
  <2>3. StepInv' /\ WaiterVisible'
    BY <2>1 DEF RecordInv, StepInv, WaiterVisible
  <2>4. TicketKept'
    BY <2>1, <2>2 DEF RecordInv, TicketKept
  <2> QED BY <2>3, <2>4
<1> QED BY <1>1, <1>2

\* poll_for_grant only reads; its thread goes on to hold the lock, to poll again
\* or to cancel.
LEMMA RecordPoll ==
    ASSUME TypeOK, RecordInv, NEW t \in Threads, Poll(t)
    PROVE  StepInv' /\ WaiterVisible' /\ TicketKept'
<1> USE NodeOfType DEF TypeOK, ClientTypeOK
<1>0. pc[t] = "poll" /\ UNCHANGED active
  BY DEF Poll, recordVars
<1>1. /\ \A u \in Threads \ {t} : pc'[u] = pc[u] /\ held'[u] = held[u] /\ step'[u] = step[u]
      /\ \/ pc'[t] = "poll" /\ step'[t] \in {"start", "ticket", "active"}
         \/ pc'[t] = "cancel" /\ step'[t] = "start"
         \/ pc'[t] = "idle" /\ step'[t] = "start" /\ held'[t] # {}
  <2>1. CASE UNCHANGED clientVars /\ (Go(t, "ticket") \/ Go(t, "active"))
    BY <1>0, <2>1 DEF clientVars, Go
  <2>2. CASE PollGranted(t) /\ Go(t, "start")
    BY <2>2 DEF PollGranted, Return, Go
  <2>3. CASE (PollAgain(t) \/ PollGivesUp(t)) /\ Go(t, "start")
    BY <1>0, <2>3 DEF PollAgain, PollGivesUp, Goto, Go
  <2> QED BY <2>1, <2>2, <2>3 DEF Poll
<1>2. StepInv'
  BY <1>1 DEF RecordInv, StepInv
<1>3. WaiterVisible'
  BY <1>0, <1>1 DEF RecordInv, WaiterVisible
<1>4. \A u \in Threads : KeepsTicket(u) => KeepsTicket(u)'
  BY <1>1 DEF KeepsTicket
<1>5. TicketKept'
  BY <1>0, <1>4 DEF RecordInv, TicketKept
<1> QED BY <1>2, <1>3, <1>5

\* release_lock deactivates the record when no other call uses it.
LEMMA RecordRelease ==
    ASSUME TypeOK, RecordInv, UnsharedRecord, NEW t \in Threads, ReleaseLock(t)
    PROVE  StepInv' /\ WaiterVisible' /\ TicketKept'
<1> USE NodeOfType DEF TypeOK, ClientTypeOK
<1>0. pc[t] \in {"release", "cancel"} /\ UNCHANGED held
  BY DEF ReleaseLock, Finish, clientVars
<1>1. CASE step[t] = "start"
  <2>1. UNCHANGED <<pc, active>> /\ step' = [step EXCEPT ![t] = "active"]
    BY <1>1 DEF ReleaseLock, clientVars, Go
  <2>2. \A u \in Threads : KeepsTicket(u) => KeepsTicket(u)'
    BY <1>0, <2>1 DEF KeepsTicket
  <2> QED BY <1>0, <2>1, <2>2 DEF RecordInv, StepInv, WaiterVisible, TicketKept
<1>2. CASE step[t] = "active"
  <2>1. /\ UNCHANGED pc
        /\ active' = [active EXCEPT ![NodeOf[t]] = 0]
        /\ step' = [step EXCEPT ![t] = "owner"]
    BY <1>2 DEF ReleaseLock, clientVars, Go
  <2>2. StepInv'
    BY <1>0, <2>1 DEF RecordInv, StepInv
  <2>3. WaiterVisible'
    <3>1. \A u \in Threads : pc[u] = "poll" => NodeOf[u] # NodeOf[t]
      BY <1>0, OneCallPerRecord DEF RecordInv, AcquirePCs, ReleasePCs
    <3> QED BY <2>1, <3>1 DEF RecordInv, WaiterVisible
  <2>4. \A u \in Threads \ {t} : KeepsTicket(u) => KeepsTicket(u)'
    BY <1>0, <2>1 DEF KeepsTicket
  <2>5. TicketKept'
    BY <2>1, <2>4 DEF RecordInv, TicketKept
  <2> QED BY <2>2, <2>3, <2>5
<1>3. CASE step[t] = "owner"
  <2>1. /\ UNCHANGED active
        /\ pc' = [pc EXCEPT ![t] = AfterRelease(t)]
        /\ step' = [step EXCEPT ![t] = "start"]
    BY <1>3 DEF ReleaseLock, Finish, Goto, Go, recordVars
  <2>2. AfterRelease(t) \in {"releaseLocal", "cancelLocal"}
    BY DEF AfterRelease
  <2>3. \A u \in Threads : KeepsTicket(u) => KeepsTicket(u)'
    BY <1>0, <1>3, <2>1, <2>2 DEF KeepsTicket
  <2> QED BY <1>0, <2>1, <2>2, <2>3 DEF RecordInv, StepInv, WaiterVisible, TicketKept
<1> QED BY <1>1, <1>2, <1>3 DEF ReleaseLock

LEMMA RecordStep ==
    ASSUME ~StrayRelease, UnsharedRecord
    PROVE  TypeOK /\ RecordInv /\ [Next]_vars => RecordInv'
<1> SUFFICES ASSUME TypeOK, RecordInv, [Next]_vars PROVE RecordInv'
    OBVIOUS
<1>1. MutexInv' /\ NoLeakedMutex'
  BY RecordMutex DEF RecordInv
<1>2. CASE UNCHANGED <<clientVars, recordVars, callVars>>
  <2>1. UNCHANGED <<pc, held, active, step>>
    BY <1>2 DEF clientVars, recordVars, callVars
  <2> QED BY <1>1, <2>1 DEF RecordInv, StepInv, WaiterVisible, TicketKept, KeepsTicket
<1>3. ASSUME NEW t \in Threads, ClientCall(t) \/ ClientStep(t), UNCHANGED <<recordVars, callVars>>
      PROVE  RecordInv'
  BY <1>1, <1>3, RecordClient DEF RecordInv
<1>4. CASE Environment
  BY <1>2, <1>3, <1>4 DEF Environment, algoVars
<1>5. ASSUME NEW t \in Threads, Thread(t) PROVE RecordInv'
  <2>1. CASE AcquireLock(t)
    BY <1>1, <2>1, RecordAcquire DEF RecordInv
  <2>2. CASE Poll(t)
    BY <1>1, <2>2, RecordPoll DEF RecordInv
  <2>3. CASE ReleaseLock(t)
    BY <1>1, <2>3, RecordRelease DEF RecordInv
  <2> QED BY <1>3, <1>5, <2>1, <2>2, <2>3 DEF Thread
<1> QED BY <1>2, <1>4, <1>5 DEF Next, Manager, vars, algoVars

\* The active flags and the calls of their node's threads always agree.
THEOREM RecordInvCorrect ==
    ASSUME ~StrayRelease, UnsharedRecord
    PROVE  Spec => []RecordInv
  BY TypeInit, TypeStep, RecordInit, RecordStep, PTL DEF Spec

\* A thread that polls is visible to the manager, provided that its node's record
\* is not shared by calls about other locks.
THEOREM WaitersAreVisible ==
    ASSUME ~StrayRelease, UnsharedRecord
    PROVE  Spec => []WaiterVisible
<1>1. RecordInv => WaiterVisible
  BY DEF RecordInv
<1> QED BY <1>1, RecordInvCorrect, PTL

\* A timeout, a cancellation or a release leaves no active ticket behind that the
\* manager would serve to nobody.
THEOREM NoTicketOrphaned ==
    ASSUME ~StrayRelease, UnsharedRecord
    PROVE  Spec => []NoOrphanTicket
<1>1. RecordInv => NoOrphanTicket
  BY DEF RecordInv, TicketKept, KeepsTicket, NoOrphanTicket
<1> QED BY <1>1, RecordInvCorrect, PTL
=============================================================================
