------------------------ MODULE McsGlobalLockProofs ------------------------
(***************************************************************************)
(* Proofs about the MCS algorithm: it is well typed; and with one lock and *)
(* calls that do not time out it excludes, hands over to waiters only and  *)
(* serves in order of arrival, for any number of nodes and threads.        *)
(***************************************************************************)
EXTENDS McsGlobalLock, TwoTierLockProofs

LEMMA TypeInit == Init => TypeOK
<1> SUFFICES ASSUME Init PROVE TypeOK
    OBVIOUS
<1>1. ClientTypeOK
  BY ZeroIsLock, SpinAssumption DEF Init, ClientInit, ClientTypeOK, Modes, PCs
<1>2. ManagerTypeOK
  BY ZeroIsLock DEF Init, ManagerInit, ManagerTypeOK, ManagerPCs
<1> QED
  BY <1>1, <1>2, CountAssumption DEF Init, TypeOK, SomeNode, Steps, Nodes

\* Inside acquire_lock, poll_for_grant and release_lock the two-tier lock is left
\* alone until the function returns.
LEMMA ClientTypeAlgorithm ==
    ASSUME ClientTypeOK, NEW t \in Threads,
           \/ Prepare(t) \/ SwapTail(t) \/ ReloadTail(t) \/ LinkIn(t) \/ Poll(t)
           \/ CheckOwner(t) \/ ReadSuccessor(t) \/ Unlink(t)
           \/ ClearEntry(t) \/ PassOn(t) \/ ResetRecord(t)
    PROVE  ClientTypeOK'
<1>1. CASE UNCHANGED clientVars
  BY <1>1 DEF clientVars, ClientTypeOK
<1>2. ASSUME NEW label \in {"poll", "cancelLocal", "releaseLocal"}, Finish(t, label)
      PROVE  ClientTypeOK'
  BY <1>2 DEF Finish, Goto, ClientTypeOK, PCs, AcquirePCs, ReleasePCs
<1>3. CASE PollGranted(t) \/ PollAgain(t) \/ PollGivesUp(t)
  BY <1>3, ClientTypeStep
<1>4. AfterRelease(t) \in {"cancelLocal", "releaseLocal"}
  BY DEF AfterRelease
<1>5. CASE Prepare(t) \/ SwapTail(t) \/ ReloadTail(t) \/ ReadSuccessor(t) \/ Unlink(t)
           \/ ClearEntry(t) \/ PassOn(t)
  BY <1>1, <1>5 DEF Prepare, SwapTail, ReloadTail, ReadSuccessor, Unlink, ClearEntry, PassOn, Go
<1>6. CASE Poll(t)
  BY <1>1, <1>3, <1>6 DEF Poll, Go
<1>7. CASE LinkIn(t) \/ CheckOwner(t) \/ ResetRecord(t)
  BY <1>1, <1>2, <1>4, <1>7 DEF LinkIn, CheckOwner, ResetRecord, Go
<1> QED BY <1>5, <1>6, <1>7

\* The history variable keeps its type when a node arrives and when it leaves.
LEMMA HistoryType ==
    ASSUME TypeOK, NEW n \in Nodes, NEW l \in Locks, Arrives(n, l) \/ Leaves(n, l)
    PROVE  ahead' \in [Locks -> [Nodes -> SUBSET Nodes]]
<1>0. ahead \in [Locks -> [Nodes -> SUBSET Nodes]]
  BY DEF TypeOK
<1>1. CASE Arrives(n, l)
  <2>1. Queued(l) \cup {n} \in SUBSET Nodes
    BY DEF Queued
  <2> QED BY <1>0, <1>1, <2>1 DEF Arrives
<1>2. CASE Leaves(n, l)
  <2>1. [m \in Nodes |-> IF m = n THEN {} ELSE ahead[l][m] \ {n}] \in [Nodes -> SUBSET Nodes]
    BY <1>0
  <2> QED BY <1>0, <1>2, <2>1 DEF Leaves
<1> QED BY <1>1, <1>2

\* Every variable keeps its type through every step of clients and manager.
LEMMA TypeStep == TypeOK /\ [Next]_vars => TypeOK'
<1> SUFFICES ASSUME TypeOK, [Next]_vars PROVE TypeOK'
    OBVIOUS
<1>1. CASE UNCHANGED vars
  BY <1>1 DEF TypeOK, vars, clientVars, managerVars, entryVars, nodeVars, callVars, checkVars,
     ClientTypeOK, ManagerTypeOK
<1>2. CASE Environment \/ (ManagerStep /\ UNCHANGED <<clientVars, algoVars>>)
  <2>1. ClientTypeOK'
    BY <1>2, ClientTypeStep DEF TypeOK, Environment, clientVars, ClientTypeOK
  <2>2. ManagerTypeOK'
    BY <1>2, ManagerTypeStep DEF TypeOK, Environment, managerVars, ManagerTypeOK
  <2> QED
    BY <1>2, <2>1, <2>2
    DEF TypeOK, Environment, algoVars, entryVars, nodeVars, callVars, checkVars
<1>3. CASE CheckGrant
  <2>1. UNCHANGED <<clientVars, entryVars, nodeVars, callVars, ahead>>
    BY <1>3 DEF CheckGrant
  <2>2. ClientTypeOK'
    BY <2>1 DEF TypeOK, clientVars, ClientTypeOK
  <2>3. mhead' \in SomeNode /\ mstep' \in {"start", "head", "locked", "waiting", "owner"}
    BY <1>3 DEF CheckGrant, At, TypeOK, ManagerTypeOK, SomeNode
  <2>4. mhead \in Nodes \cup {NoNode} /\ NoNode \in Nodes \cup {NoNode}
    BY DEF TypeOK, SomeNode
  <2>5. ManagerTypeOK'
    BY <1>3, <2>4, ManagerTypeStep DEF CheckGrant, TypeOK, managerVars, ManagerTypeOK
  <2> QED BY <2>1, <2>2, <2>3, <2>5 DEF TypeOK, entryVars, nodeVars, callVars
<1>4. CASE GrantLock
  <2>1. UNCHANGED <<clientVars, tail, head, next, waiting, callVars, mhead, ahead>>
    BY <1>4 DEF GrantLock
  <2>2. ClientTypeOK'
    BY <2>1 DEF TypeOK, clientVars, ClientTypeOK
  <2>3. ManagerTypeOK'
    BY <1>4, ManagerTypeStep DEF GrantLock, TypeOK, managerVars, ManagerTypeOK
  <2>4. owner' \in [Locks -> SomeNode] /\ mstep' \in {"start", "owner"}
    BY <1>4 DEF GrantLock, At, TypeOK, ManagerTypeOK, SomeNode
  <2>5. locked' \in [Nodes -> 0 .. 2]
    BY <1>4 DEF GrantLock, TypeOK
  <2> QED BY <2>1, <2>2, <2>3, <2>4, <2>5 DEF TypeOK, callVars
<1>5. ASSUME NEW t \in Threads, Thread(t) PROVE TypeOK'
  <2> USE NodeOfType
  <2>1. ClientTypeOK'
    BY <1>5, ClientTypeStep, ClientTypeAlgorithm DEF TypeOK, Thread
  <2>2. UNCHANGED <<managerVars, checkVars>>
    BY <1>5 DEF Thread, algoVars, Prepare, SwapTail, ReloadTail, LinkIn, Poll, CheckOwner,
       ReadSuccessor, Unlink, ClearEntry, PassOn, ResetRecord, Go, Finish
  <2>3. ManagerTypeOK' /\ mstep' = mstep /\ mhead' = mhead
    BY <2>2 DEF TypeOK, managerVars, checkVars, ManagerTypeOK
  <2>4. NodeOf[t] \in Nodes /\ arg[t] \in Locks /\ link[t] \in SomeNode
    BY DEF TypeOK, ClientTypeOK
  <2>5. CASE ClientStep(t) /\ UNCHANGED <<managerVars, algoVars>>
    BY <2>1, <2>3, <2>5 DEF TypeOK, algoVars, entryVars, nodeVars, callVars
  <2>6. CASE Prepare(t) \/ SwapTail(t) \/ ReloadTail(t) \/ LinkIn(t)
    <3>1. ahead' \in [Locks -> [Nodes -> SUBSET Nodes]]
      BY <2>4, <2>6, HistoryType DEF TypeOK, Prepare, SwapTail, ReloadTail, LinkIn
    <3>2. tail' \in [Locks -> SomeNode] /\ head' \in [Locks -> SomeNode]
                                       /\ owner' \in [Locks -> SomeNode]
      BY <2>4, <2>6
      DEF TypeOK, Prepare, SwapTail, ReloadTail, LinkIn, entryVars, SomeNode
    <3>3. next' \in [Nodes -> SomeNode]
      BY <2>4, <2>6 DEF TypeOK, Prepare, SwapTail, ReloadTail, LinkIn, nodeVars, SomeNode
    <3>7. waiting' \in [Nodes -> Locks \cup {NoLock}]
      BY <2>4, <2>6 DEF TypeOK, Prepare, SwapTail, ReloadTail, LinkIn, nodeVars
    <3>6. locked' \in [Nodes -> 0 .. 2]
      <4>1. locked' = locked \/ locked' = [locked EXCEPT ![NodeOf[t]] = 1]
        BY <2>6 DEF Prepare, SwapTail, ReloadTail, LinkIn, nodeVars
      <4> QED BY <4>1 DEF TypeOK
    <3>4. step' \in [Threads -> Steps]
      BY <2>6 DEF TypeOK, Prepare, SwapTail, ReloadTail, LinkIn, Go, Finish, Steps
    <3>5. link' \in [Threads -> SomeNode]
      BY <2>4, <2>6 DEF TypeOK, Prepare, SwapTail, ReloadTail, LinkIn, Finish, SomeNode
    <3> QED BY <2>1, <2>3, <3>1, <3>2, <3>3, <3>4, <3>5, <3>6, <3>7 DEF TypeOK
  <2>7. CASE Poll(t)
    <3>1. ahead' \in [Locks -> [Nodes -> SUBSET Nodes]]
      BY <2>4, <2>7, HistoryType DEF TypeOK, Poll
    <3>2. step' \in [Threads -> Steps] /\ UNCHANGED <<entryVars, nodeVars, link>>
      BY <2>7 DEF TypeOK, Poll, Go, Steps
    <3> QED BY <2>1, <2>3, <3>1, <3>2 DEF TypeOK, entryVars, nodeVars
  <2>8. CASE CheckOwner(t) \/ ReadSuccessor(t) \/ Unlink(t)
    <3>1. ahead' \in [Locks -> [Nodes -> SUBSET Nodes]]
      BY <2>4, <2>8, HistoryType DEF TypeOK, CheckOwner, ReadSuccessor, Unlink
    <3>2. step' \in [Threads -> Steps]
      BY <2>8 DEF TypeOK, CheckOwner, ReadSuccessor, Unlink, Go, Finish, Steps
    <3>3. link' \in [Threads -> SomeNode] /\ tail' \in [Locks -> SomeNode]
      BY <2>4, <2>8 DEF TypeOK, CheckOwner, ReadSuccessor, Unlink, Finish, SomeNode, entryVars
    <3>4. UNCHANGED <<head, owner, nodeVars>>
      BY <2>8 DEF CheckOwner, ReadSuccessor, Unlink, entryVars
    <3> QED BY <2>1, <2>3, <3>1, <3>2, <3>3, <3>4 DEF TypeOK, nodeVars
  <2>9. CASE ClearEntry(t) \/ PassOn(t)
    <3>1. UNCHANGED <<tail, next, waiting, link, ahead>>
      BY <2>9 DEF ClearEntry, PassOn, nodeVars
    <3>2. step' \in [Threads -> Steps]
      BY <2>9 DEF TypeOK, ClearEntry, PassOn, Go, Steps
    <3>3. head' \in [Locks -> SomeNode] /\ owner' \in [Locks -> SomeNode]
      BY <2>4, <2>9 DEF TypeOK, ClearEntry, PassOn, SomeNode
    <3>4. locked' \in [Nodes -> 0 .. 2]
      BY <2>9 DEF TypeOK, ClearEntry, PassOn, nodeVars
    <3> QED BY <2>1, <2>3, <3>1, <3>2, <3>3, <3>4 DEF TypeOK
  <2>10. CASE ResetRecord(t)
    <3>1. ahead' \in [Locks -> [Nodes -> SUBSET Nodes]]
      BY <2>4, <2>10, HistoryType DEF TypeOK, ResetRecord
    <3>2. step' \in [Threads -> Steps] /\ link' \in [Threads -> SomeNode]
      BY <2>10 DEF TypeOK, ResetRecord, Go, Finish, Steps, SomeNode
    <3>3. next' \in [Nodes -> SomeNode] /\ UNCHANGED entryVars
      BY <2>10 DEF TypeOK, ResetRecord, SomeNode
    <3>4. waiting' \in [Nodes -> Locks \cup {NoLock}]
      BY <2>10 DEF TypeOK, ResetRecord
    <3>5. locked' \in [Nodes -> 0 .. 2]
      BY <2>10 DEF TypeOK, ResetRecord
    <3> QED BY <2>1, <2>3, <3>1, <3>2, <3>3, <3>4, <3>5 DEF TypeOK, entryVars
  <2> QED BY <1>5, <2>5, <2>6, <2>7, <2>8, <2>9, <2>10 DEF Thread
<1> QED BY <1>1, <1>2, <1>3, <1>4, <1>5 DEF Next, Manager

\* Every reachable state is well typed, whatever applications call.
THEOREM TypeCorrect == Spec => []TypeOK
  BY TypeInit, TypeStep, PTL DEF Spec

-----------------------------------------------------------------------------
(* One lock, and no call gives up.                                              *)

LEMMA NodeRange == NoNode \notin Nodes
  BY NoNodeAssumption

\* The local mutexes through every step.
LEMMA MutexNext ==
    ASSUME TypeOK, MutexInv, NoLeakedMutex, ControlInv, ~StrayRelease, [Next]_vars
    PROVE  MutexInv' /\ NoLeakedMutex'
<1>0. ClientTypeOK
  BY DEF TypeOK
<1>1. CASE UNCHANGED clientVars
  BY <1>1 DEF clientVars, MutexInv, NoLeakedMutex, MutexOwner
<1>2. ASSUME NEW t \in Threads, ClientCall(t) PROVE MutexInv' /\ NoLeakedMutex'
  BY <1>0, <1>2, MutexStep
<1>3. ASSUME NEW t \in Threads, Thread(t) PROVE MutexInv' /\ NoLeakedMutex'
  <2>1. CASE ClientStep(t) \/ PollGranted(t) \/ PollAgain(t) \/ PollGivesUp(t)
    BY <1>0, <2>1, MutexStep
  <2>2. ASSUME NEW label \in {"poll", "cancelLocal", "releaseLocal"}, Finish(t, label),
               pc[t] \in {"request", "release", "cancel"}
        PROVE  MutexInv' /\ NoLeakedMutex'
    BY <1>0, <2>2, MutexMove DEF Finish, AcquirePCs, ReleasePCs
  <2>3. AfterRelease(t) \in {"cancelLocal", "releaseLocal"}
    BY DEF AfterRelease
  <2>4. CASE LinkIn(t)
    BY <2>2, <2>4 DEF LinkIn, ControlInv, CallInv
  <2>5. CASE CheckOwner(t)
    BY <1>1, <2>2, <2>3, <2>5 DEF CheckOwner, Releasing, Go
  <2>6. CASE ResetRecord(t)
    BY <1>1, <2>2, <2>3, <2>6 DEF ResetRecord, Go, ControlInv, CallInv
  <2>7. CASE Poll(t)
    BY <1>1, <2>1, <2>7 DEF Poll, Go
  <2>8. CASE Prepare(t) \/ SwapTail(t) \/ ReloadTail(t) \/ ReadSuccessor(t) \/ Unlink(t)
             \/ ClearEntry(t) \/ PassOn(t)
    BY <1>1, <2>8
    DEF Prepare, SwapTail, ReloadTail, ReadSuccessor, Unlink, ClearEntry, PassOn, Go
  <2> QED BY <1>3, <2>1, <2>4, <2>5, <2>6, <2>7, <2>8 DEF Thread
<1> QED BY <1>1, <1>2, <1>3 DEF Next, Manager, Environment, CheckGrant, GrantLock, vars

-----------------------------------------------------------------------------
(* Control.                                                                     *)

\* The position inside the algorithm's functions tells which function it is.
LEMMA StepTells ==
    ASSUME ControlInv, NEW t \in Threads
    PROVE  /\ step[t] \in {"locked", "swap", "reload", "link"} => pc[t] = "request"
           /\ step[t] \in {"succ", "unlink", "clearHead", "clearOwner", "spin", "passHead",
                  "passOwner", "wake", "resetNext", "resetLocked", "resetWaiting"} => pc[t] = "release"
           /\ pc[t] \notin {"cancel", "cancelLocal"}
  BY DEF ControlInv, CallInv

\* A thread's position is not disturbed by the steps of others that spare the record
\* of its node.
LEMMA CallUndisturbed ==
    ASSUME NEW u \in Threads, CallInv(u),
           pc'[u] = pc[u], step'[u] = step[u], spins'[u] = spins[u], arg'[u] = arg[u],
           mode'[u] = mode[u], link'[u] = link[u],
           pc[u] \in {"request", "poll"} =>
               locked'[NodeOf[u]] = locked[NodeOf[u]] /\ waiting'[NodeOf[u]] = waiting[NodeOf[u]]
    PROVE  CallInv(u)'
<1>1. step[u] \in {"swap", "reload", "link"} => pc[u] \in {"request", "poll"}
  BY DEF CallInv
<1> QED BY <1>1 DEF CallInv, Passing

\* A step of the thread's call outside the algorithm, or of the application.
LEMMA ControlClient ==
    ASSUME TypeOK, ControlInv, CallModes \subseteq {"long"},
           NEW t \in Threads, ClientStep(t) \/ ClientCall(t), UNCHANGED <<managerVars, algoVars>>
    PROVE  ControlInv'
<1>0. UNCHANGED <<step, link, locked, waiting, running, mpc, mstep, mhead, grantee>>
  BY DEF managerVars, algoVars, nodeVars, callVars, checkVars
<1>1. /\ pc[t] # "cancelLocal" /\ spins[t] = 0 /\ ~Passing(t)
      /\ pc[t] = "local" => mode[t] = "long"
      /\ pc[t] \in {"idle", "local", "releaseLocal"} => step[t] = "start"
  BY DEF ControlInv, CallInv, Passing, ClientStep, ClientCall, LocalAcquire, LocalRefused,
     LocalRelease, Acquire, Release
<1>2. pc[t] \in {"idle", "local", "releaseLocal"}
  BY <1>1 DEF ClientStep, ClientCall, LocalAcquire, LocalRefused, LocalRelease, Acquire, Release
<1>3. \A u \in Threads \ {t} : pc'[u] = pc[u] /\ spins'[u] = spins[u]
                               /\ arg'[u] = arg[u] /\ mode'[u] = mode[u]
  BY DEF TypeOK, ClientTypeOK, ClientStep, ClientCall, LocalAcquire, LocalRefused, LocalRelease,
     Acquire, Release, Goto, Return
<1>4. /\ pc'[t] \in {"idle", "local", "request", "release"} /\ spins'[t] = 0
      /\ pc'[t] \in {"local", "request"} => mode'[t] = "long"
  <2>1. CASE ClientStep(t)
    BY <1>1, <1>2, <2>1
    DEF TypeOK, ClientTypeOK, ClientStep, LocalAcquire, LocalRefused, LocalRelease, Goto, Return
  <2>2. CASE ClientCall(t)
    BY <1>1, <1>2, <2>2 DEF TypeOK, ClientTypeOK, ClientCall, Acquire, Release
  <2> QED BY <2>1, <2>2
<1>5. CallInv(t)'
  BY <1>0, <1>1, <1>2, <1>4 DEF CallInv, Passing
<1>6. \A u \in Threads \ {t} : CallInv(u)'
  BY <1>0, <1>3, CallUndisturbed DEF ControlInv
<1> QED BY <1>0, <1>5, <1>6 DEF ControlInv

\* acquire_lock.
LEMMA ControlAcquire ==
    ASSUME TypeOK, ControlInv, OneCall, NEW t \in Threads,
           Prepare(t) \/ SwapTail(t) \/ ReloadTail(t) \/ LinkIn(t)
    PROVE  ControlInv'
<1>0. NodeOf[t] \in Nodes /\ pc \in [Threads -> PCs] /\ step \in [Threads -> Steps]
      /\ link \in [Threads -> SomeNode]
      /\ locked \in [Nodes -> 0 .. 2] /\ waiting \in [Nodes -> Locks \cup {NoLock}]
  BY NodeOfType DEF TypeOK, ClientTypeOK
<1>1. pc[t] = "request"
  BY StepTells DEF Prepare, SwapTail, ReloadTail, LinkIn
<1>2. UNCHANGED <<arg, mode, spins, running, mpc, mstep, mhead, grantee>>
  BY DEF Prepare, SwapTail, ReloadTail, LinkIn, Go, Finish, clientVars, managerVars, checkVars
<1>3. \A u \in Threads \ {t} : pc'[u] = pc[u] /\ step'[u] = step[u] /\ link'[u] = link[u]
  BY <1>0 DEF Prepare, SwapTail, ReloadTail, LinkIn, Go, Finish, Goto, clientVars
<1>4. \A n \in Nodes \ {NodeOf[t]} : locked'[n] = locked[n] /\ waiting'[n] = waiting[n]
  BY <1>0 DEF Prepare, SwapTail, ReloadTail, LinkIn, nodeVars
<1>5. \A u \in Threads \ {t} : CallInv(u)'
  <2> TAKE u \in Threads \ {t}
  <2>1. pc[u] \in {"request", "poll"} => NodeOf[u] \in Nodes \ {NodeOf[t]}
    BY <1>1, OneCaller, NodeOfType
  <2> QED BY <1>2, <1>3, <1>4, <2>1, CallUndisturbed DEF ControlInv
<1>6. CallInv(t)'
  <2>1. CallInv(t)
    BY DEF ControlInv
  <2>2. CASE Prepare(t)
    <3>1. UNCHANGED clientVars
      BY <2>2 DEF Prepare, Go
    <3> QED BY <1>0, <1>1, <2>1, <2>2, <3>1 DEF Prepare, Go, CallInv, Passing, clientVars
  <2>3. CASE SwapTail(t) \/ ReloadTail(t)
    <3>1. UNCHANGED <<clientVars, locked, waiting>>
      BY <2>3 DEF SwapTail, ReloadTail, Go, nodeVars
    <3>2. step[t] \in {"swap", "reload"} /\ step'[t] \in {"swap", "reload", "link"}
      BY <1>0, <2>3 DEF SwapTail, ReloadTail, Go
    <3> QED BY <1>1, <2>1, <3>1, <3>2 DEF CallInv, Passing, clientVars
  <2>4. CASE LinkIn(t)
    <3>1. step[t] = "link" /\ pc'[t] = "poll" /\ step'[t] = "start"
      BY <1>0, <2>4 DEF LinkIn, Finish, Goto
    <3>2. UNCHANGED <<locked, waiting>>
      BY <2>4 DEF LinkIn
    <3> QED BY <1>1, <1>2, <2>1, <3>1, <3>2 DEF CallInv, Passing
  <2> QED BY <2>2, <2>3, <2>4
<1> QED BY <1>2, <1>5, <1>6 DEF ControlInv

\* poll_for_grant: the load of locked decides, and only this thread could set it
\* back to 1; without a timeout the call does not give up.
LEMMA ControlPoll ==
    ASSUME TypeOK, ControlInv, NEW t \in Threads, Poll(t)
    PROVE  ControlInv' /\ ~PollGivesUp(t)
<1>0. pc \in [Threads -> PCs] /\ step \in [Threads -> Steps] /\ arg \in [Threads -> Locks]
      /\ mode \in [Threads -> Modes] /\ spins \in [Threads -> 0 .. SpinLimit + 1]
  BY DEF TypeOK, ClientTypeOK
<1>1. CallInv(t) /\ pc[t] = "poll" /\ mode[t] = "long" /\ spins[t] = 0
  BY DEF Poll, ControlInv, CallInv
<1>2. ~PollGivesUp(t)
  BY <1>1, SpinAssumption DEF PollGivesUp
<1>3. UNCHANGED <<locked, waiting, link, running, mpc, mstep, mhead, grantee>>
  BY DEF Poll, Go, managerVars, checkVars, nodeVars
<1>4. \A u \in Threads \ {t} : pc'[u] = pc[u] /\ step'[u] = step[u] /\ arg'[u] = arg[u]
                               /\ mode'[u] = mode[u] /\ spins'[u] = spins[u]
  BY <1>0, <1>1, <1>2 DEF Poll, Go, PollGranted, PollAgain, Return, clientVars
<1>5. \A u \in Threads \ {t} : CallInv(u)'
  BY <1>3, <1>4, CallUndisturbed DEF ControlInv
<1>6. CallInv(t)'
  <2>1. CASE PollGranted(t) /\ step' = [step EXCEPT ![t] = "start"]
    <3>1. pc'[t] = "idle" /\ step'[t] = "start" /\ spins'[t] = 0
      BY <1>0, <2>1 DEF PollGranted, Return
    <3> QED BY <3>1 DEF CallInv, Passing
  <2>2. CASE PollAgain(t) /\ step' = [step EXCEPT ![t] = "start"]
    <3>1. UNCHANGED <<pc, arg, mode, spins>> /\ step'[t] = "start"
      BY <1>0, <1>1, <2>2 DEF PollAgain
    <3> QED BY <1>1, <1>3, <3>1 DEF CallInv, Passing
  <2>3. CASE locked[NodeOf[t]] # 1 /\ Go(t, "waiting")
    <3>1. UNCHANGED <<pc, arg, mode, spins>> /\ step'[t] = "waiting"
      BY <1>0, <2>3 DEF Go, clientVars
    <3> QED BY <1>1, <1>3, <2>3, <3>1 DEF CallInv, Passing
  <2> QED BY <1>2, <2>1, <2>2, <2>3 DEF Poll
<1> QED BY <1>2, <1>3, <1>5, <1>6 DEF ControlInv

\* The successor that a releaser has read is waiting: nobody else can have woken it.
LEMMA PassesToWaiter ==
    ASSUME McsInv, OneCall, NEW t \in Threads, Passing(t)
    PROVE  /\ pc[t] = "release" /\ Has(t) /\ Joined(NodeOf[t]) /\ QueueInv
           /\ link[t] \in Nodes /\ next[NodeOf[t]] = link[t] /\ Waits(link[t])
           /\ link[t] # NodeOf[t]
<1>1. pc[t] = "release" /\ link[t] \in Nodes
  BY DEF McsInv, ControlInv, CallInv, Passing
<1>2. Has(t)
  BY <1>1 DEF Has
<1>3. QueueInv
  BY <1>2 DEF McsInv, Alive
<1>4. Joined(NodeOf[t]) /\ NodeOf[t] \in Nodes
  BY <1>1 DEF Joined, OneCall
<1>5. next[NodeOf[t]] = link[t]
  BY <1>3 DEF QueueInv, TurnInv
<1>6. Waits(link[t])
  BY <1>1, <1>3, <1>4, <1>5, NodeRange DEF QueueInv, LinkInv
<1>7. link[t] # NodeOf[t]
  BY <1>1, <1>6 DEF Waits, OneCall
<1> QED BY <1>1, <1>2, <1>3, <1>4, <1>5, <1>6, <1>7

\* release_lock.
LEMMA ControlRelease ==
    ASSUME McsInv, OneCall, NEW t \in Threads,
           \/ CheckOwner(t) \/ ReadSuccessor(t) \/ Unlink(t)
           \/ ClearEntry(t) \/ PassOn(t) \/ ResetRecord(t)
    PROVE  ControlInv'
<1>0. NodeOf[t] \in Nodes /\ pc \in [Threads -> PCs] /\ step \in [Threads -> Steps]
      /\ link \in [Threads -> SomeNode] /\ next \in [Nodes -> SomeNode]
      /\ locked \in [Nodes -> 0 .. 2] /\ waiting \in [Nodes -> Locks \cup {NoLock}]
  BY NodeOfType DEF McsInv, TypeOK, ClientTypeOK
<1>1. ControlInv /\ CallInv(t)
  BY DEF McsInv, ControlInv
<1>2. pc[t] = "release"
  BY <1>1, StepTells
  DEF CheckOwner, Releasing, ReadSuccessor, Unlink, ClearEntry, PassOn, ResetRecord
<1>3. UNCHANGED <<arg, mode, spins, running, mpc, mstep, mhead, grantee>>
  BY DEF CheckOwner, ReadSuccessor, Unlink, ClearEntry, PassOn, ResetRecord, Go, Finish,
     clientVars, managerVars, checkVars
<1>4. \A u \in Threads \ {t} : pc'[u] = pc[u] /\ step'[u] = step[u] /\ link'[u] = link[u]
  BY <1>0 DEF CheckOwner, ReadSuccessor, Unlink, ClearEntry, PassOn, ResetRecord, Go, Finish,
     Goto, clientVars
<1>5. ASSUME NEW u \in Threads \ {t} PROVE CallInv(u)'
  <2>1. pc[u] \in {"request", "poll"} => NodeOf[u] \in Nodes /\ NodeOf[u] # NodeOf[t]
    BY <1>2, OneCaller, NodeOfType
  <2>2. CASE step[t] # "wake"
    <3>1. \A n \in Nodes \ {NodeOf[t]} : locked'[n] = locked[n] /\ waiting'[n] = waiting[n]
      BY <1>0, <2>2
      DEF CheckOwner, ReadSuccessor, Unlink, ClearEntry, PassOn, ResetRecord, nodeVars
    <3> QED BY <1>1, <1>3, <1>4, <2>1, <3>1, CallUndisturbed DEF ControlInv
  <2>3. CASE step[t] = "wake"
    <3>1. PassOn(t)
      BY <1>2, <2>3 DEF CheckOwner, Releasing, ReadSuccessor, Unlink, ClearEntry, ResetRecord
    <3>2. waiting' = waiting /\ locked' = [locked EXCEPT ![link[t]] = 0]
      BY <2>3, <3>1 DEF PassOn
    <3>3. Waits(link[t]) /\ link[t] \in Nodes
      BY <2>3, PassesToWaiter DEF Passing
    <3>4. pc[u] = "request" => NodeOf[u] # link[t]
      BY <3>3 DEF Waits, OneCall
    <3>5. pc[u] = "poll" /\ step[u] = "waiting" => locked'[NodeOf[u]] # 1
      BY <1>0, <1>1, <2>1, <3>2, <3>3 DEF ControlInv, CallInv
    <3>6. pc[u] = "request" => locked'[NodeOf[u]] = locked[NodeOf[u]]
      BY <1>0, <2>1, <3>2, <3>4
    <3>7. CallInv(u) /\ (step[u] \in {"swap", "reload", "link"} => pc[u] = "request")
      BY <1>1, StepTells DEF ControlInv
    <3> QED BY <1>3, <1>4, <3>2, <3>5, <3>6, <3>7 DEF CallInv, Passing
  <2> QED BY <2>2, <2>3
<1>6. CallInv(t)'
  <2>1. CASE CheckOwner(t)
    <3>1. \/ pc'[t] = "release" /\ step'[t] = "succ"
          \/ pc'[t] = "releaseLocal" /\ step'[t] = "start"
      BY <1>0, <1>2, <2>1 DEF CheckOwner, Go, Finish, Goto, AfterRelease, clientVars
    <3> QED BY <1>1, <1>3, <3>1 DEF CallInv, Passing
  <2>2. CASE ReadSuccessor(t)
    <3>1. /\ pc'[t] = "release" /\ step'[t] \in {"unlink", "passHead"}
          /\ step'[t] = "passHead" => link'[t] \in Nodes
      BY <1>0, <1>2, <2>2 DEF ReadSuccessor, Go, clientVars, SomeNode
    <3> QED BY <1>1, <1>3, <3>1 DEF CallInv, Passing
  <2>3. CASE Unlink(t) \/ ClearEntry(t)
    <3>1. /\ pc'[t] = "release"
          /\ step'[t] \in {"clearHead", "spin", "clearOwner", "resetNext"}
      BY <1>0, <1>2, <2>3 DEF Unlink, ClearEntry, Go, clientVars
    <3> QED BY <1>1, <1>3, <3>1 DEF CallInv, Passing
  <2>4. CASE PassOn(t)
    <3>1. /\ pc'[t] = "release" /\ link' = link
          /\ step'[t] \in {"passOwner", "wake", "resetNext"}
          /\ step'[t] # "resetNext" => Passing(t)
      BY <1>0, <1>2, <2>4 DEF PassOn, Go, clientVars, Passing
    <3> QED BY <1>1, <1>3, <3>1 DEF CallInv, Passing
  <2>5. CASE ResetRecord(t)
    <3>1. \/ pc'[t] = "release" /\ step'[t] \in {"resetLocked", "resetWaiting"}
          \/ pc'[t] = "releaseLocal" /\ step'[t] = "start"
      BY <1>0, <1>2, <2>5 DEF ResetRecord, Go, Finish, Goto, AfterRelease, clientVars
    <3> QED BY <1>1, <1>3, <3>1 DEF CallInv, Passing
  <2> QED BY <2>1, <2>2, <2>3, <2>4, <2>5
<1> QED BY <1>1, <1>3, <1>5, <1>6 DEF ControlInv

\* Nobody has the lock while the manager decides, so the queue is as it should be.
LEMMA ManagerDecides ==
    ASSUME McsInv, (mpc = "check" /\ mstep # "start") \/ (mpc = "grant" /\ mstep = "start")
    PROVE  Alive /\ QueueInv /\ \A t \in Threads : ~Has(t)
<1>1. owner[0] = NoNode /\ ~Granting
  BY DEF McsInv, OwnerInv, ControlInv, Granting
<1>2. ASSUME NEW t \in Threads, Has(t) PROVE FALSE
  <2>1. NodeOf[t] # NoNode
    BY NodeOfType, NodeRange
  <2>2. step[t] = "wake" => link[t] # NoNode
    BY NodeRange DEF McsInv, ControlInv, CallInv, Passing
  <2> QED BY <1>1, <1>2, <2>1, <2>2 DEF McsInv, OwnerInv
<1>3. Alive
  BY <1>1 DEF Alive
<1> QED BY <1>2, <1>3 DEF McsInv

\* The steps of the worker.
LEMMA ControlManager ==
    ASSUME McsInv, OneCall,
           \/ ManagerStep /\ UNCHANGED <<clientVars, algoVars>>
           \/ (Start \/ StopRequest) /\ UNCHANGED <<clientVars, algoVars>>
           \/ CheckGrant \/ GrantLock
    PROVE  ControlInv'
<1>0. locked \in [Nodes -> 0 .. 2] /\ ControlInv /\ mhead \in SomeNode
      /\ head[mlock] \in SomeNode
      /\ mstep \in {"start", "head", "locked", "waiting", "owner"}
  BY DEF McsInv, TypeOK, ManagerTypeOK
<1>1. UNCHANGED <<pc, arg, mode, spins, step, link, waiting>>
  BY DEF CheckGrant, GrantLock, clientVars, algoVars, nodeVars, callVars
<1>2. \A u \in Threads : CallInv(u)'
  <2> TAKE u \in Threads
  <2>1. CASE UNCHANGED locked
    BY <1>0, <1>1, <2>1, CallUndisturbed DEF ControlInv
  <2>2. CASE GrantLock /\ mstep = "start"
    <3>1. First(grantee) /\ grantee \in Nodes
      BY <1>0, <2>2, ManagerDecides DEF GrantLock, QueueInv, HeadInv, ControlInv
    <3>2. locked' = [locked EXCEPT ![grantee] = 2]
      BY <2>2 DEF GrantLock
    <3>3. pc[u] = "request" => NodeOf[u] # grantee
      BY <3>1 DEF First, Waits, OneCall
    <3>4. CallInv(u) /\ (step[u] \in {"swap", "reload", "link"} => pc[u] = "request")
      BY <1>0, StepTells DEF ControlInv
    <3>5. pc[u] = "request" => locked'[NodeOf[u]] = locked[NodeOf[u]]
      BY <1>0, <3>2, <3>3, NodeOfType
    <3>6. pc[u] = "poll" /\ step[u] = "waiting" => locked'[NodeOf[u]] # 1
      BY <1>0, <3>1, <3>2, <3>4, NodeOfType DEF CallInv
    <3> QED BY <1>1, <3>4, <3>5, <3>6 DEF CallInv, Passing
  <2> QED BY <2>1, <2>2 DEF CheckGrant, GrantLock, algoVars, nodeVars
<1>3. /\ ~running' => mpc' = "off"
      /\ mpc' \notin {"check", "grant"} => mstep' = "start"
      /\ mpc' = "check" => mstep' # "owner" /\ (mstep' \in {"locked", "waiting"} => mhead' \in Nodes)
      /\ mpc' = "grant" => mstep' \in {"start", "owner"} /\ grantee' \in Nodes
  <2>1. CASE (ManagerStep \/ Start \/ StopRequest) /\ UNCHANGED algoVars
    BY <1>0, <2>1 DEF ManagerStep, RunLoop, StopReturns, Start, StopRequest, algoVars, checkVars,
       ControlInv
  <2>2. CASE CheckGrant
    BY <1>0, <2>2 DEF CheckGrant, CheckReturns, NextLock, At, managerVars, SomeNode, ControlInv
  <2>3. CASE GrantLock
    BY <1>0, <2>3 DEF GrantLock, GrantReturns, NextLock, At, managerVars, ControlInv
  <2> QED BY <2>1, <2>2, <2>3
<1> QED BY <1>2, <1>3 DEF ControlInv

-----------------------------------------------------------------------------
(* The queue is not disturbed by steps that keep its members, their order and   *)
(* their links.                                                                 *)

\* What the queue needs of a thread and of a node to stay in order.
KeepsThread(u) ==
    /\ Has(u)' => Has(u) /\ (pc'[u] = "poll" => pc[u] = "poll")
    /\ (step'[u] = "link") <=> (step[u] = "link")
    /\ step[u] = "link" => link'[u] = link[u]
    /\ Passing(u)' => \/ Passing(u) /\ link'[u] = link[u]
                      \/ next'[NodeOf[u]] = link'[u]
    /\ Prepared(u)' => next'[NodeOf[u]] = NoNode

KeepsNode(n) ==
    /\ Joined(n)' => Joined(n)
    /\ Joined(n) /\ ~Joined(n)' =>
           n # tail'[0] /\ \A u \in Threads : step[u] = "link" => link[u] # n
    /\ Waits(n)' <=> Waits(n)
    /\ Arrived(n)' <=> Arrived(n)
    /\ Joined(n) => next'[n] = next[n]

LEMMA QueueUndisturbed ==
    ASSUME TypeOK, OneCall, ControlInv, QueueInv,
           UNCHANGED <<ahead, mpc, mstep, mhead, grantee>>,
           tail' = tail \/ (tail'[0] = NoNode /\ Queued(0) = {}),
           \A u \in Threads : KeepsThread(u),
           \A n \in Nodes : KeepsNode(n),
           \/ \E u \in Threads : Has(u)' /\ step'[u] # "clearOwner"
           \/ head'[0] = NoNode
           \/ /\ \A u \in Threads : Has(u) => step[u] = "clearOwner"
              /\ head' = head
    PROVE  QueueInv'
<1>0. /\ tail[0] \in SomeNode /\ head[0] \in SomeNode
      /\ \A n \in Nodes : next[n] \in SomeNode
      /\ \A u \in Threads : link[u] \in SomeNode /\ NodeOf[u] \in Nodes
      /\ mhead \in SomeNode /\ grantee \in SomeNode
  BY ZeroIsLock, NodeOfType DEF TypeOK, ManagerTypeOK, SomeNode
<1>1. LinkInv'
  BY <1>0 DEF QueueInv, LinkInv, KeepsNode, SomeNode
<1>2. LinkingInv'
  <2> SUFFICES ASSUME NEW u \in Threads, step'[u] = "link"
               PROVE  (IF link[u] = NoNode
                       THEN ahead[0][NodeOf[u]] = {NodeOf[u]}
                       ELSE /\ link[u] # NodeOf[u] /\ Joined(link[u])' /\ next'[link[u]] = NoNode
                            /\ ahead[0][NodeOf[u]] = ahead[0][link[u]] \cup {NodeOf[u]}
                            /\ \A v \in Threads : step'[v] = "link" /\ link'[v] = link[u] => v = u)
      BY DEF LinkingInv, KeepsThread
  <2>1. step[u] = "link" /\ \A v \in Threads : step'[v] = "link" => step[v] = "link" /\ link'[v] = link[v]
    BY DEF KeepsThread
  <2> QED BY <1>0, <2>1 DEF QueueInv, LinkingInv, KeepsNode, SomeNode
<1>3. PreparedInv'
  BY DEF PreparedInv, KeepsThread
<1>4. TailInv'
  <2>1. \A u \in Threads : step'[u] = "link" => step[u] = "link" /\ link'[u] = link[u]
    BY DEF KeepsThread
  <2>2. Queued(0)' = Queued(0)
    BY DEF Queued
  <2> QED BY <1>0, <2>1, <2>2 DEF QueueInv, TailInv, KeepsNode, SomeNode
<1>5. AheadInv'
  BY DEF QueueInv, AheadInv, KeepsNode
<1>6. \A n \in Nodes : First(n) => First(n)'
  BY DEF First, KeepsNode
<1>7. HeadInv'
  <2>1. mpc' = "check" /\ mstep' \in {"locked", "waiting"} => First(mhead)'
    BY <1>6 DEF QueueInv, HeadInv, ControlInv
  <2>2. mpc' = "grant" /\ mstep' = "start" => First(grantee)'
    BY <1>6 DEF QueueInv, HeadInv, ControlInv
  <2>3. \/ \E u \in Threads : Has(u)' /\ step'[u] # "clearOwner"
        \/ head'[0] # NoNode => First(head[0])' /\ head'[0] = head[0]
    BY <1>0, <1>6 DEF QueueInv, HeadInv, SomeNode
  <2> QED BY <2>1, <2>2, <2>3 DEF HeadInv
<1>8. TurnInv'
  <2>1. \A u \in Threads : Passing(u) => Joined(NodeOf[u])
    BY StepTells DEF Passing, Joined, OneCall
  <2> QED BY <1>0, <2>1 DEF QueueInv, TurnInv, KeepsThread, KeepsNode
<1> QED BY <1>1, <1>2, <1>3, <1>4, <1>5, <1>7, <1>8 DEF QueueInv

-----------------------------------------------------------------------------
(* Who has the lock, and the queue, step by step.                               *)

\* What the steps below have to keep.
Rest == OwnerInv /\ (Alive => QueueInv)

\* Steps that leave the entry of the lock and the manager alone and only move within
\* what the queue shows of the threads and nodes.
SameThread(u) ==
    /\ Has(u)' <=> Has(u)
    /\ Passing(u)' <=> Passing(u)
    /\ (step'[u] = "link") <=> (step[u] = "link")
    /\ Passing(u) \/ step[u] = "link" => link'[u] = link[u]
    /\ (pc'[u] = "poll") <=> (pc[u] = "poll")

SameNode(n) ==
    /\ Joined(n)' <=> Joined(n)
    /\ Waits(n)' <=> Waits(n)
    /\ Arrived(n)' <=> Arrived(n)
    /\ Joined(n) => next'[n] = next[n]

LEMMA QuietStep ==
    ASSUME McsInv, OneCall,
           UNCHANGED <<owner, tail, head, ahead, mpc, mstep, mhead, grantee>>,
           \A u \in Threads : SameThread(u),
           \A n \in Nodes : SameNode(n),
           \A u \in Threads : Prepared(u)' => next'[NodeOf[u]] = NoNode \/ ~QueueInv,
           \A u \in Threads : Has(u) =>
               /\ (step'[u] = "clearOwner") <=> (step[u] = "clearOwner")
               /\ (step'[u] = "wake") <=> (step[u] = "wake")
               /\ \/ pc'[u] # "release" \/ step'[u] = "start" \/ owner[0] = NodeOf[u]
                  \/ pc[u] = "release" /\ step[u] # "start"
    PROVE  Rest'
<1>1. \A u \in Threads : (Has(u)' <=> Has(u)) /\ (Has(u) /\ step[u] = "wake" => link'[u] = link[u])
  BY DEF SameThread, Passing
<1>2. OwnerInv'
  <2>1. \A u, v \in Threads : Has(u)' /\ Has(v)' => u = v
    BY <1>1 DEF McsInv, OwnerInv
  <2>2. ASSUME NEW u \in Threads, Has(u)'
        PROVE  \/ step'[u] = "wake" /\ owner[0] = link'[u]
               \/ step'[u] # "wake" /\ owner[0] = NodeOf[u]
               \/ /\ Granting /\ grantee = NodeOf[u]
                  /\ pc'[u] = "release" => step'[u] = "start"
    <3>1. Has(u)
      BY <1>1, <2>2
    <3>2. (step[u] = "wake" <=> step'[u] = "wake") /\ (step[u] = "wake" => link'[u] = link[u])
      BY <1>1, <3>1
    <3>3. \/ pc'[u] # "release" \/ step'[u] = "start" \/ owner[0] = NodeOf[u]
          \/ pc[u] = "release" /\ step[u] # "start"
      BY <3>1
    <3>4. \/ step[u] = "wake" /\ owner[0] = link[u]
          \/ step[u] # "wake" /\ owner[0] = NodeOf[u]
          \/ Granting /\ grantee = NodeOf[u] /\ (pc[u] = "release" => step[u] = "start")
      BY <3>1 DEF McsInv, OwnerInv
    <3>5. step[u] = "wake" => pc[u] = "release"
      BY StepTells DEF McsInv
    <3> QED BY <3>2, <3>3, <3>4, <3>5
  <2> QED BY <2>1, <2>2 DEF McsInv, OwnerInv, Granting
<1>3. ASSUME Alive' PROVE QueueInv'
  <2>1. QueueInv
    BY <1>1, <1>3 DEF McsInv, Alive, Granting
  <2>2. \A u \in Threads : KeepsThread(u)
    BY <2>1 DEF KeepsThread, SameThread
  <2>3. \A n \in Nodes : KeepsNode(n)
    BY DEF KeepsNode, SameNode
  <2>4. CASE \E u \in Threads : Has(u) /\ step[u] # "clearOwner"
    BY <1>1, <2>1, <2>2, <2>3, <2>4, QueueUndisturbed DEF McsInv
  <2>5. CASE \A u \in Threads : Has(u) => step[u] = "clearOwner"
    BY <2>1, <2>2, <2>3, <2>5, QueueUndisturbed DEF McsInv
  <2> QED BY <2>4, <2>5
<1> QED BY <1>2, <1>3 DEF Rest

\* Calls and returns, and the first tier.
LEMMA RestClient ==
    ASSUME McsInv, OneCall, OneCall', ~StrayRelease, NEW t \in Threads,
           ClientStep(t) \/ ClientCall(t), UNCHANGED <<managerVars, algoVars>>
    PROVE  Rest'
<1>0. UNCHANGED <<tail, head, owner, next, locked, step, link, mpc, mstep, mhead, grantee, ahead>>
  BY DEF managerVars, algoVars, entryVars, nodeVars, callVars, checkVars
<1>1. pc[t] \in {"idle", "local", "releaseLocal"} /\ step[t] = "start"
  BY DEF McsInv, ControlInv, CallInv, ClientStep, ClientCall, LocalAcquire, LocalRefused,
     LocalRelease, Acquire, Release
<1>2. \A u \in Threads \ {t} : pc'[u] = pc[u] /\ held'[u] = held[u]
  BY DEF McsInv, TypeOK, ClientTypeOK, ClientStep, ClientCall, LocalAcquire, LocalRefused,
     LocalRelease, Acquire, Release, Goto, Return
<1>3. \A n \in Nodes : \/ Caller(n)' = Caller(n)
                       \/ n = NodeOf[t] /\ Caller(n) \in {t, NoThread} /\ Caller(n)' \in {t, NoThread}
  BY NodeOfType DEF McsInv, TypeOK, ClientTypeOK, OneCall, Caller, ClientStep, ClientCall,
     LocalAcquire, LocalRefused, LocalRelease, MutexOwner, Acquire, Release, Goto, Return
<1>4. \/ held'[t] = held[t] /\ pc'[t] \in {"idle", "local", "request"}
      \/ held[t] # {} /\ held'[t] = {} /\ pc'[t] = "release" /\ pc[t] = "idle"
  <2>1. CASE ClientStep(t)
    BY <2>1 DEF McsInv, TypeOK, ClientTypeOK, ClientStep, LocalAcquire, LocalRefused, LocalRelease,
       Goto, Return
  <2>2. ASSUME NEW l \in Locks, NEW m \in CallModes, Acquire(t, l, m)
        PROVE  held'[t] = held[t] /\ pc'[t] = "local"
    BY <2>2 DEF McsInv, TypeOK, ClientTypeOK, Acquire
  <2>3. ASSUME NEW l \in Locks, Release(t, l), ~StrayRelease
        PROVE  held[t] # {} /\ held'[t] = {} /\ pc'[t] = "release" /\ pc[t] = "idle"
    BY <2>3 DEF McsInv, TypeOK, ClientTypeOK, Release, OneCall
  <2> QED BY <2>1, <2>2, <2>3 DEF ClientCall
<1>5. \A u \in Threads : SameThread(u)
  BY <1>0, <1>1, <1>2, <1>4 DEF SameThread, Has, Passing
<1>6. \A n \in Nodes : SameNode(n)
  <2> TAKE n \in Nodes
  <2>1. CASE Caller(n)' = Caller(n)
    BY <1>0, <1>1, <1>2, <1>4, <2>1 DEF SameNode, Joined, Waits, Arrived, Passing
  <2>2. CASE n = NodeOf[t] /\ Caller(n) = t /\ Caller(n)' = NoThread
    BY <1>0, <1>1, <1>4, <2>2, ThreadAssumption
    DEF SameNode, Joined, Waits, Arrived, Passing, OneCall
  <2>3. CASE n = NodeOf[t] /\ Caller(n) = NoThread /\ Caller(n)' = t
    BY <1>0, <1>1, <1>4, <2>3, ThreadAssumption
    DEF SameNode, Joined, Waits, Arrived, Passing, OneCall
  <2> QED BY <1>3, <2>1, <2>2, <2>3
<1>7. \A u \in Threads : Prepared(u)' => Prepared(u)
  BY <1>0, <1>1, <1>2 DEF Prepared
<1>8. \A u \in Threads : Prepared(u)' => next'[NodeOf[u]] = NoNode \/ ~QueueInv
  BY <1>0, <1>7 DEF QueueInv, PreparedInv
<1> QED BY <1>0, <1>1, <1>2, <1>5, <1>6, <1>8, QuietStep

\* A thread goes on inside a function without joining the queue or leaving it.
LEMMA QuietMove ==
    ASSUME McsInv, OneCall, NEW t \in Threads,
           UNCHANGED <<pc, held, mutex, owner, tail, head, ahead, mpc, mstep, mhead, grantee>>,
           \A u \in Threads \ {t} : step'[u] = step[u] /\ link'[u] = link[u],
           \A n \in Nodes \ {NodeOf[t]} : next'[n] = next[n] /\ locked'[n] = locked[n],
           pc[t] \in {"request", "poll", "release"},
           pc[t] = "poll" => locked'[NodeOf[t]] = locked[NodeOf[t]],
           step[t] \notin {"link", "clearHead", "clearOwner", "passHead", "passOwner", "wake"},
           step'[t] \notin {"link", "clearHead", "clearOwner", "passHead", "passOwner", "wake"},
           pc[t] = "release" =>
               (step[t] \in {"start", "succ", "unlink", "spin"}
                    <=> step'[t] \in {"start", "succ", "unlink", "spin"}),
           pc[t] = "release" /\ step[t] = "start" => owner[0] = NodeOf[t],
           Joined(NodeOf[t]) => next'[NodeOf[t]] = next[NodeOf[t]],
           Prepared(t)' => next'[NodeOf[t]] = NoNode \/ ~QueueInv
    PROVE  Rest'
<1>1. /\ \A u \in Threads : NodeOf[u] \in Nodes
      /\ \A u \in Threads \ {t} :
            pc[u] \in {"request", "poll", "release"} => NodeOf[u] # NodeOf[t]
      /\ Caller(NodeOf[t]) = t /\ held[t] = {}
  BY OneCaller DEF OneCall
<1>2. \A u \in Threads : SameThread(u)
  BY <1>1 DEF SameThread, Has, Passing
<1>3. \A n \in Nodes : SameNode(n)
  <2> TAKE n \in Nodes
  <2>1. Caller(n)' = Caller(n)
    BY DEF Caller
  <2>2. CASE n = NodeOf[t]
    BY <1>1, <2>1, <2>2 DEF SameNode, Joined, Waits, Arrived, Passing
  <2>3. CASE n # NodeOf[t]
    <3>1. Caller(n) # t
      BY <2>3 DEF OneCall
    <3> QED BY <2>1, <2>3, <3>1 DEF SameNode, Joined, Waits, Arrived, Passing
  <2> QED BY <2>2, <2>3
<1>4. ASSUME NEW u \in Threads, Prepared(u)' PROVE next'[NodeOf[u]] = NoNode \/ ~QueueInv
  <2>1. CASE u = t
    BY <1>4, <2>1
  <2>2. CASE u # t
    BY <1>1, <1>4, <2>2 DEF Prepared, QueueInv, PreparedInv
  <2> QED BY <2>1, <2>2
<1>5. \A u \in Threads : Has(u) =>
        /\ (step'[u] = "clearOwner") <=> (step[u] = "clearOwner")
        /\ (step'[u] = "wake") <=> (step[u] = "wake")
        /\ \/ pc'[u] # "release" \/ step'[u] = "start" \/ owner[0] = NodeOf[u]
           \/ pc[u] = "release" /\ step[u] # "start"
  OBVIOUS
<1> QED BY <1>2, <1>3, <1>4, <1>5, QuietStep

\* The stores that prepare the record of a node.
LEMMA RestPrepare ==
    ASSUME McsInv, OneCall, NEW t \in Threads, Prepare(t)
    PROVE  Rest'
<1>0. NodeOf[t] \in Nodes /\ step \in [Threads -> Steps] /\ next \in [Nodes -> SomeNode]
      /\ locked \in [Nodes -> 0 .. 2]
  BY NodeOfType DEF McsInv, TypeOK
<1>1. pc[t] = "request"
  BY DEF Prepare
<1>2. UNCHANGED <<pc, held, mutex, owner, tail, head, ahead, link, mpc, mstep, mhead, grantee>>
  BY DEF Prepare, Go, clientVars, managerVars, checkVars, entryVars
<1>3. ~Joined(NodeOf[t])
  BY <1>1 DEF Prepare, Joined, OneCall, Passing
<1>4. /\ step[t] \in {"start", "locked", "waiting"} /\ step'[t] \in {"locked", "waiting", "swap"}
      /\ \A u \in Threads \ {t} : step'[u] = step[u]
      /\ \A n \in Nodes \ {NodeOf[t]} : next'[n] = next[n] /\ locked'[n] = locked[n]
      /\ next'[NodeOf[t]] = NoNode \/ (next' = next /\ Prepared(t))
  <2>1. CASE step[t] = "start"
    <3>1. /\ next' = [next EXCEPT ![NodeOf[t]] = NoNode] /\ locked' = locked
          /\ step' = [step EXCEPT ![t] = "locked"]
      BY <2>1 DEF Prepare, Go
    <3> QED BY <1>0, <2>1, <3>1
  <2>2. CASE step[t] \in {"locked", "waiting"}
    <3>1. next' = next /\ Prepared(t)
      BY <1>1, <2>2 DEF Prepare, Prepared
    <3> QED BY <1>0, <2>2, <3>1 DEF Prepare, Go
  <2> QED BY <2>1, <2>2 DEF Prepare
<1>5. next'[NodeOf[t]] = NoNode \/ ~QueueInv
  BY <1>4 DEF QueueInv, PreparedInv
<1> QED BY <1>1, <1>2, <1>3, <1>4, <1>5, QuietMove

\* A compare-exchange of the tail that fails, and the reload after it.
LEMMA RestRetry ==
    ASSUME McsInv, OneCall, NEW t \in Threads,
           ReloadTail(t) \/ (SwapTail(t) /\ tail[arg[t]] # link[t])
    PROVE  Rest'
<1>0. NodeOf[t] \in Nodes /\ step \in [Threads -> Steps] /\ link \in [Threads -> SomeNode]
  BY NodeOfType DEF McsInv, TypeOK
<1>1. step[t] \in {"swap", "reload"} /\ arg[t] = 0
  BY DEF SwapTail, ReloadTail, OneCall
<1>2. pc[t] = "request"
  BY <1>1, StepTells DEF McsInv
<1>3. /\ UNCHANGED <<pc, held, mutex, owner, tail, head, ahead, mpc, mstep, mhead, grantee>>
      /\ UNCHANGED <<next, locked>>
  BY DEF SwapTail, ReloadTail, Go, clientVars, managerVars, checkVars, entryVars, nodeVars
<1>4. \A u \in Threads \ {t} : step'[u] = step[u] /\ link'[u] = link[u]
  BY <1>0 DEF SwapTail, ReloadTail, Go
<1>5. step'[t] \in {"swap", "reload"} \/ (step'[t] = "link" /\ tail[0] = NodeOf[t])
  BY <1>0, <1>1 DEF SwapTail, ReloadTail, Go
<1>6. ~Joined(NodeOf[t]) /\ Prepared(t)
  BY <1>1, <1>2 DEF Joined, OneCall, Passing, Prepared
<1>7. CASE step'[t] \in {"swap", "reload"}
  <2>1. next'[NodeOf[t]] = NoNode \/ ~QueueInv
    BY <1>3, <1>6 DEF QueueInv, PreparedInv
  <2> QED BY <1>1, <1>2, <1>3, <1>4, <1>7, <2>1, QuietMove
<1>8. CASE step'[t] = "link" /\ tail[0] = NodeOf[t]
  <2>1. ~QueueInv
    BY <1>0, <1>6, <1>8, NodeRange DEF QueueInv, TailInv
  <2>2. \A u \in Threads : (Has(u)' <=> Has(u)) /\ (Has(u) => u # t)
    BY <1>1, <1>2, <1>3, <1>4, <1>8 DEF Has, Passing, OneCall
  <2>3. OwnerInv'
    BY <1>3, <1>4, <2>2 DEF McsInv, OwnerInv, Granting
  <2>4. ~Alive'
    BY <1>3, <2>1, <2>2 DEF McsInv, Alive, Granting
  <2> QED BY <2>3, <2>4 DEF Rest
<1> QED BY <1>5, <1>7, <1>8

\* poll_for_grant has not seen the grant yet.
LEMMA RestPoll ==
    ASSUME McsInv, OneCall, NEW t \in Threads, Poll(t), ~PollGranted(t), ~PollGivesUp(t)
    PROVE  Rest'
<1>0. step \in [Threads -> Steps] /\ pc[t] = "poll"
  BY DEF McsInv, TypeOK, Poll
<1>1. step[t] \in {"start", "waiting"}
  BY <1>0 DEF McsInv, ControlInv, CallInv
<1>2. /\ UNCHANGED <<pc, held, mutex, owner, tail, head, ahead, mpc, mstep, mhead, grantee>>
      /\ UNCHANGED <<next, locked, link>>
  BY DEF Poll, Go, PollAgain, clientVars, managerVars, checkVars, entryVars, nodeVars
<1>3. /\ \A u \in Threads \ {t} : step'[u] = step[u] /\ link'[u] = link[u]
      /\ step'[t] \in {"start", "waiting"}
  BY <1>0, <1>2 DEF Poll, Go
<1>4. ~Prepared(t)'
  BY <1>0, <1>2 DEF Prepared
<1> QED BY <1>0, <1>1, <1>2, <1>3, <1>4, QuietMove

\* The steps of release_lock that neither hand over nor let go, and the last stores
\* to the record.
LEMMA RestRelease ==
    ASSUME McsInv, OneCall, NEW t \in Threads,
           \/ CheckOwner(t) /\ owner[arg[t]] = NodeOf[t]
           \/ ReadSuccessor(t) /\ next[NodeOf[t]] = NoNode
           \/ Unlink(t) /\ tail[arg[t]] # NodeOf[t]
           \/ ResetRecord(t) /\ step[t] # "resetWaiting"
    PROVE  Rest'
<1>0. NodeOf[t] \in Nodes /\ step \in [Threads -> Steps] /\ link \in [Threads -> SomeNode]
      /\ next \in [Nodes -> SomeNode] /\ locked \in [Nodes -> 0 .. 2] /\ arg[t] = 0
  BY NodeOfType DEF McsInv, TypeOK, OneCall
<1>1. pc[t] = "release"
  BY StepTells DEF McsInv, CheckOwner, Releasing, ReadSuccessor, Unlink, ResetRecord
<1>2. UNCHANGED <<pc, held, mutex, owner, tail, head, ahead, mpc, mstep, mhead, grantee>>
  BY DEF CheckOwner, ReadSuccessor, Unlink, ResetRecord, Go, clientVars, managerVars, checkVars,
     entryVars
<1>3. \A u \in Threads \ {t} : step'[u] = step[u] /\ link'[u] = link[u]
  BY <1>0 DEF CheckOwner, ReadSuccessor, Unlink, ResetRecord, Go
<1>4. \A n \in Nodes \ {NodeOf[t]} : next'[n] = next[n] /\ locked'[n] = locked[n]
  BY <1>0 DEF CheckOwner, ReadSuccessor, Unlink, ResetRecord, nodeVars
<1>5. \/ /\ step[t] = "start" /\ step'[t] = "succ" /\ owner[0] = NodeOf[t] /\ next' = next
      \/ step[t] \in {"succ", "spin", "unlink"} /\ step'[t] \in {"unlink", "spin"} /\ next' = next
      \/ step[t] \in {"resetNext", "resetLocked"} /\ step'[t] \in {"resetLocked", "resetWaiting"}
  BY <1>0 DEF CheckOwner, ReadSuccessor, Unlink, ResetRecord, Go, nodeVars
<1>6. step[t] \in {"resetNext", "resetLocked"} => ~Joined(NodeOf[t])
  BY <1>1 DEF Joined, OneCall, Passing
<1>7. ~Prepared(t)'
  BY <1>1, <1>2 DEF Prepared
<1> QED BY <1>1, <1>2, <1>3, <1>4, <1>5, <1>6, <1>7, QuietMove

\* A releaser past the check of the owner is the recorded owner, and the manager waits.
LEMMA ReleaserOwns ==
    ASSUME McsInv, OneCall, NEW t \in Threads, Has(t), pc[t] = "release", step[t] # "start"
    PROVE  /\ owner[0] = IF step[t] = "wake" THEN link[t] ELSE NodeOf[t]
           /\ ~((mpc = "check" /\ mstep # "start") \/ mpc = "grant")
           /\ QueueInv /\ Caller(NodeOf[t]) = t
           /\ \A u \in Threads : Has(u) => u = t
<1>1. owner[0] = IF step[t] = "wake" THEN link[t] ELSE NodeOf[t]
  BY DEF McsInv, OwnerInv
<1>2. owner[0] # NoNode
  BY <1>1, NodeOfType, NodeRange DEF McsInv, ControlInv, CallInv, Passing
<1>3. QueueInv
  BY DEF McsInv, Alive
<1> QED BY <1>1, <1>2, <1>3 DEF McsInv, OwnerInv, OneCall

\* What does not change when a releaser moves on and wakes nobody.
LEMMA OthersStay ==
    ASSUME McsInv, OneCall, NEW t \in Threads, pc[t] = "release",
           UNCHANGED <<pc, held, mutex, next, locked>>,
           \A u \in Threads \ {t} : step'[u] = step[u] /\ link'[u] = link[u],
           step'[t] # "link"
    PROVE  /\ \A u \in Threads \ {t} : /\ Has(u)' <=> Has(u)
                                       /\ Passing(u)' <=> Passing(u)
                                       /\ Prepared(u)' <=> Prepared(u)
           /\ ~Prepared(t)'
           /\ \A n \in Nodes : /\ Waits(n)' <=> Waits(n)
                               /\ Arrived(n)' <=> Arrived(n)
                               /\ n # NodeOf[t] => (Joined(n)' <=> Joined(n))
<1>1. \A n \in Nodes : Caller(n)' = Caller(n) /\ (Caller(n) = t => n = NodeOf[t])
  BY DEF Caller, OneCall
<1>2. Caller(NodeOf[t]) = t /\ step[t] # "link" /\ NodeOf[t] \in Nodes
  BY StepTells DEF OneCall, McsInv
<1>3. \A u \in Threads \ {t} : /\ Has(u)' <=> Has(u)
                               /\ Passing(u)' <=> Passing(u)
                               /\ Prepared(u)' <=> Prepared(u)
  BY DEF Has, Passing, Prepared
<1>4. ~Prepared(t)'
  BY DEF Prepared
<1>5. ASSUME NEW n \in Nodes, n # NodeOf[t]
      PROVE  (Waits(n)' <=> Waits(n)) /\ (Arrived(n)' <=> Arrived(n)) /\ (Joined(n)' <=> Joined(n))
  BY <1>1, <1>5 DEF Waits, Arrived, Joined, Passing
<1>6. LET n == NodeOf[t] IN (Waits(n)' <=> Waits(n)) /\ (Arrived(n)' <=> Arrived(n))
  BY <1>1, <1>2 DEF Waits, Arrived
<1> QED BY <1>3, <1>4, <1>5, <1>6

\* The holder reads its successor, or finds none and empties the queue, or passes on
\* the head and the ownership.
LEMMA RestHolder ==
    ASSUME McsInv, OneCall, NEW t \in Threads,
           \/ ReadSuccessor(t) /\ next[NodeOf[t]] # NoNode
           \/ Unlink(t) /\ tail[arg[t]] = NodeOf[t]
           \/ ClearEntry(t)
           \/ PassOn(t) /\ step[t] # "wake"
    PROVE  Rest'
<1>0. NodeOf[t] \in Nodes /\ step \in [Threads -> Steps] /\ link \in [Threads -> SomeNode]
      /\ arg[t] = 0 /\ 0 \in Locks /\ owner \in [Locks -> SomeNode]
      /\ tail \in [Locks -> SomeNode] /\ head \in [Locks -> SomeNode]
  BY NodeOfType, ZeroIsLock DEF McsInv, TypeOK, OneCall
<1>1. /\ step[t] \in {"succ", "spin", "unlink", "clearHead", "clearOwner", "passHead", "passOwner"}
      /\ pc[t] = "release"
  BY StepTells DEF McsInv, ReadSuccessor, Unlink, ClearEntry, PassOn
<1>2. Has(t)
  BY <1>1 DEF Has, Passing
<1>3. /\ owner[0] = NodeOf[t] /\ QueueInv /\ Caller(NodeOf[t]) = t
      /\ ~((mpc = "check" /\ mstep # "start") \/ mpc = "grant")
      /\ \A u \in Threads : Has(u) => u = t
  BY <1>1, <1>2, ReleaserOwns
<1>4. UNCHANGED <<pc, held, mutex, next, locked, ahead, mpc, mstep, mhead, grantee>>
  BY <1>1 DEF ReadSuccessor, Unlink, ClearEntry, PassOn, Go, clientVars, managerVars, checkVars,
     nodeVars
<1>5. \A u \in Threads \ {t} : step'[u] = step[u] /\ link'[u] = link[u]
  BY <1>0 DEF ReadSuccessor, Unlink, ClearEntry, PassOn, Go
<1>6. \/ /\ step[t] \in {"succ", "spin"} /\ step'[t] = "passHead" /\ link'[t] = next[NodeOf[t]]
         /\ owner' = owner /\ tail' = tail
      \/ /\ step[t] = "unlink" /\ step'[t] = "clearHead" /\ tail[0] = NodeOf[t]
         /\ tail'[0] = NoNode /\ owner' = owner
      \/ step[t] = "clearHead" /\ step'[t] = "clearOwner" /\ head'[0] = NoNode
         /\ owner' = owner /\ tail' = tail
      \/ step[t] = "clearOwner" /\ step'[t] = "resetNext" /\ owner'[0] = NoNode
         /\ head' = head /\ tail' = tail
      \/ step[t] = "passHead" /\ step'[t] = "passOwner" /\ link' = link
         /\ owner' = owner /\ tail' = tail
      \/ step[t] = "passOwner" /\ step'[t] = "wake" /\ link' = link
         /\ owner'[0] = link[t] /\ tail' = tail
  <2>1. CASE ReadSuccessor(t) /\ next[NodeOf[t]] # NoNode
    BY <1>0, <2>1 DEF ReadSuccessor, Go, entryVars
  <2>2. CASE Unlink(t) /\ tail[arg[t]] = NodeOf[t]
    BY <1>0, <2>2 DEF Unlink, Go
  <2>3. CASE ClearEntry(t)
    BY <1>0, <2>3 DEF ClearEntry, Go
  <2>4. CASE PassOn(t) /\ step[t] # "wake"
    BY <1>0, <2>4 DEF PassOn, Go
  <2> QED BY <2>1, <2>2, <2>3, <2>4
<1>7. /\ \A u \in Threads \ {t} : /\ Has(u)' <=> Has(u)
                                  /\ Passing(u)' <=> Passing(u)
                                  /\ Prepared(u)' <=> Prepared(u)
      /\ ~Prepared(t)'
      /\ \A n \in Nodes : /\ Waits(n)' <=> Waits(n)
                          /\ Arrived(n)' <=> Arrived(n)
                          /\ n # NodeOf[t] => (Joined(n)' <=> Joined(n))
  BY <1>1, <1>4, <1>5, <1>6, OthersStay
<1>8. \A u \in Threads : Has(u)' => u = t
  BY <1>3, <1>7
<1>9. Has(t)' => step'[t] # "resetNext"
  BY <1>1, <1>3, <1>4 DEF Has, Passing, OneCall
<1>10. OwnerInv'
  BY <1>0, <1>3, <1>4, <1>6, <1>8, <1>9 DEF OwnerInv
<1>11. \A u \in Threads : KeepsThread(u)
  <2>1. KeepsThread(t)
    BY <1>1, <1>2, <1>4, <1>6, <1>7 DEF KeepsThread, Passing
  <2>2. \A u \in Threads \ {t} : KeepsThread(u)
    BY <1>3, <1>4, <1>5, <1>7 DEF KeepsThread, QueueInv, PreparedInv
  <2> QED BY <2>1, <2>2
<1>12. \A n \in Nodes : KeepsNode(n)
  <2> TAKE n \in Nodes
  <2>1. CASE n # NodeOf[t]
    BY <1>4, <1>7, <2>1 DEF KeepsNode
  <2>2. CASE n = NodeOf[t] /\ step[t] = "unlink"
    <3>1. tail'[0] # n /\ ~Joined(n)'
      BY <1>0, <1>1, <1>3, <1>4, <1>6, <2>2, NodeRange DEF Joined, Caller, Passing, OneCall
    <3>2. \A u \in Threads : step[u] = "link" => link[u] # n
      BY <1>0, <1>3, <1>6, <2>2, NodeRange DEF QueueInv, TailInv
    <3> QED BY <1>4, <1>7, <2>2, <3>1, <3>2 DEF KeepsNode
  <2>3. CASE n = NodeOf[t] /\ step[t] # "unlink"
    <3>1. Joined(n)' <=> Joined(n)
      BY <1>1, <1>3, <1>4, <1>6, <2>3 DEF Joined, Caller, Passing
    <3> QED BY <1>4, <1>7, <3>1 DEF KeepsNode
  <2> QED BY <2>1, <2>2, <2>3
<1>13. tail' = tail \/ (tail'[0] = NoNode /\ Queued(0) = {})
  <2>1. CASE step[t] = "unlink"
    <3>1. ~Arrived(NodeOf[t])
      BY <1>1, <1>3, <2>1 DEF Arrived
    <3>2. Queued(0) = ahead[0][NodeOf[t]] /\ ahead[0][NodeOf[t]] = {}
      BY <1>0, <1>3, <1>6, <2>1, <3>1, NodeRange DEF QueueInv, TailInv, AheadInv
    <3> QED BY <1>6, <2>1, <3>2
  <2> QED BY <1>1, <1>6, <2>1
<1>14. \/ \E u \in Threads : Has(u)' /\ step'[u] # "clearOwner"
       \/ head'[0] = NoNode
       \/ /\ \A u \in Threads : Has(u) => step[u] = "clearOwner"
          /\ head' = head
  <2>1. step'[t] # "resetNext" => Has(t)'
    BY <1>1, <1>4, <1>6 DEF Has, Passing
  <2> QED BY <1>1, <1>3, <1>6, <2>1
<1>15. QueueInv'
  BY <1>3, <1>4, <1>11, <1>12, <1>13, <1>14, QueueUndisturbed DEF McsInv
<1> QED BY <1>10, <1>15 DEF Rest

\* The wake-up moves the lock from the releaser to the first waiter.
LEMMA RestWake ==
    ASSUME McsInv, OneCall, NEW t \in Threads, PassOn(t), step[t] = "wake"
    PROVE  Rest'
<1> DEFINE n == NodeOf[t]
<1>0. /\ \A u \in Threads : NodeOf[u] \in Nodes /\ link[u] \in SomeNode
      /\ \A k \in Nodes : next[k] \in SomeNode
      /\ step \in [Threads -> Steps] /\ locked \in [Nodes -> 0 .. 2] /\ tail[0] \in SomeNode
  BY NodeOfType, ZeroIsLock DEF McsInv, TypeOK
<1>1. PICK m \in Nodes : /\ pc[t] = "release" /\ Has(t) /\ Joined(n) /\ QueueInv
                         /\ m = link[t] /\ next[n] = m /\ Waits(m) /\ m # n
  BY PassesToWaiter DEF Passing
<1>2. /\ owner[0] = m /\ Caller(n) = t
      /\ ~((mpc = "check" /\ mstep # "start") \/ mpc = "grant")
      /\ \A u \in Threads : Has(u) => u = t
  BY <1>1, ReleaserOwns
<1>3. /\ UNCHANGED <<pc, held, mutex, owner, tail, head, next, link, ahead, mpc, mstep, mhead, grantee>>
      /\ locked' = [locked EXCEPT ![m] = 0] /\ step' = [step EXCEPT ![t] = "resetNext"]
  BY <1>1 DEF PassOn, Go, clientVars, managerVars, checkVars
<1>4. PICK w \in Threads :
        /\ pc[w] = "poll" /\ NodeOf[w] = m /\ w # t /\ step[w] \in {"start", "waiting"}
        /\ \A u \in Threads \ {w} : pc[u] = "poll" => NodeOf[u] # m
  BY <1>1 DEF Waits, OneCall, McsInv, ControlInv, CallInv
<1>5. /\ step'[t] = "resetNext" /\ \A u \in Threads \ {t} : step'[u] = step[u]
      /\ locked'[m] = 0 /\ \A k \in Nodes \ {m} : locked'[k] = locked[k]
  BY <1>0, <1>1, <1>3
<1>6. /\ \A u \in Threads : Has(u)' <=> (u = w)
      /\ \A u \in Threads : ~Passing(u)'
  <2>1. ~Has(t)' /\ ~Passing(t)'
    BY <1>1, <1>3, <1>5 DEF Has, Passing, OneCall
  <2>2. Has(w)'
    BY <1>3, <1>4, <1>5 DEF Has
  <2>3. \A u \in Threads \ {t, w} : (Has(u)' <=> Has(u)) /\ (Passing(u)' => Has(u))
    BY <1>0, <1>3, <1>4, <1>5, StepTells DEF Has, Passing, McsInv
  <2>4. ~Passing(w)'
    BY <1>4, <1>5 DEF Passing
  <2> QED BY <1>2, <2>1, <2>2, <2>3, <2>4
<1>7. \A k \in Nodes : /\ Joined(k)' <=> (Joined(k) /\ k # n)
                       /\ Waits(k)' <=> (Waits(k) /\ k # m)
                       /\ Arrived(k)' <=> Arrived(k)
  <2> TAKE k \in Nodes
  <2>1. Caller(k)' = Caller(k) /\ (Caller(k) = t => k = n)
    BY <1>3 DEF Caller, OneCall
  <2>2. CASE k = n
    BY <1>1, <1>2, <1>3, <1>5, <2>1, <2>2 DEF Joined, Waits, Arrived, Passing, OneCall
  <2>3. CASE k # n
    BY <1>3, <1>5, <2>1, <2>3 DEF Joined, Waits, Arrived, Passing
  <2> QED BY <2>2, <2>3
<1>8. OwnerInv'
  BY <1>2, <1>3, <1>4, <1>5, <1>6 DEF OwnerInv
<1>9. \A u \in Threads : step'[u] = "link" <=> step[u] = "link"
  BY <1>5
<1>10. LinkInv'
  BY <1>0, <1>1, <1>3, <1>7 DEF QueueInv, LinkInv, SomeNode
<1>11. LinkingInv'
  <2>1. \A u \in Threads : step[u] = "link" /\ link[u] # NoNode => link[u] \in Nodes /\ link[u] # n
    BY <1>0, <1>1, NodeRange DEF QueueInv, LinkingInv, SomeNode
  <2> QED BY <1>0, <1>1, <1>3, <1>7, <1>9, <2>1 DEF QueueInv, LinkingInv
<1>12. PreparedInv'
  <2>1. \A u \in Threads : Prepared(u)' => Prepared(u)
    BY <1>3, <1>5 DEF Prepared
  <2> QED BY <1>1, <1>3, <2>1 DEF QueueInv, PreparedInv
<1>13. TailInv'
  BY <1>0, <1>1, <1>3, <1>7, <1>9, NodeRange DEF QueueInv, TailInv, SomeNode, Queued
<1>14. AheadInv'
  BY <1>1, <1>3, <1>7 DEF QueueInv, AheadInv
<1>15. HeadInv'
  BY <1>2, <1>3, <1>4, <1>5, <1>6 DEF HeadInv
<1>16. TurnInv'
  <2>1. ~Arrived(n) /\ n \in Nodes
    BY <1>0, <1>1, <1>2 DEF Arrived
  <2>2. ahead[0][m] = {m}
    BY <1>1, <2>1, NodeRange DEF QueueInv, LinkInv, AheadInv
  <2> QED BY <1>3, <1>4, <1>6, <2>2 DEF TurnInv
<1> QED BY <1>8, <1>10, <1>11, <1>12, <1>13, <1>14, <1>15, <1>16 DEF Rest, QueueInv

\* The release of a thread that was woken before it was recorded as owner is refused,
\* and the record then made is of an owner that has gone.
LEMMA RestRefused ==
    ASSUME McsInv, OneCall, NEW t \in Threads, CheckOwner(t), owner[arg[t]] # NodeOf[t]
    PROVE  Rest'
<1>0. pc \in [Threads -> PCs] /\ step \in [Threads -> Steps] /\ arg[t] = 0
  BY DEF McsInv, TypeOK, ClientTypeOK, OneCall
<1>1. pc[t] = "release" /\ step[t] = "start"
  BY StepTells DEF CheckOwner, Releasing, McsInv
<1>2. Has(t)
  BY <1>1 DEF Has
<1>3. Granting /\ \A u \in Threads : Has(u) => u = t
  BY <1>0, <1>1, <1>2 DEF McsInv, OwnerInv
<1>4. /\ UNCHANGED <<held, owner, locked, mpc, mstep, grantee>>
      /\ pc' = [pc EXCEPT ![t] = "releaseLocal"] /\ step' = [step EXCEPT ![t] = "start"]
  BY <1>1 DEF CheckOwner, Finish, Goto, AfterRelease, Go, entryVars, nodeVars, managerVars, checkVars
<1>5. \A u \in Threads : ~Has(u)'
  <2>1. ~Has(t)'
    BY <1>0, <1>1, <1>4 DEF Has, OneCall
  <2>2. \A u \in Threads \ {t} : Has(u)' => Has(u)
    BY <1>0, <1>4 DEF Has, Passing
  <2> QED BY <1>3, <2>1, <2>2
<1>6. ~Alive'
  BY <1>3, <1>4, <1>5 DEF Alive, Granting
<1>7. OwnerInv'
  BY <1>4, <1>5 DEF McsInv, OwnerInv
<1> QED BY <1>6, <1>7 DEF Rest

\* A node that nobody has to wait for leaves the order of arrival: its call is granted,
\* or its release ends.
LEMMA LeaveQueue ==
    ASSUME TypeOK, OneCall, ControlInv, QueueInv, NEW n \in Nodes, Leaves(n, 0),
           ahead[0][n] \subseteq {n}, ~Waits(n),
           UNCHANGED <<tail, head, next, mpc, mstep, mhead, grantee>>,
           \A u \in Threads :
               /\ (step'[u] = "link") <=> (step[u] = "link")
               /\ step[u] = "link" => NodeOf[u] # n
               /\ step[u] = "link" \/ Passing(u) => link'[u] = link[u]
               /\ Has(u)' <=> Has(u)
               /\ (step'[u] = "clearOwner") <=> (step[u] = "clearOwner")
               /\ Has(u) /\ pc'[u] = "poll" => pc[u] = "poll" /\ NodeOf[u] # n
               /\ Passing(u)' => Passing(u)
               /\ Prepared(u)' => Prepared(u),
           \A k \in Nodes : /\ Joined(k)' <=> Joined(k)
                            /\ Waits(k)' <=> Waits(k)
                            /\ Arrived(k)' <=> (Arrived(k) /\ k # n)
    PROVE  QueueInv'
<1>0. /\ tail[0] \in SomeNode /\ head[0] \in SomeNode
      /\ \A k \in Nodes : next[k] \in SomeNode
      /\ \A u \in Threads : link[u] \in SomeNode /\ NodeOf[u] \in Nodes
      /\ 0 \in Locks /\ ahead \in [Locks -> [Nodes -> SUBSET Nodes]]
  BY ZeroIsLock, NodeOfType DEF TypeOK
<1>1. ahead'[0][n] = {} /\ \A k \in Nodes \ {n} : ahead'[0][k] = ahead[0][k] \ {n}
  <2>1. ahead'[0] = [k \in Nodes |-> IF k = n THEN {} ELSE ahead[0][k] \ {n}]
    BY <1>0 DEF Leaves
  <2> QED BY <2>1
<1>2. AheadInv'
  BY <1>1 DEF QueueInv, AheadInv
<1>3. Queued(0)' = Queued(0) \ {n}
  <2>1. \A k \in Nodes : ahead[0][k] # {} => k \in ahead[0][k]
    BY DEF QueueInv, AheadInv
  <2> QED BY <1>1, <2>1 DEF Queued
<1>4. LinkInv'
  <2> SUFFICES ASSUME NEW j \in Nodes, Joined(j), next[j] # NoNode
               PROVE  /\ Waits(next[j])'
                      /\ ahead'[0][next[j]] = ahead'[0][j] \cup {next[j]}
                      /\ \A m \in Nodes : Joined(m) /\ next[m] = next[j] => m = j
    BY DEF LinkInv
  <2>1. PICK k \in Nodes : k = next[j]
    BY <1>0 DEF SomeNode
  <2>2. /\ Waits(k) /\ ahead[0][k] = ahead[0][j] \cup {k}
        /\ \A m \in Nodes : Joined(m) /\ next[m] = k => m = j
    BY <2>1, NodeRange DEF QueueInv, LinkInv
  <2>3. k # n
    BY <2>2
  <2>4. ahead'[0][k] = ahead'[0][j] \cup {k}
    BY <1>1, <2>2, <2>3
  <2> QED BY <2>1, <2>2, <2>4
<1>5. LinkingInv'
  <2> SUFFICES ASSUME NEW u \in Threads, step[u] = "link"
               PROVE  IF link[u] = NoNode
                      THEN ahead'[0][NodeOf[u]] = {NodeOf[u]}
                      ELSE /\ link[u] # NodeOf[u] /\ Joined(link[u])' /\ next[link[u]] = NoNode
                           /\ ahead'[0][NodeOf[u]] = ahead'[0][link[u]] \cup {NodeOf[u]}
                           /\ \A v \in Threads : step[v] = "link" /\ link[v] = link[u] => v = u
    BY DEF LinkingInv
  <2>1. NodeOf[u] \in Nodes /\ NodeOf[u] # n
    BY <1>0
  <2>2. CASE link[u] = NoNode
    BY <1>1, <2>1, <2>2 DEF QueueInv, LinkingInv
  <2>3. CASE link[u] # NoNode
    <3>1. link[u] \in Nodes
      BY <1>0, <2>3 DEF SomeNode
    <3>2. /\ link[u] # NodeOf[u] /\ Joined(link[u]) /\ next[link[u]] = NoNode
          /\ ahead[0][NodeOf[u]] = ahead[0][link[u]] \cup {NodeOf[u]}
          /\ \A v \in Threads : step[v] = "link" /\ link[v] = link[u] => v = u
      BY <2>3 DEF QueueInv, LinkingInv
    <3>3. ahead'[0][NodeOf[u]] = ahead'[0][link[u]] \cup {NodeOf[u]}
      BY <1>1, <2>1, <3>1, <3>2
    <3>4. Joined(link[u])' <=> Joined(link[u])
      BY <3>1
    <3> QED BY <2>3, <3>2, <3>3, <3>4
  <2> QED BY <2>2, <2>3
<1>6. PreparedInv'
  BY DEF QueueInv, PreparedInv
<1>7. TailInv'
  <2>1. CASE tail[0] = NoNode
    BY <1>3, <2>1 DEF QueueInv, TailInv
  <2>2. CASE tail[0] # NoNode
    <3>1. tail[0] \in Nodes
      BY <1>0, <2>2 DEF SomeNode
    <3>2. Queued(0) = ahead[0][tail[0]]
      BY <2>2 DEF QueueInv, TailInv
    <3>3. Queued(0)' = ahead'[0][tail[0]]
      <4>1. CASE tail[0] = n
        <5>1. \A k : k \in Queued(0) => k = n
          BY <3>2, <4>1
        <5>2. Queued(0)' = {}
          BY <1>3, <5>1
        <5> QED BY <1>1, <4>1, <5>2
      <4>2. CASE tail[0] # n
        BY <1>1, <1>3, <3>1, <3>2, <4>2
      <4> QED BY <4>1, <4>2
    <3> QED BY <2>2, <3>1, <3>3 DEF QueueInv, TailInv
  <2> QED BY <2>1, <2>2
<1>8. \A k \in Nodes : First(k) => First(k)'
  BY <1>1 DEF First
<1>9. HeadInv'
  <2>1. mpc' = "check" /\ mstep' \in {"locked", "waiting"} => First(mhead)'
    BY <1>8 DEF QueueInv, HeadInv, ControlInv
  <2>2. mpc' = "grant" /\ mstep' = "start" => First(grantee)'
    BY <1>8 DEF QueueInv, HeadInv, ControlInv
  <2>3. \/ \E u \in Threads : Has(u)' /\ step'[u] # "clearOwner"
        \/ head'[0] # NoNode => First(head[0])' /\ head'[0] = head[0]
    BY <1>0, <1>8 DEF QueueInv, HeadInv, SomeNode
  <2> QED BY <2>1, <2>2, <2>3 DEF HeadInv
<1>10. TurnInv'
  <2>1. \A u \in Threads : Has(u)' /\ pc'[u] = "poll" => ahead'[0][NodeOf[u]] = {NodeOf[u]}
    BY <1>0, <1>1 DEF QueueInv, TurnInv
  <2> QED BY <2>1 DEF QueueInv, TurnInv
<1> QED BY <1>2, <1>4, <1>5, <1>6, <1>7, <1>9, <1>10 DEF QueueInv

\* poll_for_grant sees the grant and the call returns with the lock.
LEMMA RestGranted ==
    ASSUME McsInv, OneCall, NEW t \in Threads, Poll(t), PollGranted(t)
    PROVE  Rest' /\ Has(t) /\ Leaves(NodeOf[t], 0)
<1>0. /\ pc \in [Threads -> PCs] /\ step \in [Threads -> Steps] /\ arg[t] = 0
      /\ held \in [Threads -> SUBSET Locks] /\ NodeOf[t] \in Nodes
  BY NodeOfType DEF McsInv, TypeOK, ClientTypeOK, OneCall
<1>1. pc[t] = "poll" /\ Caller(NodeOf[t]) = t /\ held[t] = {} /\ step[t] \in {"start", "waiting"}
  BY DEF Poll, OneCall, McsInv, ControlInv, CallInv
<1>2. pc' = [pc EXCEPT ![t] = "idle"] /\ held'[t] = {0} /\ UNCHANGED mutex
      /\ \A u \in Threads \ {t} : held'[u] = held[u]
  BY <1>0, <1>1 DEF PollGranted, Return
<1>3. /\ step[t] = "waiting" /\ step' = [step EXCEPT ![t] = "start"] /\ Leaves(NodeOf[t], 0)
      /\ UNCHANGED <<owner, tail, head, next, locked, link, mpc, mstep, mhead, grantee>>
  <2>1. pc'[t] # pc[t] /\ held'[t] # held[t]
    BY <1>0, <1>1, <1>2
  <2> QED BY <1>0, <2>1 DEF Poll, Go, PollAgain, PollGivesUp, clientVars, entryVars, nodeVars,
        managerVars, checkVars
<1>4. locked[NodeOf[t]] # 1 /\ Has(t)
  BY <1>1, <1>3 DEF McsInv, ControlInv, CallInv, Has
<1>5. /\ Has(t)' /\ ~Passing(t)' /\ ~Prepared(t)'
      /\ \A u \in Threads \ {t} : pc'[u] = pc[u] /\ step'[u] = step[u]
      /\ pc'[t] = "idle" /\ step'[t] = "start"
  BY <1>0, <1>1, <1>2, <1>3 DEF Has, Passing, Prepared
<1>6. \A u \in Threads : Has(u)' <=> Has(u)
  BY <1>2, <1>3, <1>4, <1>5 DEF Has, Passing
<1>7. /\ \A u \in Threads \ {t} : (Passing(u)' <=> Passing(u)) /\ (Prepared(u)' <=> Prepared(u))
      /\ ~Passing(t)
  BY <1>1, <1>5 DEF Passing, Prepared
<1>8. OwnerInv'
  BY <1>1, <1>2, <1>3, <1>5, <1>6 DEF McsInv, OwnerInv, Granting
<1>9. QueueInv
  BY <1>4 DEF McsInv, Alive
<1>10. ahead[0][NodeOf[t]] \subseteq {NodeOf[t]}
  BY <1>1, <1>4, <1>9 DEF QueueInv, TurnInv
<1>11. ASSUME NEW k \in Nodes
       PROVE  /\ Joined(k)' <=> Joined(k)
              /\ Waits(k)' <=> Waits(k)
              /\ Arrived(k)' <=> (Arrived(k) /\ k # NodeOf[t])
  <2>1. Caller(k)' = Caller(k) /\ (Caller(k) = t => k = NodeOf[t])
    BY <1>2 DEF Caller, OneCall
  <2>2. CASE k = NodeOf[t]
    BY <1>1, <1>2, <1>3, <1>4, <1>5, <2>1, <2>2 DEF Joined, Waits, Arrived
  <2>3. CASE k # NodeOf[t]
    BY <1>2, <1>3, <1>5, <2>1, <2>3 DEF Joined, Waits, Arrived, Passing
  <2> QED BY <2>2, <2>3
<1>12. ~Waits(NodeOf[t])
  BY <1>4 DEF Waits
<1>13. \A u \in Threads :
         /\ (step'[u] = "link") <=> (step[u] = "link")
         /\ step[u] = "link" => NodeOf[u] # NodeOf[t]
         /\ step[u] = "link" \/ Passing(u) => link'[u] = link[u]
         /\ Has(u)' <=> Has(u)
         /\ (step'[u] = "clearOwner") <=> (step[u] = "clearOwner")
         /\ Has(u) /\ pc'[u] = "poll" => pc[u] = "poll" /\ NodeOf[u] # NodeOf[t]
         /\ Passing(u)' => Passing(u)
         /\ Prepared(u)' => Prepared(u)
  <2> TAKE u \in Threads
  <2>1. CASE u = t
    BY <1>1, <1>3, <1>5, <1>6, <2>1
  <2>2. CASE u # t
    <3>1. step[u] = "link" \/ pc[u] = "poll" => NodeOf[u] # NodeOf[t]
      BY <1>1, <2>2, StepTells, OneCaller DEF McsInv
    <3> QED BY <1>3, <1>5, <1>6, <1>7, <2>2, <3>1
  <2> QED BY <2>1, <2>2
<1>14. QueueInv'
  BY <1>0, <1>3, <1>9, <1>10, <1>11, <1>12, <1>13, LeaveQueue DEF McsInv
<1> QED BY <1>3, <1>4, <1>8, <1>14 DEF Rest

\* release_lock returns.
LEMMA RestReset ==
    ASSUME McsInv, OneCall, NEW t \in Threads, ResetRecord(t), step[t] = "resetWaiting"
    PROVE  Rest'
<1>0. pc \in [Threads -> PCs] /\ step \in [Threads -> Steps] /\ link \in [Threads -> SomeNode]
      /\ arg[t] = 0 /\ NodeOf[t] \in Nodes
  BY NodeOfType DEF McsInv, TypeOK, ClientTypeOK, OneCall
<1>1. pc[t] = "release" /\ Caller(NodeOf[t]) = t /\ held[t] = {}
  BY StepTells DEF McsInv, OneCall
<1>2. /\ pc' = [pc EXCEPT ![t] = "releaseLocal"] /\ step' = [step EXCEPT ![t] = "start"]
      /\ link' = [link EXCEPT ![t] = NoNode] /\ Leaves(NodeOf[t], 0)
      /\ UNCHANGED <<held, mutex, owner, tail, head, next, locked, mpc, mstep, mhead, grantee>>
  BY <1>0, <1>1 DEF ResetRecord, Finish, Goto, AfterRelease, entryVars, managerVars, checkVars
<1>3. /\ pc'[t] = "releaseLocal" /\ step'[t] = "start"
      /\ \A u \in Threads \ {t} : pc'[u] = pc[u] /\ step'[u] = step[u] /\ link'[u] = link[u]
  BY <1>0, <1>2
<1>4. /\ ~Has(t) /\ ~Has(t)' /\ ~Passing(t) /\ ~Passing(t)' /\ ~Prepared(t)'
  BY <1>1, <1>2, <1>3 DEF Has, Passing, Prepared
<1>5. \A u \in Threads \ {t} : /\ Has(u)' <=> Has(u)
                               /\ Passing(u)' <=> Passing(u)
                               /\ Prepared(u)' <=> Prepared(u)
  BY <1>2, <1>3 DEF Has, Passing, Prepared
<1>6. OwnerInv'
  BY <1>2, <1>3, <1>4, <1>5 DEF McsInv, OwnerInv, Granting
<1>7. ASSUME NEW k \in Nodes
      PROVE  /\ Joined(k)' <=> Joined(k)
             /\ Waits(k)' <=> Waits(k)
             /\ Arrived(k)' <=> (Arrived(k) /\ k # NodeOf[t])
  <2>1. Caller(k)' = Caller(k) /\ (Caller(k) = t => k = NodeOf[t])
    BY <1>2 DEF Caller, OneCall
  <2>2. CASE k = NodeOf[t]
    BY <1>1, <1>2, <1>3, <2>1, <2>2 DEF Joined, Waits, Arrived, Passing
  <2>3. CASE k # NodeOf[t]
    BY <1>2, <1>3, <2>1, <2>3 DEF Joined, Waits, Arrived, Passing
  <2> QED BY <2>2, <2>3
<1>8. \A u \in Threads :
        /\ (step'[u] = "link") <=> (step[u] = "link")
        /\ step[u] = "link" => NodeOf[u] # NodeOf[t]
        /\ step[u] = "link" \/ Passing(u) => link'[u] = link[u]
        /\ Has(u)' <=> Has(u)
        /\ (step'[u] = "clearOwner") <=> (step[u] = "clearOwner")
        /\ Has(u) /\ pc'[u] = "poll" => pc[u] = "poll" /\ NodeOf[u] # NodeOf[t]
        /\ Passing(u)' => Passing(u)
        /\ Prepared(u)' => Prepared(u)
  <2> TAKE u \in Threads
  <2>1. CASE u = t
    BY <1>3, <1>4, <2>1
  <2>2. CASE u # t
    <3>1. step[u] = "link" \/ pc[u] = "poll" => NodeOf[u] # NodeOf[t]
      BY <1>1, <2>2, StepTells, OneCaller DEF McsInv
    <3> QED BY <1>3, <1>5, <2>2, <3>1
  <2> QED BY <2>1, <2>2
<1>9. ASSUME Alive' PROVE QueueInv'
  <2>1. QueueInv
    BY <1>2, <1>8, <1>9 DEF McsInv, Alive, Granting
  <2>2. ~Waits(NodeOf[t]) /\ ~Arrived(NodeOf[t])
    BY <1>1 DEF Waits, Arrived
  <2>3. ahead[0][NodeOf[t]] \subseteq {NodeOf[t]}
    BY <1>0, <2>1, <2>2 DEF QueueInv, AheadInv
  <2> QED BY <1>0, <1>2, <1>7, <1>8, <2>1, <2>2, <2>3, LeaveQueue DEF McsInv
<1> QED BY <1>6, <1>9 DEF Rest

\* The swap of the tail: the node is the last of the queue, behind the old tail.
LEMMA RestSwap ==
    ASSUME McsInv, OneCall, NEW t \in Threads, SwapTail(t), tail[arg[t]] = link[t]
    PROVE  Rest'
<1> DEFINE n == NodeOf[t]
<1>0. /\ tail \in [Locks -> SomeNode] /\ head[0] \in SomeNode
      /\ \A k \in Nodes : next[k] \in SomeNode
      /\ \A u \in Threads : link[u] \in SomeNode /\ NodeOf[u] \in Nodes
      /\ 0 \in Locks /\ ahead \in [Locks -> [Nodes -> SUBSET Nodes]]
      /\ step \in [Threads -> Steps] /\ arg[t] = 0 /\ ControlInv
  BY ZeroIsLock, NodeOfType DEF McsInv, TypeOK, OneCall
<1>1. pc[t] = "request" /\ step[t] = "swap" /\ Caller(n) = t /\ held[t] = {}
  BY <1>0, StepTells DEF SwapTail, OneCall
<1>2. /\ UNCHANGED <<pc, held, mutex, owner, head, next, locked, link, mpc, mstep, mhead, grantee>>
      /\ tail[0] = link[t] /\ tail' = [tail EXCEPT ![0] = n]
      /\ step' = [step EXCEPT ![t] = "link"] /\ Arrives(n, 0)
  BY <1>0 DEF SwapTail, Go, clientVars, managerVars, checkVars, nodeVars
<1>3. /\ step'[t] = "link" /\ tail'[0] = n
      /\ \A u \in Threads \ {t} : step'[u] = step[u]
      /\ ahead'[0][n] = Queued(0) \cup {n} /\ \A k \in Nodes \ {n} : ahead'[0][k] = ahead[0][k]
  BY <1>0, <1>2 DEF Arrives
<1>4. \A u \in Threads : /\ Has(u)' <=> Has(u)
                         /\ Passing(u)' <=> Passing(u)
                         /\ Prepared(u)' => Prepared(u)
  BY <1>1, <1>2, <1>3 DEF Has, Passing, Prepared
<1>5. OwnerInv'
  BY <1>1, <1>2, <1>3, <1>4 DEF McsInv, OwnerInv, Granting
<1>6. ~Joined(n) /\ ~Arrived(n) /\ ~Waits(n) /\ Prepared(t)
  BY <1>1 DEF Joined, Arrived, Waits, Prepared, Passing
<1>7. ASSUME NEW k \in Nodes
      PROVE  /\ Joined(k)' <=> (Joined(k) \/ k = n)
             /\ Waits(k)' <=> Waits(k)
             /\ Arrived(k)' <=> (Arrived(k) \/ k = n)
  <2>1. Caller(k)' = Caller(k) /\ (Caller(k) = t => k = n)
    BY <1>2 DEF Caller, OneCall
  <2>2. CASE k = n
    BY <1>1, <1>2, <1>3, <2>1, <2>2 DEF Joined, Waits, Arrived
  <2>3. CASE k # n
    BY <1>2, <1>3, <2>1, <2>3 DEF Joined, Waits, Arrived, Passing
  <2> QED BY <2>2, <2>3
<1> SUFFICES ASSUME QueueInv PROVE QueueInv'
  <2>1. Alive' => Alive
    BY <1>2, <1>4 DEF Alive, Granting
  <2> QED BY <1>5, <2>1 DEF McsInv, Rest
<1>9. ahead[0][n] = {} /\ next[n] = NoNode /\ n \in Nodes
  BY <1>0, <1>6 DEF QueueInv, AheadInv, PreparedInv
<1>10. \A u \in Threads \ {t} :
         /\ step[u] = "link" => NodeOf[u] # n /\ link[u] # n
         /\ pc[u] = "poll" => NodeOf[u] # n
  <2> TAKE u \in Threads \ {t}
  <2>1. step[u] = "link" \/ pc[u] = "poll" => NodeOf[u] # n
    BY <1>0, <1>1, StepTells, OneCaller
  <2>2. step[u] = "link" => link[u] # n
    BY <1>6, <1>9, NodeRange DEF QueueInv, LinkingInv
  <2> QED BY <2>1, <2>2
<1>11. tail[0] # NoNode =>
         /\ tail[0] \in Nodes /\ tail[0] # n /\ Joined(tail[0]) /\ next[tail[0]] = NoNode
         /\ Queued(0) = ahead[0][tail[0]]
         /\ \A u \in Threads : step[u] = "link" => link[u] # tail[0]
  BY <1>0, <1>6 DEF QueueInv, TailInv, SomeNode
<1>12. tail[0] = NoNode => Queued(0) = {}
  BY DEF QueueInv, TailInv
<1>13. LinkInv'
  <2> SUFFICES ASSUME NEW j \in Nodes, Joined(j)', next[j] # NoNode
               PROVE  /\ Waits(next[j])'
                      /\ ahead'[0][next[j]] = ahead'[0][j] \cup {next[j]}
                      /\ \A m \in Nodes : Joined(m)' /\ next[m] = next[j] => m = j
    BY <1>2 DEF LinkInv
  <2>1. PICK k \in Nodes : k = next[j]
    BY <1>0 DEF SomeNode
  <2>2. j # n /\ Joined(j)
    BY <1>7, <1>9
  <2>3. /\ Waits(k) /\ ahead[0][k] = ahead[0][j] \cup {k}
        /\ \A m \in Nodes : Joined(m) /\ next[m] = k => m = j
    BY <2>1, <2>2, NodeRange DEF QueueInv, LinkInv
  <2>4. k # n
    BY <1>6, <2>3
  <2>5. Waits(k)'
    BY <1>7, <2>3
  <2>6. ahead'[0][k] = ahead'[0][j] \cup {k}
    BY <1>3, <2>2, <2>3, <2>4
  <2>7. \A m \in Nodes : Joined(m)' /\ next[m] = k => m = j
    BY <1>7, <1>9, <2>3, NodeRange
  <2> QED BY <1>2, <2>1, <2>5, <2>6, <2>7
<1>14. LinkingInv'
  <2> SUFFICES ASSUME NEW u \in Threads, step'[u] = "link"
               PROVE  IF link[u] = NoNode
                      THEN ahead'[0][NodeOf[u]] = {NodeOf[u]}
                      ELSE /\ link[u] # NodeOf[u] /\ Joined(link[u])' /\ next[link[u]] = NoNode
                           /\ ahead'[0][NodeOf[u]] = ahead'[0][link[u]] \cup {NodeOf[u]}
                           /\ \A v \in Threads : step'[v] = "link" /\ link[v] = link[u] => v = u
    BY <1>2 DEF LinkingInv
  <2>1. CASE u = t /\ link[u] = NoNode
    BY <1>2, <1>3, <1>12, <2>1
  <2>2. CASE u = t /\ link[u] # NoNode
    <3>1. Joined(link[u])'
      BY <1>2, <1>7, <1>11, <2>2
    <3> QED BY <1>2, <1>3, <1>11, <2>2, <3>1
  <2>3. CASE u # t
    <3>1. step[u] = "link" /\ NodeOf[u] \in Nodes /\ NodeOf[u] # n
      BY <1>0, <1>3, <1>10, <2>3
    <3>2. CASE link[u] = NoNode
      BY <1>3, <3>1, <3>2 DEF QueueInv, LinkingInv
    <3>3. CASE link[u] # NoNode
      <4>1. /\ link[u] # NodeOf[u] /\ Joined(link[u]) /\ next[link[u]] = NoNode
            /\ ahead[0][NodeOf[u]] = ahead[0][link[u]] \cup {NodeOf[u]}
            /\ \A v \in Threads : step[v] = "link" /\ link[v] = link[u] => v = u
        BY <3>1, <3>3 DEF QueueInv, LinkingInv
      <4>2. link[u] \in Nodes /\ link[u] # n /\ link[u] # link[t]
        BY <1>0, <1>2, <1>10, <1>11, <2>3, <3>1, <3>3 DEF SomeNode
      <4>3. Joined(link[u])'
        BY <1>2, <1>7, <4>1, <4>2
      <4> QED BY <1>3, <3>1, <3>3, <4>1, <4>2, <4>3
    <3> QED BY <3>2, <3>3
  <2> QED BY <2>1, <2>2, <2>3
<1>15. PreparedInv'
  BY <1>2, <1>4 DEF QueueInv, PreparedInv
<1>16. TailInv'
  <2>1. Queued(0)' = ahead'[0][n]
    BY <1>3, <1>9 DEF Queued
  <2>2. Joined(n)'
    BY <1>7, <1>9
  <2>3. \A u \in Threads : step'[u] = "link" => link[u] # n
    BY <1>2, <1>3, <1>9, <1>10, <1>11, NodeRange
  <2> QED BY <1>2, <1>3, <1>9, <2>1, <2>2, <2>3, NodeRange DEF TailInv
<1>17. AheadInv'
  BY <1>3, <1>6, <1>7 DEF QueueInv, AheadInv
<1>18. \A k \in Nodes : First(k) => First(k)'
  BY <1>2, <1>3, <1>6, <1>7, <1>9, NodeRange DEF First
<1>19. HeadInv'
  <2>1. mpc' = "check" /\ mstep' \in {"locked", "waiting"} => First(mhead)'
    BY <1>0, <1>2, <1>18 DEF QueueInv, HeadInv, ControlInv
  <2>2. mpc' = "grant" /\ mstep' = "start" => First(grantee)'
    BY <1>0, <1>2, <1>18 DEF QueueInv, HeadInv, ControlInv
  <2>3. \/ \E u \in Threads : Has(u)' /\ step'[u] # "clearOwner"
        \/ head'[0] # NoNode => First(head[0])' /\ head'[0] = head[0]
    BY <1>0, <1>2, <1>3, <1>4, <1>18 DEF QueueInv, HeadInv, SomeNode
  <2> QED BY <2>1, <2>2, <2>3 DEF HeadInv
<1>20. TurnInv'
  BY <1>0, <1>1, <1>2, <1>3, <1>4, <1>10 DEF QueueInv, TurnInv
<1> QED BY <1>13, <1>14, <1>15, <1>16, <1>17, <1>19, <1>20 DEF QueueInv

\* The node links itself in: it becomes the head of an empty queue, or the successor of
\* the old tail, and from now on waits.
LEMMA RestLink ==
    ASSUME McsInv, OneCall, NEW t \in Threads, LinkIn(t)
    PROVE  Rest'
<1> DEFINE n == NodeOf[t]
<1>0. /\ pc \in [Threads -> PCs] /\ head \in [Locks -> SomeNode] /\ next \in [Nodes -> SomeNode]
      /\ link \in [Threads -> SomeNode] /\ \A u \in Threads : NodeOf[u] \in Nodes
      /\ 0 \in Locks /\ step \in [Threads -> Steps] /\ arg[t] = 0 /\ ControlInv
      /\ tail[0] \in SomeNode
  BY ZeroIsLock, NodeOfType DEF McsInv, TypeOK, ClientTypeOK, OneCall
<1>1. pc[t] = "request" /\ step[t] = "link" /\ Caller(n) = t /\ held[t] = {} /\ locked[n] = 1
  BY <1>0, StepTells DEF LinkIn, OneCall, ControlInv, CallInv
<1>2. /\ UNCHANGED <<held, mutex, owner, tail, locked, ahead, mpc, mstep, mhead, grantee>>
      /\ pc' = [pc EXCEPT ![t] = "poll"] /\ step' = [step EXCEPT ![t] = "start"]
      /\ link' = [link EXCEPT ![t] = NoNode]
  BY DEF LinkIn, Finish, Goto, managerVars, checkVars
<1>3. /\ pc'[t] = "poll" /\ step'[t] = "start"
      /\ \A u \in Threads \ {t} : pc'[u] = pc[u] /\ step'[u] = step[u] /\ link'[u] = link[u]
  BY <1>0, <1>2
<1>4. ~Has(t) /\ ~Has(t)' /\ ~Passing(t) /\ ~Passing(t)' /\ ~Prepared(t)'
  BY <1>1, <1>2, <1>3 DEF Has, Passing, Prepared
<1>5. \A u \in Threads \ {t} : /\ Has(u)' <=> Has(u)
                               /\ Passing(u)' <=> Passing(u)
                               /\ Prepared(u)' <=> Prepared(u)
  BY <1>2, <1>3 DEF Has, Passing, Prepared
<1>6. OwnerInv'
  BY <1>2, <1>3, <1>4, <1>5 DEF McsInv, OwnerInv, Granting
<1>7. ~Waits(n) /\ Joined(n)
  BY <1>0, <1>1 DEF Waits, Joined
<1>8. ASSUME NEW k \in Nodes
      PROVE  /\ Joined(k)' <=> Joined(k)
             /\ Waits(k)' <=> (Waits(k) \/ k = n)
             /\ Arrived(k)' <=> Arrived(k)
  <2>1. Caller(k)' = Caller(k) /\ (Caller(k) = t => k = n)
    BY <1>2 DEF Caller, OneCall
  <2>2. CASE k = n
    BY <1>1, <1>2, <1>3, <2>1, <2>2 DEF Joined, Waits, Arrived
  <2>3. CASE k # n
    BY <1>2, <1>3, <2>1, <2>3 DEF Joined, Waits, Arrived, Passing
  <2> QED BY <2>2, <2>3
<1> SUFFICES ASSUME QueueInv PROVE QueueInv'
  <2>1. Alive' => Alive
    BY <1>2, <1>4, <1>5 DEF Alive, Granting
  <2> QED BY <1>6, <2>1 DEF McsInv, Rest
<1>9. n \in Nodes /\ \A j \in Nodes : Joined(j) => next[j] # n
  BY <1>0, <1>7, NodeRange DEF QueueInv, LinkInv
<1>10. /\ Queued(0)' = Queued(0)
       /\ \A u \in Threads : step'[u] = "link" => u # t /\ step[u] = "link" /\ link'[u] = link[u]
  BY <1>2, <1>3 DEF Queued
<1>11. AheadInv'
  BY <1>2, <1>8 DEF QueueInv, AheadInv
<1>12. CASE link[t] = NoNode
  <2>1. head' = [head EXCEPT ![0] = n] /\ next' = next /\ ahead[0][n] = {n}
    BY <1>0, <1>1, <1>12 DEF LinkIn, QueueInv, LinkingInv
  <2>2. LinkInv'
    BY <1>0, <1>2, <1>8, <2>1 DEF QueueInv, LinkInv, SomeNode
  <2>3. LinkingInv'
    <3>1. \A u \in Threads : step[u] = "link" /\ link[u] # NoNode => link[u] \in Nodes
      BY <1>0 DEF SomeNode
    <3> QED BY <1>2, <1>8, <1>10, <2>1, <3>1 DEF QueueInv, LinkingInv
  <2>4. PreparedInv'
    BY <1>4, <1>5, <2>1 DEF QueueInv, PreparedInv
  <2>5. TailInv'
    BY <1>0, <1>2, <1>8, <1>10, <2>1 DEF QueueInv, TailInv, SomeNode
  <2>6. \A k \in Nodes : First(k) => First(k)'
    BY <1>2, <1>8, <2>1 DEF First
  <2>7. First(n)'
    BY <1>2, <1>8, <1>9, <2>1 DEF First
  <2>8. HeadInv'
    <3>1. mpc' = "check" /\ mstep' \in {"locked", "waiting"} => First(mhead)'
      BY <1>0, <1>2, <2>6 DEF QueueInv, HeadInv, ControlInv
    <3>2. mpc' = "grant" /\ mstep' = "start" => First(grantee)'
      BY <1>0, <1>2, <2>6 DEF QueueInv, HeadInv, ControlInv
    <3>3. head'[0] = n
      BY <1>0, <2>1
    <3> QED BY <2>7, <3>1, <3>2, <3>3 DEF HeadInv
  <2>9. TurnInv'
    BY <1>2, <1>3, <1>4, <1>5, <2>1 DEF QueueInv, TurnInv, Passing
  <2> QED BY <1>11, <2>2, <2>3, <2>4, <2>5, <2>8, <2>9 DEF QueueInv
<1>13. CASE link[t] # NoNode
  <2>1. PICK k \in Nodes : k = link[t]
    BY <1>0, <1>13 DEF SomeNode
  <2>2. /\ k # n /\ Joined(k) /\ next[k] = NoNode /\ ahead[0][n] = ahead[0][k] \cup {n}
        /\ \A u \in Threads \ {t} : step[u] = "link" => link[u] # k
    BY <1>1, <1>13, <2>1 DEF QueueInv, LinkingInv
  <2>3. head' = head /\ next' = [next EXCEPT ![k] = n]
    BY <1>13, <2>1 DEF LinkIn
  <2>4. next'[k] = n /\ \A j \in Nodes \ {k} : next'[j] = next[j]
    BY <1>0, <2>3
  <2>5. LinkInv'
    <3> SUFFICES ASSUME NEW j \in Nodes, Joined(j), next'[j] # NoNode
                 PROVE  /\ Waits(next[j])'
                        /\ ahead[0][next'[j]] = ahead[0][j] \cup {next'[j]}
                        /\ \A m \in Nodes : Joined(m) /\ next'[m] = next'[j] => m = j
      BY <1>2, <1>8 DEF LinkInv
    <3>1. CASE j = k
      <4>1. Waits(n)'
        BY <1>8, <1>9
      <4> QED BY <1>9, <2>2, <2>4, <3>1, <4>1
    <3>2. CASE j # k
      <4>1. PICK i \in Nodes : i = next[j] /\ i = next'[j]
        BY <1>0, <2>4, <3>2 DEF SomeNode
      <4>2. /\ Waits(i) /\ ahead[0][i] = ahead[0][j] \cup {i} /\ i # n
            /\ \A m \in Nodes : Joined(m) /\ next[m] = i => m = j
        BY <1>9, <4>1, NodeRange DEF QueueInv, LinkInv
      <4>3. Waits(i)'
        BY <1>8, <4>2
      <4>4. \A m \in Nodes : Joined(m) /\ next'[m] = i => m = j
        BY <2>4, <4>2
      <4> QED BY <4>1, <4>2, <4>3, <4>4
    <3> QED BY <3>1, <3>2
  <2>6. LinkingInv'
    <3>1. \A u \in Threads \ {t} : step[u] = "link" /\ link[u] # NoNode =>
            /\ link[u] \in Nodes /\ next'[link[u]] = NoNode /\ Joined(link[u])
            /\ link[u] # NodeOf[u]
      BY <1>0, <2>2, <2>4 DEF QueueInv, LinkingInv, SomeNode
    <3> QED BY <1>2, <1>8, <1>10, <3>1 DEF QueueInv, LinkingInv
  <2>7. PreparedInv'
    <3>1. \A u \in Threads : Prepared(u) => NodeOf[u] # k
      BY <2>2 DEF Prepared, Joined, OneCall, Passing
    <3> QED BY <1>0, <1>4, <1>5, <2>4, <3>1 DEF QueueInv, PreparedInv
  <2>8. TailInv'
    <3>1. tail[0] # k
      BY <1>1, <2>1, NodeRange DEF QueueInv, TailInv
    <3> QED BY <1>0, <1>2, <1>8, <1>10, <2>4, <3>1 DEF QueueInv, TailInv, SomeNode
  <2>9. \A m \in Nodes : First(m) => First(m)'
    <3> SUFFICES ASSUME NEW m \in Nodes, First(m) PROVE First(m)'
      OBVIOUS
    <3>1. m # n
      BY <1>7 DEF First
    <3> QED BY <1>2, <1>8, <2>4, <3>1 DEF First
  <2>10. HeadInv'
    <3>1. mpc' = "check" /\ mstep' \in {"locked", "waiting"} => First(mhead)'
      BY <1>0, <1>2, <2>9 DEF QueueInv, HeadInv, ControlInv
    <3>2. mpc' = "grant" /\ mstep' = "start" => First(grantee)'
      BY <1>0, <1>2, <2>9 DEF QueueInv, HeadInv, ControlInv
    <3>3. \/ \E u \in Threads : Has(u)' /\ step'[u] # "clearOwner"
          \/ head'[0] # NoNode => First(head[0])' /\ head'[0] = head[0]
      BY <1>0, <1>2, <1>3, <1>4, <1>5, <2>3, <2>9 DEF QueueInv, HeadInv, SomeNode
    <3> QED BY <3>1, <3>2, <3>3 DEF HeadInv
  <2>11. TurnInv'
    <3>1. \A u \in Threads : Passing(u) => NodeOf[u] # k
      BY <1>0, <2>2, NodeRange DEF QueueInv, TurnInv, ControlInv, CallInv
    <3> QED BY <1>0, <1>2, <1>3, <1>4, <1>5, <2>4, <3>1 DEF QueueInv, TurnInv
  <2> QED BY <1>11, <2>5, <2>6, <2>7, <2>8, <2>10, <2>11 DEF QueueInv
<1> QED BY <1>12, <1>13

\* What a step of the manager that stores nothing has to keep.
LEMMA ManagerQuiet ==
    ASSUME McsInv, OneCall, UNCHANGED <<clientVars, entryVars, nodeVars, callVars, ahead>>,
           Granting' <=> Granting, Granting => grantee' = grantee,
           (mpc' = "check" /\ mstep' # "start") \/ mpc' = "grant" => owner[0] = NoNode,
           QueueInv /\ mpc' = "check" /\ mstep' \in {"locked", "waiting"} =>
               mhead' \in Nodes /\ First(mhead'),
           QueueInv /\ mpc' = "grant" /\ mstep' = "start" => grantee' \in Nodes /\ First(grantee')
    PROVE  Rest'
<1>1. UNCHANGED <<pc, held, mutex, owner, tail, head, next, locked, step, link, ahead>>
  BY DEF clientVars, entryVars, nodeVars, callVars
<1>2. /\ \A u \in Threads : /\ Has(u)' <=> Has(u)
                            /\ Passing(u)' <=> Passing(u)
                            /\ Prepared(u)' <=> Prepared(u)
      /\ \A k \in Nodes : /\ Joined(k)' <=> Joined(k)
                          /\ Waits(k)' <=> Waits(k)
                          /\ Arrived(k)' <=> Arrived(k)
      /\ Queued(0)' = Queued(0)
  BY <1>1 DEF Has, Passing, Prepared, Joined, Waits, Arrived, Caller, Queued
<1>3. OwnerInv'
  BY <1>1, <1>2 DEF McsInv, OwnerInv, Granting
<1>4. ASSUME Alive' PROVE QueueInv'
  <2>0. /\ tail[0] \in SomeNode /\ head[0] \in SomeNode
        /\ \A n \in Nodes : next[n] \in SomeNode
        /\ \A u \in Threads : link[u] \in SomeNode /\ NodeOf[u] \in Nodes
    BY ZeroIsLock, NodeOfType DEF McsInv, TypeOK
  <2>1. QueueInv
    BY <1>1, <1>2, <1>4 DEF McsInv, Alive
  <2>2. LinkInv' /\ PreparedInv' /\ AheadInv' /\ TurnInv'
    BY <1>1, <1>2, <2>0, <2>1 DEF QueueInv, LinkInv, PreparedInv, AheadInv, TurnInv, SomeNode
  <2>3. LinkingInv' /\ TailInv'
    BY <1>1, <1>2, <2>0, <2>1 DEF QueueInv, LinkingInv, TailInv, SomeNode
  <2>4. \A k \in Nodes : First(k)' <=> First(k)
    BY <1>1, <1>2 DEF First
  <2>5. \/ \E u \in Threads : Has(u)' /\ step'[u] # "clearOwner"
        \/ head'[0] # NoNode => First(head[0])'
    BY <1>1, <1>2, <2>0, <2>1, <2>4 DEF QueueInv, HeadInv, SomeNode
  <2>6. mpc' = "check" /\ mstep' \in {"locked", "waiting"} => First(mhead)'
    BY <2>1, <2>4
  <2>7. mpc' = "grant" /\ mstep' = "start" => First(grantee)'
    BY <2>1, <2>4
  <2>8. HeadInv'
    BY <2>5, <2>6, <2>7 DEF HeadInv
  <2> QED BY <2>2, <2>3, <2>8 DEF QueueInv
<1> QED BY <1>3, <1>4 DEF Rest

\* start(), stop(), the loop of the worker, and check_grant.
LEMMA RestManager ==
    ASSUME McsInv, OneCall,
           \/ (ManagerStep \/ Start \/ StopRequest) /\ UNCHANGED <<clientVars, algoVars>>
           \/ CheckGrant
    PROVE  Rest'
<1>0. /\ mlock = 0 /\ head[0] \in SomeNode /\ mstep \in {"start", "head", "locked", "waiting", "owner"}
      /\ ControlInv
  BY ZeroIsLock DEF OneCall, McsInv, TypeOK
<1>1. UNCHANGED <<clientVars, entryVars, nodeVars, callVars, ahead>>
  BY DEF CheckGrant, algoVars
<1>2. CASE (ManagerStep \/ Start \/ StopRequest) /\ UNCHANGED <<clientVars, algoVars>>
  <2>1. grantee' = grantee /\ mstep' = mstep /\ mhead' = mhead
    BY <1>2 DEF ManagerStep, RunLoop, StopReturns, Start, StopRequest, algoVars, checkVars
  <2>2. mpc' = mpc \/ (mstep = "start" /\ mpc \notin {"check", "grant"} /\ mpc' # "grant")
    BY <1>0, <1>2 DEF ManagerStep, RunLoop, StopReturns, Start, StopRequest, ControlInv
  <2>3. Granting' <=> Granting
    BY <2>1, <2>2 DEF Granting
  <2>4. (mpc' = "check" /\ mstep' # "start") \/ mpc' = "grant" => owner[0] = NoNode
    BY <2>1, <2>2 DEF McsInv, OwnerInv
  <2>5. QueueInv /\ mpc' = "check" /\ mstep' \in {"locked", "waiting"} =>
            mhead' \in Nodes /\ First(mhead')
    <3>1. QueueInv /\ mpc = "check" /\ mstep \in {"locked", "waiting"} =>
            mhead \in Nodes /\ First(mhead)
      BY <1>0 DEF QueueInv, HeadInv, ControlInv
    <3> QED BY <2>1, <2>2, <3>1
  <2>6. QueueInv /\ mpc' = "grant" /\ mstep' = "start" => grantee' \in Nodes /\ First(grantee')
    <3>1. QueueInv /\ mpc = "grant" /\ mstep = "start" => grantee \in Nodes /\ First(grantee)
      BY <1>0 DEF QueueInv, HeadInv, ControlInv
    <3> QED BY <2>1, <2>2, <3>1
  <2> QED BY <1>1, <2>1, <2>3, <2>4, <2>5, <2>6, ManagerQuiet
<1>3. CASE CheckGrant
  <2>1. mpc = "check" /\ ~Granting
    BY <1>3 DEF CheckGrant, Granting
  <2>2. CASE mstep' = "head"
    <3>1. mpc' = "check" /\ owner[0] = NoNode
      BY <1>0, <1>3, <2>2 DEF CheckGrant, At, managerVars
    <3> QED BY <1>1, <2>1, <2>2, <3>1, ManagerQuiet DEF Granting
  <2>3. CASE mstep' \in {"locked", "waiting"}
    <3>1. /\ mpc' = "check" /\ mstep # "start"
          /\ \/ mstep = "head" /\ head[0] # NoNode /\ mhead' = head[0]
             \/ mstep = "locked" /\ mhead' = mhead
      BY <1>0, <1>3, <2>3 DEF CheckGrant, At, managerVars
    <3>2. QueueInv /\ (\A t \in Threads : ~Has(t)) /\ owner[0] = NoNode
      BY <2>1, <3>1, ManagerDecides DEF McsInv, OwnerInv
    <3>3. mhead' \in Nodes /\ First(mhead')
      BY <1>0, <2>1, <3>1, <3>2 DEF QueueInv, HeadInv, SomeNode, ControlInv
    <3> QED BY <1>1, <2>1, <2>3, <3>1, <3>2, <3>3, ManagerQuiet DEF Granting
  <2>4. CASE mstep' = "start" /\ mpc' # "grant"
    BY <1>1, <2>1, <2>4, ManagerQuiet DEF Granting
  <2>5. CASE mstep' = "start" /\ mpc' = "grant"
    <3>1. mstep = "waiting" /\ grantee' = mhead
      BY <1>3, <2>5 DEF CheckGrant, At, CheckReturns, NextLock, managerVars
    <3>2. QueueInv /\ owner[0] = NoNode
      BY <2>1, <3>1, ManagerDecides DEF McsInv, OwnerInv
    <3>3. mhead \in Nodes /\ First(mhead)
      BY <1>0, <2>1, <3>1, <3>2 DEF QueueInv, HeadInv, ControlInv
    <3> QED BY <1>1, <2>1, <2>5, <3>1, <3>2, <3>3, ManagerQuiet DEF Granting
  <2> QED BY <1>3, <2>2, <2>3, <2>4, <2>5 DEF CheckGrant, At
<1> QED BY <1>2, <1>3

\* grant_lock wakes the first waiter, who has the lock from then on.
LEMMA RestGrantLocked ==
    ASSUME McsInv, OneCall, GrantLock, mstep = "start"
    PROVE  Rest'
<1>0. /\ tail[0] \in SomeNode /\ locked \in [Nodes -> 0 .. 2]
      /\ \A k \in Nodes : next[k] \in SomeNode
      /\ \A u \in Threads : link[u] \in SomeNode /\ NodeOf[u] \in Nodes
  BY ZeroIsLock, NodeOfType DEF McsInv, TypeOK
<1>1. QueueInv /\ (\A u \in Threads : ~Has(u)) /\ owner[0] = NoNode
  BY ManagerDecides DEF GrantLock, McsInv, OwnerInv
<1>2. PICK g \in Nodes : g = grantee /\ First(g)
  BY <1>1 DEF GrantLock, McsInv, ControlInv, QueueInv, HeadInv
<1>3. PICK w \in Threads :
        /\ w = Caller(g) /\ pc[w] = "poll" /\ NodeOf[w] = g /\ step[w] \in {"start", "waiting"}
        /\ \A u \in Threads \ {w} : pc[u] = "poll" => NodeOf[u] # g
  BY <1>2 DEF First, Waits, OneCall, McsInv, ControlInv, CallInv
<1>4. /\ UNCHANGED <<pc, held, mutex, owner, tail, head, next, step, link, mhead, grantee, mpc, ahead>>
      /\ locked' = [locked EXCEPT ![g] = 2] /\ mstep' = "owner" /\ mpc = "grant"
  BY <1>2 DEF GrantLock, At, clientVars, callVars, managerVars
<1>5. locked'[g] = 2 /\ \A k \in Nodes \ {g} : locked'[k] = locked[k]
  BY <1>0, <1>4
<1>6. Has(w)' /\ \A u \in Threads \ {w} : ~Has(u)'
  BY <1>0, <1>1, <1>3, <1>4, <1>5 DEF Has, Passing
<1>7. OwnerInv'
  BY <1>1, <1>2, <1>3, <1>4, <1>6 DEF OwnerInv, Granting
<1>8. /\ \A u \in Threads : (Passing(u)' <=> Passing(u)) /\ (Prepared(u)' <=> Prepared(u))
      /\ \A k \in Nodes : /\ Joined(k)' <=> Joined(k)
                          /\ Waits(k)' <=> (Waits(k) /\ k # g)
                          /\ Arrived(k)' <=> Arrived(k)
      /\ Queued(0)' = Queued(0)
  BY <1>4, <1>5 DEF Passing, Prepared, Joined, Waits, Arrived, Caller, Queued
<1>9. LinkInv'
  BY <1>0, <1>1, <1>2, <1>4, <1>8 DEF QueueInv, LinkInv, First, SomeNode
<1>10. LinkingInv' /\ TailInv'
  BY <1>0, <1>1, <1>4, <1>8 DEF QueueInv, LinkingInv, TailInv, SomeNode
<1>11. PreparedInv' /\ AheadInv'
  BY <1>1, <1>4, <1>8 DEF QueueInv, PreparedInv, AheadInv
<1>12. HeadInv'
  BY <1>3, <1>4, <1>6 DEF HeadInv
<1>13. TurnInv'
  BY <1>1, <1>2, <1>3, <1>4, <1>6, <1>8 DEF QueueInv, TurnInv, First
<1> QED BY <1>7, <1>9, <1>10, <1>11, <1>12, <1>13 DEF Rest, QueueInv

\* grant_lock records the owner.  If the grantee has released in between, the record
\* is of an owner that has gone, and the lock is dead.
LEMMA RestGrantOwner ==
    ASSUME McsInv, OneCall, GrantLock, mstep = "owner"
    PROVE  Rest'
<1>0. /\ owner \in [Locks -> SomeNode] /\ 0 \in Locks /\ mlock = 0
      /\ tail[0] \in SomeNode /\ head[0] \in SomeNode
      /\ \A k \in Nodes : next[k] \in SomeNode
      /\ \A u \in Threads : link[u] \in SomeNode /\ NodeOf[u] \in Nodes
  BY ZeroIsLock, NodeOfType DEF McsInv, TypeOK, OneCall
<1>1. /\ UNCHANGED <<pc, held, mutex, tail, head, next, locked, step, link, ahead>>
      /\ owner' = [owner EXCEPT ![0] = grantee]
      /\ mpc = "grant" /\ mstep' = "start" /\ mpc' # "grant" /\ grantee \in Nodes
  BY <1>0 DEF GrantLock, At, GrantReturns, NextLock, clientVars, callVars, McsInv, ControlInv
<1>2. owner[0] = NoNode /\ owner'[0] = grantee /\ grantee # NoNode
  BY <1>0, <1>1, NodeRange DEF McsInv, OwnerInv
<1>3. /\ \A u \in Threads : /\ Has(u)' <=> Has(u)
                            /\ Passing(u)' <=> Passing(u)
                            /\ Prepared(u)' <=> Prepared(u)
      /\ \A k \in Nodes : /\ Joined(k)' <=> Joined(k)
                          /\ Waits(k)' <=> Waits(k)
                          /\ Arrived(k)' <=> Arrived(k)
      /\ Queued(0)' = Queued(0)
  BY <1>1 DEF Has, Passing, Prepared, Joined, Waits, Arrived, Caller, Queued
<1>4. ASSUME NEW u \in Threads, Has(u) PROVE grantee = NodeOf[u] /\ step[u] \notin {"wake", "clearOwner"}
  <2>1. NodeOf[u] # NoNode /\ (step[u] = "wake" => link[u] # NoNode)
    BY <1>0, NodeRange DEF McsInv, ControlInv, CallInv, Passing
  <2>2. grantee = NodeOf[u] /\ (pc[u] = "release" => step[u] = "start")
    BY <1>2, <1>4, <2>1 DEF McsInv, OwnerInv
  <2>3. step[u] \in {"wake", "clearOwner"} => pc[u] = "release"
    BY StepTells DEF McsInv
  <2> QED BY <2>2, <2>3
<1>5. OwnerInv'
  BY <1>1, <1>2, <1>3, <1>4 DEF McsInv, OwnerInv
<1>6. ASSUME Alive' PROVE QueueInv'
  <2>1. PICK u \in Threads : Has(u)
    BY <1>2, <1>3, <1>6 DEF Alive
  <2>2. QueueInv
    BY <2>1 DEF McsInv, Alive
  <2>3. LinkInv' /\ PreparedInv' /\ AheadInv' /\ TurnInv'
    BY <1>0, <1>1, <1>3, <2>2 DEF QueueInv, LinkInv, PreparedInv, AheadInv, TurnInv, SomeNode
  <2>4. LinkingInv' /\ TailInv'
    BY <1>0, <1>1, <1>3, <2>2 DEF QueueInv, LinkingInv, TailInv, SomeNode
  <2>5. HeadInv'
    BY <1>1, <1>3, <1>4, <2>1 DEF HeadInv
  <2> QED BY <2>3, <2>4, <2>5 DEF QueueInv
<1> QED BY <1>5, <1>6 DEF Rest

-----------------------------------------------------------------------------
(* The theorems.                                                                *)

LEMMA McsInvInit == ASSUME LockCount = 1 PROVE Init => McsInv
<1> SUFFICES ASSUME Init PROVE McsInv
    OBVIOUS
<1>1. TypeOK
  BY TypeInit
<1>2. MutexInv /\ NoLeakedMutex
  BY ThreadAssumption DEF Init, ClientInit, MutexInv, NoLeakedMutex, MutexOwner, AcquirePCs, ReleasePCs
<1>3. /\ Locks = {0} /\ \A t \in Threads : NodeOf[t] \in Nodes
      /\ mpc = "off" /\ mstep = "start" /\ running = FALSE
      /\ \A t \in Threads : pc[t] = "idle" /\ held[t] = {} /\ step[t] = "start" /\ spins[t] = 0
      /\ \A n \in Nodes : Caller(n) \notin Threads
      /\ owner[0] = NoNode /\ head[0] = NoNode /\ tail[0] = NoNode
      /\ \A n \in Nodes : ahead[0][n] = {}
  BY NodeOfType, ThreadAssumption DEF Init, ClientInit, ManagerInit, Locks, Caller
<1>4. ControlInv
  BY <1>3 DEF ControlInv, CallInv, Passing
<1>5. \A t \in Threads : ~Has(t) /\ ~Passing(t) /\ ~Prepared(t)
  BY <1>3 DEF Has, Passing, Prepared
<1>6. OwnerInv
  BY <1>3, <1>5 DEF OwnerInv
<1>7. QueueInv
  <2>1. \A n \in Nodes : ~Joined(n) /\ ~Arrived(n)
    BY <1>3 DEF Joined, Arrived
  <2>2. Queued(0) = {}
    BY <1>3 DEF Queued
  <2> QED BY <1>3, <1>5, <2>1, <2>2 DEF QueueInv, LinkInv, LinkingInv, PreparedInv, TailInv,
        AheadInv, HeadInv, TurnInv
<1> QED BY <1>1, <1>2, <1>4, <1>6, <1>7 DEF McsInv

LEMMA McsInvStep ==
    ASSUME LockCount = 1, CallModes \subseteq {"long"}, ~StrayRelease, McsInv, [Next]_vars
    PROVE  McsInv'
<1>1. TypeOK' /\ MutexInv' /\ NoLeakedMutex'
  BY TypeStep, MutexNext DEF McsInv
<1>2. OneCall /\ OneCall'
  <2>1. OneCall
    BY OneCallHolds DEF McsInv, TypeOK
  <2>2. ClientTypeOK' /\ ManagerTypeOK'
    BY <1>1 DEF TypeOK
  <2>3. OneCall'
    BY <1>1, <2>2, OneCallHolds, PTL
  <2> QED BY <2>1, <2>3
<1>3. SUFFICES ControlInv' /\ Rest'
  BY <1>1 DEF McsInv, Rest
<1>4. CASE UNCHANGED vars
  <2>1. ControlInv'
    BY <1>4 DEF McsInv, ControlInv, CallInv, Passing, vars, clientVars, managerVars, nodeVars,
       callVars, checkVars
  <2>2. Rest'
    BY <1>2, <1>4, ManagerQuiet DEF vars, managerVars, checkVars, Granting, McsInv, OwnerInv,
       ControlInv, QueueInv, HeadInv
  <2> QED BY <2>1, <2>2
<1>5. ASSUME NEW t \in Threads, Thread(t) PROVE ControlInv' /\ Rest'
  <2>1. CASE ClientStep(t) /\ UNCHANGED <<managerVars, algoVars>>
    BY <1>2, <2>1, ControlClient, RestClient DEF McsInv
  <2>2. CASE Prepare(t)
    BY <1>2, <2>2, ControlAcquire, RestPrepare DEF McsInv
  <2>3. CASE SwapTail(t)
    BY <1>2, <2>3, ControlAcquire, RestSwap, RestRetry DEF McsInv
  <2>4. CASE ReloadTail(t)
    BY <1>2, <2>4, ControlAcquire, RestRetry DEF McsInv
  <2>5. CASE LinkIn(t)
    BY <1>2, <2>5, ControlAcquire, RestLink DEF McsInv
  <2>6. CASE Poll(t)
    BY <1>2, <2>6, ControlPoll, RestPoll, RestGranted DEF McsInv
  <2>7. CASE CheckOwner(t)
    BY <1>2, <2>7, ControlRelease, RestRelease, RestRefused
  <2>8. CASE ReadSuccessor(t) \/ Unlink(t)
    BY <1>2, <2>8, ControlRelease, RestRelease, RestHolder
  <2>9. CASE ClearEntry(t) \/ PassOn(t)
    BY <1>2, <2>9, ControlRelease, RestHolder, RestWake
  <2>10. CASE ResetRecord(t)
    BY <1>2, <2>10, ControlRelease, RestRelease, RestReset
  <2> QED BY <1>5, <2>1, <2>2, <2>3, <2>4, <2>5, <2>6, <2>7, <2>8, <2>9, <2>10 DEF Thread
<1>6. CASE Environment
  <2>1. CASE (Start \/ StopRequest) /\ UNCHANGED <<clientVars, algoVars>>
    BY <1>2, <2>1, ControlManager, RestManager
  <2>2. ASSUME NEW t \in Threads, ClientCall(t), UNCHANGED <<managerVars, algoVars>>
        PROVE  ControlInv' /\ Rest'
    BY <1>2, <2>2, ControlClient, RestClient DEF McsInv
  <2> QED BY <1>6, <2>1, <2>2 DEF Environment
<1>7. CASE Manager
  <2>1. CASE ManagerStep /\ UNCHANGED <<clientVars, algoVars>>
    BY <1>2, <2>1, ControlManager, RestManager
  <2>2. CASE CheckGrant
    BY <1>2, <2>2, ControlManager, RestManager
  <2>3. CASE GrantLock
    <3>1. mstep = "start" \/ mstep = "owner"
      BY <2>3 DEF GrantLock
    <3> QED BY <1>2, <2>3, <3>1, ControlManager, RestGrantLocked, RestGrantOwner
  <2> QED BY <1>7, <2>1, <2>2, <2>3 DEF Manager
<1> QED BY <1>4, <1>5, <1>6, <1>7 DEF Next

\* With one lock, calls that do not time out and no stray releases, the queue, the
\* owner and the calls always agree.
THEOREM McsInvCorrect ==
    ASSUME LockCount = 1, CallModes \subseteq {"long"}, ~StrayRelease
    PROVE  Spec => []McsInv
<1>1. Init => McsInv
  BY McsInvInit
<1>2. McsInv /\ [Next]_vars => McsInv'
  BY McsInvStep
<1> QED BY <1>1, <1>2, PTL DEF Spec

\* No two threads hold the lock, on however many nodes they run, although the owner is
\* recorded after the waiter is woken and the manager decides from separate loads.
THEOREM ExclusionHolds ==
    ASSUME LockCount = 1, CallModes \subseteq {"long"}, ~StrayRelease
    PROVE  Spec => []MutualExclusion
<1>1. McsInv => MutualExclusion
  <2> SUFFICES ASSUME McsInv, NEW t \in Threads, NEW u \in Threads, t # u
               PROVE  held[t] \cap held[u] = {}
    BY DEF MutualExclusion
  <2>1. ~(Has(t) /\ Has(u))
    BY DEF McsInv, OwnerInv
  <2> QED BY <2>1 DEF Has
<1> QED BY <1>1, McsInvCorrect, PTL

\* A releaser hands the lock only to a node that still waits for it.
THEOREM HandsOverToWaiter ==
    ASSUME LockCount = 1, CallModes \subseteq {"long"}, ~StrayRelease
    PROVE  Spec => []HandoverToWaiter
<1>1. McsInv => HandoverToWaiter
  <2> SUFFICES ASSUME McsInv, NEW t \in Threads, Passing(t)
               PROVE  locked[link[t]] = 1 /\ waiting[link[t]] = arg[t]
    BY DEF HandoverToWaiter, Passing
  <2>1. OneCall
    BY OneCallHolds DEF McsInv, TypeOK
  <2>2. link[t] \in Nodes /\ Waits(link[t])
    BY <2>1, PassesToWaiter
  <2>3. PICK w \in Threads : w = Caller(link[t]) /\ pc[w] = "poll" /\ NodeOf[w] = link[t]
    BY <2>1, <2>2 DEF Waits, OneCall
  <2>4. waiting[NodeOf[w]] = arg[w]
    BY <2>3 DEF McsInv, ControlInv, CallInv
  <2> QED BY <2>1, <2>2, <2>3, <2>4 DEF Waits, OneCall
<1> QED BY <1>1, McsInvCorrect, PTL

\* Acquisitions succeed in the order in which the nodes swapped the tail.
THEOREM GrantsAreFifo ==
    ASSUME LockCount = 1, CallModes \subseteq {"long"}, ~StrayRelease
    PROVE  Spec => FifoGrants
<1>1. ASSUME McsInv, [Next]_vars
      PROVE  [\A t \in Threads : \A l \in held'[t] \ held[t] :
                 ahead[l][NodeOf[t]] = {NodeOf[t]}]_vars
  <2> SUFFICES ASSUME Next, NEW t \in Threads, NEW l \in held'[t] \ held[t]
               PROVE  ahead[l][NodeOf[t]] = {NodeOf[t]}
    BY <1>1
  <2>1. OneCall /\ held \in [Threads -> SUBSET Locks] /\ ControlInv /\ TypeOK
    BY <1>1, OneCallHolds DEF McsInv, TypeOK, ClientTypeOK
  <2>2. ASSUME NEW u \in Threads, ClientStep(u) \/ ClientCall(u) PROVE FALSE
    BY <2>1, <2>2 DEF ClientStep, ClientCall, LocalAcquire, LocalRefused, LocalRelease, Acquire,
       Release
  <2>3. PICK u \in Threads : Poll(u) /\ held' # held
    BY <2>2 DEF Next, Manager, CheckGrant, GrantLock, Environment, Thread, Prepare, SwapTail,
       ReloadTail, LinkIn, CheckOwner, ReadSuccessor, Unlink, ClearEntry, PassOn, ResetRecord, Go,
       Finish, clientVars
  <2>4. PollGranted(u)
    BY <2>1, <2>3, ControlPoll DEF Poll, Go, PollAgain, PollGivesUp, clientVars
  <2>5. u = t /\ l = arg[u] /\ arg[u] = 0
    BY <2>1, <2>4 DEF PollGranted, OneCall
  <2>6. Has(t) /\ pc[t] = "poll"
    BY <1>1, <2>1, <2>3, <2>4, <2>5, RestGranted DEF PollGranted
  <2>7. QueueInv
    BY <1>1, <2>6 DEF McsInv, Alive
  <2> QED BY <2>5, <2>6, <2>7 DEF QueueInv, TurnInv
<1> QED BY <1>1, McsInvCorrect, PTL DEF Spec, FifoGrants
=============================================================================
