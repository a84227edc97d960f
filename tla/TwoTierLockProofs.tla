-------------------------- MODULE TwoTierLockProofs --------------------------
(***************************************************************************)
(* Lemmas on the client and manager control that the proofs about every    *)
(* algorithm share: each step keeps the types of the variables it touches  *)
(* and the local mutexes; with one lock a node has one thread past them.   *)
(***************************************************************************)
EXTENDS LockManager, TLAPS

\* A thread of the client is on a node, so its mutexes are in the array.
LEMMA NodeOfType == \A t \in Threads : NodeOf[t] \in Nodes
  BY ThreadAssumption

\* The first lock id exists, so a scan can begin and scratch can be reset.
LEMMA ZeroIsLock == 0 \in Locks
  BY CountAssumption DEF Locks

\* The steps of acquire, try_acquire, release and poll_for_grant keep the
\* types of the client's variables.
LEMMA ClientTypeStep ==
    ASSUME ClientTypeOK, NEW t \in Threads,
           \/ ClientStep(t) \/ ClientCall(t)
           \/ PollGranted(t) \/ PollAgain(t) \/ PollGivesUp(t)
    PROVE  ClientTypeOK'
<1> USE NodeOfType, ZeroIsLock, SpinAssumption DEF ClientTypeOK, Modes, PCs, AcquirePCs, ReleasePCs
<1>1. CASE LocalAcquire(t)
  BY <1>1 DEF LocalAcquire, Goto
<1>2. CASE LocalRefused(t)
  BY <1>2 DEF LocalRefused, Return
<1>3. CASE LocalRelease(t)
  BY <1>3 DEF LocalRelease, Return
<1>4. ASSUME NEW l \in Locks, NEW m \in CallModes, Acquire(t, l, m) PROVE ClientTypeOK'
  BY <1>4, ModeAssumption DEF Acquire
<1>5. ASSUME NEW l \in Locks, Release(t, l) PROVE ClientTypeOK'
  BY <1>5 DEF Release
<1>6. CASE PollGranted(t)
  BY <1>6 DEF PollGranted, Return
<1>7. CASE PollAgain(t)
  BY <1>7 DEF PollAgain
<1>8. CASE PollGivesUp(t)
  BY <1>8 DEF PollGivesUp, Goto
<1> QED
  BY <1>1, <1>2, <1>3, <1>4, <1>5, <1>6, <1>7, <1>8 DEF ClientStep, ClientCall

\* The manager's own steps, and the returns of check_grant and grant_lock, keep
\* the types of the manager's variables.
LEMMA ManagerTypeStep ==
    ASSUME ManagerTypeOK, NEW g \in Nodes \cup {NoNode},
           \/ Start \/ StopRequest \/ ManagerStep
           \/ CheckReturns(g) \/ GrantReturns
    PROVE  ManagerTypeOK'
<1> USE CountAssumption, ZeroIsLock DEF ManagerTypeOK, ManagerPCs, Locks
<1>1. CASE Start \/ StopRequest
  BY <1>1 DEF Start, StopRequest
<1>2. CASE ManagerStep
  BY <1>2 DEF ManagerStep, RunLoop, StopReturns
<1>3. CASE CheckReturns(g)
  BY <1>3 DEF CheckReturns, NextLock
<1>4. CASE GrantReturns
  BY <1>4 DEF GrantReturns, NextLock
<1> QED
  BY <1>1, <1>2, <1>3, <1>4

\* The local mutex does its part under every algorithm: each step of a call keeps
\* it with the thread that holds the lock or is past the first tier, and gives it
\* back when the call ends without the lock.
LEMMA MutexStep ==
    ASSUME ClientTypeOK, MutexInv, NoLeakedMutex, ~StrayRelease, NEW t \in Threads,
           \/ ClientStep(t) \/ ClientCall(t)
           \/ PollGranted(t) \/ PollAgain(t) \/ PollGivesUp(t)
    PROVE  MutexInv' /\ NoLeakedMutex'
<1> USE NodeOfType, ThreadAssumption DEF ClientTypeOK, MutexOwner
<1>1. CASE LocalAcquire(t)
  <2>1. MutexInv'
    BY <1>1 DEF LocalAcquire, Goto, MutexInv, AcquirePCs, ReleasePCs
  <2>2. NoLeakedMutex'
    BY <1>1 DEF LocalAcquire, Goto, NoLeakedMutex
  <2> QED BY <2>1, <2>2
<1>2. CASE LocalRefused(t)
  <2>1. MutexInv'
    BY <1>2 DEF LocalRefused, Return, MutexInv, AcquirePCs, ReleasePCs
  <2>2. NoLeakedMutex'
    BY <1>2 DEF LocalRefused, Return, NoLeakedMutex
  <2> QED BY <2>1, <2>2
<1>3. CASE LocalRelease(t)
  <2>0. MutexOwner(t) = t /\ arg[t] \notin held[t]
    BY <1>3 DEF LocalRelease, MutexInv, AcquirePCs, ReleasePCs
  <2>1. MutexInv'
    BY <1>3, <2>0 DEF LocalRelease, Return, MutexInv, AcquirePCs, ReleasePCs
  <2>2. NoLeakedMutex'
    BY <1>3, <2>0 DEF LocalRelease, Return, NoLeakedMutex
  <2> QED BY <2>1, <2>2
<1>4. ASSUME NEW l \in Locks, NEW m \in CallModes, Acquire(t, l, m)
      PROVE  MutexInv' /\ NoLeakedMutex'
  <2>1. MutexInv'
    BY <1>4 DEF Acquire, MutexInv, AcquirePCs, ReleasePCs
  <2>2. NoLeakedMutex'
    BY <1>4 DEF Acquire, NoLeakedMutex
  <2> QED BY <2>1, <2>2
<1>5. ASSUME NEW l \in Locks, Release(t, l) PROVE MutexInv' /\ NoLeakedMutex'
  <2>1. MutexInv'
    BY <1>5 DEF Release, MutexInv, AcquirePCs, ReleasePCs
  <2>2. NoLeakedMutex'
    BY <1>5 DEF Release, NoLeakedMutex
  <2> QED BY <2>1, <2>2
<1>6. CASE PollGranted(t)
  <2>0. pc[t] = "poll" /\ MutexOwner(t) = t
    BY <1>6 DEF PollGranted, MutexInv, AcquirePCs
  <2>1. MutexInv'
    BY <1>6, <2>0 DEF PollGranted, Return, MutexInv, AcquirePCs, ReleasePCs
  <2>2. NoLeakedMutex'
    BY <1>6, <2>0 DEF PollGranted, Return, NoLeakedMutex
  <2> QED BY <2>1, <2>2
<1>7. CASE PollAgain(t)
  BY <1>7 DEF PollAgain, MutexInv, NoLeakedMutex
<1>8. CASE PollGivesUp(t)
  <2>1. MutexInv'
    BY <1>8 DEF PollGivesUp, Goto, MutexInv, AcquirePCs, ReleasePCs
  <2>2. NoLeakedMutex'
    BY <1>8 DEF PollGivesUp, Goto, NoLeakedMutex
  <2> QED BY <2>1, <2>2
<1> QED
  BY <1>1, <1>2, <1>3, <1>4, <1>5, <1>6, <1>7, <1>8 DEF ClientStep, ClientCall

\* So does each step inside the algorithm, which moves on within the same call.
LEMMA MutexMove ==
    ASSUME ClientTypeOK, MutexInv, NoLeakedMutex, NEW t \in Threads,
           pc[t] \in AcquirePCs \cup ReleasePCs,
           NEW label \in AcquirePCs \cup ReleasePCs, Goto(t, label),
           UNCHANGED <<arg, mutex, held>>
    PROVE  MutexInv' /\ NoLeakedMutex'
<1>1. MutexInv'
  BY DEF ClientTypeOK, Goto, MutexInv, MutexOwner
<1>2. NoLeakedMutex'
  BY DEF ClientTypeOK, Goto, NoLeakedMutex, AcquirePCs, ReleasePCs
<1> QED BY <1>1, <1>2

-----------------------------------------------------------------------------
(* One lock.                                                                    *)

\* With one lock, a node has one thread past its local mutex.
OneCall ==
    /\ Locks = {0} /\ mlock = 0
    /\ \A t \in Threads : arg[t] = 0 /\ NodeOf[t] \in Nodes /\ held[t] \in SUBSET {0}
    /\ \A t \in Threads :
        /\ pc[t] \in {"request", "poll", "release", "releaseLocal"} =>
               Caller(NodeOf[t]) = t /\ held[t] = {}
        /\ held[t] # {} => Caller(NodeOf[t]) = t
    /\ \A n \in Nodes : Caller(n) \in Threads => NodeOf[Caller(n)] = n

\* That follows from what the local mutexes keep under every algorithm.
LEMMA OneCallHolds ==
    ASSUME LockCount = 1, ClientTypeOK, ManagerTypeOK, MutexInv, NoLeakedMutex
    PROVE  OneCall
<1>0. Locks = {0}
  BY DEF Locks
<1>1. mlock = 0 /\ \A t \in Threads : arg[t] = 0 /\ NodeOf[t] \in Nodes /\ held[t] \in SUBSET {0}
  BY <1>0, NodeOfType DEF ClientTypeOK, ManagerTypeOK
<1>2. \A t \in Threads :
        /\ pc[t] \in {"request", "poll", "release", "releaseLocal"} =>
               Caller(NodeOf[t]) = t /\ held[t] = {}
        /\ held[t] # {} => Caller(NodeOf[t]) = t
  <2> TAKE t \in Threads
  <2>1. arg[t] = 0 /\ held[t] \in SUBSET {0}
    BY <1>1
  <2>2. held[t] # {} => mutex[NodeOf[t]][0] = t
    BY <2>1 DEF MutexInv
  <2>3. pc[t] \in {"request", "poll", "release", "releaseLocal"} =>
            mutex[NodeOf[t]][0] = t /\ 0 \notin held[t]
    BY <2>1 DEF MutexInv, MutexOwner, AcquirePCs, ReleasePCs
  <2>4. 0 \notin held[t] => held[t] = {}
    BY <2>1
  <2> QED BY <2>2, <2>3, <2>4 DEF Caller
<1>3. \A n \in Nodes : Caller(n) \in Threads => NodeOf[Caller(n)] = n
  BY <1>0, ThreadAssumption DEF NoLeakedMutex, Caller
<1> QED BY <1>0, <1>1, <1>2, <1>3 DEF OneCall

\* Two threads of one node are not both in acquire_lock, poll_for_grant or release_lock.
LEMMA OneCaller ==
    ASSUME OneCall, NEW t \in Threads, NEW u \in Threads, NodeOf[t] = NodeOf[u],
           pc[t] \in {"request", "poll", "release", "releaseLocal"} \/ held[t] # {},
           pc[u] \in {"request", "poll", "release", "releaseLocal"} \/ held[u] # {}
    PROVE  t = u
  BY DEF OneCall
=============================================================================
