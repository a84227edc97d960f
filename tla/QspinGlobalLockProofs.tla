----------------------- MODULE QspinGlobalLockProofs -----------------------
(***************************************************************************)
(* Proofs about the qspinlock algorithm: it is well typed; and with one    *)
(* lock and calls that do not time out no two threads hold it, for any     *)
(* number of nodes and threads.                                            *)
(***************************************************************************)
EXTENDS QspinGlobalLock, TwoTierLockProofs

-----------------------------------------------------------------------------
(* The lock word.                                                               *)

\* The word of a held lock has the locked bit, and setting a tail keeps that bit.
LEMMA WordFacts ==
    ASSUME NEW n \in Nodes, NEW w \in Words
    PROVE  /\ HeldBy(n) \in Words /\ HeldBy(n) # 0 /\ qspin_locked(HeldBy(n)) = 1
           /\ LET v == qspin_set_tail(w, qspin_node_to_tail(n)) IN
              v \in Words /\ v # 0 /\ qspin_locked(v) = qspin_locked(w)
<1>1. NodeCount \in Nat /\ n \in Nat /\ n < NodeCount /\ w \in Nat
  BY CountAssumption DEF Nodes, Words
<1>2. HeldBy(n) = 4 * n + 5
  BY <1>1 DEF HeldBy, qspin_node_to_tail
<1>3. HeldBy(n) \in Words /\ HeldBy(n) # 0 /\ HeldBy(n) % 2 = 1
  BY <1>1, <1>2 DEF Words
<1> DEFINE v == (w % 4) + 4 * (n + 1)
<1>4. v \in Words /\ v # 0
  BY <1>1 DEF Words
<1>5. v % 2 = w % 2
  BY <1>1
<1> QED BY <1>3, <1>4, <1>5 DEF qspin_locked, qspin_set_tail, qspin_node_to_tail

\* The tail of a word is a node or nobody.
LEMMA TailFacts ==
    ASSUME NEW w \in Words
    PROVE  qspin_tail_to_node(qspin_tail_idx(w)) \in SomeNode
<1>1. NodeCount \in Nat /\ w \in Nat /\ w <= 4 * NodeCount + 3
  BY CountAssumption DEF Words
<1>2. w \div 4 \in Nat /\ w \div 4 <= NodeCount
  BY <1>1
<1>3. PICK d \in Nat : d = w \div 4
  BY <1>2
<1>4. d % 65536 \in Nat /\ d % 65536 <= d
  OBVIOUS
<1>5. qspin_tail_idx(w) \in 0 .. NodeCount
  BY <1>1, <1>2, <1>3, <1>4 DEF qspin_tail_idx
<1> QED BY <1>1, <1>5 DEF qspin_tail_to_node, SomeNode, Nodes

-----------------------------------------------------------------------------
(* Types and control.                                                           *)

LEMMA TypeInit == Init => TypeOK /\ ControlInv
<1> SUFFICES ASSUME Init PROVE TypeOK /\ ControlInv
    OBVIOUS
<1>1. ClientTypeOK
  BY ZeroIsLock, SpinAssumption DEF Init, ClientInit, ClientTypeOK, Modes, PCs
<1>2. ManagerTypeOK
  BY ZeroIsLock DEF Init, ManagerInit, ManagerTypeOK, ManagerPCs
<1>3. 0 \in Words
  BY CountAssumption DEF Words
<1>4. TypeOK
  BY <1>1, <1>2, <1>3 DEF Init, TypeOK, SomeNode, Steps
<1>5. ControlInv
  BY DEF Init, ClientInit, ManagerInit, ControlInv, ManagerInv, StepInv, Passing
<1> QED BY <1>4, <1>5

\* The steps of acquire_lock, poll_for_grant and release_lock.
AlgorithmStep(t) ==
    \/ Prepare(t) \/ TryFastPath(t) \/ TakeFastPath(t) \/ JoinQueue(t) \/ LinkIn(t)
    \/ Poll(t)
    \/ CheckOwner(t) \/ FindSuccessor(t) \/ ClearWord(t) \/ ClearEntry(t)
    \/ AwaitLink(t) \/ PassOn(t) \/ ResetRecord(t)

\* Inside them the two-tier lock is left alone until the function returns.
LEMMA ClientAlgorithm ==
    ASSUME NEW t \in Threads, AlgorithmStep(t)
    PROVE  \/ UNCHANGED clientVars
           \/ PollGranted(t) \/ PollAgain(t) \/ PollGivesUp(t)
           \/ Finish(t, "poll") /\ step[t] \in {"fastHead", "link"}
           \/ /\ Finish(t, AfterRelease(t))
              /\ \/ pc[t] \in {"release", "cancel"}
                 \/ step[t] = "resetWaiting"
<1>1. CASE Prepare(t) \/ TryFastPath(t) \/ JoinQueue(t) \/ FindSuccessor(t) \/ ClearWord(t)
  BY <1>1 DEF Prepare, TryFastPath, JoinQueue, FindSuccessor, ClearWord, At
<1>2. CASE ClearEntry(t) \/ AwaitLink(t) \/ PassOn(t)
  BY <1>2 DEF ClearEntry, AwaitLink, PassOn, At
<1>3. CASE TakeFastPath(t) \/ LinkIn(t)
  BY <1>3 DEF TakeFastPath, LinkIn, At
<1>4. CASE Poll(t)
  BY <1>4 DEF Poll, At
<1>5. CASE CheckOwner(t) \/ ResetRecord(t)
  BY <1>5 DEF CheckOwner, ResetRecord, At
<1> QED BY <1>1, <1>2, <1>3, <1>4, <1>5 DEF AlgorithmStep

LEMMA ClientTypeAlgorithm ==
    ASSUME ClientTypeOK, NEW t \in Threads, AlgorithmStep(t)
    PROVE  ClientTypeOK'
<1>1. CASE UNCHANGED clientVars
  BY <1>1 DEF clientVars, ClientTypeOK
<1>2. ASSUME NEW label \in {"poll", "cancelLocal", "releaseLocal"}, Finish(t, label)
      PROVE  ClientTypeOK'
  BY <1>2 DEF Finish, Goto, ClientTypeOK, PCs, AcquirePCs, ReleasePCs
<1>3. CASE PollGranted(t) \/ PollAgain(t) \/ PollGivesUp(t)
  BY <1>3, ClientTypeStep
<1>4. AfterRelease(t) \in {"cancelLocal", "releaseLocal"}
  BY DEF AfterRelease
<1> QED BY <1>1, <1>2, <1>3, <1>4, ClientAlgorithm

\* The shared words and the locals of the calls keep their types.
LEMMA AlgorithmType ==
    ASSUME TypeOK, ControlInv, NEW t \in Threads, AlgorithmStep(t), UNCHANGED <<managerVars, checkVars>>
    PROVE  TypeOK'
<1>0. /\ NodeOf[t] \in Nodes /\ arg[t] \in Locks /\ link[t] \in SomeNode /\ word[t] \in Words
      /\ lock_word[arg[t]] \in Words /\ \A n \in Nodes : next[n] \in SomeNode
      /\ Passing(t) => link[t] \in Nodes
  BY NodeOfType DEF TypeOK, ClientTypeOK, ControlInv, StepInv
<1>1. ClientTypeOK'
  BY ClientTypeAlgorithm DEF TypeOK
<1>2. ManagerTypeOK' /\ mstep' = mstep /\ mhead' = mhead
  BY DEF TypeOK, managerVars, checkVars, ManagerTypeOK
<1>3. CASE Prepare(t)
  <2>1. UNCHANGED <<entryVars, word, link>>
    BY <1>3 DEF Prepare
  <2>2. step' \in [Threads -> Steps] /\ next' \in [Nodes -> SomeNode]
        /\ waiting' \in [Nodes -> Locks \cup {NoLock}]
    BY <1>0, <1>3 DEF Prepare, At, TypeOK, Steps, SomeNode
  <2>3. locked' \in [Nodes -> 0 .. 2]
    BY <1>3 DEF Prepare, TypeOK
  <2> QED BY <1>1, <1>2, <2>1, <2>2, <2>3 DEF TypeOK, entryVars
<1>4. CASE TryFastPath(t)
  <2>1. UNCHANGED <<owner, pending_tail, granting, nodeVars, word, link>>
    BY <1>4 DEF TryFastPath
  <2>2. step' \in [Threads -> Steps]
    BY <1>4 DEF TryFastPath, At, TypeOK, Steps
  <2>3. lock_word' \in [Locks -> Words]
    BY <1>0, <1>4, WordFacts DEF TryFastPath, TypeOK
  <2> QED BY <1>1, <1>2, <2>1, <2>2, <2>3 DEF TypeOK, nodeVars
<1>5. CASE TakeFastPath(t)
  <2>1. UNCHANGED <<lock_word, granting, next, waiting>>
    BY <1>5 DEF TakeFastPath
  <2>2. step' \in [Threads -> Steps] /\ link' \in [Threads -> SomeNode]
    BY <1>5 DEF TakeFastPath, At, Finish, TypeOK, Steps, SomeNode
  <2>3. word' \in [Threads -> Words]
    <3>1. 0 \in Words
      BY CountAssumption DEF Words
    <3> QED BY <1>5, <3>1 DEF TakeFastPath, Finish, TypeOK
  <2>4. locked' \in [Nodes -> 0 .. 2]
    BY <1>5 DEF TakeFastPath, TypeOK
  <2>5. owner' \in [Locks -> SomeNode] /\ pending_tail' \in [Locks -> SomeNode]
    BY <1>0, <1>5 DEF TakeFastPath, TypeOK, SomeNode
  <2> QED BY <1>1, <1>2, <2>1, <2>2, <2>3, <2>4, <2>5 DEF TypeOK
<1>6. CASE JoinQueue(t)
  <2>1. UNCHANGED <<owner, pending_tail, granting, nodeVars>>
    BY <1>6 DEF JoinQueue
  <2>2. step' \in [Threads -> Steps]
    BY <1>6 DEF JoinQueue, At, TypeOK, Steps
  <2>3. 0 \in Words
    BY CountAssumption DEF Words
  <2>4. word' \in [Threads -> Words]
    BY <1>0, <1>6, <2>3 DEF JoinQueue, TypeOK
  <2>5. link' \in [Threads -> SomeNode]
    BY <1>0, <1>6, TailFacts DEF JoinQueue, TypeOK
  <2>6. lock_word' \in [Locks -> Words]
    BY <1>0, <1>6, WordFacts DEF JoinQueue, TypeOK
  <2> QED BY <1>1, <1>2, <2>1, <2>2, <2>4, <2>5, <2>6 DEF TypeOK, nodeVars
<1>7. CASE LinkIn(t)
  <2>1. UNCHANGED <<lock_word, owner, granting, locked, waiting>>
    BY <1>7 DEF LinkIn
  <2>2. step' \in [Threads -> Steps] /\ link' \in [Threads -> SomeNode]
    BY <1>7 DEF LinkIn, Finish, TypeOK, Steps, SomeNode
  <2>3. word' \in [Threads -> Words]
    <3>1. 0 \in Words
      BY CountAssumption DEF Words
    <3> QED BY <1>7, <3>1 DEF LinkIn, Finish, TypeOK
  <2>4. pending_tail' \in [Locks -> SomeNode] /\ next' \in [Nodes -> SomeNode]
    BY <1>0, <1>7 DEF LinkIn, TypeOK, SomeNode
  <2> QED BY <1>1, <1>2, <2>1, <2>2, <2>3, <2>4 DEF TypeOK
<1>8. CASE Poll(t)
  <2>1. UNCHANGED <<entryVars, nodeVars, word, link>> /\ step' \in [Threads -> Steps]
    BY <1>8 DEF Poll, At, TypeOK, Steps
  <2> QED BY <1>1, <1>2, <2>1 DEF TypeOK, entryVars, nodeVars
<1>9. CASE CheckOwner(t) \/ FindSuccessor(t)
  <2>1. UNCHANGED <<entryVars, nodeVars>>
    BY <1>9 DEF CheckOwner, FindSuccessor
  <2>2. step' \in [Threads -> Steps]
    BY <1>9 DEF CheckOwner, FindSuccessor, Finish, At, TypeOK, Steps
  <2>3. link' \in [Threads -> SomeNode]
    BY <1>0, <1>9 DEF CheckOwner, FindSuccessor, Finish, TypeOK, SomeNode
  <2>4. word' \in [Threads -> Words]
    <3>1. 0 \in Words
      BY CountAssumption DEF Words
    <3> QED BY <1>0, <1>9, <3>1 DEF CheckOwner, FindSuccessor, Finish, TypeOK
  <2> QED BY <1>1, <1>2, <2>1, <2>2, <2>3, <2>4 DEF TypeOK, entryVars, nodeVars
<1>10. CASE ClearWord(t) \/ ClearEntry(t) \/ AwaitLink(t)
  <2>1. UNCHANGED <<granting, nodeVars>>
    BY <1>10 DEF ClearWord, ClearEntry, AwaitLink
  <2>2. step' \in [Threads -> Steps]
    BY <1>10 DEF ClearWord, ClearEntry, AwaitLink, At, TypeOK, Steps
  <2>3. 0 \in Words
    BY CountAssumption DEF Words
  <2>4. lock_word' \in [Locks -> Words] /\ word' \in [Threads -> Words]
    BY <1>0, <1>10, <2>3 DEF ClearWord, ClearEntry, AwaitLink, TypeOK
  <2>5. /\ link' \in [Threads -> SomeNode] /\ owner' \in [Locks -> SomeNode]
        /\ pending_tail' \in [Locks -> SomeNode]
    BY <1>0, <1>10 DEF ClearWord, ClearEntry, AwaitLink, TypeOK, SomeNode
  <2> QED BY <1>1, <1>2, <2>1, <2>2, <2>4, <2>5 DEF TypeOK, nodeVars
<1>11. CASE PassOn(t)
  <2>1. UNCHANGED <<granting, next, waiting, word, link>>
    BY <1>11 DEF PassOn
  <2>2. step' \in [Threads -> Steps]
    BY <1>11 DEF PassOn, At, TypeOK, Steps
  <2>3. link[t] \in Nodes
    BY <1>0, <1>11 DEF PassOn, At, Passing
  <2>4. lock_word' \in [Locks -> Words]
    BY <1>0, <1>11, <2>3, WordFacts DEF PassOn, TypeOK
  <2>5. locked' \in [Nodes -> 0 .. 2]
    BY <1>11 DEF PassOn, TypeOK
  <2>6. owner' \in [Locks -> SomeNode] /\ pending_tail' \in [Locks -> SomeNode]
    BY <1>0, <1>11 DEF PassOn, TypeOK
  <2> QED BY <1>1, <1>2, <2>1, <2>2, <2>4, <2>5, <2>6 DEF TypeOK
<1>12. CASE ResetRecord(t)
  <2>1. UNCHANGED entryVars
    BY <1>12 DEF ResetRecord
  <2>2. step' \in [Threads -> Steps]
    BY <1>12 DEF ResetRecord, Finish, At, TypeOK, Steps
  <2>3. link' \in [Threads -> SomeNode] /\ next' \in [Nodes -> SomeNode]
    BY <1>0, <1>12 DEF ResetRecord, Finish, TypeOK, SomeNode
  <2>4. word' \in [Threads -> Words]
    <3>1. 0 \in Words
      BY CountAssumption DEF Words
    <3> QED BY <1>12, <3>1 DEF ResetRecord, Finish, TypeOK
  <2>5. locked' \in [Nodes -> 0 .. 2] /\ waiting' \in [Nodes -> Locks \cup {NoLock}]
    BY <1>12 DEF ResetRecord, TypeOK
  <2> QED BY <1>1, <1>2, <2>1, <2>2, <2>3, <2>4, <2>5 DEF TypeOK, entryVars
<1> QED
  BY <1>3, <1>4, <1>5, <1>6, <1>7, <1>8, <1>9, <1>10, <1>11, <1>12 DEF AlgorithmStep

\* The position inside the algorithm's functions tells which function it is.
LEMMA StepTells ==
    ASSUME NEW t \in Threads, StepInv(t)
    PROVE  /\ step[t] \in {"locked", "try", "fastLocked", "fastOwner", "fastHead", "load", "join",
                  "link"} => pc[t] = "request"
           /\ step[t] \in {"succ", "word", "clear", "clearHead", "clearOwner", "spin", "force",
                  "passHead", "passOwner", "passWord", "wake",
                  "resetNext", "resetLocked", "resetWaiting"} => pc[t] \in {"release", "cancel"}
  BY DEF StepInv

\* A call moves on within a function, or to where the two-tier lock waits for it.
LEMMA ControlAlgorithm ==
    ASSUME TypeOK, ControlInv, NEW t \in Threads, AlgorithmStep(t), UNCHANGED <<managerVars, checkVars>>
    PROVE  /\ ControlInv'
           /\ \A u \in Threads \ {t} : /\ pc'[u] = pc[u] /\ step'[u] = step[u] /\ link'[u] = link[u]
                                       /\ spins'[u] = spins[u] /\ mode'[u] = mode[u]
                                       /\ held'[u] = held[u]
<1>0. /\ pc \in [Threads -> PCs] /\ step \in [Threads -> Steps] /\ link \in [Threads -> SomeNode]
      /\ spins \in [Threads -> 0 .. SpinLimit + 1] /\ mode \in [Threads -> Modes]
      /\ held \in [Threads -> SUBSET Locks] /\ StepInv(t) /\ NodeOf[t] \in Nodes
      /\ \A n \in Nodes : next[n] \in SomeNode
  BY NodeOfType DEF TypeOK, ClientTypeOK, ControlInv
<1>1. \A u \in Threads \ {t} : /\ pc'[u] = pc[u] /\ spins'[u] = spins[u]
                               /\ mode'[u] = mode[u] /\ held'[u] = held[u]
  BY <1>0, ClientAlgorithm
  DEF clientVars, PollGranted, PollAgain, PollGivesUp, Return, Finish, Goto
<1>2. \A u \in Threads \ {t} : step'[u] = step[u] /\ link'[u] = link[u]
  BY <1>0 DEF AlgorithmStep, Prepare, TryFastPath, TakeFastPath, JoinQueue, LinkIn, Poll, CheckOwner,
     FindSuccessor, ClearWord, ClearEntry, AwaitLink, PassOn, ResetRecord, At, Finish
<1>3. StepInv(t)'
  <2>1. CASE Prepare(t) \/ TryFastPath(t) \/ JoinQueue(t)
    <3>1. pc[t] = "request" /\ pc' = pc
      BY <1>0, <2>1, StepTells DEF Prepare, TryFastPath, JoinQueue, At, clientVars
    <3>2. step'[t] \in {"locked", "waiting", "try", "fastLocked", "load", "join", "link"}
      BY <1>0, <2>1 DEF Prepare, TryFastPath, JoinQueue, At
    <3> QED BY <3>1, <3>2 DEF StepInv, Passing
  <2>2. CASE TakeFastPath(t) \/ LinkIn(t)
    <3>1. \/ pc[t] = "request" /\ pc' = pc /\ step'[t] \in {"fastOwner", "fastHead"}
          \/ pc'[t] = "poll" /\ step'[t] = "start"
      BY <1>0, <2>2, StepTells DEF TakeFastPath, LinkIn, At, Finish, Goto, clientVars
    <3> QED BY <3>1 DEF StepInv, Passing
  <2>3. CASE Poll(t)
    <3>1. \/ pc' = pc /\ step'[t] \in {"start", "waiting"}
          \/ pc'[t] \in {"idle", "cancel"} /\ step'[t] = "start"
      BY <1>0, <2>3
      DEF Poll, PollGranted, PollAgain, PollGivesUp, Return, Goto, At, clientVars
    <3>2. pc[t] = "poll"
      BY <2>3 DEF Poll
    <3> QED BY <3>1, <3>2 DEF StepInv, Passing
  <2>4. CASE CheckOwner(t) \/ ResetRecord(t)
    <3>1. AfterRelease(t) \in {"releaseLocal", "cancelLocal"}
      BY DEF AfterRelease
    <3>2. \/ /\ pc[t] \in {"release", "cancel"} /\ pc' = pc
             /\ step'[t] \in {"succ", "resetLocked", "resetWaiting"}
          \/ pc'[t] \in {"releaseLocal", "cancelLocal"} /\ step'[t] = "start"
      BY <1>0, <2>4, <3>1, StepTells DEF CheckOwner, ResetRecord, At, Finish, Goto, clientVars
    <3> QED BY <3>2 DEF StepInv, Passing
  <2>5. CASE FindSuccessor(t) \/ ClearWord(t) \/ ClearEntry(t) \/ AwaitLink(t) \/ PassOn(t)
    <3>1. pc[t] \in {"release", "cancel"} /\ pc' = pc
      BY <1>0, <2>5, StepTells
      DEF FindSuccessor, ClearWord, ClearEntry, AwaitLink, PassOn, At, clientVars
    <3>2. /\ step'[t] \in {"word", "clear", "clearHead", "clearOwner", "spin", "force", "passHead",
                  "passOwner", "passWord", "wake", "resetNext", "resetLocked"}
          /\ Passing(t)' => link'[t] \in Nodes
      <4>1. CASE FindSuccessor(t)
        BY <1>0, <4>1 DEF FindSuccessor, At, Passing, SomeNode
      <4>2. CASE ClearWord(t) \/ ClearEntry(t)
        BY <1>0, <4>2 DEF ClearWord, ClearEntry, At, Passing
      <4>3. CASE AwaitLink(t)
        BY <1>0, <4>3 DEF AwaitLink, At, Passing, SomeNode
      <4>4. CASE PassOn(t)
        BY <1>0, <4>4 DEF PassOn, At, Passing, StepInv
      <4> QED BY <2>5, <4>1, <4>2, <4>3, <4>4
    <3> QED BY <3>1, <3>2 DEF StepInv
  <2> QED BY <2>1, <2>2, <2>3, <2>4, <2>5 DEF AlgorithmStep
<1>4. \A u \in Threads \ {t} : StepInv(u)'
  BY <1>1, <1>2 DEF ControlInv, StepInv, Passing
<1>5. ManagerInv'
  BY DEF ControlInv, ManagerInv, managerVars, checkVars
<1> QED BY <1>1, <1>2, <1>3, <1>4, <1>5 DEF ControlInv

\* The steps of the manager, of start() and of stop().
ManagerMove ==
    /\ \/ (ManagerStep \/ Start \/ StopRequest) /\ UNCHANGED <<entryVars, nodeVars, checkVars>>
       \/ CheckGrant
       \/ GrantLock
    /\ UNCHANGED <<clientVars, callVars>>

LEMMA ManagerType ==
    ASSUME TypeOK, ControlInv, ManagerMove
    PROVE  TypeOK' /\ ControlInv'
<1>0. /\ mlock \in Locks /\ mhead \in SomeNode /\ pending_tail[mlock] \in SomeNode
      /\ \A n \in Nodes : next[n] \in SomeNode
      /\ lock_word[mlock] \in Words
  BY DEF TypeOK, ManagerTypeOK
<1>1. UNCHANGED <<clientVars, step, word, link>>
  BY DEF ManagerMove, callVars
<1>2. ClientTypeOK'
  BY <1>1 DEF TypeOK, ClientTypeOK, clientVars
<1>3. \A t \in Threads : StepInv(t)'
  BY <1>1 DEF ControlInv, StepInv, Passing, clientVars
<1>4. CASE (ManagerStep \/ Start \/ StopRequest) /\ UNCHANGED <<entryVars, nodeVars, checkVars>>
  <2>1. ManagerTypeOK'
    BY <1>4, ManagerTypeStep DEF TypeOK
  <2>2. ManagerInv'
    BY <1>4 DEF ManagerStep, RunLoop, StopReturns, Start, StopRequest, checkVars, ControlInv,
       ManagerInv
  <2> QED
    BY <1>1, <1>2, <1>3, <1>4, <2>1, <2>2
    DEF TypeOK, ControlInv, entryVars, nodeVars, checkVars
<1>5. CASE CheckGrant
  <2>1. UNCHANGED <<lock_word, owner, pending_tail, nodeVars>>
    BY <1>5 DEF CheckGrant
  <2>2. /\ mhead' \in SomeNode /\ mstep' \in {"start", "gip", "head", "locked", "waiting", "mark"}
        /\ granting' \in [Locks -> 0 .. 1]
    BY <1>0, <1>5 DEF CheckGrant, MAt, TypeOK, SomeNode
  <2>3. ManagerTypeOK'
    <3>1. mhead \in Nodes \cup {NoNode} /\ NoNode \in Nodes \cup {NoNode}
      BY <1>0 DEF SomeNode
    <3> QED BY <1>5, <3>1, ManagerTypeStep
          DEF CheckGrant, MAt, TypeOK, managerVars, ManagerTypeOK
  <2>4. ManagerInv'
    BY <1>0, <1>5 DEF CheckGrant, MAt, CheckReturns, NextLock, managerVars, SomeNode, ControlInv,
       ManagerInv
  <2> QED BY <1>1, <1>2, <1>3, <2>1, <2>2, <2>3, <2>4 DEF TypeOK, ControlInv, nodeVars
<1>6. CASE GrantLock
  <2>0. mpc = "grant" /\ grantee \in Nodes
    BY <1>6 DEF GrantLock, ControlInv, ManagerInv
  <2>1. UNCHANGED <<next, waiting>>
    BY <1>6 DEF GrantLock
  <2>2. locked' \in [Nodes -> 0 .. 2]
    BY <1>6 DEF GrantLock, TypeOK
  <2>3. lock_word' \in [Locks -> Words]
    BY <1>6, <2>0, WordFacts DEF GrantLock, TypeOK, entryVars
  <2>4. /\ owner' \in [Locks -> SomeNode] /\ pending_tail' \in [Locks -> SomeNode]
        /\ granting' \in [Locks -> 0 .. 1]
    BY <1>0, <1>6, <2>0 DEF GrantLock, TypeOK, entryVars, SomeNode
  <2>5. /\ mhead' \in SomeNode
        /\ mstep' \in {"start", "owner", "word", "next", "advance", "done"}
    BY <1>0, <1>6, <2>0 DEF GrantLock, MAt, SomeNode
  <2>6. ManagerTypeOK'
    BY <1>6, ManagerTypeStep DEF GrantLock, MAt, TypeOK, managerVars, ManagerTypeOK
  <2>7. ManagerInv'
    BY <1>6 DEF GrantLock, MAt, GrantReturns, NextLock, managerVars, ControlInv, ManagerInv
  <2> QED BY <1>1, <1>2, <1>3, <2>1, <2>2, <2>3, <2>4, <2>5, <2>6, <2>7 DEF TypeOK, ControlInv
<1> QED BY <1>4, <1>5, <1>6 DEF ManagerMove

\* Calls and returns of the application, and the local mutex.
LEMMA ClientType ==
    ASSUME TypeOK, ControlInv, NEW t \in Threads, ClientStep(t) \/ ClientCall(t),
           UNCHANGED <<managerVars, algoVars>>
    PROVE  TypeOK' /\ ControlInv'
<1>0. UNCHANGED <<managerVars, entryVars, nodeVars, step, word, link, mstep, mhead>>
  BY DEF algoVars, callVars, checkVars
<1>1. ClientTypeOK' /\ ManagerTypeOK'
  BY <1>0, ClientTypeStep DEF TypeOK, ManagerTypeOK, managerVars
<1>2. TypeOK'
  BY <1>0, <1>1 DEF TypeOK, entryVars, nodeVars
<1>3. ManagerInv'
  BY <1>0 DEF ControlInv, ManagerInv, managerVars
<1>4. \A u \in Threads : StepInv(u)'
  <2> TAKE u \in Threads
  <2>1. StepInv(u)
    BY DEF ControlInv
  <2>2. \/ pc'[u] = pc[u]
        \/ /\ pc[u] \in {"idle", "local", "releaseLocal", "cancelLocal"}
           /\ pc'[u] \in {"idle", "local", "request", "release"}
    BY DEF TypeOK, ClientTypeOK, ClientStep, ClientCall, LocalAcquire, LocalRefused, LocalRelease,
       Acquire, Release, Goto, Return
  <2> QED BY <1>0, <2>1, <2>2 DEF StepInv, Passing
<1> QED BY <1>2, <1>3, <1>4 DEF ControlInv

\* Every step is one of these.
LEMMA StepCases ==
    ASSUME [Next]_vars
    PROVE  \/ UNCHANGED vars
           \/ ManagerMove
           \/ \E t \in Threads :
                  /\ ClientStep(t) \/ ClientCall(t)
                  /\ UNCHANGED <<managerVars, algoVars>>
           \/ \E t \in Threads : AlgorithmStep(t) /\ UNCHANGED <<managerVars, checkVars>>
<1>1. CASE Manager
  BY <1>1 DEF Manager, ManagerMove
<1>2. CASE Environment
  BY <1>2 DEF Environment, ManagerMove, algoVars
<1>3. ASSUME NEW t \in Threads, Thread(t)
      PROVE  \/ /\ ClientStep(t) \/ ClientCall(t)
                /\ UNCHANGED <<managerVars, algoVars>>
             \/ AlgorithmStep(t) /\ UNCHANGED <<managerVars, checkVars>>
  BY <1>3 DEF Thread, AlgorithmStep, algoVars
<1> QED BY <1>1, <1>2, <1>3 DEF Next

LEMMA TypeStep == TypeOK /\ ControlInv /\ [Next]_vars => TypeOK' /\ ControlInv'
<1> SUFFICES ASSUME TypeOK, ControlInv, [Next]_vars PROVE TypeOK' /\ ControlInv'
    OBVIOUS
<1>1. CASE UNCHANGED vars
  BY <1>1 DEF TypeOK, vars, clientVars, managerVars, algoVars, entryVars, nodeVars, callVars,
     checkVars, ClientTypeOK, ManagerTypeOK, ControlInv, ManagerInv, StepInv, Passing
<1> QED BY <1>1, StepCases, ManagerType, ClientType, AlgorithmType, ControlAlgorithm

\* Every reachable state is well typed, whatever applications call: in particular every
\* word that is stored names a node, or nobody, as its tail.
THEOREM TypeCorrect == Spec => []TypeOK
  BY TypeInit, TypeStep, PTL DEF Spec

-----------------------------------------------------------------------------
(* The local mutexes and the calls.                                             *)

LEMMA MutexNext ==
    ASSUME TypeOK, MutexInv, NoLeakedMutex, ControlInv, ~StrayRelease, [Next]_vars
    PROVE  MutexInv' /\ NoLeakedMutex'
<1>0. ClientTypeOK
  BY DEF TypeOK
<1>1. CASE UNCHANGED clientVars
  BY <1>1 DEF clientVars, MutexInv, NoLeakedMutex, MutexOwner
<1>2. ASSUME NEW t \in Threads, ClientStep(t) \/ ClientCall(t) PROVE MutexInv' /\ NoLeakedMutex'
  BY <1>0, <1>2, MutexStep
<1>3. ASSUME NEW t \in Threads, AlgorithmStep(t) PROVE MutexInv' /\ NoLeakedMutex'
  <2>0. StepInv(t)
    BY DEF ControlInv
  <2>1. CASE PollGranted(t) \/ PollAgain(t) \/ PollGivesUp(t)
    BY <1>0, <2>1, MutexStep
  <2>2. ASSUME NEW label \in {"poll", "cancelLocal", "releaseLocal"}, Finish(t, label),
               pc[t] \in {"request", "release", "cancel"}
        PROVE  MutexInv' /\ NoLeakedMutex'
    BY <1>0, <2>2, MutexMove DEF Finish, AcquirePCs, ReleasePCs
  <2>3. AfterRelease(t) \in {"cancelLocal", "releaseLocal"}
    BY DEF AfterRelease
  <2> QED BY <1>1, <1>3, <2>0, <2>1, <2>2, <2>3, ClientAlgorithm, StepTells
<1>4. CASE ManagerMove \/ UNCHANGED vars
  BY <1>1, <1>4 DEF ManagerMove, vars
<1> QED BY <1>2, <1>3, <1>4, StepCases

\* Inside the algorithm a thread is the caller of its node, and it is not on its way back
\* from a time-out.
LEMMA InCall ==
    ASSUME QspinInv, OneCall, NEW t \in Threads, AlgorithmStep(t)
    PROVE  /\ pc[t] \in {"request", "poll", "release"} /\ Caller(NodeOf[t]) = t /\ held[t] = {}
           /\ arg[t] = 0 /\ StepInv(t) /\ NodeOf[t] \in Nodes
           /\ \A u \in Threads \ {t} :
                 NodeOf[u] = NodeOf[t] => pc[u] \notin {"request", "poll", "release"} /\ held[u] = {}
<1>1. StepInv(t) /\ CallInv(t)
  BY DEF QspinInv, ControlInv
<1>2. step[t] = "start" => pc[t] \in {"request", "poll", "release", "cancel"}
  BY DEF AlgorithmStep, Prepare, TryFastPath, TakeFastPath, JoinQueue, LinkIn, Poll, CheckOwner,
     FindSuccessor, ClearWord, ClearEntry, AwaitLink, PassOn, ResetRecord, At
<1>3. pc[t] \in {"request", "poll", "release"}
  BY <1>1, <1>2 DEF StepInv, CallInv
<1>4. \A u \in Threads \ {t} :
         NodeOf[u] = NodeOf[t] => pc[u] \notin {"request", "poll", "release"} /\ held[u] = {}
  BY <1>3, OneCaller
<1> QED BY <1>1, <1>3, <1>4 DEF OneCall

\* A poll of a call that does not time out ends only with the grant.
LEMMA PollWaits ==
    ASSUME QspinInv, NEW t \in Threads
    PROVE  /\ ~PollGivesUp(t)
           /\ PollAgain(t) => UNCHANGED clientVars
<1>1. pc[t] = "poll" => mode[t] = "long" /\ spins[t] = 0
  BY DEF QspinInv, CallInv
<1> QED BY <1>1, SpinAssumption DEF PollGivesUp, PollAgain, clientVars

\* The record of a node is written by the thread that is past the node's mutex, except
\* for the grant: only a releaser that wakes its successor stores elsewhere.
LEMMA RecordOfCaller ==
    ASSUME QspinInv, OneCall, NEW t \in Threads, AlgorithmStep(t), NEW n \in Nodes
    PROVE  \/ locked'[n] = locked[n]
           \/ n = NodeOf[t]
           \/ step[t] = "wake" /\ n = link[t] /\ locked'[n] = 2
<1>1. locked \in [Nodes -> 0 .. 2]
  BY DEF QspinInv, TypeOK
<1> QED
  BY <1>1 DEF AlgorithmStep, Prepare, TryFastPath, TakeFastPath, JoinQueue, LinkIn, Poll, CheckOwner,
     FindSuccessor, ClearWord, ClearEntry, AwaitLink, PassOn, ResetRecord, At, nodeVars

LEMMA CallAlgorithm ==
    ASSUME QspinInv, OneCall, NEW t \in Threads, AlgorithmStep(t),
           UNCHANGED <<managerVars, checkVars>>, NEW u \in Threads
    PROVE  CallInv(u)'
<1>0. /\ CallInv(t) /\ CallInv(u) /\ NodeOf[u] \in Nodes /\ StepInv(t)
      /\ locked \in [Nodes -> 0 .. 2] /\ step \in [Threads -> Steps]
      /\ pc \in [Threads -> PCs] /\ spins \in [Threads -> 0 .. SpinLimit + 1]
      /\ mode \in [Threads -> Modes]
  BY NodeOfType DEF QspinInv, ControlInv, TypeOK, ClientTypeOK
<1>1. CASE u # t
  <2>1. pc'[u] = pc[u] /\ step'[u] = step[u] /\ spins'[u] = spins[u] /\ mode'[u] = mode[u]
    BY <1>1, ControlAlgorithm DEF QspinInv
  <2>2. pc[u] \in {"poll", "request"} => NodeOf[u] # NodeOf[t]
    BY <1>1, InCall
  <2>3. pc[u] \in {"poll", "request"} /\ locked[NodeOf[u]] = 2 => locked'[NodeOf[u]] = 2
    BY <1>0, <2>2, RecordOfCaller
  <2>4. step[u] \in {"fastOwner", "fastHead"} => pc[u] = "request"
    BY StepTells DEF QspinInv, ControlInv
  <2> QED BY <1>0, <2>1, <2>3, <2>4 DEF CallInv
<1>2. CASE u = t
  <2>0. step'[t] \in {"fastOwner", "fastHead"} => locked'[NodeOf[t]] = 2
    <3>1. CASE TakeFastPath(t)
      <4>1. CASE step[t] = "fastLocked"
        BY <1>0, NodeOfType, <3>1, <4>1 DEF TakeFastPath, At
      <4>2. CASE step[t] = "fastOwner"
        BY <1>0, <3>1, <4>2 DEF TakeFastPath, At, CallInv
      <4>3. CASE step[t] = "fastHead"
        BY <1>0, <3>1, <4>3 DEF TakeFastPath, At, Finish
      <4> QED BY <3>1, <4>1, <4>2, <4>3 DEF TakeFastPath, At
    <3>2. CASE ~TakeFastPath(t)
      BY <1>0, <3>2 DEF AlgorithmStep, Prepare, TryFastPath, JoinQueue, LinkIn, Poll, CheckOwner,
         FindSuccessor, ClearWord, ClearEntry, AwaitLink, PassOn, ResetRecord, At, Finish
    <3> QED BY <3>1, <3>2
  <2>1. pc[t] \in {"request", "poll", "release"}
    BY InCall
  <2>2. CASE UNCHANGED clientVars
    <3>1. CASE Poll(t)
      <4>1. step'[t] = "waiting" => locked[NodeOf[t]] = 2 /\ locked' = locked
        BY <1>0, <3>1 DEF Poll, At, nodeVars
      <4> QED BY <1>0, <1>2, <2>0, <2>2, <4>1 DEF CallInv, clientVars
    <3>2. CASE ~Poll(t)
      <4>1. pc[t] # "poll"
        BY <1>0, <3>2, StepTells DEF AlgorithmStep, Prepare, TryFastPath, TakeFastPath, JoinQueue,
           LinkIn, CheckOwner, FindSuccessor, ClearWord, ClearEntry, AwaitLink, PassOn, ResetRecord, At
      <4> QED BY <1>0, <1>2, <2>0, <2>2, <4>1 DEF CallInv, clientVars
    <3> QED BY <3>1, <3>2
  <2>3. CASE PollGranted(t)
    BY <1>0, <1>2, <2>0, <2>3, SpinAssumption DEF PollGranted, Return, CallInv
  <2>4. CASE Finish(t, "poll") /\ step[t] \in {"fastHead", "link"}
    BY <1>0, <1>2, <2>0, <2>4, StepTells DEF Finish, Goto, CallInv
  <2>5. CASE /\ Finish(t, AfterRelease(t))
             /\ pc[t] \in {"release", "cancel"} \/ step[t] = "resetWaiting"
    <3>1. pc[t] = "release" /\ AfterRelease(t) = "releaseLocal"
      BY <1>0, <2>1, <2>5, StepTells DEF AfterRelease
    <3> QED BY <1>0, <1>2, <2>0, <2>5, <3>1 DEF Finish, Goto, CallInv
  <2> QED BY <2>2, <2>3, <2>4, <2>5, ClientAlgorithm, PollWaits
<1> QED BY <1>1, <1>2

\* Every step of the manager and of the application leaves a call as it was or begins one.
LEMMA CallOther ==
    ASSUME QspinInv, CallModes \subseteq {"long"}, UNCHANGED callVars,
           \/ ManagerMove
           \/ \E t \in Threads : (ClientStep(t) \/ ClientCall(t)) /\ UNCHANGED algoVars,
           NEW u \in Threads
    PROVE  CallInv(u)'
<1>0. /\ CallInv(u) /\ NodeOf[u] \in Nodes /\ step' = step
      /\ locked \in [Nodes -> 0 .. 2] /\ ClientTypeOK
  BY NodeOfType DEF QspinInv, TypeOK, callVars
<1>1. CASE ManagerMove
  <2>1. UNCHANGED clientVars
    BY <1>1 DEF ManagerMove
  <2>2. locked[NodeOf[u]] = 2 => locked'[NodeOf[u]] = 2
    BY <1>0, <1>1 DEF ManagerMove, CheckGrant, GrantLock, nodeVars
  <2> QED BY <1>0, <2>1, <2>2 DEF CallInv, clientVars
<1>2. ASSUME NEW t \in Threads, ClientStep(t) \/ ClientCall(t), UNCHANGED algoVars
      PROVE  CallInv(u)'
  <2>1. locked' = locked
    BY <1>2 DEF algoVars, nodeVars
  <2>2. CallInv(t)
    BY DEF QspinInv
  <2>3. CASE LocalAcquire(t)
    BY <1>0, <2>1, <2>2, <2>3 DEF LocalAcquire, Goto, CallInv, ClientTypeOK
  <2>4. CASE LocalRefused(t) \/ LocalRelease(t)
    BY <1>0, <2>1, <2>2, <2>4, SpinAssumption
    DEF LocalRefused, LocalRelease, Return, CallInv, ClientTypeOK
  <2>5. ASSUME NEW l \in Locks, Release(t, l) PROVE CallInv(u)'
    BY <1>0, <2>1, <2>2, <2>5 DEF Release, CallInv, ClientTypeOK
  <2>6. ASSUME NEW l \in Locks, NEW m \in CallModes, Acquire(t, l, m) PROVE CallInv(u)'
    BY <1>0, <2>1, <2>2, <2>6 DEF Acquire, CallInv, ClientTypeOK
  <2> QED BY <1>2, <2>3, <2>4, <2>5, <2>6 DEF ClientStep, ClientCall
<1> QED BY <1>1, <1>2

-----------------------------------------------------------------------------
(* The lock word.                                                               *)

\* A thread that has the lock while the manager is not setting the bit has set it, and then
\* the manager has not found the lock free.
LEMMA HasFacts ==
    ASSUME QspinInv, NEW t \in Threads, Has(t)
    PROVE  /\ lock_word[0] # 0 /\ ~Deciding
           /\ ~Granting => IsLocked
           /\ \A u \in Threads \ {t} : ~Has(u)
  BY DEF QspinInv, WordInv, Deciding, Granting

\* A step that leaves the word and the manager alone, and gives nobody the lock.
LEMMA QuietStep ==
    ASSUME QspinInv, lock_word' = lock_word, Deciding' => Deciding, Granting => Granting',
           \A u \in Threads : (Has(u)' => Has(u)) /\ (step'[u] = "wake" => step[u] = "wake")
    PROVE  WordInv'
<1>1. IsLocked' <=> IsLocked
  BY DEF IsLocked
<1> QED BY <1>1 DEF QspinInv, WordInv

\* The other threads have what they had, unless a releaser wakes one of them.
LEMMA OthersKeep ==
    ASSUME QspinInv, OneCall, NEW t \in Threads, AlgorithmStep(t), step[t] # "wake",
           UNCHANGED <<managerVars, checkVars>>, NEW u \in Threads \ {t}
    PROVE  /\ Has(u)' <=> Has(u)
           /\ Asks(u)' <=> Asks(u)
           /\ step'[u] = step[u] /\ held'[u] = held[u]
<1>1. /\ pc'[u] = pc[u] /\ step'[u] = step[u] /\ held'[u] = held[u]
      /\ NodeOf[u] \in Nodes
  BY ControlAlgorithm, NodeOfType DEF QspinInv
<1>2. CASE NodeOf[u] = NodeOf[t]
  <2>1. pc[u] \notin {"request", "poll", "release"}
    BY <1>2, InCall
  <2> QED BY <1>1, <2>1 DEF Has, Passing, Asks
<1>3. CASE NodeOf[u] # NodeOf[t]
  <2>1. locked'[NodeOf[u]] = locked[NodeOf[u]]
    BY <1>1, <1>3, RecordOfCaller
  <2> QED BY <1>1, <2>1 DEF Has, Passing, Asks
<1> QED BY <1>2, <1>3

\* The manager's variables decide what it is at.
LEMMA ManagerStays ==
    ASSUME UNCHANGED <<managerVars, checkVars>>
    PROVE  (Deciding' <=> Deciding) /\ (Granting' <=> Granting)
  BY DEF Deciding, Granting, managerVars, checkVars

\* A thread that is not woken gets the lock only by swapping the word from 0.
LEMMA SelfKeeps ==
    ASSUME QspinInv, OneCall, NEW t \in Threads, AlgorithmStep(t),
           UNCHANGED <<managerVars, checkVars>>
    PROVE  \/ TryFastPath(t) /\ lock_word[arg[t]] = 0
           \/ Has(t)' => Has(t)
<1>0. /\ StepInv(t) /\ CallInv(t) /\ pc[t] \in {"request", "poll", "release"} /\ held[t] = {}
      /\ NodeOf[t] \in Nodes /\ arg[t] = 0
  BY InCall DEF QspinInv
<1>1. /\ locked \in [Nodes -> 0 .. 2] /\ step \in [Threads -> Steps]
      /\ pc \in [Threads -> PCs] /\ held \in [Threads -> SUBSET Locks]
  BY DEF QspinInv, TypeOK, ClientTypeOK
<1>2. CASE Prepare(t)
  BY <1>0, <1>1, <1>2 DEF Prepare, At, clientVars, Has, Passing
<1>3. CASE TryFastPath(t) /\ lock_word[arg[t]] # 0
  <2>1. step[t] = "try" /\ step'[t] = "load" /\ locked' = locked /\ UNCHANGED clientVars
    BY <1>1, <1>3 DEF TryFastPath, At, nodeVars
  <2> QED BY <1>0, <2>1, StepTells DEF clientVars, Has, Passing
<1>4. CASE TakeFastPath(t)
  <2>1. step[t] \in {"fastLocked", "fastOwner", "fastHead"}
    BY <1>4 DEF TakeFastPath, At
  <2> QED BY <2>1 DEF Has
<1>5. CASE JoinQueue(t)
  <2>1. /\ step[t] \in {"load", "join"} /\ step'[t] \in {"load", "join", "link"}
        /\ locked' = locked /\ UNCHANGED clientVars
    BY <1>1, <1>5 DEF JoinQueue, At, nodeVars
  <2> QED BY <1>0, <2>1, StepTells DEF clientVars, Has, Passing
<1>6. CASE LinkIn(t)
  <2>1. /\ step[t] = "link" /\ step'[t] = "start" /\ pc'[t] = "poll"
        /\ locked' = locked /\ held' = held
    BY <1>1, <1>6 DEF LinkIn, Finish, Goto
  <2> QED BY <1>0, <2>1, StepTells DEF Has, Passing
<1>7. CASE Poll(t)
  <2>0. pc[t] = "poll" /\ locked' = locked
    BY <1>7 DEF Poll, nodeVars
  <2>1. CASE step[t] = "waiting"
    BY <1>0, <2>0, <2>1 DEF CallInv, Has
  <2>2. CASE step[t] = "start"
    <3>1. step'[t] \in {"start", "waiting"} /\ UNCHANGED clientVars
      BY <1>1, <1>7, <2>2, PollWaits DEF Poll, At
    <3> QED BY <1>0, <2>0, <2>2, <3>1 DEF clientVars, Has, Passing
  <2> QED BY <1>0, <2>0, <2>1, <2>2 DEF StepInv
<1>8. CASE CheckOwner(t) \/ ResetRecord(t)
  <2>1. AfterRelease(t) \in {"releaseLocal", "cancelLocal"}
    BY DEF AfterRelease
  <2>2. held' = held
    BY <1>8 DEF CheckOwner, ResetRecord, At, Finish, clientVars
  <2>3. \/ step[t] = "start" /\ pc[t] = "release"
        \/ pc'[t] \in {"releaseLocal", "cancelLocal"} /\ step'[t] = "start"
        \/ step'[t] \in {"resetLocked", "resetWaiting"} /\ pc'[t] = "release"
    BY <1>0, <1>1, <1>8, <2>1, StepTells DEF CheckOwner, ResetRecord, At, Finish, Goto, clientVars
  <2> QED BY <1>0, <2>2, <2>3 DEF Has, Passing
<1>9. CASE FindSuccessor(t) \/ ClearWord(t) \/ AwaitLink(t) \/ PassOn(t)
  <2>1. \/ step[t] \in {"succ", "word", "clear", "spin", "force"}
        \/ Passing(t)
    BY <1>9 DEF FindSuccessor, ClearWord, AwaitLink, PassOn, At, Passing
  <2> QED BY <1>0, <2>1, StepTells DEF Has, Passing
<1>10. CASE ClearEntry(t)
  <2>1. /\ step[t] \in {"clearHead", "clearOwner"} /\ step'[t] \in {"clearOwner", "resetNext"}
        /\ held' = held /\ pc' = pc
    BY <1>1, <1>10 DEF ClearEntry, At, clientVars
  <2> QED BY <1>0, <2>1, StepTells DEF Has, Passing
<1> QED
  BY <1>2, <1>3, <1>4, <1>5, <1>6, <1>7, <1>8, <1>9, <1>10 DEF AlgorithmStep

\* acquire_lock swaps the word from 0 only when nobody has the lock and the manager is not
\* about to give it away.
LEMMA WordTryFastPath ==
    ASSUME QspinInv, OneCall, NEW t \in Threads, TryFastPath(t), lock_word[arg[t]] = 0,
           UNCHANGED <<managerVars, checkVars>>
    PROVE  WordInv'
<1>0. AlgorithmStep(t) /\ step[t] = "try" /\ arg[t] = 0 /\ NodeOf[t] \in Nodes
  BY NodeOfType DEF AlgorithmStep, TryFastPath, At, OneCall
<1>1. lock_word \in [Locks -> Words] /\ 0 \in Locks /\ step \in [Threads -> Steps]
  BY ZeroIsLock DEF QspinInv, TypeOK
<1>2. lock_word'[0] = HeldBy(NodeOf[t]) /\ step'[t] = "fastLocked"
  BY <1>0, <1>1 DEF TryFastPath, At
<1>3. lock_word'[0] # 0 /\ IsLocked'
  BY <1>0, <1>2, WordFacts, <1>1 DEF IsLocked
<1>4. \A u \in Threads : ~Has(u)
  BY <1>0, HasFacts
<1>5. \A u \in Threads \ {t} : ~Has(u)'
  BY <1>0, <1>4, OthersKeep
<1>6. ~Deciding'
  BY <1>0, ManagerStays DEF QspinInv, WordInv
<1> QED BY <1>3, <1>5, <1>6 DEF WordInv

\* Joining the queue keeps the locked bit.
LEMMA WordJoinQueue ==
    ASSUME QspinInv, OneCall, NEW t \in Threads, JoinQueue(t),
           UNCHANGED <<managerVars, checkVars>>
    PROVE  WordInv'
<1>0. AlgorithmStep(t) /\ step[t] \in {"load", "join"} /\ arg[t] = 0 /\ NodeOf[t] \in Nodes
  BY NodeOfType DEF AlgorithmStep, JoinQueue, At, OneCall
<1>1. lock_word \in [Locks -> Words] /\ 0 \in Locks /\ step \in [Threads -> Steps]
  BY ZeroIsLock DEF QspinInv, TypeOK
<1>2. step'[t] # "wake"
  BY <1>1 DEF JoinQueue, At
<1>3. \A u \in Threads : (Has(u)' => Has(u)) /\ (step'[u] = "wake" => step[u] = "wake")
  BY <1>0, <1>2, OthersKeep, SelfKeeps DEF TryFastPath, At
<1>4. (Deciding' <=> Deciding) /\ (Granting' <=> Granting)
  BY ManagerStays
<1>5. CASE lock_word' = lock_word
  BY <1>3, <1>4, <1>5, QuietStep
<1>6. CASE lock_word' # lock_word
  <2>1. lock_word'[0] = qspin_set_tail(lock_word[0], qspin_node_to_tail(NodeOf[t]))
    BY <1>0, <1>1, <1>6 DEF JoinQueue
  <2>2. lock_word'[0] # 0 /\ (IsLocked' <=> IsLocked)
    BY <1>0, <1>1, <2>1, WordFacts DEF IsLocked
  <2> QED BY <1>3, <1>4, <2>2 DEF QspinInv, WordInv
<1> QED BY <1>5, <1>6

\* Only the thread that has the lock clears the word.
LEMMA WordClearWord ==
    ASSUME QspinInv, OneCall, NEW t \in Threads, ClearWord(t), UNCHANGED <<managerVars, checkVars>>
    PROVE  WordInv'
<1>0. /\ AlgorithmStep(t) /\ step[t] = "clear" /\ arg[t] = 0 /\ StepInv(t)
      /\ pc[t] = "release" /\ held[t] = {}
  BY InCall, StepTells DEF AlgorithmStep, ClearWord, At
<1>1. lock_word \in [Locks -> Words] /\ 0 \in Locks /\ step \in [Threads -> Steps]
  BY ZeroIsLock DEF QspinInv, TypeOK
<1>2. step'[t] \in {"clearHead", "spin"} /\ UNCHANGED clientVars
  BY <1>0, <1>1 DEF ClearWord, At
<1>3. Has(t)
  BY <1>0 DEF Has
<1>4. \A u \in Threads \ {t} : ~Has(u)' /\ step'[u] # "wake"
  <2> TAKE u \in Threads \ {t}
  <2>1. ~Has(u)
    BY <1>3, HasFacts
  <2>2. StepInv(u) /\ CallInv(u)
    BY DEF QspinInv, ControlInv
  <2>3. step[u] # "wake"
    BY <2>1, <2>2, StepTells DEF Has, Passing, CallInv
  <2> QED BY <1>0, <2>1, <2>3, OthersKeep
<1>5. CASE lock_word' = lock_word
  <2>1. Has(t)' => Has(t)
    BY <1>3
  <2> QED BY <1>2, <1>4, <1>5, <2>1, ManagerStays, QuietStep
<1>6. CASE lock_word' # lock_word
  <2>1. step'[t] = "clearHead"
    BY <1>0, <1>1, <1>6 DEF ClearWord, At
  <2>2. ~Has(t)'
    BY <1>0, <1>2, <2>1 DEF Has, Passing, clientVars
  <2>3. ~Deciding'
    BY <1>3, HasFacts, ManagerStays
  <2> QED BY <1>2, <1>4, <2>2, <2>3 DEF WordInv
<1> QED BY <1>5, <1>6

\* The releaser that hands over keeps the word locked, and wakes one thread at most.
LEMMA WordPassOn ==
    ASSUME QspinInv, OneCall, NEW t \in Threads, PassOn(t), UNCHANGED <<managerVars, checkVars>>
    PROVE  WordInv'
<1>0. /\ AlgorithmStep(t) /\ Passing(t) /\ arg[t] = 0 /\ StepInv(t) /\ link[t] \in Nodes
      /\ pc[t] = "release" /\ held[t] = {}
  BY InCall, StepTells DEF AlgorithmStep, PassOn, At, Passing, StepInv
<1>1. /\ lock_word \in [Locks -> Words] /\ 0 \in Locks /\ step \in [Threads -> Steps]
      /\ locked \in [Nodes -> 0 .. 2]
  BY ZeroIsLock DEF QspinInv, TypeOK
<1>2. UNCHANGED clientVars
  BY DEF PassOn, At
<1>3. Has(t) /\ ~Deciding' /\ (Granting' <=> Granting) /\ (Deciding' <=> Deciding)
  BY <1>0, HasFacts, ManagerStays DEF Has
<1>4. \A u \in Threads \ {t} : ~Has(u) /\ step[u] # "wake"
  <2> TAKE u \in Threads \ {t}
  <2>1. ~Has(u)
    BY <1>3, HasFacts
  <2>2. StepInv(u) /\ CallInv(u)
    BY DEF QspinInv, ControlInv
  <2> QED BY <2>1, <2>2, StepTells DEF Has, Passing, CallInv
<1>5. CASE step[t] \in {"passHead", "passOwner"}
  <2>1. lock_word' = lock_word /\ step'[t] \in {"passOwner", "passWord"}
    BY <1>1, <1>5 DEF PassOn, At
  <2>2. \A u \in Threads : (Has(u)' => Has(u)) /\ (step'[u] = "wake" => step[u] = "wake")
    BY <1>0, <1>3, <1>5, <2>1, OthersKeep
  <2> QED BY <1>3, <2>1, <2>2, QuietStep
<1>6. CASE step[t] = "passWord"
  <2>1. lock_word'[0] = HeldBy(link[t])
    BY <1>0, <1>1, <1>6 DEF PassOn, At
  <2>2. lock_word'[0] # 0 /\ IsLocked'
    BY <1>0, <1>1, <2>1, WordFacts DEF IsLocked
  <2>3. \A u \in Threads \ {t} : ~Has(u)'
    BY <1>0, <1>4, <1>6, OthersKeep
  <2> QED BY <1>3, <2>2, <2>3 DEF WordInv
<1>7. CASE step[t] = "wake"
  <2>1. lock_word' = lock_word /\ step'[t] = "resetNext"
    BY <1>1, <1>7 DEF PassOn, At
  <2>2. IsLocked' /\ lock_word'[0] # 0
    BY <1>3, <1>7, <2>1, HasFacts DEF QspinInv, WordInv, IsLocked
  <2>3. ~Has(t)'
    BY <1>0, <1>2, <2>1 DEF Has, Passing, clientVars
  <2>4. \A u \in Threads \ {t} : Has(u)' => NodeOf[u] = link[t] /\ Caller(NodeOf[u]) = u
    <3> SUFFICES ASSUME NEW u \in Threads \ {t}, Has(u)'
                 PROVE  NodeOf[u] = link[t] /\ Caller(NodeOf[u]) = u
      OBVIOUS
    <3>1. /\ pc'[u] = pc[u] /\ step'[u] = step[u] /\ held'[u] = held[u]
          /\ NodeOf[u] \in Nodes
      BY <1>0, ControlAlgorithm, NodeOfType DEF QspinInv
    <3>2. locked'[NodeOf[u]] # locked[NodeOf[u]] /\ pc[u] \in {"poll", "request"}
      BY <1>4, <3>1 DEF Has, Passing
    <3>3. NodeOf[u] # NodeOf[t]
      BY <1>0, <3>2, InCall
    <3>4. NodeOf[u] = link[t]
      BY <1>0, <3>1, <3>2, <3>3, RecordOfCaller
    <3> QED BY <3>2, <3>4 DEF OneCall
  <2>5. \A u, w \in Threads : Has(u)' /\ Has(w)' => u = w
    BY <2>3, <2>4
  <2> QED BY <1>3, <2>2, <2>5 DEF WordInv
<1> QED BY <1>0, <1>5, <1>6, <1>7 DEF Passing

LEMMA WordAlgorithm ==
    ASSUME QspinInv, OneCall, NEW t \in Threads, AlgorithmStep(t),
           UNCHANGED <<managerVars, checkVars>>
    PROVE  WordInv'
<1>1. CASE JoinQueue(t) \/ ClearWord(t) \/ PassOn(t)
  BY <1>1, WordJoinQueue, WordClearWord, WordPassOn
<1>2. CASE TryFastPath(t) /\ lock_word[arg[t]] = 0
  BY <1>2, WordTryFastPath
<1>3. CASE ~(JoinQueue(t) \/ ClearWord(t) \/ PassOn(t))
           /\ ~(TryFastPath(t) /\ lock_word[arg[t]] = 0)
  <2>0. step \in [Threads -> Steps] /\ StepInv(t)
    BY DEF QspinInv, TypeOK, ControlInv
  <2>1. lock_word' = lock_word
    BY <1>3 DEF AlgorithmStep, Prepare, TryFastPath, TakeFastPath, LinkIn, Poll, CheckOwner,
       FindSuccessor, ClearEntry, AwaitLink, ResetRecord, entryVars
  <2>2. step[t] # "wake" /\ step'[t] # "wake"
    BY <1>3, <2>0, StepTells DEF AlgorithmStep, Prepare, TryFastPath, TakeFastPath, LinkIn, Poll,
       CheckOwner, FindSuccessor, ClearEntry, AwaitLink, ResetRecord, At, Finish
  <2>3. \A u \in Threads : (Has(u)' => Has(u)) /\ (step'[u] = "wake" => step[u] = "wake")
    BY <1>3, <2>2, OthersKeep, SelfKeeps
  <2> QED BY <2>1, <2>3, ManagerStays, QuietStep
<1> QED BY <1>1, <1>2, <1>3

\* A call of the application begins and ends outside the algorithm.
LEMMA WordClient ==
    ASSUME QspinInv, OneCall, ~StrayRelease, NEW t \in Threads, ClientStep(t) \/ ClientCall(t),
           UNCHANGED <<managerVars, algoVars>>
    PROVE  WordInv'
<1>0. /\ lock_word' = lock_word /\ step' = step /\ locked' = locked /\ link' = link
      /\ (Deciding' <=> Deciding) /\ (Granting' <=> Granting)
  BY ManagerStays DEF algoVars, entryVars, nodeVars, callVars
<1>1. \A u \in Threads : Has(u)' => Has(u)
  <2> TAKE u \in Threads
  <2>1. StepInv(u) /\ pc \in [Threads -> PCs] /\ held \in [Threads -> SUBSET Locks]
    BY DEF QspinInv, ControlInv, TypeOK, ClientTypeOK
  <2>2. CASE pc'[u] = pc[u] /\ held'[u] = held[u]
    BY <1>0, <2>2 DEF Has, Passing
  <2>3. CASE pc'[u] # pc[u] \/ held'[u] # held[u]
    <3>1. /\ pc[u] \in {"idle", "local", "releaseLocal", "cancelLocal"}
          /\ \/ pc'[u] \in {"idle", "local", "request"} /\ held'[u] = held[u]
             \/ pc'[u] = "release" /\ held[u] # {}
      BY <2>1, <2>3 DEF ClientStep, ClientCall, LocalAcquire, LocalRefused, LocalRelease, Acquire,
         Release, Goto, Return
    <3>2. step[u] = "start"
      BY <2>1, <3>1 DEF StepInv
    <3> QED BY <1>0, <3>1, <3>2 DEF Has, Passing
  <2> QED BY <2>2, <2>3
<1> QED BY <1>0, <1>1, QuietStep

\* The manager decides only on an unlocked word, and until it has set the bit the grantee's
\* record tells the grantee that it has the lock.
LEMMA WordManager ==
    ASSUME QspinInv, OneCall, OneCall', ManagerMove
    PROVE  WordInv'
<1>0. /\ mlock = 0 /\ 0 \in Locks /\ lock_word \in [Locks -> Words] /\ locked \in [Nodes -> 0 .. 2]
      /\ ManagerInv
  BY ZeroIsLock DEF OneCall, QspinInv, TypeOK, ControlInv
<1>1. UNCHANGED <<clientVars, step, word, link>>
  BY DEF ManagerMove, callVars
<1>2. ASSUME locked' = locked, NEW u \in Threads PROVE Has(u)' <=> Has(u)
  BY <1>1, <1>2 DEF Has, Passing, clientVars
<1>3. CASE (ManagerStep \/ Start \/ StopRequest) /\ UNCHANGED <<entryVars, nodeVars, checkVars>>
  <2>1. lock_word' = lock_word /\ locked' = locked /\ mstep' = mstep
    BY <1>3 DEF entryVars, nodeVars, checkVars
  <2>2. (Deciding' => Deciding) /\ (Granting => Granting')
    BY <1>0, <1>3, <2>1 DEF ManagerInv, ManagerStep, RunLoop, StopReturns, Start, StopRequest,
       Deciding, Granting
  <2> QED BY <1>1, <1>2, <2>1, <2>2, QuietStep
<1>4. CASE CheckGrant
  <2>1. lock_word' = lock_word /\ locked' = locked /\ mpc = "check"
    BY <1>4 DEF CheckGrant, nodeVars
  <2>2. Granting => Granting'
    BY <2>1 DEF Granting
  <2>3. CASE mstep = "start"
    <3>1. Deciding' => qspin_locked(lock_word[0]) = 0 /\ qspin_tail_idx(lock_word[0]) # 0
      BY <1>0, <1>4, <2>3 DEF CheckGrant, MAt, managerVars, CheckReturns, NextLock, Deciding
    <3>2. lock_word[0] = 0 => qspin_tail_idx(lock_word[0]) = 0
      BY DEF qspin_tail_idx
    <3>3. Deciding' => lock_word'[0] # 0 /\ ~IsLocked'
      BY <2>1, <3>1, <3>2 DEF IsLocked
    <3> QED BY <1>1, <1>2, <2>1, <2>2, <3>3 DEF QspinInv, WordInv, IsLocked
  <2>4. CASE mstep # "start"
    <3>1. Deciding
      BY <2>1, <2>4 DEF Deciding
    <3> QED BY <1>1, <1>2, <2>1, <2>2, <3>1, QuietStep
  <2> QED BY <2>3, <2>4
<1>5. CASE GrantLock /\ mstep = "start"
  <2>1. /\ mpc = "grant" /\ lock_word' = lock_word /\ locked' = [locked EXCEPT ![grantee] = 2]
        /\ grantee \in Nodes /\ mstep' = "owner" /\ mpc' = "grant"
    BY <1>0, <1>5 DEF GrantLock, MAt, managerVars, entryVars, ManagerInv
  <2>2. Deciding /\ lock_word[0] # 0 /\ ~IsLocked /\ ~Deciding' /\ Granting'
    BY <1>5, <2>1 DEF Deciding, Granting, QspinInv, WordInv
  <2>3. \A u \in Threads : ~Has(u) /\ step[u] # "wake"
    BY <2>2, HasFacts DEF QspinInv, WordInv
  <2>4. \A u \in Threads : Has(u)' => NodeOf[u] = grantee /\ Caller(NodeOf[u]) = u
    <3> SUFFICES ASSUME NEW u \in Threads, Has(u)'
                 PROVE  NodeOf[u] = grantee /\ Caller(NodeOf[u]) = u
      OBVIOUS
    <3>1. NodeOf[u] \in Nodes /\ ~Has(u)
      BY <2>3, NodeOfType
    <3>2. locked'[NodeOf[u]] # locked[NodeOf[u]] /\ pc[u] \in {"poll", "request"}
      BY <1>1, <3>1 DEF Has, Passing, clientVars
    <3>3. NodeOf[u] = grantee
      BY <1>0, <2>1, <3>1, <3>2
    <3> QED BY <3>2, <3>3 DEF OneCall
  <2>5. \A u, w \in Threads : Has(u)' /\ Has(w)' => u = w
    BY <2>4
  <2> QED BY <1>1, <2>1, <2>2, <2>3, <2>5 DEF WordInv
<1>6. CASE GrantLock /\ mstep = "word"
  <2>1. /\ mpc = "grant" /\ lock_word'[0] = HeldBy(grantee) /\ locked' = locked
        /\ grantee \in Nodes /\ mstep' = "next" /\ mpc' = "grant"
    BY <1>0, <1>6 DEF GrantLock, MAt, managerVars, ManagerInv
  <2>2. lock_word'[0] # 0 /\ IsLocked' /\ ~Deciding'
    BY <1>0, <2>1, WordFacts DEF IsLocked, Deciding
  <2> QED BY <1>1, <1>2, <2>1, <2>2 DEF QspinInv, WordInv
<1>7. CASE GrantLock /\ mstep \notin {"start", "word"}
  <2>1. mpc = "grant" /\ lock_word' = lock_word /\ locked' = locked
    BY <1>7 DEF GrantLock, MAt, entryVars
  <2>2. ~Deciding' /\ (Granting => Granting')
    BY <1>7, <2>1 DEF GrantLock, MAt, managerVars, GrantReturns, NextLock, Deciding, Granting
  <2> QED BY <1>1, <1>2, <2>1, <2>2, QuietStep
<1> QED BY <1>3, <1>4, <1>5, <1>6, <1>7 DEF ManagerMove

-----------------------------------------------------------------------------
(* The theorems.                                                                *)

LEMMA QspinInvInit == Init => QspinInv
<1> SUFFICES ASSUME Init PROVE QspinInv
    OBVIOUS
<1>1. TypeOK /\ ControlInv
  BY TypeInit
<1>2. MutexInv /\ NoLeakedMutex
  BY NodeOfType DEF Init, ClientInit, MutexInv, NoLeakedMutex, AcquirePCs, ReleasePCs
<1>3. \A t \in Threads : CallInv(t)
  BY DEF Init, ClientInit, CallInv
<1>4. \A t \in Threads : ~Has(t) /\ step[t] = "start"
  BY NodeOfType DEF Init, ClientInit, Has, Passing
<1>5. ~Deciding
  BY DEF Init, ManagerInit, Deciding
<1>6. WordInv
  BY <1>4, <1>5 DEF WordInv
<1> QED BY <1>1, <1>2, <1>3, <1>6 DEF QspinInv

LEMMA QspinInvStep ==
    ASSUME LockCount = 1, CallModes \subseteq {"long"}, ~StrayRelease, QspinInv, [Next]_vars
    PROVE  QspinInv'
<1>0. TypeOK /\ ControlInv /\ MutexInv /\ NoLeakedMutex
  BY DEF QspinInv
<1>1. TypeOK' /\ ControlInv'
  BY <1>0, TypeStep
<1>2. MutexInv' /\ NoLeakedMutex'
  BY <1>0, MutexNext
<1>3. ClientTypeOK /\ ManagerTypeOK /\ ClientTypeOK' /\ ManagerTypeOK'
  BY <1>0, <1>1 DEF TypeOK
<1>4. OneCall
  BY <1>0, <1>3, OneCallHolds
<1>5. OneCall'
  BY <1>2, <1>3, OneCallHolds, PTL
<1>6. CASE UNCHANGED vars
  <2>1. \A t \in Threads : CallInv(t)'
    BY <1>6 DEF QspinInv, CallInv, vars, clientVars, algoVars, nodeVars, callVars
  <2>2. \A t \in Threads : Has(t)' <=> Has(t)
    BY <1>6 DEF Has, Passing, vars, clientVars, algoVars, nodeVars, callVars
  <2>3. lock_word' = lock_word /\ step' = step /\ UNCHANGED <<managerVars, checkVars>>
    BY <1>6 DEF vars, algoVars, entryVars, callVars
  <2>4. WordInv'
    BY <2>2, <2>3, ManagerStays, QuietStep
  <2> QED BY <1>1, <1>2, <2>1, <2>4 DEF QspinInv
<1>7. CASE ManagerMove
  <2>1. WordInv'
    BY <1>4, <1>5, <1>7, WordManager
  <2>2. \A u \in Threads : CallInv(u)'
    BY <1>7, CallOther DEF ManagerMove
  <2> QED BY <1>1, <1>2, <2>1, <2>2 DEF QspinInv
<1>8. ASSUME NEW t \in Threads, ClientStep(t) \/ ClientCall(t), UNCHANGED <<managerVars, algoVars>>
      PROVE  QspinInv'
  <2>1. WordInv'
    BY <1>4, <1>8, WordClient
  <2>2. \A u \in Threads : CallInv(u)'
    BY <1>8, CallOther DEF algoVars
  <2> QED BY <1>1, <1>2, <2>1, <2>2 DEF QspinInv
<1>9. ASSUME NEW t \in Threads, AlgorithmStep(t), UNCHANGED <<managerVars, checkVars>>
      PROVE  QspinInv'
  <2>1. WordInv'
    BY <1>4, <1>9, WordAlgorithm
  <2>2. \A u \in Threads : CallInv(u)'
    BY <1>4, <1>9, CallAlgorithm
  <2> QED BY <1>1, <1>2, <2>1, <2>2 DEF QspinInv
<1> QED BY <1>6, <1>7, <1>8, <1>9, StepCases

\* With one lock, calls that do not time out and no stray releases, the locked bit, the
\* manager and the calls agree on who has the lock.
THEOREM QspinInvCorrect ==
    ASSUME LockCount = 1, CallModes \subseteq {"long"}, ~StrayRelease
    PROVE  Spec => []QspinInv
<1>1. Init => QspinInv
  BY QspinInvInit
<1>2. QspinInv /\ [Next]_vars => QspinInv'
  BY QspinInvStep
<1> QED BY <1>1, <1>2, PTL DEF Spec

\* No two threads hold the lock, on however many nodes they run, although a grant reaches
\* the waiter before the word says so and a releaser may give up and leave the word locked.
THEOREM ExclusionHolds ==
    ASSUME LockCount = 1, CallModes \subseteq {"long"}, ~StrayRelease
    PROVE  Spec => []MutualExclusion
<1>1. QspinInv => MutualExclusion
  <2> SUFFICES ASSUME QspinInv, NEW t \in Threads, NEW u \in Threads, t # u
               PROVE  held[t] \cap held[u] = {}
    BY DEF MutualExclusion
  <2>1. ~(Has(t) /\ Has(u))
    BY DEF QspinInv, WordInv
  <2> QED BY <2>1 DEF Has
<1> QED BY <1>1, QspinInvCorrect, PTL

-----------------------------------------------------------------------------
(* Refinement: the algorithm implements GlobalLockSpec.                         *)

Askers == NodesOf({t \in Threads : Asks(t)})
Owners == NodesOf({t \in Threads : Owning(t)})
Users == NodesOf({t \in Threads : held[t] # {}})

\* What a step of the abstract service does to the three sets.
LEMMA AbstractStep ==
    ASSUME Locks = {0}, NEW n \in Nodes,
           \/ /\ n \notin Askers /\ n \notin Owners
              /\ Askers' = Askers \cup {n} /\ Owners' = Owners /\ Users' = Users
           \/ /\ Owners = {} /\ n \in Askers
              /\ Askers' = Askers \ {n} /\ Owners' = {n} /\ Users' = Users
           \/ /\ Owners = {n} /\ n \notin Users
              /\ Askers' = Askers /\ Owners' = Owners /\ Users' = Users \cup {n}
           \/ /\ n \in Users
              /\ Askers' = Askers /\ Owners' = Owners /\ Users' = Users \ {n}
           \/ /\ Owners = {n} /\ n \notin Users
              /\ Askers' = Askers /\ Owners' = {} /\ Users' = Users
    PROVE  Abstract!Next
<1> USE DEF Askers, Owners, Users
<1>0. 0 \in Locks /\ OneOf({}) = NoNode /\ OneOf({n}) = n
  BY DEF OneOf
<1>1. CASE /\ n \notin Askers /\ n \notin Owners
           /\ Askers' = Askers \cup {n} /\ Owners' = Owners /\ Users' = Users
  <2>1. OneOf(Owners) # n
    <3>1. Owners # {} => OneOf(Owners) \in Owners
      BY DEF OneOf
    <3> QED BY <1>1, <3>1, NoNodeAssumption DEF OneOf
  <2> QED BY <1>0, <1>1, <2>1 DEF Abstract!Next, Abstract!Request
<1>2. CASE /\ Owners = {} /\ n \in Askers
           /\ Askers' = Askers \ {n} /\ Owners' = {n} /\ Users' = Users
  BY <1>0, <1>2 DEF Abstract!Next, Abstract!Grant
<1>3. CASE /\ Owners = {n} /\ n \notin Users
           /\ Askers' = Askers /\ Owners' = Owners /\ Users' = Users \cup {n}
  BY <1>0, <1>3 DEF Abstract!Next, Abstract!Enter
<1>4. CASE /\ n \in Users
           /\ Askers' = Askers /\ Owners' = Owners /\ Users' = Users \ {n}
  BY <1>0, <1>4 DEF Abstract!Next, Abstract!Leave
<1>5. CASE /\ Owners = {n} /\ n \notin Users
           /\ Askers' = Askers /\ Owners' = {} /\ Users' = Users
  BY <1>0, <1>5 DEF Abstract!Next, Abstract!Free
<1> QED BY <1>1, <1>2, <1>3, <1>4, <1>5

\* What the service does not see.
LEMMA AbstractStutter ==
    ASSUME \A t \in Threads : /\ Asks(t)' <=> Asks(t)
                              /\ Owning(t)' <=> Owning(t)
                              /\ held'[t] = held[t]
    PROVE  UNCHANGED Abstract!absVars
<1>1. {t \in Threads : Asks(t)'} = {t \in Threads : Asks(t)}
  OBVIOUS
<1>2. {t \in Threads : Owning(t)'} = {t \in Threads : Owning(t)}
  OBVIOUS
<1>3. {t \in Threads : held'[t] # {}} = {t \in Threads : held[t] # {}}
  OBVIOUS
<1> QED BY <1>1, <1>2, <1>3 DEF Abstract!absVars, NodesOf

\* A thread that asks, owns or uses is its node's only such thread.
LEMMA SeenIsCaller ==
    ASSUME QspinInv, OneCall, NEW t \in Threads, Asks(t) \/ Has(t) \/ held[t] # {}
    PROVE  /\ NodeOf[t] \in Nodes /\ Caller(NodeOf[t]) = t
           /\ \A u \in Threads \ {t} :
                 NodeOf[u] = NodeOf[t] => ~Asks(u) /\ ~Has(u) /\ held[u] = {}
<1>1. \A u \in Threads : Asks(u) \/ Has(u) \/ held[u] # {} => Caller(NodeOf[u]) = u
  <2> TAKE u \in Threads
  <2>1. StepInv(u) /\ CallInv(u)
    BY DEF QspinInv, ControlInv
  <2>2. Asks(u) \/ Has(u) => pc[u] \in {"request", "poll", "release"} \/ held[u] # {}
    BY <2>1, StepTells DEF Asks, Has
  <2> QED BY <2>2 DEF OneCall
<1> QED BY <1>1, NodeOfType

\* A step that the service sees at one thread only, which is its node's only one.
LEMMA SetsOfOne ==
    ASSUME NEW t \in Threads, NodeOf[t] \in Nodes,
           \A u \in Threads \ {t} : /\ Asks(u)' <=> Asks(u)
                                    /\ Owning(u)' <=> Owning(u)
                                    /\ held'[u] = held[u]
                                    /\ NodeOf[u] = NodeOf[t] =>
                                          ~Asks(u) /\ ~Owning(u) /\ held[u] = {}
    PROVE  /\ NodeOf[t] \in Askers <=> Asks(t)
           /\ NodeOf[t] \in Owners <=> Owning(t)
           /\ NodeOf[t] \in Users <=> held[t] # {}
           /\ Askers' = IF Asks(t)' THEN Askers \cup {NodeOf[t]} ELSE Askers \ {NodeOf[t]}
           /\ Owners' = IF Owning(t)' THEN Owners \cup {NodeOf[t]} ELSE Owners \ {NodeOf[t]}
           /\ Users' = IF held'[t] # {} THEN Users \cup {NodeOf[t]} ELSE Users \ {NodeOf[t]}
<1>1. /\ NodeOf[t] \in Askers <=> Asks(t)
      /\ Askers' = IF Asks(t)' THEN Askers \cup {NodeOf[t]} ELSE Askers \ {NodeOf[t]}
  BY DEF Askers, NodesOf
<1>2. /\ NodeOf[t] \in Owners <=> Owning(t)
      /\ Owners' = IF Owning(t)' THEN Owners \cup {NodeOf[t]} ELSE Owners \ {NodeOf[t]}
  BY DEF Owners, NodesOf
<1>3. /\ NodeOf[t] \in Users <=> held[t] # {}
      /\ Users' = IF held'[t] # {} THEN Users \cup {NodeOf[t]} ELSE Users \ {NodeOf[t]}
  BY DEF Users, NodesOf
<1> QED BY <1>1, <1>2, <1>3

\* If one thread owns the lock, its node is the owner; if none does, nobody is.
LEMMA OwnersOfOne ==
    ASSUME QspinInv
    PROVE  /\ \A t \in Threads : Owning(t) => Owners = {NodeOf[t]}
           /\ (\A t \in Threads : ~Owning(t)) => Owners = {}
  BY NodeOfType, HasFacts DEF Owners, NodesOf, Owning

\* What a step inside the algorithm does for its thread, when it wakes nobody: it asks,
\* is given the lock on the fast path, takes note of it, or lets go of it.
Keeps(t) == (Asks(t)' <=> Asks(t)) /\ (Owning(t)' <=> Owning(t)) /\ held'[t] = held[t]
Starts(t) == ~Asks(t) /\ ~Owning(t) /\ Asks(t)' /\ ~Owning(t)' /\ held'[t] = held[t]
IsGiven(t) == /\ Asks(t) /\ \A u \in Threads : ~Owning(u)
              /\ ~Asks(t)' /\ Owning(t)' /\ held'[t] = held[t]
Notes(t) == /\ ~Asks(t) /\ Owning(t) /\ held[t] = {}
            /\ ~Asks(t)' /\ Owning(t)' /\ held'[t] # {}
LetsGo(t) == /\ ~Asks(t) /\ Owning(t) /\ held[t] = {}
             /\ ~Asks(t)' /\ ~Owning(t)' /\ held'[t] = {}

LEMMA SelfMoves ==
    ASSUME QspinInv, OneCall, NEW t \in Threads, AlgorithmStep(t), step[t] # "wake",
           UNCHANGED <<managerVars, checkVars>>
    PROVE  Keeps(t) \/ Starts(t) \/ IsGiven(t) \/ Notes(t) \/ LetsGo(t)
<1> USE DEF Keeps, Owning
<1>0. /\ StepInv(t) /\ CallInv(t) /\ pc[t] \in {"request", "poll", "release"} /\ held[t] = {}
      /\ NodeOf[t] \in Nodes /\ arg[t] = 0
  BY InCall DEF QspinInv
<1>1. /\ locked \in [Nodes -> 0 .. 2] /\ step \in [Threads -> Steps]
      /\ pc \in [Threads -> PCs] /\ held \in [Threads -> SUBSET Locks]
      /\ arg \in [Threads -> Locks]
  BY DEF QspinInv, TypeOK, ClientTypeOK
<1>2. CASE Prepare(t)
  <2>0. pc[t] = "request" /\ UNCHANGED clientVars
    BY <1>2 DEF Prepare, At
  <2>1. CASE step[t] = "start"
    <3>1. step'[t] = "locked" /\ locked' = locked
      BY <1>1, <1>2, <2>1 DEF Prepare, At
    <3> QED BY <1>0, <2>0, <2>1, <3>1 DEF clientVars, Has, Passing, Asks
  <2>2. CASE step[t] = "locked"
    <3>1. step'[t] = "waiting" /\ locked'[NodeOf[t]] = 1
      BY <1>0, <1>1, <1>2, <2>2 DEF Prepare, At
    <3> QED BY <1>0, <2>0, <2>2, <3>1 DEF clientVars, Has, Passing, Asks, Starts
  <2>3. CASE step[t] = "waiting"
    <3>1. step'[t] = "try" /\ locked' = locked
      BY <1>1, <1>2, <2>3 DEF Prepare, At
    <3> QED BY <1>0, <2>0, <2>3, <3>1 DEF clientVars, Has, Passing, Asks
  <2> QED BY <1>2, <2>1, <2>2, <2>3 DEF Prepare, At
<1>3. CASE TryFastPath(t)
  <2>0. step[t] = "try" /\ pc[t] = "request" /\ locked' = locked /\ UNCHANGED clientVars
    BY <1>0, <1>3, StepTells DEF TryFastPath, At, nodeVars
  <2>1. CASE lock_word[arg[t]] = 0
    <3>1. step'[t] = "fastLocked"
      BY <1>1, <1>3, <2>1 DEF TryFastPath, At
    <3>2. \A u \in Threads : ~Has(u)
      BY <1>0, <2>1, HasFacts
    <3>3. locked[NodeOf[t]] # 2
      BY <2>0, <3>2 DEF Has
    <3> QED BY <1>0, <2>0, <3>1, <3>2, <3>3 DEF clientVars, Has, Asks, IsGiven
  <2>2. CASE lock_word[arg[t]] # 0
    <3>1. step'[t] = "load"
      BY <1>1, <1>3, <2>2 DEF TryFastPath, At
    <3> QED BY <1>0, <2>0, <3>1 DEF clientVars, Has, Passing, Asks
  <2> QED BY <2>1, <2>2
<1>4. CASE TakeFastPath(t)
  <2>0. step[t] \in {"fastLocked", "fastOwner", "fastHead"} /\ held' = held /\ pc[t] = "request"
    BY <1>0, <1>4, StepTells DEF TakeFastPath, At, Finish, clientVars
  <2>1. \/ step'[t] \in {"fastOwner", "fastHead"} /\ pc'[t] = "request"
        \/ /\ step[t] = "fastHead" /\ step'[t] = "start" /\ pc'[t] = "poll"
           /\ locked'[NodeOf[t]] = 2
    BY <1>0, <1>1, <1>4, <2>0 DEF TakeFastPath, At, Finish, Goto, clientVars, CallInv
  <2>2. Has(t) /\ Has(t)' /\ ~Asks(t) /\ ~Asks(t)' /\ step'[t] # "wake"
    BY <2>0, <2>1 DEF Has, Asks
  <2> QED BY <2>0, <2>2
<1>5. CASE JoinQueue(t)
  <2>1. /\ step[t] \in {"load", "join"} /\ step'[t] \in {"load", "join", "link"}
        /\ locked' = locked /\ UNCHANGED clientVars
    BY <1>1, <1>5 DEF JoinQueue, At, nodeVars
  <2> QED BY <1>0, <2>1, StepTells DEF clientVars, Has, Passing, Asks
<1>6. CASE LinkIn(t)
  <2>1. /\ step[t] = "link" /\ step'[t] = "start" /\ pc'[t] = "poll"
        /\ locked' = locked /\ held' = held
    BY <1>1, <1>6 DEF LinkIn, Finish, Goto
  <2> QED BY <1>0, <2>1, StepTells DEF Has, Passing, Asks
<1>7. CASE Poll(t)
  <2>0. pc[t] = "poll" /\ locked' = locked
    BY <1>7 DEF Poll, nodeVars
  <2>1. CASE PollGranted(t) /\ step[t] = "waiting"
    <3>1. held'[t] # {} /\ pc'[t] = "idle"
      BY <1>0, <1>1, <2>1 DEF PollGranted, Return
    <3>2. step'[t] # "wake"
      BY <1>1, <1>7 DEF Poll, At
    <3> QED BY <1>0, <2>0, <2>1, <3>1, <3>2 DEF CallInv, Has, Asks, Notes
  <2>2. CASE UNCHANGED clientVars
    <3>1. step'[t] \in {"start", "waiting"} /\ step[t] \in {"start", "waiting"}
      BY <1>0, <1>1, <1>7, <2>0 DEF Poll, At, StepInv
    <3> QED BY <1>0, <2>0, <2>2, <3>1 DEF clientVars, Has, Passing, Asks
  <2> QED BY <1>7, <2>1, <2>2, PollWaits DEF Poll, At
<1>8. CASE CheckOwner(t) \/ ResetRecord(t)
  <2>0. pc[t] = "release"
    BY <1>0, <1>8, StepTells DEF CheckOwner, ResetRecord, At
  <2>1. AfterRelease(t) = "releaseLocal" /\ held' = held
    BY <1>8, <2>0 DEF AfterRelease, CheckOwner, ResetRecord, At, Finish, clientVars
  <2>2. \/ step[t] = "start" /\ step'[t] = "succ" /\ pc'[t] = "release"
        \/ step[t] = "start" /\ step'[t] = "start" /\ pc'[t] = "releaseLocal"
        \/ /\ step[t] \in {"resetNext", "resetLocked", "resetWaiting"}
           /\ \/ step'[t] \in {"resetLocked", "resetWaiting"} /\ pc'[t] = "release"
              \/ step'[t] = "start" /\ pc'[t] = "releaseLocal"
    BY <1>1, <1>8, <2>0, <2>1 DEF CheckOwner, ResetRecord, At, Finish, Goto, clientVars
  <2> QED BY <1>0, <2>0, <2>1, <2>2 DEF Has, Passing, Asks, LetsGo
<1>9. CASE FindSuccessor(t) \/ ClearWord(t) \/ ClearEntry(t) \/ AwaitLink(t) \/ PassOn(t)
  <2>0. pc[t] = "release" /\ UNCHANGED clientVars
    BY <1>0, <1>9, StepTells DEF FindSuccessor, ClearWord, ClearEntry, AwaitLink, PassOn, At
  <2>1. \/ /\ step[t] \in {"succ", "word", "clear", "spin", "force", "passHead", "passOwner",
                          "passWord"}
           /\ step'[t] \in {"word", "clear", "spin", "force", "passHead", "passOwner", "passWord",
                            "clearHead", "resetLocked", "wake"}
        \/ /\ step[t] \in {"clearHead", "clearOwner"}
           /\ step'[t] \in {"clearOwner", "resetNext"}
    BY <1>1, <1>9 DEF FindSuccessor, ClearWord, ClearEntry, AwaitLink, PassOn, At
  <2> QED BY <1>0, <2>0, <2>1 DEF clientVars, Has, Passing, Asks, LetsGo
<1> QED
  BY <1>2, <1>3, <1>4, <1>5, <1>6, <1>7, <1>8, <1>9 DEF AlgorithmStep

\* So it is a step of the service.
LEMMA RefinesMove ==
    ASSUME QspinInv, OneCall, NEW t \in Threads, AlgorithmStep(t), step[t] # "wake",
           UNCHANGED <<managerVars, checkVars>>
    PROVE  Abstract!Next \/ UNCHANGED Abstract!absVars
<1>0. Locks = {0} /\ NodeOf[t] \in Nodes
  BY NodeOfType DEF OneCall
<1>1. \A u \in Threads \ {t} : /\ Asks(u)' <=> Asks(u)
                               /\ Owning(u)' <=> Owning(u)
                               /\ held'[u] = held[u]
  BY OthersKeep DEF Owning
<1>2. CASE Keeps(t)
  BY <1>1, <1>2, AbstractStutter DEF Keeps
<1>3. CASE Starts(t) \/ IsGiven(t) \/ Notes(t) \/ LetsGo(t)
  <2>1. Asks(t) \/ Owning(t) => 
          \A u \in Threads \ {t} :
             NodeOf[u] = NodeOf[t] => ~Asks(u) /\ ~Owning(u) /\ held[u] = {}
    BY SeenIsCaller DEF Owning
  <2>2. ~Asks(t) /\ ~Owning(t) => 
          \A u \in Threads \ {t} :
             NodeOf[u] = NodeOf[t] => ~Asks(u) /\ ~Owning(u) /\ held[u] = {}
    BY SeenIsCaller, InCall DEF Owning
  <2>3. \A u \in Threads \ {t} :
           NodeOf[u] = NodeOf[t] => ~Asks(u) /\ ~Owning(u) /\ held[u] = {}
    BY <2>1, <2>2
  <2>4. /\ NodeOf[t] \in Askers <=> Asks(t)
        /\ NodeOf[t] \in Owners <=> Owning(t)
        /\ NodeOf[t] \in Users <=> held[t] # {}
        /\ Askers' = IF Asks(t)' THEN Askers \cup {NodeOf[t]} ELSE Askers \ {NodeOf[t]}
        /\ Owners' = IF Owning(t)' THEN Owners \cup {NodeOf[t]} ELSE Owners \ {NodeOf[t]}
        /\ Users' = IF held'[t] # {} THEN Users \cup {NodeOf[t]} ELSE Users \ {NodeOf[t]}
    BY <1>0, <1>1, <2>3, SetsOfOne
  <2>5. CASE Starts(t)
    <3>1. /\ NodeOf[t] \notin Askers /\ NodeOf[t] \notin Owners
          /\ Askers' = Askers \cup {NodeOf[t]} /\ Owners' = Owners /\ Users' = Users
      BY <2>4, <2>5 DEF Starts
    <3> QED BY <1>0, <3>1, AbstractStep
  <2>6. CASE IsGiven(t)
    <3>1. Owners = {}
      BY <2>6, OwnersOfOne DEF IsGiven
    <3>2. /\ NodeOf[t] \in Askers /\ Askers' = Askers \ {NodeOf[t]}
          /\ Owners' = {NodeOf[t]} /\ Users' = Users
      BY <2>4, <2>6, <3>1 DEF IsGiven
    <3> QED BY <1>0, <3>1, <3>2, AbstractStep
  <2>7. CASE Notes(t)
    <3>1. Owners = {NodeOf[t]}
      BY <2>7, OwnersOfOne DEF Notes
    <3>2. /\ NodeOf[t] \notin Users /\ Askers' = Askers /\ Owners' = Owners
          /\ Users' = Users \cup {NodeOf[t]}
      BY <2>4, <2>7, <3>1 DEF Notes
    <3> QED BY <1>0, <3>1, <3>2, AbstractStep
  <2>8. CASE LetsGo(t)
    <3>1. Owners = {NodeOf[t]}
      BY <2>8, OwnersOfOne DEF LetsGo
    <3>2. /\ NodeOf[t] \notin Users /\ Askers' = Askers /\ Owners' = {} /\ Users' = Users
      BY <2>4, <2>8, <3>1 DEF LetsGo
    <3> QED BY <1>0, <3>1, <3>2, AbstractStep
  <2> QED BY <1>3, <2>5, <2>6, <2>7, <2>8
<1> QED BY <1>2, <1>3, SelfMoves

\* Storing locked = 2 at a node while nobody owns the lock gives the lock to the node if
\* it asks, and is not seen if it does not.
LEMMA RefinesWake ==
    ASSUME QspinInv, OneCall, NEW n \in Nodes, \A u \in Threads : ~Owning(u),
           locked' = [locked EXCEPT ![n] = 2], UNCHANGED clientVars,
           \A u \in Threads : \/ step'[u] = step[u]
                              \/ pc[u] = "release" /\ step[u] = "wake" /\ step'[u] = "resetNext"
    PROVE  Abstract!Next \/ UNCHANGED Abstract!absVars
<1>0. Locks = {0} /\ locked \in [Nodes -> 0 .. 2]
  BY DEF OneCall, QspinInv, TypeOK
<1>1. ASSUME NEW u \in Threads, NodeOf[u] # n \/ ~Asks(u)
      PROVE  (Asks(u)' <=> Asks(u)) /\ (Owning(u)' <=> Owning(u)) /\ held'[u] = held[u]
  <2>1. /\ locked'[NodeOf[u]] = IF NodeOf[u] = n THEN 2 ELSE locked[NodeOf[u]]
        /\ pc'[u] = pc[u] /\ held'[u] = held[u]
    BY <1>0, NodeOfType DEF clientVars
  <2>2. CASE step'[u] = step[u]
    BY <1>1, <2>1, <2>2 DEF Asks, Owning, Has, Passing
  <2>3. CASE pc[u] = "release" /\ step[u] = "wake" /\ step'[u] = "resetNext"
    <3>1. held[u] = {}
      BY <2>3 DEF OneCall
    <3> QED BY <2>1, <2>3, <3>1 DEF Asks, Owning, Has, Passing
  <2> QED BY <2>2, <2>3
<1>2. CASE \E w \in Threads : NodeOf[w] = n /\ Asks(w)
  <2>1. PICK w \in Threads : NodeOf[w] = n /\ Asks(w)
    BY <1>2
  <2>2. \A u \in Threads \ {w} : NodeOf[u] = n => ~Asks(u) /\ ~Owning(u) /\ held[u] = {}
    BY <2>1, SeenIsCaller DEF Owning
  <2>3. \A u \in Threads \ {w} : /\ Asks(u)' <=> Asks(u)
                                 /\ Owning(u)' <=> Owning(u)
                                 /\ held'[u] = held[u]
    BY <1>1, <2>2
  <2>4. ~Asks(w)' /\ Owning(w)' /\ held'[w] = held[w]
    <3>1. /\ locked'[NodeOf[w]] = 2 /\ pc'[w] = pc[w] /\ held'[w] = held[w]
          /\ pc[w] \in {"poll", "request"} /\ StepInv(w)
      BY <1>0, <2>1 DEF clientVars, Asks, QspinInv, ControlInv
    <3>2. step'[w] = step[w] /\ step[w] # "wake"
      BY <3>1 DEF StepInv
    <3> QED BY <2>1, <3>1, <3>2 DEF Asks, Owning, Has
  <2>5. /\ n \in Askers <=> Asks(w)
        /\ Askers' = IF Asks(w)' THEN Askers \cup {n} ELSE Askers \ {n}
        /\ Owners' = IF Owning(w)' THEN Owners \cup {n} ELSE Owners \ {n}
        /\ Users' = IF held'[w] # {} THEN Users \cup {n} ELSE Users \ {n}
        /\ n \in Users <=> held[w] # {}
    BY <2>1, <2>2, <2>3, SetsOfOne
  <2>6. Owners = {}
    BY OwnersOfOne
  <2>7. n \in Askers /\ Askers' = Askers \ {n} /\ Owners' = {n} /\ Users' = Users
    BY <2>1, <2>4, <2>5, <2>6
  <2> QED BY <1>0, <2>6, <2>7, AbstractStep
<1>3. CASE ~\E w \in Threads : NodeOf[w] = n /\ Asks(w)
  BY <1>1, <1>3, AbstractStutter
<1> QED BY <1>2, <1>3

\* A step inside the algorithm.
LEMMA RefinesAlgorithm ==
    ASSUME QspinInv, OneCall, NEW t \in Threads, AlgorithmStep(t),
           UNCHANGED <<managerVars, checkVars>>
    PROVE  Abstract!Next \/ UNCHANGED Abstract!absVars
<1>1. CASE step[t] # "wake"
  BY <1>1, RefinesMove
<1>2. CASE step[t] = "wake"
  <2>0. /\ StepInv(t) /\ pc[t] = "release" /\ step \in [Threads -> Steps]
        /\ held[t] = {} /\ pc[t] \in {"request", "poll", "release"}
    BY <1>2, InCall, StepTells DEF QspinInv, TypeOK
  <2>1. PassOn(t)
    BY <1>2 DEF AlgorithmStep, Prepare, TryFastPath, TakeFastPath, JoinQueue, LinkIn, Poll,
       CheckOwner, FindSuccessor, ClearWord, ClearEntry, AwaitLink, ResetRecord, At
  <2>2. /\ locked' = [locked EXCEPT ![link[t]] = 2] /\ UNCHANGED clientVars
        /\ step' = [step EXCEPT ![t] = "resetNext"]
    BY <1>2, <2>1 DEF PassOn, At
  <2>3. link[t] \in Nodes /\ Has(t)
    BY <1>2, <2>0 DEF StepInv, Passing, Has
  <2>4. \A u \in Threads : ~Owning(u)
    BY <1>2, <2>3, HasFacts DEF Owning
  <2>5. \A u \in Threads :
           \/ step'[u] = step[u]
           \/ pc[u] = "release" /\ step[u] = "wake" /\ step'[u] = "resetNext"
    BY <1>2, <2>0, <2>2
  <2> QED BY <2>2, <2>3, <2>4, <2>5, RefinesWake
<1> QED BY <1>1, <1>2

\* The service sees the manager when it wakes the grantee, and only then.
LEMMA RefinesManager ==
    ASSUME QspinInv, OneCall, ManagerMove
    PROVE  Abstract!Next \/ UNCHANGED Abstract!absVars
<1>1. UNCHANGED clientVars /\ step' = step
  BY DEF ManagerMove, callVars
<1>2. CASE GrantLock /\ mstep = "start"
  <2>1. mpc = "grant" /\ locked' = [locked EXCEPT ![grantee] = 2] /\ grantee \in Nodes
    BY <1>2 DEF GrantLock, MAt, QspinInv, ControlInv, ManagerInv
  <2>2. Deciding
    BY <1>2, <2>1 DEF Deciding
  <2>3. \A u \in Threads : ~Owning(u)
    BY <2>2, HasFacts DEF Owning
  <2> QED BY <1>1, <2>1, <2>3, RefinesWake
<1>3. CASE locked' = locked
  <2>1. \A u \in Threads : /\ Asks(u)' <=> Asks(u)
                           /\ Owning(u)' <=> Owning(u)
                           /\ held'[u] = held[u]
    BY <1>1, <1>3 DEF Asks, Owning, Has, Passing, clientVars
  <2> QED BY <2>1, AbstractStutter
<1>4. GrantLock /\ mstep # "start" => locked' = locked
  BY DEF GrantLock, MAt
<1> QED BY <1>2, <1>3, <1>4 DEF ManagerMove, CheckGrant, nodeVars

\* A call of the application: only release() is seen, which ends the use of the lock.
LEMMA RefinesClient ==
    ASSUME QspinInv, OneCall, ~StrayRelease, NEW t \in Threads, ClientStep(t) \/ ClientCall(t),
           UNCHANGED <<managerVars, algoVars>>
    PROVE  Abstract!Next \/ UNCHANGED Abstract!absVars
<1>0. /\ step' = step /\ locked' = locked /\ Locks = {0}
      /\ pc \in [Threads -> PCs] /\ held \in [Threads -> SUBSET Locks]
  BY DEF algoVars, nodeVars, callVars, OneCall, QspinInv, TypeOK, ClientTypeOK
<1>1. \A u \in Threads : (Asks(u)' <=> Asks(u)) /\ (Owning(u)' <=> Owning(u))
  <2> TAKE u \in Threads
  <2>1. StepInv(u)
    BY DEF QspinInv, ControlInv
  <2>2. CASE pc'[u] = pc[u] /\ held'[u] = held[u]
    BY <1>0, <2>2 DEF Asks, Owning, Has, Passing
  <2>3. CASE pc'[u] # pc[u] \/ held'[u] # held[u]
    <3>1. /\ pc[u] \in {"idle", "local", "releaseLocal", "cancelLocal"}
          /\ \/ pc'[u] \in {"idle", "local", "request"} /\ held'[u] = held[u]
             \/ pc'[u] = "release" /\ held[u] # {}
      BY <1>0, <2>3 DEF ClientStep, ClientCall, LocalAcquire, LocalRefused, LocalRelease, Acquire,
         Release, Goto, Return
    <3>2. step[u] = "start"
      BY <2>1, <3>1 DEF StepInv
    <3> QED BY <1>0, <3>1, <3>2 DEF Asks, Owning, Has, Passing
  <2> QED BY <2>2, <2>3
<1>2. CASE held' = held
  BY <1>1, <1>2, AbstractStutter
<1>3. CASE held' # held
  <2>1. PICK l \in Locks : Release(t, l)
    BY <1>3 DEF ClientStep, ClientCall, LocalAcquire, LocalRefused, LocalRelease, Acquire, Goto,
       Return
  <2>2. held[t] = {0} /\ held' = [held EXCEPT ![t] = {}]
    BY <1>0, <2>1 DEF Release
  <2>3. NodeOf[t] \in Nodes /\ \A u \in Threads \ {t} :
            NodeOf[u] = NodeOf[t] => ~Asks(u) /\ ~Owning(u) /\ held[u] = {}
    BY <2>2, SeenIsCaller DEF Owning
  <2>4. \A u \in Threads \ {t} : held'[u] = held[u]
    BY <1>0, <2>2
  <2>5. ~Asks(t) /\ held'[t] = {}
    BY <1>0, <2>2 DEF Asks, OneCall
  <2>6. /\ NodeOf[t] \in Askers <=> Asks(t)
        /\ NodeOf[t] \in Owners <=> Owning(t)
        /\ NodeOf[t] \in Users <=> held[t] # {}
        /\ Askers' = IF Asks(t)' THEN Askers \cup {NodeOf[t]} ELSE Askers \ {NodeOf[t]}
        /\ Owners' = IF Owning(t)' THEN Owners \cup {NodeOf[t]} ELSE Owners \ {NodeOf[t]}
        /\ Users' = IF held'[t] # {} THEN Users \cup {NodeOf[t]} ELSE Users \ {NodeOf[t]}
    BY <1>1, <2>3, <2>4, SetsOfOne
  <2>7. /\ NodeOf[t] \in Users /\ Askers' = Askers /\ Owners' = Owners
        /\ Users' = Users \ {NodeOf[t]}
    BY <1>1, <2>2, <2>5, <2>6
  <2> QED BY <1>0, <2>3, <2>7, AbstractStep
<1> QED BY <1>2, <1>3

LEMMA RefinesInit == Init => Abstract!Init
<1> SUFFICES ASSUME Init PROVE Abstract!Init
    OBVIOUS
<1>1. \A t \in Threads : ~Asks(t) /\ ~Owning(t) /\ held[t] = {}
  BY NodeOfType DEF Init, ClientInit, Asks, Owning, Has, Passing
<1>2. /\ NodesOf({t \in Threads : Asks(t)}) = {}
      /\ NodesOf({t \in Threads : Owning(t)}) = {}
      /\ NodesOf({t \in Threads : held[t] # {}}) = {}
  BY <1>1 DEF NodesOf
<1> QED BY <1>2 DEF Abstract!Init, OneOf

LEMMA RefinesStep ==
    ASSUME LockCount = 1, CallModes \subseteq {"long"}, ~StrayRelease, QspinInv, [Next]_vars
    PROVE  Abstract!Next \/ UNCHANGED Abstract!absVars
<1>1. OneCall
  BY OneCallHolds DEF QspinInv, TypeOK
<1>2. CASE UNCHANGED vars
  <2>1. \A u \in Threads : /\ Asks(u)' <=> Asks(u)
                           /\ Owning(u)' <=> Owning(u)
                           /\ held'[u] = held[u]
    BY <1>2 DEF Asks, Owning, Has, Passing, vars, clientVars, algoVars, nodeVars, callVars
  <2> QED BY <2>1, AbstractStutter
<1>3. CASE ManagerMove
  BY <1>1, <1>3, RefinesManager
<1>4. ASSUME NEW t \in Threads, ClientStep(t) \/ ClientCall(t), UNCHANGED <<managerVars, algoVars>>
      PROVE  Abstract!Next \/ UNCHANGED Abstract!absVars
  BY <1>1, <1>4, RefinesClient
<1>5. ASSUME NEW t \in Threads, AlgorithmStep(t), UNCHANGED <<managerVars, checkVars>>
      PROVE  Abstract!Next \/ UNCHANGED Abstract!absVars
  BY <1>1, <1>5, RefinesAlgorithm
<1> QED BY <1>2, <1>3, <1>4, <1>5, StepCases

\* With one lock and calls that do not time out the three ways of giving the lock away, the
\* swap of the fast path, a releaser's handover and the manager's grant, are each a Grant of
\* the service: nobody owns the lock then, and the node that gets it asks for it.
THEOREM Refinement ==
    ASSUME LockCount = 1, CallModes \subseteq {"long"}, ~StrayRelease
    PROVE  Spec => ImplementsGlobalLock
<1>1. Init => Abstract!Init
  BY RefinesInit
<1>2. QspinInv /\ [Next]_vars => [Abstract!Next]_(Abstract!absVars)
  BY RefinesStep
<1> QED BY <1>1, <1>2, QspinInvCorrect, PTL DEF Spec, ImplementsGlobalLock, Abstract!Spec
=============================================================================
