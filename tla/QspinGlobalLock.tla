--------------------------- MODULE QspinGlobalLock ---------------------------
(***************************************************************************)
(* The qspinlock algorithm (src/src/qspinlock_global_lock.cpp) under the   *)
(* two-tier lock and the lock manager: a lock word that is taken directly  *)
(* when it is 0, a queue of nodes behind it, one queue record per node     *)
(* that all locks share.  One action per shared-memory access.             *)
(***************************************************************************)
EXTENDS LockManager

CONSTANT NoLock    \* INVALID_LOCK_ID

ASSUME NoLockAssumption == NoLock \notin Locks

VARIABLES
    lock_word, owner, pending_tail, granting,   \* QspinlockEntry of each lock
    next, locked, waiting,                      \* QspinNode of each node
    step,       \* where thread t is inside acquire_lock, release_lock or a poll
    word,       \* its local old_word
    link,       \* its local old tail or succ_id
    mstep,      \* where the manager is inside check_grant or grant_lock
    mhead       \* its local head or next_head

entryVars == <<lock_word, owner, pending_tail, granting>>
nodeVars == <<next, locked, waiting>>
callVars == <<step, word, link>>
checkVars == <<mstep, mhead>>
algoVars == <<entryVars, nodeVars, callVars, checkVars>>
vars == <<clientVars, managerVars, algoVars>>

SomeNode == Nodes \cup {NoNode}

\* The lock word: bit 0 locked, bit 1 pending, from bit 2 on the tail.
qspin_locked(w) == w % 2
qspin_tail_idx(w) == (w \div 4) % 65536
\* Mutant of qspin_set_tail: the locked bit is not kept.
qspin_only_tail(w, i) == 4 * i
qspin_set_tail(w, i) == (w % 4) + 4 * i
qspin_node_to_tail(n) == n + 1
qspin_tail_to_node(i) == IF i = 0 THEN NoNode ELSE i - 1

HeldBy(n) == 4 * qspin_node_to_tail(n) + 1

Words == 0 .. 4 * NodeCount + 3

Steps == {"start", "locked", "waiting", "try", "fastLocked", "fastOwner", "fastHead",
          "load", "join", "link", "succ", "word", "clear", "clearHead", "clearOwner",
          "spin", "force", "passHead", "passOwner", "passWord", "wake",
          "resetNext", "resetLocked", "resetWaiting"}

TypeOK ==
    /\ ClientTypeOK
    /\ ManagerTypeOK
    /\ lock_word \in [Locks -> Words]
    /\ owner \in [Locks -> SomeNode]
    /\ pending_tail \in [Locks -> SomeNode]
    /\ granting \in [Locks -> 0 .. 1]
    /\ next \in [Nodes -> SomeNode]
    /\ locked \in [Nodes -> 0 .. 2]
    /\ waiting \in [Nodes -> Locks \cup {NoLock}]
    /\ step \in [Threads -> Steps]
    /\ word \in [Threads -> Words]
    /\ link \in [Threads -> SomeNode]
    /\ mstep \in {"start", "gip", "head", "locked", "waiting", "mark",
                  "owner", "word", "next", "advance", "done"}
    /\ mhead \in SomeNode

Init ==
    /\ ClientInit
    /\ ManagerInit
    /\ lock_word = [l \in Locks |-> 0]
    /\ owner = [l \in Locks |-> NoNode]
    /\ pending_tail = [l \in Locks |-> NoNode]
    /\ granting = [l \in Locks |-> 0]
    /\ next = [n \in Nodes |-> NoNode]
    /\ locked = [n \in Nodes |-> 0]
    /\ waiting = [n \in Nodes |-> NoLock]
    /\ step = [t \in Threads |-> "start"]
    /\ word = [t \in Threads |-> 0]
    /\ link = [t \in Threads |-> NoNode]
    /\ mstep = "start"
    /\ mhead = NoNode

-----------------------------------------------------------------------------
(* Steps of the clients.  At(t, s, u): t's call is at s and goes on at u.      *)
(* Finish(t, label): the algorithm's function returns to the two-tier lock.    *)

At(t, s, u) ==
    /\ step[t] = s
    /\ step' = [step EXCEPT ![t] = u]
    /\ UNCHANGED clientVars

Finish(t, label) ==
    /\ Goto(t, label)
    /\ step' = [step EXCEPT ![t] = "start"]
    /\ word' = [word EXCEPT ![t] = 0]
    /\ link' = [link EXCEPT ![t] = NoNode]
    /\ UNCHANGED <<arg, mode, spins, mutex, held>>

AfterRelease(t) == IF pc[t] = "release" THEN "releaseLocal" ELSE "cancelLocal"

\* acquire_lock, step 1: three plain stores prepare the node's record.
Prepare(t) ==
    LET n == NodeOf[t] IN
    /\ pc[t] = "request"
    /\ \/ /\ At(t, "start", "locked")
          /\ next' = [next EXCEPT ![n] = NoNode]
          /\ UNCHANGED <<locked, waiting>>
       \/ /\ At(t, "locked", "waiting")
          /\ locked' = [locked EXCEPT ![n] = 1]
          /\ UNCHANGED <<next, waiting>>
       \/ /\ At(t, "waiting", "try")
          /\ waiting' = [waiting EXCEPT ![n] = arg[t]]
          /\ UNCHANGED <<next, locked>>
    /\ UNCHANGED <<entryVars, word, link>>

\* Mutant of TryFastPath: only the locked bit is compared, not the whole word.
TryFastPathBarging(t) ==
    LET l == arg[t] IN
    /\ \/ /\ qspin_locked(lock_word[l]) = 0
          /\ At(t, "try", "fastLocked")
          /\ lock_word' = [lock_word EXCEPT ![l] = HeldBy(NodeOf[t])]
       \/ /\ qspin_locked(lock_word[l]) # 0
          /\ At(t, "try", "load")
          /\ UNCHANGED lock_word
    /\ UNCHANGED <<owner, pending_tail, granting, nodeVars, word, link>>

\* Step 2: compare-exchange of the whole word from 0.
TryFastPath(t) ==
    LET l == arg[t] IN
    /\ \/ /\ lock_word[l] = 0
          /\ At(t, "try", "fastLocked")
          /\ lock_word' = [lock_word EXCEPT ![l] = HeldBy(NodeOf[t])]
       \/ /\ lock_word[l] # 0
          /\ At(t, "try", "load")
          /\ UNCHANGED lock_word
    /\ UNCHANGED <<owner, pending_tail, granting, nodeVars, word, link>>

\* It succeeded: plain stores of locked, owner and the queue's head.
TakeFastPath(t) ==
    LET n == NodeOf[t]
        l == arg[t]
    IN
    /\ \/ /\ At(t, "fastLocked", "fastOwner")
          /\ locked' = [locked EXCEPT ![n] = 2]
          /\ UNCHANGED <<owner, pending_tail, word, link>>
       \/ /\ At(t, "fastOwner", "fastHead")
          /\ owner' = [owner EXCEPT ![l] = n]
          /\ UNCHANGED <<locked, pending_tail, word, link>>
       \/ /\ step[t] = "fastHead"
          /\ pending_tail' = [pending_tail EXCEPT ![l] = n]
          /\ Finish(t, "poll")
          /\ UNCHANGED <<locked, owner>>
    /\ UNCHANGED <<lock_word, granting, next, waiting>>

\* Step 3: load the word and compare-exchange its tail, until that succeeds.
JoinQueue(t) ==
    LET l == arg[t] IN
    /\ \/ /\ At(t, "load", "join")
          /\ word' = [word EXCEPT ![t] = lock_word[l]]
          /\ UNCHANGED <<lock_word, link>>
       \/ /\ lock_word[l] = word[t]
          /\ At(t, "join", "link")
          /\ lock_word' = [lock_word EXCEPT ![l] =
                              qspin_set_tail(@, qspin_node_to_tail(NodeOf[t]))]
          /\ link' = [link EXCEPT ![t] = qspin_tail_to_node(qspin_tail_idx(word[t]))]
          /\ word' = [word EXCEPT ![t] = 0]
       \/ /\ lock_word[l] # word[t]
          /\ At(t, "join", "load")
          /\ word' = [word EXCEPT ![t] = 0]
          /\ UNCHANGED <<lock_word, link>>
    /\ UNCHANGED <<owner, pending_tail, granting, nodeVars>>

\* Become the head of an empty queue or the successor of the old tail.
LinkIn(t) ==
    /\ step[t] = "link"
    /\ \/ /\ link[t] = NoNode
          /\ pending_tail' = [pending_tail EXCEPT ![arg[t]] = NodeOf[t]]
          /\ UNCHANGED next
       \/ /\ link[t] # NoNode
          /\ next' = [next EXCEPT ![link[t]] = NodeOf[t]]
          /\ UNCHANGED pending_tail
    /\ Finish(t, "poll")
    /\ UNCHANGED <<lock_word, owner, granting, locked, waiting>>

\* poll_for_grant loads locked, then waiting_lock; granted = both match.
Poll(t) ==
    LET n == NodeOf[t]
        refused == \/ step[t] = "start" /\ locked[n] # 2
                   \/ step[t] = "waiting" /\ waiting[n] # arg[t]
    IN
    /\ pc[t] = "poll"
    /\ \/ /\ locked[n] = 2
          /\ At(t, "start", "waiting")
       \/ /\ step[t] = "waiting" /\ waiting[n] = arg[t]
          /\ PollGranted(t)
          /\ step' = [step EXCEPT ![t] = "start"]
       \/ /\ refused
          /\ PollAgain(t) \/ PollGivesUp(t)
          /\ step' = [step EXCEPT ![t] = "start"]
    /\ UNCHANGED <<entryVars, nodeVars, word, link>>

\* release_lock refuses a node that is not recorded as owner (ERROR_NOT_OWNER).
CheckOwner(t) ==
    /\ pc[t] \in {"release", "cancel"}
    /\ step[t] = "start"
    /\ \/ /\ owner[arg[t]] # NodeOf[t]
          /\ Finish(t, AfterRelease(t))
       \/ /\ owner[arg[t]] = NodeOf[t]
          /\ At(t, "start", "succ")
          /\ UNCHANGED <<word, link>>
    /\ UNCHANGED <<entryVars, nodeVars>>

\* Is there a successor?  If not, load the word; if its tail is another node,
\* the compare-exchange that follows changes nothing.
FindSuccessor(t) ==
    LET succ == next[NodeOf[t]]
        w == lock_word[arg[t]]
        last == qspin_tail_idx(w) = qspin_node_to_tail(NodeOf[t])
    IN
    /\ \/ /\ succ # NoNode
          /\ At(t, "succ", "passHead")
          /\ link' = [link EXCEPT ![t] = succ]
          /\ UNCHANGED word
       \/ /\ succ = NoNode
          /\ At(t, "succ", "word")
          /\ UNCHANGED <<word, link>>
       \/ /\ last
          /\ At(t, "word", "clear")
          /\ word' = [word EXCEPT ![t] = w]
          /\ UNCHANGED link
       \/ /\ ~last
          /\ At(t, "word", "spin")
          /\ UNCHANGED <<word, link>>
    /\ UNCHANGED <<entryVars, nodeVars>>

\* Compare-exchange of the word from old_word to 0.
ClearWord(t) ==
    LET l == arg[t]
        same == lock_word[l] = word[t]
    IN
    /\ At(t, "clear", IF same THEN "clearHead" ELSE "spin")
    /\ lock_word' = IF same THEN [lock_word EXCEPT ![l] = 0] ELSE lock_word
    /\ word' = [word EXCEPT ![t] = 0]
    /\ UNCHANGED <<owner, pending_tail, granting, nodeVars, link>>

\* The lock is free: plain stores clear the queue's head and the owner.
ClearEntry(t) ==
    LET l == arg[t] IN
    /\ \/ /\ At(t, "clearHead", "clearOwner")
          /\ pending_tail' = [pending_tail EXCEPT ![l] = NoNode]
          /\ UNCHANGED owner
       \/ /\ At(t, "clearOwner", "resetNext")
          /\ owner' = [owner EXCEPT ![l] = NoNode]
          /\ UNCHANGED pending_tail
    /\ UNCHANGED <<lock_word, granting, nodeVars, word, link>>

\* Mutant of AwaitLink: the limit of the spins is forgotten.
AwaitLinkForever(t) ==
    /\ next[NodeOf[t]] # NoNode
    /\ At(t, "spin", "passHead")
    /\ link' = [link EXCEPT ![t] = next[NodeOf[t]]]
    /\ UNCHANGED <<entryVars, nodeVars, word>>

\* Spin for the successor's link.  The limit of 1,000,000 spins may pass while
\* the node that is to store it is delayed; then the release is forced.
AwaitLink(t) ==
    LET succ == next[NodeOf[t]] IN
    /\ \/ /\ succ # NoNode
          /\ At(t, "spin", "passHead")
          /\ link' = [link EXCEPT ![t] = succ]
          /\ UNCHANGED owner
       \/ /\ succ = NoNode
          /\ At(t, "spin", "force")
          /\ UNCHANGED <<owner, link>>
       \/ /\ At(t, "force", "resetLocked")
          /\ owner' = [owner EXCEPT ![arg[t]] = NoNode]
          /\ UNCHANGED link
    /\ UNCHANGED <<lock_word, pending_tail, granting, nodeVars, word>>

\* Hand over: head, owner, the word with the successor as tail, its locked = 2.
PassOn(t) ==
    LET l == arg[t]
        succ == link[t]
    IN
    /\ \/ /\ At(t, "passHead", "passOwner")
          /\ pending_tail' = [pending_tail EXCEPT ![l] = succ]
          /\ UNCHANGED <<owner, lock_word, locked>>
       \/ /\ At(t, "passOwner", "passWord")
          /\ owner' = [owner EXCEPT ![l] = succ]
          /\ UNCHANGED <<pending_tail, lock_word, locked>>
       \/ /\ At(t, "passWord", "wake")
          /\ lock_word' = [lock_word EXCEPT ![l] = HeldBy(succ)]
          /\ UNCHANGED <<pending_tail, owner, locked>>
       \/ /\ At(t, "wake", "resetNext")
          /\ locked' = [locked EXCEPT ![succ] = 2]
          /\ UNCHANGED <<pending_tail, owner, lock_word>>
    /\ UNCHANGED <<granting, next, waiting, word, link>>

\* Plain stores reset the node's record and release_lock returns.
ResetRecord(t) ==
    LET n == NodeOf[t] IN
    /\ \/ /\ At(t, "resetNext", "resetLocked")
          /\ next' = [next EXCEPT ![n] = NoNode]
          /\ UNCHANGED <<locked, waiting, word, link>>
       \/ /\ At(t, "resetLocked", "resetWaiting")
          /\ locked' = [locked EXCEPT ![n] = 0]
          /\ UNCHANGED <<next, waiting, word, link>>
       \/ /\ step[t] = "resetWaiting"
          /\ waiting' = [waiting EXCEPT ![n] = NoLock]
          /\ Finish(t, AfterRelease(t))
          /\ UNCHANGED <<next, locked>>
    /\ UNCHANGED entryVars

-----------------------------------------------------------------------------
(* Steps of the manager. *)

MAt(s, u) == mstep = s /\ mstep' = u /\ UNCHANGED managerVars

\* check_grant finds a tail without the locked bit, no grant in progress and a
\* head that waits for this lock; it then marks the grant as in progress.
CheckGrant ==
    LET l == mlock
        queued == qspin_locked(lock_word[l]) = 0 /\ qspin_tail_idx(lock_word[l]) # 0
        refused == \/ mstep = "start" /\ ~queued
                   \/ mstep = "gip" /\ granting[l] # 0
                   \/ mstep = "head" /\ pending_tail[l] = NoNode
                   \/ mstep = "locked" /\ locked[mhead] # 1
                   \/ mstep = "waiting" /\ waiting[mhead] # l
    IN
    /\ mpc = "check"
    /\ \/ /\ queued /\ MAt("start", "gip")
          /\ UNCHANGED <<granting, mhead>>
       \/ /\ granting[l] = 0 /\ MAt("gip", "head")
          /\ UNCHANGED <<granting, mhead>>
       \/ /\ pending_tail[l] # NoNode /\ MAt("head", "locked")
          /\ mhead' = pending_tail[l]
          /\ UNCHANGED granting
       \/ /\ mstep = "locked" /\ locked[mhead] = 1 /\ MAt("locked", "waiting")
          /\ UNCHANGED <<granting, mhead>>
       \/ /\ mstep = "waiting" /\ waiting[mhead] = l /\ MAt("waiting", "mark")
          /\ UNCHANGED <<granting, mhead>>
       \/ /\ mstep = "mark"
          /\ granting' = [granting EXCEPT ![l] = 1]
          /\ CheckReturns(mhead)
          /\ mstep' = "start" /\ mhead' = NoNode
       \/ /\ refused
          /\ CheckReturns(NoNode)
          /\ mstep' = "start" /\ mhead' = NoNode
          /\ UNCHANGED granting
    /\ UNCHANGED <<lock_word, owner, pending_tail, nodeVars>>

\* grant_lock: locked = 2, owner, the word, and the head becomes the grantee's
\* successor; then the mark is taken back.
GrantLock ==
    LET l == mlock
        g == grantee
    IN
    /\ mpc = "grant"
    /\ \/ /\ MAt("start", "owner")
          /\ locked' = [locked EXCEPT ![g] = 2]
          /\ UNCHANGED <<entryVars, mhead>>
       \/ /\ MAt("owner", "word")
          /\ owner' = [owner EXCEPT ![l] = g]
          /\ UNCHANGED <<lock_word, pending_tail, granting, locked, mhead>>
       \/ /\ MAt("word", "next")
          /\ lock_word' = [lock_word EXCEPT ![l] = HeldBy(g)]
          /\ UNCHANGED <<owner, pending_tail, granting, locked, mhead>>
       \/ /\ MAt("next", "advance")
          /\ mhead' = next[g]
          /\ UNCHANGED <<entryVars, locked>>
       \/ /\ MAt("advance", "done")
          /\ pending_tail' = [pending_tail EXCEPT ![l] = mhead]
          /\ mhead' = NoNode
          /\ UNCHANGED <<lock_word, owner, granting, locked>>
       \/ /\ mstep = "done" /\ mstep' = "start"
          /\ granting' = [granting EXCEPT ![l] = 0]
          /\ GrantReturns
          /\ UNCHANGED <<lock_word, owner, pending_tail, locked, mhead>>
    /\ UNCHANGED <<next, waiting>>

-----------------------------------------------------------------------------
Manager ==
    /\ \/ ManagerStep /\ UNCHANGED <<entryVars, nodeVars, checkVars>>
       \/ CheckGrant
       \/ GrantLock
    /\ UNCHANGED <<clientVars, callVars>>

Thread(t) ==
    /\ \/ ClientStep(t) /\ UNCHANGED <<entryVars, nodeVars, callVars>>
       \/ Prepare(t) \/ TryFastPath(t) \/ TakeFastPath(t) \/ JoinQueue(t) \/ LinkIn(t)
       \/ Poll(t)
       \/ CheckOwner(t) \/ FindSuccessor(t) \/ ClearWord(t) \/ ClearEntry(t)
       \/ AwaitLink(t) \/ PassOn(t) \/ ResetRecord(t)
    /\ UNCHANGED <<managerVars, checkVars>>

Environment ==
    /\ \/ (\E t \in Threads : ClientCall(t)) /\ UNCHANGED managerVars
       \/ (Start \/ StopRequest) /\ UNCHANGED clientVars
    /\ UNCHANGED algoVars

Next == Manager \/ Environment \/ \E t \in Threads : Thread(t)

Spec == Init /\ [][Next]_vars

\* Fair scheduling of the worker and of each thread inside a call.
FairSpec ==
    /\ Spec
    /\ WF_vars(Manager)
    /\ \A t \in Threads : WF_vars(Thread(t))

-----------------------------------------------------------------------------
(* What the algorithm promises. *)

\* release_lock returns: the link it waits for is stored, or the spins run out.
ReleasesReturn ==
    \A t \in Threads :
        pc[t] \in ReleasePCs \cup {"cancel", "cancelLocal"} ~> pc[t] = "idle"

-----------------------------------------------------------------------------
(* The inductive invariants: of every instance, and for one lock and calls that *)
(* do not time out.                                                             *)

Passing(t) == step[t] \in {"passHead", "passOwner", "passWord", "wake"}

\* Where a thread can be in the algorithm's functions.
StepInv(t) ==
    /\ pc[t] = "request" => step[t] \in
           {"start", "locked", "waiting", "try", "fastLocked", "fastOwner", "fastHead",
            "load", "join", "link"}
    /\ pc[t] = "poll" => step[t] \in {"start", "waiting"}
    /\ pc[t] \in {"release", "cancel"} => step[t] \in
           {"start", "succ", "word", "clear", "clearHead", "clearOwner", "spin", "force",
            "passHead", "passOwner", "passWord", "wake",
            "resetNext", "resetLocked", "resetWaiting"}
    /\ pc[t] \notin {"request", "poll", "release", "cancel"} => step[t] = "start"
    /\ Passing(t) => link[t] \in Nodes

\* Where the manager can be in check_grant and grant_lock.
ManagerInv ==
    /\ ~running => mpc = "off"
    /\ mpc \notin {"check", "grant"} => mstep = "start"
    /\ mpc = "check" => mstep \in {"start", "gip", "head", "locked", "waiting", "mark"}
    /\ mpc = "grant" => mstep \in {"start", "owner", "word", "next", "advance", "done"}
                        /\ grantee \in Nodes

ControlInv == ManagerInv /\ \A t \in Threads : StepInv(t)

\* The calls neither time out nor give up; a poll that has seen locked = 2 is right,
\* and so is a fast path that has stored it.
CallInv(t) ==
    /\ pc[t] \notin {"cancel", "cancelLocal"} /\ spins[t] = 0
    /\ pc[t] \in {"local", "request", "poll"} => mode[t] = "long"
    /\ pc[t] = "poll" /\ step[t] = "waiting" => locked[NodeOf[t]] = 2
    /\ step[t] \in {"fastOwner", "fastHead"} => locked[NodeOf[t]] = 2

\* The lock is t's, whether t has noticed or not, until t has let go of it.
Has(t) ==
    \/ held[t] # {}
    \/ step[t] \in {"fastLocked", "fastOwner", "fastHead"}
    \/ /\ locked[NodeOf[t]] = 2
       /\ \/ pc[t] = "poll"
          \/ pc[t] = "request" /\ step[t] \in {"waiting", "try", "load", "join", "link"}
    \/ /\ pc[t] = "release"
       /\ step[t] \in {"start", "succ", "word", "clear", "spin", "force"} \/ Passing(t)

\* The manager has found the lock free, and until it wakes the grantee it stays so.
Deciding == (mpc = "check" /\ mstep # "start") \/ (mpc = "grant" /\ mstep = "start")

\* The manager has woken the grantee and not yet set the locked bit.
Granting == mpc = "grant" /\ mstep \in {"owner", "word"}

IsLocked == qspin_locked(lock_word[0]) = 1

\* The locked bit is the lock, but for the time the manager takes to set it.
WordInv ==
    /\ \A t, u \in Threads : Has(t) /\ Has(u) => t = u
    /\ \A t \in Threads : Has(t) => lock_word[0] # 0 /\ (IsLocked \/ Granting)
    /\ \A t \in Threads : step[t] = "wake" => IsLocked
    /\ Deciding => lock_word[0] # 0 /\ ~IsLocked

QspinInv ==
    /\ TypeOK
    /\ MutexInv
    /\ NoLeakedMutex
    /\ ControlInv
    /\ \A t \in Threads : CallInv(t)
    /\ WordInv

-----------------------------------------------------------------------------
(* With one lock and calls that do not time out the algorithm implements        *)
(* GlobalLockSpec.                                                              *)

\* t has marked its node's record as waiting and has not been given the lock.
Asks(t) ==
    /\ locked[NodeOf[t]] # 2
    /\ \/ pc[t] = "poll"
       \/ pc[t] = "request" /\ step[t] \in {"waiting", "try", "load", "join", "link"}

\* A releaser that has only to wake its successor has freed the lock.
Owning(t) == Has(t) /\ step[t] # "wake"

NodesOf(S) == {n \in Nodes : \E t \in S : NodeOf[t] = n}

OneOf(S) == IF S = {} THEN NoNode ELSE CHOOSE n \in S : TRUE

Abstract == INSTANCE GlobalLockSpec WITH
    waiting <- [l \in Locks |-> NodesOf({t \in Threads : Asks(t)})],
    owner <- [l \in Locks |-> OneOf(NodesOf({t \in Threads : Owning(t)}))],
    using <- [l \in Locks |-> NodesOf({t \in Threads : held[t] # {}})]

\* Whichever of the fast path, a releaser and the manager gives the lock away, nobody
\* owns it at that moment, and the node that gets it has asked and not got it yet.
ImplementsGlobalLock == Abstract!Spec
=============================================================================
