------------------------ MODULE CasCacheLinesProofs ------------------------
(***************************************************************************)
(* Proofs about the CAS algorithm on caches that are not coherent: what    *)
(* exclusion and the clearing of slots still rest on, for any number of    *)
(* nodes, locks and threads.                                               *)
(***************************************************************************)
EXTENDS CasCacheLines, TwoTierLockProofs

LEMMA ManagerNodeExists == ManagerNode \in Nodes
  BY CountAssumption DEF ManagerNode, Nodes

\* get_slot_offset: every lock and node have a word of their own.
LEMMA WordOfSlot ==
    ASSUME NEW l \in Locks, NEW n \in Nodes
    PROVE  Word(l, n) \in Words /\ NodeAt(Word(l, n)) = n /\ Word(l, n) \div NodeCount = l
<1> DEFINE w == l * NodeCount + n
<1>1. l \in Nat /\ n \in Nat /\ n < NodeCount /\ l + 1 <= LockCount
      /\ NodeCount \in Nat /\ LockCount \in Nat /\ NodeCount > 0
  BY CountAssumption DEF Locks, Nodes
<1>2. w \in Nat
  BY <1>1
<1>3. (l + 1) * NodeCount <= LockCount * NodeCount
  BY <1>1
<1>4. w + 1 <= (l + 1) * NodeCount
  BY <1>1
<1>5. w \in Words
  <2>1. LockCount * NodeCount \in Nat /\ (l + 1) * NodeCount \in Nat
    BY <1>1
  <2> HIDE DEF w
  <2> QED BY <1>2, <1>3, <1>4, <2>1 DEF Words
<1>6. w \div NodeCount = l
  BY <1>1
<1>7. w % NodeCount = n
  BY <1>1
<1> QED BY <1>5, <1>6, <1>7 DEF Word, NodeAt

LEMMA WordInjective ==
    ASSUME NEW l \in Locks, NEW n \in Nodes, NEW j \in Locks, NEW m \in Nodes,
           Word(l, n) = Word(j, m)
    PROVE  l = j /\ n = m
  BY WordOfSlot

LEMMA WordType ==
    /\ 0 \in Words
    /\ \A w \in Words : NodeAt(w) \in Nodes
<1>1. 0 \in Words
  <2>1. Word(0, 0) = 0
    BY CountAssumption DEF Word
  <2> QED BY <2>1, WordOfSlot, ZeroIsLock, ManagerNodeExists DEF ManagerNode
<1>2. ASSUME NEW w \in Words PROVE NodeAt(w) \in Nodes
  <2>1. w \in Nat
    BY DEF Words
  <2> QED BY <2>1, CountAssumption DEF NodeAt, Nodes
<1> QED BY <1>1, <1>2

\* The line of a word has the number of one of its words or a smaller one, and is
\* the word itself when there is one slot per line.
LEMMA LineType ==
    ASSUME perLine \in 1 .. LockCount * NodeCount, NEW w \in Words
    PROVE  LineOf(w) \in Words /\ (perLine = 1 => LineOf(w) = w)
<1>0. LockCount * NodeCount \in Nat
  BY CountAssumption
<1>1. w \in Nat /\ perLine \in Nat \ {0}
  BY <1>0 DEF Words
<1>2. w \div perLine \in Nat /\ w \div perLine <= w
  BY <1>1
<1>3. perLine = 1 => w \div perLine = w
  BY <1>1
<1> QED BY <1>0, <1>1, <1>2, <1>3 DEF LineOf, Words

\* The calls' words.
LEMMA OwnWordType ==
    ASSUME ClientTypeOK, NEW t \in Threads
    PROVE  OwnWord(t) \in Words /\ NodeAt(OwnWord(t)) = NodeOf[t]
  BY WordOfSlot, NodeOfType DEF ClientTypeOK, OwnWord

-----------------------------------------------------------------------------
(* What a load, a store and the loss of a line do.                             *)

CacheTypeOK ==
    /\ perLine \in 1 .. LockCount * NodeCount
    /\ mem \in [Words -> SlotStates]
    /\ view \in [Nodes -> [Words -> SlotStates]]
    /\ cached \in [Nodes -> SUBSET Words]
    /\ stored \in [Nodes -> SUBSET Words]
    /\ clobbered \in BOOLEAN /\ crossed \in BOOLEAN

LEMMA ValueType ==
    ASSUME CacheTypeOK, NEW k \in Nodes, NEW w \in Words
    PROVE  Value(k, w) \in SlotStates
  BY DEF CacheTypeOK, Value

\* A fetch changes what node k reads in no word but the one stored to.
LEMMA FetchEffect ==
    ASSUME CacheTypeOK, UNCHANGED perLine,
           NEW k \in Nodes, NEW w \in Words, NEW new \in SlotStates, Fetch(k, w, new)
    PROVE  /\ view' \in [Nodes -> [Words -> SlotStates]]
           /\ cached' \in [Nodes -> SUBSET Words]
           /\ UNCHANGED <<mem, clobbered, crossed>>
           /\ InCache(k, w)' /\ view'[k][w] = new
           /\ \A j \in Nodes, v \in Words : InCache(j, v) => InCache(j, v)'
           /\ \A j \in Nodes, v \in Words : j # k \/ v # w =>
                Value(j, v)' = Value(j, v) /\ (InCache(j, v) => view'[j][v] = view[j][v])
           /\ Value(k, w)' = new
<1> USE DEF CacheTypeOK
<1>0. LineOf(w) \in Words /\ (\A v \in Words : LineOf(v)' = LineOf(v))
  BY LineType DEF LineOf
<1>1. cached' = [cached EXCEPT ![k] = @ \cup {LineOf(w)}] /\ UNCHANGED <<mem, clobbered, crossed>>
  BY DEF Fetch
<1>2. /\ \A j \in Nodes : j # k => view'[j] = view[j]
      /\ view'[k] = [v \in Words |->
                IF v = w THEN new
                ELSE IF v \in WordsOf(LineOf(w)) THEN Value(k, v) ELSE view[k][v]]
  BY DEF Fetch
<1>3. view' \in [Nodes -> [Words -> SlotStates]]
  <2>1. view'[k] \in [Words -> SlotStates]
    BY <1>2, ValueType
  <2> QED BY <2>1 DEF Fetch
<1>4. \A v \in Words : v # w =>
        view'[k][v] = IF LineOf(v) = LineOf(w) THEN Value(k, v) ELSE view[k][v]
  BY <1>2 DEF WordsOf
<1>5. view'[k][w] = new
  BY <1>2
<1>6. InCache(k, w)' /\ \A j \in Nodes, v \in Words : InCache(j, v) => InCache(j, v)'
  BY <1>0, <1>1 DEF InCache
<1>7. ASSUME NEW j \in Nodes, NEW v \in Words, j # k \/ v # w
      PROVE  Value(j, v)' = Value(j, v) /\ (InCache(j, v) => view'[j][v] = view[j][v])
  <2>1. CASE j # k
    BY <1>0, <1>1, <1>2, <2>1 DEF Value, InCache
  <2>2. CASE j = k
    BY <1>0, <1>1, <1>4, <1>7, <2>2 DEF Value, InCache
  <2> QED BY <2>1, <2>2
<1>8. Value(k, w)' = new
  BY <1>0, <1>5, <1>6 DEF Value, InCache
<1>9. cached' \in [Nodes -> SUBSET Words]
  BY <1>0, <1>1
<1> QED BY <1>1, <1>3, <1>5, <1>6, <1>7, <1>8, <1>9

\* A load changes nothing that any node reads.
LEMMA LoadEffect ==
    ASSUME CacheTypeOK, UNCHANGED perLine, NEW k \in Nodes, NEW w \in Words, Load(k, w)
    PROVE  /\ CacheTypeOK'
           /\ UNCHANGED <<mem, stored, clobbered, crossed>>
           /\ \A j \in Nodes, v \in Words : Value(j, v)' = Value(j, v)
           /\ \A j \in Nodes, v \in Words : InCache(j, v) =>
                InCache(j, v)' /\ view'[j][v] = view[j][v]
           /\ \A j \in Nodes, v \in Words : InCache(j, v)' => view'[j][v] = Value(j, v)
<1>1. Value(k, w) \in SlotStates /\ Fetch(k, w, Value(k, w)) /\ UNCHANGED stored
  BY ValueType DEF Load
<1>2. /\ \A j \in Nodes, v \in Words : Value(j, v)' = Value(j, v)
      /\ \A j \in Nodes, v \in Words : InCache(j, v) => InCache(j, v)'
  BY <1>1, FetchEffect
<1>3. \A j \in Nodes, v \in Words : InCache(j, v)' => view'[j][v] = Value(j, v)
  BY <1>2 DEF Value, InCache
<1>4. \A j \in Nodes, v \in Words : InCache(j, v) => view[j][v] = Value(j, v)
  BY DEF Value, InCache
<1> QED BY <1>1, <1>2, <1>3, <1>4, FetchEffect DEF CacheTypeOK

\* A store does, in that word only.
LEMMA StoreEffect ==
    ASSUME CacheTypeOK, UNCHANGED perLine,
           NEW k \in Nodes, NEW w \in Words, NEW new \in SlotStates, Store(k, w, new)
    PROVE  /\ CacheTypeOK'
           /\ UNCHANGED <<mem, clobbered, crossed>>
           /\ stored' = [stored EXCEPT ![k] = @ \cup {w}]
           /\ InCache(k, w)' /\ view'[k][w] = new /\ Value(k, w)' = new
           /\ \A j \in Nodes, v \in Words : InCache(j, v) => InCache(j, v)'
           /\ \A j \in Nodes, v \in Words : j # k \/ v # w =>
                /\ Value(j, v)' = Value(j, v)
                /\ InCache(j, v)' => view'[j][v] = Value(j, v)
<1>1. Fetch(k, w, new) /\ stored' = [stored EXCEPT ![k] = @ \cup {w}]
  BY DEF Store
<1>2. \A j \in Nodes, v \in Words : j # k \/ v # w => Value(j, v)' = Value(j, v)
  BY <1>1, FetchEffect
<1>3. \A j \in Nodes, v \in Words : InCache(j, v)' => view'[j][v] = Value(j, v)'
  BY DEF Value, InCache
<1> QED BY <1>1, <1>2, <1>3, FetchEffect DEF CacheTypeOK

\* The loss of a line writes back what was stored in it, and nothing else unless
\* a neighbour is overwritten.
LEMMA DropEffect ==
    ASSUME CacheTypeOK, UNCHANGED perLine, NEW k \in Nodes, NEW line \in Words, Drop(k, line),
           \A v \in stored[k] : InCache(k, v)
    PROVE  /\ CacheTypeOK'
           /\ perLine = 1 /\ ~clobbered => ~clobbered'
           /\ ~clobbered' => ~clobbered
           /\ ~crossed' => ~crossed
           /\ stored' = [stored EXCEPT ![k] = @ \ WordsOf(line)]
           /\ \A j \in Nodes, v \in Words : InCache(j, v)' <=> InCache(j, v) /\ (j # k \/ LineOf(v) # line)
           /\ \A j \in Nodes, v \in Words : InCache(j, v)' => view'[j][v] = view[j][v]
           /\ \A v \in Words : LineOf(v) = line /\ v \in stored[k] =>
                /\ mem'[v] = view[k][v]
                /\ ~crossed' /\ NodeAt(v) # k /\ view[k][v] = "LOCKED" => mem[v] = "WAITING"
           /\ ~clobbered' => \A v \in Words : LineOf(v) # line \/ v \notin stored[k] => mem'[v] = mem[v]
<1> USE DEF CacheTypeOK
<1>0. \A v \in Words : LineOf(v)' = LineOf(v)
  BY DEF LineOf
<1> DEFINE dirty == stored[k] \cap WordsOf(line) # {} /\ line \in cached[k]
<1>1. /\ mem' = [w \in Words |-> IF dirty /\ w \in WordsOf(line) THEN view[k][w] ELSE mem[w]]
      /\ clobbered' = (clobbered \/ (dirty /\ \E w \in WordsOf(line) \ stored[k] :
                                view[k][w] # mem[w]))
      /\ crossed' = (crossed \/ (dirty /\ \E w \in stored[k] \cap WordsOf(line) :
                                /\ NodeAt(w) # k
                                /\ view[k][w] = "LOCKED" /\ mem[w] # "WAITING"))
      /\ view' = [view EXCEPT ![k] = [w \in Words |->
                    IF w \in WordsOf(line) THEN "IDLE" ELSE view[k][w]]]
      /\ cached' = [cached EXCEPT ![k] = @ \ {line}]
      /\ stored' = [stored EXCEPT ![k] = @ \ WordsOf(line)]
  BY DEF Drop
<1>2. mem' \in [Words -> SlotStates]
  BY <1>1
<1>3. view' \in [Nodes -> [Words -> SlotStates]]
  <2>1. [w \in Words |-> IF w \in WordsOf(line) THEN "IDLE" ELSE view[k][w]] \in [Words -> SlotStates]
    BY DEF SlotStates
  <2> QED BY <1>1, <2>1
<1>4. CacheTypeOK'
  BY <1>1, <1>2, <1>3
<1>5. perLine = 1 /\ ~clobbered => ~clobbered'
  <2>1. perLine = 1 => WordsOf(line) \subseteq {line}
    BY LineType DEF WordsOf
  <2> QED BY <1>1, <2>1
<1>6. ASSUME NEW v \in Words, LineOf(v) = line, v \in stored[k]
      PROVE  /\ mem'[v] = view[k][v]
             /\ ~crossed' /\ NodeAt(v) # k /\ view[k][v] = "LOCKED" => mem[v] = "WAITING"
  <2>1. v \in WordsOf(line) /\ dirty
    BY <1>6 DEF WordsOf, InCache
  <2> QED BY <1>1, <1>6, <2>1
<1>7. ASSUME ~clobbered', NEW v \in Words, LineOf(v) # line \/ v \notin stored[k]
      PROVE  mem'[v] = mem[v]
  BY <1>1, <1>7 DEF WordsOf
<1>8. ASSUME NEW j \in Nodes, NEW v \in Words
      PROVE  /\ InCache(j, v)' <=> InCache(j, v) /\ (j # k \/ LineOf(v) # line)
             /\ InCache(j, v)' => view'[j][v] = view[j][v]
  <2>1. InCache(j, v)' <=> InCache(j, v) /\ (j # k \/ LineOf(v) # line)
    BY <1>0, <1>1 DEF InCache
  <2>2. InCache(j, v)' => view'[j][v] = view[j][v]
    BY <1>1, <2>1 DEF WordsOf
  <2> QED BY <2>1, <2>2
<1> QED BY <1>1, <1>4, <1>5, <1>6, <1>7, <1>8

-----------------------------------------------------------------------------
(* Types, the manager's loops and the stores not yet written back.             *)

ScanTypeOK == pass \in {1, 2} /\ nid \in Nodes

LEMMA TypeParts ==
    TypeOK <=> /\ ClientTypeOK /\ ManagerTypeOK /\ CacheTypeOK /\ ScanTypeOK
               /\ flushing \in [Threads -> BOOLEAN] /\ mflushing \in BOOLEAN
  BY DEF TypeOK, CacheTypeOK, ScanTypeOK

\* The words the manager reads and grants.
LEMMA ManagerWords ==
    ASSUME TypeOK, ControlInv
    PROVE  /\ Word(mlock, nid) \in Words
           /\ mpc = "grant" => Word(mlock, grantee) \in Words
  BY WordOfSlot DEF TypeOK, ManagerTypeOK, ControlInv

LEMMA Init_Base == Init => TypeOK /\ ControlInv /\ StoredInv
<1> SUFFICES ASSUME Init PROVE TypeOK /\ ControlInv /\ StoredInv
    OBVIOUS
<1>1. ClientTypeOK
  BY ZeroIsLock, SpinAssumption
  DEF Init, ClientInit, ClientTypeOK, Modes, PCs
<1>2. ManagerTypeOK
  BY ZeroIsLock DEF Init, ManagerInit, ManagerTypeOK, ManagerPCs
<1>3. CacheTypeOK
  BY DEF Init, CacheTypeOK, SlotStates
<1>4. ScanTypeOK /\ flushing \in [Threads -> BOOLEAN] /\ mflushing \in BOOLEAN
  BY ManagerNodeExists DEF Init, ScanTypeOK, ManagerNode
<1>5. ControlInv
  BY DEF Init, ManagerInit, ControlInv
<1>6. StoredInv
  BY DEF Init, StoredInv
<1> QED BY <1>1, <1>2, <1>3, <1>4, <1>5, <1>6, TypeParts

\* The manager's variables keep their types and its loops their shape.
LEMMA ManagerBase ==
    ASSUME TypeOK, ControlInv, [Next]_vars
    PROVE  ManagerTypeOK' /\ ScanTypeOK' /\ mflushing' \in BOOLEAN /\ ControlInv'
<1> DEFINE Good == ManagerTypeOK' /\ ScanTypeOK' /\ mflushing' \in BOOLEAN /\ ControlInv'
<1>0. ManagerTypeOK /\ ScanTypeOK /\ mflushing \in BOOLEAN
  BY TypeParts
<1>1. CASE UNCHANGED <<managerVars, mflushing, scanVars>>
  BY <1>0, <1>1 DEF managerVars, scanVars, ManagerTypeOK, ScanTypeOK, ControlInv
<1>2. CASE (Start \/ StopRequest \/ ManagerStep) /\ UNCHANGED <<mflushing, scanVars>>
  <2>1. ManagerTypeOK'
    BY <1>0, <1>2, ManagerTypeStep DEF ManagerTypeOK
  <2>2. ControlInv'
    BY <1>0, <1>2
    DEF Start, StopRequest, ManagerStep, RunLoop, StopReturns, scanVars, ControlInv, ManagerTypeOK
  <2> QED BY <1>0, <1>2, <2>1, <2>2 DEF scanVars, ScanTypeOK
<1>3. ASSUME NEW g \in Nodes \cup {NoNode}, CheckReturns(g), UNCHANGED mflushing,
             pass' = 1 /\ nid' = 0
      PROVE  Good
  <2>1. ManagerTypeOK'
    BY <1>0, <1>3, ManagerTypeStep
  <2>2. ControlInv'
    BY <1>0, <1>3 DEF CheckReturns, NextLock, ControlInv
  <2> QED BY <1>0, <1>3, <2>1, <2>2, ManagerNodeExists DEF ScanTypeOK, ManagerNode
<1>4. CASE CheckLocked
  <2>1. CASE Seen = "LOCKED"
    BY <1>3, <1>4, <2>1 DEF CheckLocked
  <2>2. CASE Seen # "LOCKED"
    <3>1. ScanTypeOK'
      BY <1>0, <1>4, <2>2, CountAssumption DEF CheckLocked, ScanTypeOK, Nodes
    <3>2. UNCHANGED <<managerVars, mflushing>> /\ mpc = "check"
      BY <1>4, <2>2 DEF CheckLocked
    <3> QED BY <1>0, <3>1, <3>2 DEF managerVars, ManagerTypeOK, ControlInv
  <2> QED BY <2>1, <2>2
<1>5. CASE CheckWaiting
  <2>1. CASE Seen = "WAITING"
    BY <1>0, <1>3, <1>5, <2>1 DEF CheckWaiting, ScanTypeOK
  <2>2. CASE Seen # "WAITING" /\ nid + 1 < NodeCount
    <3>1. nid' = nid + 1 /\ UNCHANGED <<managerVars, mflushing, pass>> /\ mpc = "check"
      BY <1>0, <1>5, <2>2, CountAssumption DEF CheckWaiting, ScanTypeOK, Nodes
    <3>2. ScanTypeOK'
      BY <1>0, <2>2, <3>1, CountAssumption DEF ScanTypeOK, Nodes
    <3> QED BY <1>0, <3>1, <3>2 DEF managerVars, ManagerTypeOK, ControlInv
  <2>3. CASE Seen # "WAITING" /\ ~(nid + 1 < NodeCount)
    BY <1>0, <1>3, <1>5, <2>3 DEF CheckWaiting, ScanTypeOK
  <2> QED BY <2>1, <2>2, <2>3
<1>6. ASSUME GrantReturns, UNCHANGED scanVars, mflushing' = FALSE PROVE Good
  <2>1. ManagerTypeOK'
    BY <1>0, <1>6, ManagerTypeStep DEF ManagerTypeOK
  <2>2. ControlInv'
    BY <1>0, <1>6 DEF GrantReturns, NextLock, scanVars, ControlInv
  <2> QED BY <1>0, <1>6, <2>1, <2>2 DEF scanVars, ScanTypeOK
<1>7. CASE GrantExchange
  <2>1. CASE Value(ManagerNode, Word(mlock, grantee)) = "WAITING"
    BY <1>0, <1>7, <2>1 DEF GrantExchange, managerVars, scanVars, ManagerTypeOK, ScanTypeOK, ControlInv
  <2>2. CASE Value(ManagerNode, Word(mlock, grantee)) # "WAITING"
    BY <1>0, <1>6, <1>7, <2>2 DEF GrantExchange
  <2> QED BY <2>1, <2>2
<1>8. CASE GrantFlush
  BY <1>6, <1>8 DEF GrantFlush
<1>9. CASE \E t \in Threads : Thread(t)
  BY <1>1, <1>9 DEF Thread, WriteSlot, FlushSlot, Poll
<1> QED
  BY <1>1, <1>2, <1>4, <1>5, <1>7, <1>8, <1>9 DEF Next, Manager, Environment, Evict, vars

\* The clients' variables keep their types.
LEMMA ClientBase ==
    ASSUME TypeOK, StoredInv, [Next]_vars
    PROVE  ClientTypeOK' /\ flushing' \in [Threads -> BOOLEAN]
<1>0. ClientTypeOK /\ flushing \in [Threads -> BOOLEAN]
  BY TypeParts
<1>1. CASE UNCHANGED clientVars
  <2>1. ClientTypeOK'
    BY <1>0, <1>1 DEF clientVars, ClientTypeOK
  <2>2. CASE UNCHANGED flushing
    BY <1>0, <2>1, <2>2
  <2>3. ASSUME NEW t \in Threads, WriteSlot(t) \/ FlushSlot(t)
        PROVE  flushing' \in [Threads -> BOOLEAN]
    BY <1>0, <2>3 DEF WriteSlot, FlushSlot
  <2> QED
    BY <2>1, <2>2, <2>3
    DEF Next, Manager, Environment, Evict, Thread, Poll, vars, CheckLocked, CheckWaiting,
        GrantExchange, GrantFlush
<1>2. ASSUME NEW t \in Threads, ClientCall(t), UNCHANGED flushing
      PROVE  ClientTypeOK' /\ flushing' \in [Threads -> BOOLEAN]
  BY <1>0, <1>2, ClientTypeStep
<1>3. ASSUME NEW t \in Threads, Thread(t)
      PROVE  ClientTypeOK' /\ flushing' \in [Threads -> BOOLEAN]
  <2>1. CASE ClientStep(t) /\ UNCHANGED flushing
    BY <1>0, <2>1, ClientTypeStep
  <2>2. CASE WriteSlot(t)
    BY <1>1, <2>2 DEF WriteSlot
  <2>3. CASE FlushSlot(t)
    <3>1. pc[t] \in {"request", "release", "cancel"}
      BY <2>3 DEF FlushSlot, StoredInv
    <3>2. \E label \in {"poll", "releaseLocal", "cancelLocal"} : Goto(t, label)
      BY <2>3, <3>1 DEF FlushSlot
    <3>3. ClientTypeOK'
      BY <1>0, <2>3, <3>2 DEF FlushSlot, Goto, ClientTypeOK, PCs, AcquirePCs, ReleasePCs
    <3> QED BY <1>0, <2>3, <3>3 DEF FlushSlot
  <2>4. CASE Poll(t)
    BY <1>0, <2>4, ClientTypeStep DEF Poll
  <2> QED BY <1>3, <2>1, <2>2, <2>3, <2>4 DEF Thread
<1> QED
  BY <1>1, <1>2, <1>3
  DEF Next, Manager, Environment, Evict, vars, CheckLocked, CheckWaiting, GrantExchange, GrantFlush

\* Stores stay accounted for when no line with one is touched and the calls that
\* have one to flush are still there.
LEMMA StoredKept ==
    ASSUME StoredInv,
           \A t \in Threads : flushing'[t] => pc'[t] \in {"request", "release", "cancel"},
           \A k \in Nodes : \A w \in stored'[k] :
                /\ w \in stored[k] /\ InCache(k, w)' /\ view'[k][w] = view[k][w]
                /\ \A t \in Threads : NodeOf[t] = k /\ flushing[t] /\ OwnWord(t) = w =>
                        flushing'[t] /\ OwnWord(t)' = w
    PROVE  StoredInv'
  BY DEF StoredInv

\* A step that leaves the flags of the calls alone, and no call with a store to
\* flush, keeps their part.
LEMMA FlushersKept ==
    ASSUME StoredInv, UNCHANGED flushing, \A t \in Threads : flushing[t] => pc'[t] = pc[t] /\ arg'[t] = arg[t]
    PROVE  /\ \A t \in Threads : flushing'[t] => pc'[t] \in {"request", "release", "cancel"}
           /\ \A t \in Threads : flushing[t] => flushing'[t] /\ OwnWord(t)' = OwnWord(t)
  BY DEF StoredInv, OwnWord

\* Steps of a client outside the algorithm are taken by threads with nothing to flush.
LEMMA ClientFlushes ==
    ASSUME TypeOK, StoredInv, NEW t \in Threads, UNCHANGED flushing,
           \/ ClientStep(t) \/ ClientCall(t)
           \/ PollGranted(t) \/ PollAgain(t) \/ PollGivesUp(t)
    PROVE  \A u \in Threads : flushing[u] => pc'[u] = pc[u] /\ arg'[u] = arg[u]
<1> USE DEF TypeOK, ClientTypeOK
<1>1. ~flushing[t]
  BY DEF StoredInv, ClientStep, ClientCall, LocalAcquire, LocalRefused, LocalRelease, Acquire,
     Release, PollGranted, PollAgain, PollGivesUp
<1>2. \A u \in Threads : u # t => pc'[u] = pc[u] /\ arg'[u] = arg[u]
  BY DEF ClientStep, ClientCall, LocalAcquire, LocalRefused, LocalRelease, Acquire,
     Release, PollGranted, PollAgain, PollGivesUp, Goto, Return
<1> QED BY <1>1, <1>2

LEMMA StoredUnchanged ==
    ASSUME TypeOK, StoredInv, UNCHANGED <<perLine, cacheVars, flushing>>,
           \A t \in Threads : flushing[t] => pc'[t] = pc[t] /\ arg'[t] = arg[t]
    PROVE  StoredInv' /\ CacheTypeOK'
<1>1. StoredInv'
  <2>1. \A k \in Nodes : \A w \in stored'[k] : w \in stored[k] /\ InCache(k, w)' /\ view'[k][w] = view[k][w]
    BY DEF StoredInv, cacheVars, InCache, LineOf
  <2> QED BY <2>1, StoredKept, FlushersKept
<1> QED BY <1>1, TypeParts DEF cacheVars, CacheTypeOK

LEMMA StoredLoad ==
    ASSUME TypeOK, StoredInv, UNCHANGED <<perLine, flushing>>,
           NEW k \in Nodes, NEW w \in Words, Load(k, w),
           \A t \in Threads : flushing[t] => pc'[t] = pc[t] /\ arg'[t] = arg[t]
    PROVE  StoredInv' /\ CacheTypeOK'
<1>0. CacheTypeOK
  BY TypeParts
<1>1. CacheTypeOK' /\ UNCHANGED stored
  BY <1>0, LoadEffect
<1>2. \A j \in Nodes, v \in Words : InCache(j, v) => InCache(j, v)' /\ view'[j][v] = view[j][v]
  BY <1>0, LoadEffect
<1>3. \A j \in Nodes : \A v \in stored'[j] : v \in stored[j] /\ InCache(j, v)' /\ view'[j][v] = view[j][v]
  BY <1>0, <1>1, <1>2 DEF StoredInv, CacheTypeOK
<1> QED BY <1>1, <1>3, StoredKept, FlushersKept

LEMMA StoredDrop ==
    ASSUME TypeOK, StoredInv, UNCHANGED <<perLine, flushing>>,
           NEW k \in Nodes, NEW line \in Words, Drop(k, line),
           \A t \in Threads : flushing[t] => pc'[t] = pc[t] /\ arg'[t] = arg[t]
    PROVE  StoredInv' /\ CacheTypeOK'
<1>0. CacheTypeOK /\ \A v \in stored[k] : InCache(k, v)
  BY TypeParts DEF StoredInv
<1>1. CacheTypeOK' /\ stored' = [stored EXCEPT ![k] = @ \ WordsOf(line)]
  BY <1>0, DropEffect
<1>2. /\ \A j \in Nodes, v \in Words : InCache(j, v)' <=> InCache(j, v) /\ (j # k \/ LineOf(v) # line)
      /\ \A j \in Nodes, v \in Words : InCache(j, v)' => view'[j][v] = view[j][v]
  BY <1>0, DropEffect
<1>3. \A j \in Nodes : \A v \in stored'[j] : v \in stored[j] /\ v \in Words /\ (j # k \/ LineOf(v) # line)
  BY <1>0, <1>1 DEF CacheTypeOK, WordsOf
<1>4. \A j \in Nodes : \A v \in stored'[j] : v \in stored[j] /\ InCache(j, v)' /\ view'[j][v] = view[j][v]
  BY <1>2, <1>3 DEF StoredInv
<1> QED BY <1>1, <1>4, StoredKept, FlushersKept

LEMMA StoredWrite ==
    ASSUME TypeOK, StoredInv, NEW t \in Threads, WriteSlot(t)
    PROVE  StoredInv' /\ CacheTypeOK'
<1> DEFINE n == NodeOf[t]
           new == IF pc[t] = "request" THEN "WAITING" ELSE "IDLE"
<1>p. OwnWord(t) \in Words
  BY TypeParts, OwnWordType
<1>q. PICK w \in Words : w = OwnWord(t)
  BY <1>p
<1>0. CacheTypeOK /\ ClientTypeOK /\ n \in Nodes /\ w \in Words /\ NodeAt(w) = n
  BY <1>q, TypeParts, NodeOfType, OwnWordType
<1>1. new \in SlotStates /\ new # "LOCKED" /\ Store(n, w, new) /\ UNCHANGED <<perLine, clientVars>>
      /\ pc[t] \in {"request", "release", "cancel"} /\ flushing' = [flushing EXCEPT ![t] = TRUE]
  BY <1>q DEF WriteSlot, SlotStates
<1>2. CacheTypeOK' /\ stored' = [stored EXCEPT ![n] = @ \cup {w}]
      /\ InCache(n, w)' /\ view'[n][w] = new
  BY <1>0, <1>1, StoreEffect
<1>3. \A j \in Nodes, v \in Words : j # n \/ v # w =>
        (InCache(j, v) => InCache(j, v)' /\ view'[j][v] = view[j][v])
  <2>1. Fetch(n, w, new)
    BY <1>1 DEF Store
  <2> QED BY <1>0, <1>1, <2>1, FetchEffect
<1>4. /\ \A u \in Threads : flushing[u] => flushing'[u]
      /\ \A u \in Threads : OwnWord(u)' = OwnWord(u) /\ pc'[u] = pc[u]
      /\ \A u \in Threads : flushing'[u] => flushing[u] \/ u = t
      /\ flushing'[t]
  BY <1>1, TypeParts DEF clientVars, OwnWord
<1>5. \A u \in Threads : flushing'[u] => pc'[u] \in {"request", "release", "cancel"}
  BY <1>1, <1>4 DEF StoredInv
<1> HIDE DEF n, new
<1>6. ASSUME NEW k \in Nodes, NEW v \in stored'[k]
      PROVE  /\ InCache(k, v)'
             /\ NodeAt(v) # k => k = ManagerNode /\ view'[k][v] = "LOCKED"
             /\ NodeAt(v) = k /\ k # ManagerNode =>
                  /\ view'[k][v] # "LOCKED"
                  /\ \E u \in Threads : NodeOf[u] = k /\ flushing'[u] /\ OwnWord(u)' = v
  <2>1. CASE k = n /\ v = w
    BY <1>0, <1>1, <1>2, <1>4, <1>q, <2>1 DEF n
  <2>2. CASE k # n \/ v # w
    <3>1. v \in stored[k] /\ v \in Words
      BY <1>0, <1>2, <2>2 DEF CacheTypeOK
    <3>2. InCache(k, v)' /\ view'[k][v] = view[k][v]
      BY <1>3, <2>2, <3>1 DEF StoredInv
    <3> QED BY <1>4, <3>1, <3>2 DEF StoredInv
  <2> QED BY <2>1, <2>2
<1> QED BY <1>2, <1>5, <1>6 DEF StoredInv

LEMMA StoredFlush ==
    ASSUME TypeOK, StoredInv, NEW t \in Threads, FlushSlot(t)
    PROVE  StoredInv' /\ CacheTypeOK'
<1> DEFINE n == NodeOf[t]
           line == LineOf(OwnWord(t))
<1>0. CacheTypeOK /\ ClientTypeOK /\ n \in Nodes /\ OwnWord(t) \in Words
      /\ (\A v \in stored[n] : InCache(n, v))
  BY TypeParts, NodeOfType, OwnWordType DEF StoredInv
<1>1. Drop(n, line) /\ UNCHANGED <<perLine, arg>> /\ flushing' = [flushing EXCEPT ![t] = FALSE]
      /\ \A u \in Threads : u # t => pc'[u] = pc[u]
  BY <1>0 DEF FlushSlot, Goto, ClientTypeOK
<1>2. line \in Words
  BY <1>0, LineType DEF CacheTypeOK
<1>3. CacheTypeOK' /\ stored' = [stored EXCEPT ![n] = @ \ WordsOf(line)]
  BY <1>0, <1>1, <1>2, DropEffect
<1>4. /\ \A j \in Nodes, v \in Words : InCache(j, v)' <=> InCache(j, v) /\ (j # n \/ LineOf(v) # line)
      /\ \A j \in Nodes, v \in Words : InCache(j, v)' => view'[j][v] = view[j][v]
  BY <1>0, <1>1, <1>2, DropEffect
<1>5. \A j \in Nodes : \A v \in stored'[j] :
        v \in stored[j] /\ v \in Words /\ (j # n \/ LineOf(v) # line)
  BY <1>0, <1>3 DEF CacheTypeOK, WordsOf
<1>6. \A j \in Nodes : \A v \in stored'[j] : v \in stored[j] /\ InCache(j, v)' /\ view'[j][v] = view[j][v]
  BY <1>4, <1>5 DEF StoredInv
<1>7. \A u \in Threads : flushing'[u] => flushing[u] /\ u # t
  BY <1>1, TypeParts
<1>8. \A u \in Threads : flushing[u] /\ u # t => flushing'[u]
  BY <1>1, TypeParts
<1>9. \A u \in Threads : OwnWord(u)' = OwnWord(u)
  BY <1>1 DEF OwnWord
<1>10. \A u \in Threads : flushing'[u] => pc'[u] \in {"request", "release", "cancel"}
  BY <1>1, <1>7 DEF StoredInv
<1>11. ASSUME NEW j \in Nodes, NEW v \in stored'[j], NEW u \in Threads,
              NodeOf[u] = j, flushing[u], OwnWord(u) = v
       PROVE  flushing'[u] /\ OwnWord(u)' = v
  BY <1>5, <1>8, <1>9, <1>11
<1> QED BY <1>3, <1>6, <1>10, <1>11, StoredKept

\* The manager's exchange stores LOCKED in a slot of another node or its own.
LEMMA StoredGrant ==
    ASSUME TypeOK, ControlInv, StoredInv, mpc = "grant",
           Store(ManagerNode, Word(mlock, grantee), "LOCKED"),
           UNCHANGED <<clientVars, perLine, flushing>>
    PROVE  StoredInv' /\ CacheTypeOK'
<1>p. PICK w \in Words : w = Word(mlock, grantee)
  BY ManagerWords
<1>0. CacheTypeOK /\ w \in Words /\ ManagerNode \in Nodes /\ "LOCKED" \in SlotStates
  BY TypeParts, ManagerNodeExists DEF SlotStates
<1>1. Store(ManagerNode, w, "LOCKED") /\ UNCHANGED perLine
  BY <1>p
<1>2. CacheTypeOK' /\ stored' = [stored EXCEPT ![ManagerNode] = @ \cup {w}]
      /\ InCache(ManagerNode, w)' /\ view'[ManagerNode][w] = "LOCKED"
  BY <1>0, <1>1, StoreEffect
<1>3. \A j \in Nodes, v \in Words : j # ManagerNode \/ v # w =>
        (InCache(j, v) => InCache(j, v)' /\ view'[j][v] = view[j][v])
  <2>1. Fetch(ManagerNode, w, "LOCKED")
    BY <1>1 DEF Store
  <2> QED BY <1>0, <1>1, <2>1, FetchEffect
<1>4. \A u \in Threads : OwnWord(u)' = OwnWord(u) /\ pc'[u] = pc[u] /\ flushing'[u] = flushing[u]
  BY DEF clientVars, OwnWord
<1>6. ASSUME NEW k \in Nodes, NEW v \in stored'[k]
      PROVE  /\ InCache(k, v)'
             /\ NodeAt(v) # k => k = ManagerNode /\ view'[k][v] = "LOCKED"
             /\ NodeAt(v) = k /\ k # ManagerNode =>
                  /\ view'[k][v] # "LOCKED"
                  /\ \E u \in Threads : NodeOf[u] = k /\ flushing'[u] /\ OwnWord(u)' = v
  <2>1. CASE k = ManagerNode /\ v = w
    BY <1>2, <2>1
  <2>2. CASE k # ManagerNode \/ v # w
    <3>1. v \in stored[k] /\ v \in Words
      BY <1>0, <1>2, <2>2 DEF CacheTypeOK
    <3>2. InCache(k, v)' /\ view'[k][v] = view[k][v]
      BY <1>3, <2>2, <3>1 DEF StoredInv
    <3> QED BY <1>4, <3>1, <3>2 DEF StoredInv
  <2> QED BY <2>1, <2>2
<1> QED BY <1>2, <1>4, <1>6 DEF StoredInv

LEMMA StoredStep ==
    ASSUME TypeOK, ControlInv, StoredInv, [Next]_vars
    PROVE  StoredInv' /\ CacheTypeOK'
<1>0. CacheTypeOK /\ ClientTypeOK /\ ManagerNode \in Nodes
  BY TypeParts, ManagerNodeExists
<1>1. CASE UNCHANGED <<clientVars, perLine, cacheVars, flushing>>
  BY <1>1, StoredUnchanged DEF clientVars
<1>2. ASSUME NEW t \in Threads, ClientCall(t) \/ ClientStep(t), UNCHANGED <<perLine, cacheVars, flushing>>
      PROVE  StoredInv' /\ CacheTypeOK'
  BY <1>2, StoredUnchanged, ClientFlushes
<1>3. ASSUME NEW t \in Threads, Thread(t) PROVE StoredInv' /\ CacheTypeOK'
  <2>1. CASE Poll(t)
    <3>1. \A u \in Threads : flushing[u] => pc'[u] = pc[u] /\ arg'[u] = arg[u]
      BY <2>1, ClientFlushes DEF Poll
    <3> QED BY <1>0, <2>1, <3>1, NodeOfType, OwnWordType, StoredLoad DEF Poll
  <2> QED BY <1>2, <1>3, <2>1, StoredWrite, StoredFlush DEF Thread
<1>4. ASSUME NEW w \in Words, Load(ManagerNode, w), UNCHANGED <<clientVars, perLine, flushing>>
      PROVE  StoredInv' /\ CacheTypeOK'
  BY <1>0, <1>4, StoredLoad DEF clientVars
<1>5. ASSUME NEW k \in Nodes, NEW line \in Words, Drop(k, line), UNCHANGED <<clientVars, perLine, flushing>>
      PROVE  StoredInv' /\ CacheTypeOK'
  BY <1>5, StoredDrop DEF clientVars
<1>6. CASE Manager
  <2>1. CASE CheckLocked \/ CheckWaiting
    BY <1>4, <2>1, ManagerWords DEF CheckLocked, CheckWaiting
  <2>2. CASE GrantExchange
    BY <1>4, <2>2, ManagerWords, StoredGrant DEF GrantExchange
  <2>3. CASE GrantFlush
    <3>1. LineOf(Word(mlock, grantee)) \in Words
      BY <1>0, <2>3, ManagerWords, LineType DEF GrantFlush, ControlInv, CacheTypeOK
    <3> QED BY <1>0, <1>5, <2>3, <3>1 DEF GrantFlush
  <2> QED BY <1>1, <1>6, <2>1, <2>2, <2>3 DEF Manager
<1>7. ASSUME NEW k \in Nodes, Evict(k) PROVE StoredInv' /\ CacheTypeOK'
  BY <1>0, <1>5, <1>7 DEF Evict, CacheTypeOK
<1> QED BY <1>1, <1>2, <1>3, <1>6, <1>7 DEF Next, Environment, vars

LEMMA BaseStep ==
    TypeOK /\ ControlInv /\ StoredInv /\ [Next]_vars => TypeOK' /\ ControlInv' /\ StoredInv'
  BY ManagerBase, ClientBase, StoredStep, TypeParts DEF TypeOK, CacheTypeOK, ScanTypeOK

\* Every reachable state is well typed, also with several slots to a line and
\* clients that release what they do not hold: no load, store or write-back leaves
\* the lock state.
THEOREM TypeCorrect == Spec => []TypeOK
  BY Init_Base, BaseStep, PTL DEF Spec

-----------------------------------------------------------------------------
(* Copies of slots.                                                            *)

LEMMA CopyLoad ==
    ASSUME CacheTypeOK, CopyInv, UNCHANGED perLine, NEW k \in Nodes, NEW w \in Words, Load(k, w)
    PROVE  /\ CopyInv'
           /\ \A v \in Words : SeenLocked(v)' = SeenLocked(v)
<1>1. /\ UNCHANGED <<mem, stored>>
      /\ \A j \in Nodes, v \in Words : Value(j, v)' = Value(j, v)
      /\ \A j \in Nodes, v \in Words : InCache(j, v)' => view'[j][v] = Value(j, v)
  BY LoadEffect
<1>2. \A v \in Words : SeenLocked(v)' = SeenLocked(v)
  BY <1>1, ManagerNodeExists DEF SeenLocked
<1>3. ASSUME NEW v \in Words
      PROVE  /\ NodeAt(v) = ManagerNode /\ InCache(ManagerNode, v)' /\ v \notin stored'[ManagerNode]
                => view'[ManagerNode][v] = mem'[v]
             /\ NodeAt(v) # ManagerNode =>
                /\ mem'[v] = "LOCKED" => SeenLocked(v)'
                /\ Value(NodeAt(v), v)' = "LOCKED" => mem'[v] = "LOCKED"
  <2>1. NodeAt(v) \in Nodes
    BY WordType
  <2>2. NodeAt(v) = ManagerNode /\ v \notin stored[ManagerNode] => Value(ManagerNode, v) = mem[v]
    BY DEF CopyInv, Value, InCache
  <2> QED BY <1>1, <1>2, <2>1, <2>2, ManagerNodeExists DEF CopyInv
<1> QED BY <1>2, <1>3 DEF CopyInv, ManagerNode, NodeAt

\* A call's store takes no lock for the manager.
LEMMA CopyWrite ==
    ASSUME CacheTypeOK, CopyInv, UNCHANGED perLine, NEW w \in Words,
           NEW new \in SlotStates \ {"LOCKED"}, Store(NodeAt(w), w, new)
    PROVE  /\ CopyInv'
           /\ \A v \in Words : v # w \/ NodeAt(w) # ManagerNode => SeenLocked(v)' = SeenLocked(v)
           /\ \A v \in Words : SeenLocked(v)' => SeenLocked(v)
<1> DEFINE k == NodeAt(w)
<1>0. k \in Nodes
  BY WordType
<1>1. /\ UNCHANGED mem
      /\ stored' = [stored EXCEPT ![k] = @ \cup {w}]
      /\ Value(k, w)' = new
      /\ \A j \in Nodes, v \in Words : j # k \/ v # w =>
            /\ Value(j, v)' = Value(j, v)
            /\ InCache(j, v)' => view'[j][v] = Value(j, v)
  BY <1>0, StoreEffect
<1>2. /\ \A v \in Words : v # w \/ k # ManagerNode => SeenLocked(v)' = SeenLocked(v)
      /\ \A v \in Words : SeenLocked(v)' => SeenLocked(v)
  BY <1>1, ManagerNodeExists DEF SeenLocked
<1>3. ASSUME NEW v \in Words
      PROVE  /\ NodeAt(v) = ManagerNode /\ InCache(ManagerNode, v)' /\ v \notin stored'[ManagerNode]
                => view'[ManagerNode][v] = mem'[v]
             /\ NodeAt(v) # ManagerNode =>
                /\ mem'[v] = "LOCKED" => SeenLocked(v)'
                /\ Value(NodeAt(v), v)' = "LOCKED" => mem'[v] = "LOCKED"
  <2>1. NodeAt(v) \in Nodes
    BY WordType
  <2>2. NodeAt(v) = ManagerNode /\ v \notin stored[ManagerNode] => Value(ManagerNode, v) = mem[v]
    BY DEF CopyInv, Value, InCache
  <2>3. v \notin stored'[ManagerNode] => v \notin stored[ManagerNode] /\ (v # w \/ k # ManagerNode)
    BY <1>0, <1>1, ManagerNodeExists DEF CacheTypeOK
  <2>4. NodeAt(v) # ManagerNode /\ mem'[v] = "LOCKED" => SeenLocked(v)'
    BY <1>1, <1>2 DEF CopyInv
  <2>5. NodeAt(v) # ManagerNode /\ Value(NodeAt(v), v)' = "LOCKED" => mem'[v] = "LOCKED"
    BY <1>1, <2>1 DEF CopyInv
  <2>6. NodeAt(v) = ManagerNode /\ InCache(ManagerNode, v)' /\ v \notin stored'[ManagerNode]
                => view'[ManagerNode][v] = mem'[v]
    BY <1>1, <2>2, <2>3, ManagerNodeExists
  <2> QED BY <2>4, <2>5, <2>6
<1> QED BY <1>2, <1>3 DEF CopyInv, ManagerNode, NodeAt

\* A grant takes its own.
LEMMA CopyGrant ==
    ASSUME CacheTypeOK, CopyInv, UNCHANGED perLine, NEW w \in Words,
           Store(ManagerNode, w, "LOCKED")
    PROVE  /\ CopyInv'
           /\ \A v \in Words : v # w => SeenLocked(v)' = SeenLocked(v)
           /\ SeenLocked(w)'
<1> DEFINE k == ManagerNode
<1>0. k \in Nodes /\ "LOCKED" \in SlotStates
  BY ManagerNodeExists DEF SlotStates
<1>1. /\ UNCHANGED mem
      /\ stored' = [stored EXCEPT ![k] = @ \cup {w}]
      /\ Value(k, w)' = "LOCKED"
      /\ \A j \in Nodes, v \in Words : j # k \/ v # w =>
            /\ Value(j, v)' = Value(j, v)
            /\ InCache(j, v)' => view'[j][v] = Value(j, v)
  BY <1>0, StoreEffect
<1>2. (\A v \in Words : v # w => SeenLocked(v)' = SeenLocked(v)) /\ SeenLocked(w)'
  BY <1>0, <1>1 DEF SeenLocked
<1>3. ASSUME NEW v \in Words
      PROVE  /\ NodeAt(v) = ManagerNode /\ InCache(ManagerNode, v)' /\ v \notin stored'[ManagerNode]
                => view'[ManagerNode][v] = mem'[v]
             /\ NodeAt(v) # ManagerNode =>
                /\ mem'[v] = "LOCKED" => SeenLocked(v)'
                /\ Value(NodeAt(v), v)' = "LOCKED" => mem'[v] = "LOCKED"
  <2>1. NodeAt(v) \in Nodes
    BY WordType
  <2>2. NodeAt(v) = ManagerNode /\ v \notin stored[ManagerNode] => Value(ManagerNode, v) = mem[v]
    BY DEF CopyInv, Value, InCache
  <2>3. v \notin stored'[ManagerNode] => v \notin stored[ManagerNode] /\ v # w
    BY <1>0, <1>1 DEF CacheTypeOK
  <2>4. NodeAt(v) # ManagerNode /\ mem'[v] = "LOCKED" => SeenLocked(v)'
    BY <1>1, <1>2 DEF CopyInv
  <2>5. NodeAt(v) # ManagerNode /\ Value(NodeAt(v), v)' = "LOCKED" => mem'[v] = "LOCKED"
    BY <1>1, <2>1 DEF CopyInv
  <2>6. NodeAt(v) = ManagerNode /\ InCache(ManagerNode, v)' /\ v \notin stored'[ManagerNode]
                => view'[ManagerNode][v] = mem'[v]
    BY <1>0, <1>1, <2>2, <2>3
  <2> QED BY <2>4, <2>5, <2>6
<1> QED BY <1>2, <1>3 DEF CopyInv, ManagerNode, NodeAt

\* The loss of a line that overwrites no neighbour takes no lock for the manager,
\* frees none of its own node, and changes a LOCKED slot in the memory only to what
\* a call of its node has stored.
LEMMA CopyDrop ==
    ASSUME CacheTypeOK, StoredInv, CopyInv, UNCHANGED perLine,
           NEW k \in Nodes, NEW line \in Words, Drop(k, line), ~clobbered'
    PROVE  /\ CopyInv'
           /\ \A v \in Words : SeenLocked(v)' => SeenLocked(v)
           /\ \A v \in Words : NodeAt(v) = ManagerNode => Value(ManagerNode, v)' = Value(ManagerNode, v)
           /\ \A v \in Words : NodeAt(v) # ManagerNode /\ mem[v] = "LOCKED" /\ mem'[v] # "LOCKED" =>
                k = NodeAt(v) /\ v \in stored[k]
<1>0. ManagerNode \in Nodes /\ \A v \in stored[k] : InCache(k, v)
  BY ManagerNodeExists DEF StoredInv
<1>1. /\ stored' = [stored EXCEPT ![k] = @ \ WordsOf(line)]
      /\ \A j \in Nodes, v \in Words : InCache(j, v)' <=> InCache(j, v) /\ (j # k \/ LineOf(v) # line)
      /\ \A j \in Nodes, v \in Words : InCache(j, v)' => view'[j][v] = view[j][v]
      /\ \A v \in Words : LineOf(v) = line /\ v \in stored[k] => mem'[v] = view[k][v]
      /\ \A v \in Words : LineOf(v) # line \/ v \notin stored[k] => mem'[v] = mem[v]
  BY <1>0, DropEffect
<1>2. \A j \in Nodes, v \in Words :
        /\ Value(j, v) = IF InCache(j, v) THEN view[j][v] ELSE mem[v]
        /\ Value(j, v)' = IF InCache(j, v)' THEN view'[j][v] ELSE mem'[v]
  BY DEF Value, InCache
<1>3. ASSUME NEW v \in Words, NodeAt(v) # ManagerNode
      PROVE  /\ mem'[v] = "LOCKED" => SeenLocked(v)'
             /\ Value(NodeAt(v), v)' = "LOCKED" => mem'[v] = "LOCKED"
             /\ SeenLocked(v)' => SeenLocked(v)
             /\ mem[v] = "LOCKED" /\ mem'[v] # "LOCKED" => k = NodeAt(v) /\ v \in stored[k]
  <2>0. NodeAt(v) \in Nodes
    BY WordType
  <2>1. /\ mem[v] = "LOCKED" => Value(ManagerNode, v) = "LOCKED"
        /\ Value(NodeAt(v), v) = "LOCKED" => mem[v] = "LOCKED"
    BY <1>3 DEF CopyInv, SeenLocked
  <2>2. CASE LineOf(v) = line /\ v \in stored[k]
    <3>1. CASE k = NodeAt(v)
      <4>1. view[k][v] # "LOCKED"
        BY <1>3, <2>2, <3>1 DEF StoredInv
      <4> QED BY <1>0, <1>1, <1>2, <1>3, <2>0, <2>1, <2>2, <3>1, <4>1 DEF SeenLocked
    <3>2. CASE k # NodeAt(v)
      <4>1. k = ManagerNode /\ view[k][v] = "LOCKED"
        BY <2>2, <3>2 DEF StoredInv
      <4>2. InCache(k, v)
        BY <1>0, <2>2
      <4> QED BY <1>0, <1>1, <1>2, <1>3, <2>0, <2>1, <2>2, <4>1, <4>2 DEF SeenLocked
    <3> QED BY <3>1, <3>2
  <2>3. CASE ~(LineOf(v) = line /\ v \in stored[k])
    <3>1. mem'[v] = mem[v]
      BY <1>1, <2>3
    <3> QED BY <1>0, <1>1, <1>2, <2>0, <2>1, <3>1 DEF SeenLocked
  <2> QED BY <2>2, <2>3
<1>4. ASSUME NEW v \in Words, NodeAt(v) = ManagerNode
      PROVE  /\ InCache(ManagerNode, v)' /\ v \notin stored'[ManagerNode] =>
                    view'[ManagerNode][v] = mem'[v]
             /\ Value(ManagerNode, v)' = Value(ManagerNode, v)
  <2>1. InCache(ManagerNode, v) /\ v \notin stored[ManagerNode] => view[ManagerNode][v] = mem[v]
    BY <1>4 DEF CopyInv
  <2>2. CASE k = ManagerNode
    BY <1>0, <1>1, <1>2, <2>1, <2>2 DEF CacheTypeOK, WordsOf
  <2>3. CASE k # ManagerNode
    <3>1. v \notin stored[k]
      BY <1>4, <2>3 DEF StoredInv
    <3> QED BY <1>0, <1>1, <1>2, <2>1, <2>3, <3>1 DEF CacheTypeOK
  <2> QED BY <2>2, <2>3
<1>5. \A v \in Words : SeenLocked(v)' => SeenLocked(v)
  BY <1>3, <1>4 DEF SeenLocked, ManagerNode
<1>6. CopyInv'
  BY <1>3, <1>4 DEF CopyInv, ManagerNode, NodeAt
<1> QED BY <1>3, <1>4, <1>5, <1>6

-----------------------------------------------------------------------------
(* Holders, the scan and the slots to be cleared, one lemma per kind of step.  *)

LEMMA MutexAll ==
    ASSUME TypeOK, StoredInv, MutexInv, NoLeakedMutex, ~StrayRelease, [Next]_vars
    PROVE  MutexInv' /\ NoLeakedMutex'
<1>0. ClientTypeOK
  BY TypeParts
<1>1. CASE UNCHANGED clientVars
  BY <1>1 DEF clientVars, MutexInv, NoLeakedMutex, MutexOwner
<1>2. ASSUME NEW t \in Threads, ClientCall(t) PROVE MutexInv' /\ NoLeakedMutex'
  BY <1>0, <1>2, MutexStep
<1>3. ASSUME NEW t \in Threads, Thread(t) PROVE MutexInv' /\ NoLeakedMutex'
  <2>1. CASE ClientStep(t) \/ Poll(t)
    BY <1>0, <2>1, MutexStep DEF Poll
  <2>2. CASE FlushSlot(t)
    <3>1. pc[t] \in {"request", "release", "cancel"}
      BY <2>2 DEF FlushSlot, StoredInv
    <3>2. \E label \in {"poll", "releaseLocal", "cancelLocal"} : Goto(t, label)
      BY <2>2, <3>1 DEF FlushSlot
    <3> QED BY <1>0, <2>2, <3>1, <3>2, MutexMove DEF FlushSlot, AcquirePCs, ReleasePCs
  <2> QED BY <1>1, <1>3, <2>1, <2>2 DEF Thread, WriteSlot
<1> QED
  BY <1>1, <1>2, <1>3
  DEF Next, Manager, Environment, Evict, vars, CheckLocked, CheckWaiting, GrantExchange, GrantFlush

\* A call that writes or flushes the slot of a lock someone of its node has is the
\* release of that lock, before it has stored anything.
LEMMA WriterIsOwner ==
    ASSUME TypeOK, MutexInv, NEW t \in Threads, NEW u \in Threads, NEW l \in Locks,
           Owns(t, l), Word(l, NodeOf[t]) = OwnWord(u),
           pc[u] \in {"request", "release", "cancel"}
    PROVE  u = t /\ arg[u] = l /\ l \notin held[t] /\ pc[t] = "release" /\ ~flushing[t]
<1>1. arg[u] = l /\ NodeOf[u] = NodeOf[t]
  <2>1. arg[u] \in Locks
    BY DEF TypeOK, ClientTypeOK
  <2> QED BY <2>1, NodeOfType, WordInjective DEF OwnWord
<1>2. mutex[NodeOf[t]][l] = t
  BY DEF Owns, MutexInv, MutexOwner, ReleasePCs
<1>3. mutex[NodeOf[u]][arg[u]] = u /\ arg[u] \notin held[u]
  BY DEF MutexInv, MutexOwner, AcquirePCs, ReleasePCs
<1> QED BY <1>1, <1>2, <1>3 DEF Owns

\* Calls with the same slot are about the same lock on the same node.
LEMMA SlotOfCall ==
    ASSUME ClientTypeOK, NEW t \in Threads, NEW l \in Locks, NEW n \in Nodes, OwnWord(t) = Word(l, n)
    PROVE  arg[t] = l /\ NodeOf[t] = n
<1>1. arg[t] \in Locks /\ NodeOf[t] \in Nodes
  BY NodeOfType DEF ClientTypeOK
<1>2. Word(arg[t], NodeOf[t]) = Word(l, n)
  BY DEF OwnWord
<1> QED BY <1>1, <1>2, WordInjective

\* A holder keeps its slot when lines are lost.
LEMMA HolderDrop ==
    ASSUME TypeOK, StoredInv, MutexInv, CopyInv, HolderInv, UNCHANGED perLine,
           NEW k \in Nodes, NEW line \in Words, Drop(k, line), ~clobbered',
           \A t \in Threads, l \in Locks : Owns(t, l)' => Owns(t, l)
    PROVE  HolderInv'
<1>0. CacheTypeOK
  BY TypeParts
<1>1. /\ \A v \in Words : NodeAt(v) = ManagerNode => Value(ManagerNode, v)' = Value(ManagerNode, v)
      /\ \A v \in Words : NodeAt(v) # ManagerNode /\ mem[v] = "LOCKED" /\ mem'[v] # "LOCKED" =>
                k = NodeAt(v) /\ v \in stored[k]
  BY <1>0, CopyDrop
<1>2. ASSUME NEW t \in Threads, NEW l \in Locks, Owns(t, l)
      PROVE  /\ NodeOf[t] = ManagerNode => Value(ManagerNode, Word(l, NodeOf[t]))' = "LOCKED"
             /\ NodeOf[t] # ManagerNode => mem'[Word(l, NodeOf[t])] = "LOCKED"
  <2>0. PICK w \in Words : w = Word(l, NodeOf[t]) /\ NodeAt(w) = NodeOf[t]
    BY NodeOfType, WordOfSlot
  <2>1. /\ NodeOf[t] = ManagerNode => Value(ManagerNode, w) = "LOCKED"
        /\ NodeOf[t] # ManagerNode => mem[w] = "LOCKED"
    BY <1>2, <2>0 DEF HolderInv, SeenLocked
  <2>2. CASE NodeOf[t] = ManagerNode
    <3>1. Value(ManagerNode, w)' = "LOCKED"
      BY <1>1, <2>0, <2>1, <2>2
    <3> QED BY <2>0, <2>2, <3>1
  <2>3. CASE NodeOf[t] # ManagerNode
    <3>1. ASSUME mem'[w] # "LOCKED" PROVE FALSE
      <4>1. k = NodeAt(w) /\ w \in stored[k]
        BY <1>1, <2>0, <2>1, <2>3, <3>1
      <4>2. PICK u \in Threads : NodeOf[u] = k /\ flushing[u] /\ OwnWord(u) = w
        BY <2>0, <2>3, <4>1 DEF StoredInv
      <4>3. pc[u] \in {"request", "release", "cancel"}
        BY <4>2 DEF StoredInv
      <4> QED BY <1>2, <2>0, <4>2, <4>3, WriterIsOwner
    <3> QED BY <2>0, <2>3, <3>1
  <2> QED BY <2>2, <2>3
<1> QED BY <1>2 DEF HolderInv, SeenLocked, ManagerNode

\* A step by which nothing more is locked, and the manager does not move, keeps
\* what the manager knows.
LEMMA ScanQuiet ==
    ASSUME TypeOK, ScanInv, OneLocked, UNCHANGED <<mpc, mlock, pass, nid, mflushing>>,
           \A w \in Words : SeenLocked(w)' => SeenLocked(w)
    PROVE  ScanInv' /\ OneLocked'
<1>0. mlock \in Locks
  BY DEF TypeOK, ManagerTypeOK
<1>1. \A l \in Locks, n \in Nodes : SeenLocked(Word(l, n))' => SeenLocked(Word(l, n))
  <2>1. SUFFICES ASSUME NEW l \in Locks, NEW n \in Nodes, SeenLocked(Word(l, n))'
                 PROVE  SeenLocked(Word(l, n))
    OBVIOUS
  <2>2. PICK w \in Words : w = Word(l, n)
    BY WordOfSlot
  <2>3. SeenLocked(w)'
    BY <2>1, <2>2 DEF SeenLocked
  <2> QED BY <2>2, <2>3
<1>2. OneLocked'
  BY <1>1 DEF OneLocked
<1>3. ScanInv'
  <2>1. \A n \in Nodes : SeenLocked(Word(mlock, n))' => SeenLocked(Word(mlock, n))
    BY <1>0, <1>1
  <2> QED BY <2>1 DEF ScanInv
<1> QED BY <1>2, <1>3

\* Who is responsible for a slot stays so through the steps outside the algorithm
\* and those of poll_for_grant.
LEMMA ResponsibleKept ==
    ASSUME TypeOK, MutexInv, NEW t \in Threads, ~StrayRelease,
           \/ ClientStep(t) \/ ClientCall(t)
           \/ PollGranted(t) \/ PollAgain(t) \/ PollGivesUp(t),
           NEW l \in Locks, NEW n \in Nodes, Responsible(l, n)
    PROVE  Responsible(l, n)'
<1> USE NodeOfType, ThreadAssumption DEF TypeOK, ClientTypeOK, MutexOwner
<1>0. PICK r \in Threads :
        /\ NodeOf[r] = n /\ mutex[n][l] = r
        /\ \/ l \in held[r]
           \/ pc[r] \in {"request", "poll", "cancel", "release"} /\ arg[r] = l
  BY DEF Responsible
<1> SUFFICES /\ mutex'[n][l] = r
             /\ \/ l \in held'[r]
                \/ pc'[r] \in {"request", "poll", "cancel", "release"} /\ arg'[r] = l
    BY <1>0 DEF Responsible
<1>1. CASE LocalAcquire(t)
  BY <1>0, <1>1 DEF LocalAcquire, Goto
<1>2. CASE LocalRefused(t)
  BY <1>0, <1>2 DEF LocalRefused, Return
<1>3. CASE LocalRelease(t)
  <2>1. mutex[NodeOf[t]][arg[t]] = t /\ arg[t] \notin held[t]
    BY <1>3 DEF LocalRelease, MutexInv, AcquirePCs, ReleasePCs
  <2> QED BY <1>0, <1>3, <2>1 DEF LocalRelease, Return
<1>4. ASSUME NEW j \in Locks, NEW m \in CallModes, Acquire(t, j, m)
      PROVE  /\ mutex'[n][l] = r
             /\ \/ l \in held'[r]
                \/ pc'[r] \in {"request", "poll", "cancel", "release"} /\ arg'[r] = l
  BY <1>0, <1>4 DEF Acquire
<1>5. ASSUME NEW j \in Locks, Release(t, j)
      PROVE  /\ mutex'[n][l] = r
             /\ \/ l \in held'[r]
                \/ pc'[r] \in {"request", "poll", "cancel", "release"} /\ arg'[r] = l
  BY <1>0, <1>5 DEF Release
<1>6. CASE PollGranted(t)
  BY <1>0, <1>6 DEF PollGranted, Return
<1>7. CASE PollAgain(t) \/ PollGivesUp(t)
  BY <1>0, <1>7 DEF PollAgain, PollGivesUp, Goto
<1> QED BY <1>1, <1>2, <1>3, <1>4, <1>5, <1>6, <1>7 DEF ClientStep, ClientCall

\* The owner of a call's mutex is the call's thread.
LEMMA CallIsResponsible ==
    ASSUME TypeOK, MutexInv, NEW t \in Threads, pc[t] \in {"request", "release", "cancel"}
    PROVE  Responsible(arg[t], NodeOf[t])
  BY DEF Responsible, MutexInv, MutexOwner, AcquirePCs, ReleasePCs

\* What a word says of its slot's use.
InUse(l, n) ==
    \/ mem[Word(l, n)] # "IDLE"
    \/ n = ManagerNode /\ Value(n, Word(l, n)) # "IDLE"

ClearsOwn(t) ==
    LET w == OwnWord(t)
    IN IF w \in stored[NodeOf[t]] THEN view[NodeOf[t]][w] = "IDLE" ELSE mem[w] = "IDLE"

LEMMA ClearedParts ==
    ClearedInv <=> /\ \A l \in Locks, n \in Nodes : InUse(l, n) => Responsible(l, n)
                   /\ \A t \in Threads : flushing[t] /\ pc[t] \in {"cancel", "release"} => ClearsOwn(t)
  BY DEF ClearedInv, InUse, ClearsOwn

LEMMA ClearedNext ==
    ASSUME \A l \in Locks, n \in Nodes : InUse(l, n)' => Responsible(l, n)',
           \A t \in Threads : flushing'[t] /\ pc'[t] \in {"cancel", "release"} => ClearsOwn(t)'
    PROVE  ClearedInv'
  BY DEF ClearedInv, InUse, ClearsOwn

\* When a line is lost, what it writes back is a request or a grant of a slot
\* someone is responsible for, and what was to be cleared is or will be.
LEMMA ClearedDrop ==
    ASSUME TypeOK, StoredInv, MutexInv, CopyInv, ClearedInv, UNCHANGED perLine,
           NEW k \in Nodes, NEW line \in Words, Drop(k, line), ~clobbered', ~crossed'
    PROVE  /\ \A l \in Locks, n \in Nodes : InUse(l, n)' => Responsible(l, n)
           /\ \A t \in Threads : flushing[t] /\ pc[t] \in {"cancel", "release"} =>
                LET w == OwnWord(t)
                IN IF w \in stored'[NodeOf[t]] THEN view'[NodeOf[t]][w] = "IDLE" ELSE mem'[w] = "IDLE"
<1>0. CacheTypeOK /\ ClientTypeOK /\ ManagerNode \in Nodes /\ \A v \in stored[k] : InCache(k, v)
  BY TypeParts, ManagerNodeExists DEF StoredInv
<1>1. /\ stored' = [stored EXCEPT ![k] = @ \ WordsOf(line)]
      /\ \A j \in Nodes, v \in Words : InCache(j, v)' <=> InCache(j, v) /\ (j # k \/ LineOf(v) # line)
      /\ \A j \in Nodes, v \in Words : InCache(j, v)' => view'[j][v] = view[j][v]
      /\ \A v \in Words : LineOf(v) = line /\ v \in stored[k] =>
            /\ mem'[v] = view[k][v]
            /\ NodeAt(v) # k /\ view[k][v] = "LOCKED" => mem[v] = "WAITING"
      /\ \A v \in Words : LineOf(v) # line \/ v \notin stored[k] => mem'[v] = mem[v]
  BY <1>0, DropEffect
<1>2. \A v \in Words : NodeAt(v) = ManagerNode => Value(ManagerNode, v)' = Value(ManagerNode, v)
  BY <1>0, CopyDrop
<1>3. ASSUME NEW l \in Locks, NEW n \in Nodes, InUse(l, n)' PROVE Responsible(l, n)
  <2>0. PICK w \in Words : w = Word(l, n) /\ NodeAt(w) = n
    BY WordOfSlot
  <2>1. mem'[w] # "IDLE" \/ (n = ManagerNode /\ Value(n, w)' # "IDLE")
    BY <1>3, <2>0 DEF InUse, ManagerNode
  <2>2. mem[w] # "IDLE" \/ (n = ManagerNode /\ Value(ManagerNode, w) # "IDLE") => Responsible(l, n)
    BY <2>0, ClearedParts DEF InUse
  <2>3. CASE mem'[w] = mem[w]
    BY <1>2, <2>0, <2>1, <2>2, <2>3
  <2>4. CASE mem'[w] # mem[w]
    <3>1. LineOf(w) = line /\ w \in stored[k] /\ mem'[w] = view[k][w] /\ InCache(k, w)
      BY <1>0, <1>1, <2>4
    <3>2. CASE n # k
      <4>1. view[k][w] = "LOCKED"
        BY <2>0, <3>1, <3>2 DEF StoredInv
      <4>2. mem[w] = "WAITING"
        BY <1>1, <2>0, <3>1, <3>2, <4>1
      <4> QED BY <2>2, <4>2
    <3>3. CASE n = k /\ k = ManagerNode
      <4>1. mem'[w] = Value(ManagerNode, w)
        BY <3>1, <3>3 DEF Value, InCache
      <4> QED BY <1>2, <2>0, <2>1, <2>2, <3>3, <4>1
    <3>4. CASE n = k /\ k # ManagerNode
      <4>1. PICK u \in Threads : NodeOf[u] = k /\ flushing[u] /\ OwnWord(u) = w
        BY <2>0, <3>1, <3>4 DEF StoredInv
      <4>2. pc[u] \in {"request", "release", "cancel"}
        BY <4>1 DEF StoredInv
      <4>3. arg[u] = l
        BY <1>0, <2>0, <3>4, <4>1, WordInjective DEF OwnWord, ClientTypeOK
      <4> QED BY <3>4, <4>1, <4>2, <4>3, CallIsResponsible
    <3> QED BY <3>2, <3>3, <3>4
  <2> QED BY <2>3, <2>4
<1>4. ASSUME NEW t \in Threads, flushing[t], pc[t] \in {"cancel", "release"}, NEW w \in Words, w = OwnWord(t)
      PROVE  IF w \in stored'[NodeOf[t]] THEN view'[NodeOf[t]][w] = "IDLE" ELSE mem'[w] = "IDLE"
  <2>0. NodeOf[t] \in Nodes /\ NodeAt(w) = NodeOf[t]
    BY <1>0, <1>4, NodeOfType, OwnWordType
  <2>1. IF w \in stored[NodeOf[t]] THEN view[NodeOf[t]][w] = "IDLE" ELSE mem[w] = "IDLE"
    BY <1>4, ClearedParts DEF ClearsOwn
  <2>2. CASE NodeOf[t] = k
    <3>1. w \in stored'[k] <=> w \in stored[k] /\ LineOf(w) # line
      BY <1>0, <1>1 DEF CacheTypeOK, WordsOf
    <3>2. CASE w \in stored'[k]
      BY <1>0, <1>1, <2>1, <2>2, <3>1, <3>2
    <3>3. CASE w \notin stored'[k]
      BY <1>1, <2>1, <2>2, <3>1, <3>3
    <3> QED BY <2>2, <3>2, <3>3
  <2>3. CASE NodeOf[t] # k
    <3>1. w \in stored'[NodeOf[t]] <=> w \in stored[NodeOf[t]]
      BY <1>0, <1>1, <2>0, <2>3 DEF CacheTypeOK
    <3>2. CASE w \in stored[NodeOf[t]]
      <4>1. InCache(NodeOf[t], w)
        BY <2>0, <3>2 DEF StoredInv
      <4> QED BY <1>1, <2>0, <2>1, <2>3, <3>1, <3>2, <4>1
    <3>3. CASE w \notin stored[NodeOf[t]]
      <4>1. w \in stored[k] => view[k][w] = "LOCKED"
        BY <2>0, <2>3 DEF StoredInv
      <4> QED BY <1>1, <2>0, <2>1, <2>3, <3>1, <3>3, <4>1
    <3> QED BY <3>2, <3>3
  <2> QED BY <2>2, <2>3
<1> QED BY <1>0, <1>3, <1>4, OwnWordType

-----------------------------------------------------------------------------
(* The invariant, action by action.  Exclusion is lost with clobbered, the      *)
(* clearing of slots with crossed, so each is shown while its flag is down.     *)

\* What keeps exclusion.
Safe == CopyInv /\ HolderInv /\ ScanInv /\ OneLocked

\* Steps that touch no cache and no slot, of clients.
LEMMA InvClient ==
    ASSUME CacheInv, ~StrayRelease, NEW t \in Threads, ClientStep(t) \/ ClientCall(t),
           UNCHANGED <<managerVars, perLine, cacheVars, flushing, mflushing, scanVars>>
    PROVE  (~clobbered => Safe') /\ (~clobbered /\ ~crossed => ClearedInv')
<1>0. TypeOK /\ MutexInv /\ StoredInv /\ ClientTypeOK
  BY TypeParts DEF CacheInv
<1>1. /\ UNCHANGED <<mem, view, cached, stored, perLine, flushing>>
      /\ UNCHANGED <<mpc, mlock, pass, nid, mflushing>>
  BY DEF cacheVars, managerVars, scanVars
<1>2. \A k \in Nodes, w \in Words : InCache(k, w)' = InCache(k, w) /\ Value(k, w)' = Value(k, w)
  BY <1>1 DEF InCache, Value, LineOf
<1>3. \A w \in Words : SeenLocked(w)' = SeenLocked(w)
  BY <1>2, ManagerNodeExists DEF SeenLocked
<1>4. \A u \in Threads, l \in Locks : Owns(u, l)' => Owns(u, l)
  BY <1>0, <1>1
  DEF Owns, ClientTypeOK, ClientStep, ClientCall, LocalAcquire, LocalRefused, LocalRelease, Acquire, Release,
      Goto, Return
<1>5. CopyInv => CopyInv'
  BY <1>1, <1>2, <1>3, WordType, ManagerNodeExists DEF CopyInv, ManagerNode, NodeAt
<1>6. HolderInv => HolderInv'
  <2>1. \A u \in Threads, l \in Locks : SeenLocked(Word(l, NodeOf[u]))' = SeenLocked(Word(l, NodeOf[u]))
    BY <1>1 DEF SeenLocked, Value, LineOf
  <2> QED BY <1>1, <1>4, <2>1 DEF HolderInv
<1>7. ScanInv /\ OneLocked => ScanInv' /\ OneLocked'
  BY <1>0, <1>1, <1>3, ScanQuiet
<1>8. ClearedInv => ClearedInv'
  <2>1. \A l \in Locks, n \in Nodes : InUse(l, n)' = InUse(l, n)
    BY <1>1 DEF InUse, Value, LineOf
  <2>2. \A l \in Locks, n \in Nodes : Responsible(l, n) => Responsible(l, n)'
    BY <1>0, ResponsibleKept
  <2>3. \A u \in Threads : flushing[u] => pc'[u] = pc[u] /\ arg'[u] = arg[u]
    BY <1>0, <1>1, ClientFlushes
  <2>4. \A u \in Threads : flushing[u] => ClearsOwn(u)' = ClearsOwn(u)
    BY <1>1, <2>3 DEF ClearsOwn, OwnWord
  <2> QED BY <1>1, <2>1, <2>2, <2>3, <2>4, ClearedParts, ClearedNext
<1> QED BY <1>5, <1>6, <1>7, <1>8 DEF CacheInv, Safe

\* A load leaves all that the invariant says of slots.
LEMMA LoadKeeps ==
    ASSUME CacheInv, UNCHANGED <<perLine, flushing>>, NEW k \in Nodes, NEW w \in Words, Load(k, w),
           \A u \in Threads : flushing[u] => pc'[u] = pc[u] /\ arg'[u] = arg[u]
    PROVE  /\ UNCHANGED <<mem, clobbered, crossed>>
           /\ ~clobbered => CopyInv'
           /\ \A l \in Locks, n \in Nodes : SeenLocked(Word(l, n))' = SeenLocked(Word(l, n))
           /\ \A l \in Locks, n \in Nodes : InUse(l, n)' = InUse(l, n)
           /\ \A u \in Threads : flushing[u] => ClearsOwn(u)' = ClearsOwn(u)
<1>0. TypeOK /\ StoredInv /\ CacheTypeOK /\ ClientTypeOK
  BY TypeParts DEF CacheInv
<1>1. /\ UNCHANGED <<mem, stored, clobbered, crossed>>
      /\ \A j \in Nodes, v \in Words : Value(j, v)' = Value(j, v)
      /\ \A j \in Nodes, v \in Words : InCache(j, v) =>
            InCache(j, v)' /\ view'[j][v] = view[j][v]
  BY <1>0, LoadEffect
<1>2. ASSUME NEW l \in Locks, NEW n \in Nodes
      PROVE  SeenLocked(Word(l, n))' = SeenLocked(Word(l, n)) /\ InUse(l, n)' = InUse(l, n)
  <2>0. PICK v \in Words : v = Word(l, n)
    BY WordOfSlot
  <2>1. Value(ManagerNode, v)' = Value(ManagerNode, v) /\ Value(n, v)' = Value(n, v)
    BY <1>1, ManagerNodeExists
  <2> QED BY <1>1, <2>0, <2>1 DEF SeenLocked, InUse, ManagerNode
<1>3. ASSUME NEW u \in Threads, flushing[u] PROVE ClearsOwn(u)' = ClearsOwn(u)
  <2>0. PICK v \in Words : v = OwnWord(u)
    BY <1>0, OwnWordType
  <2>1. OwnWord(u)' = v
    BY <1>3, <2>0 DEF OwnWord
  <2>2. v \in stored[NodeOf[u]] => view'[NodeOf[u]][v] = view[NodeOf[u]][v]
    BY <1>0, <1>1, NodeOfType DEF StoredInv
  <2> QED BY <1>1, <2>0, <2>1, <2>2 DEF ClearsOwn
<1>4. ~clobbered => CopyInv'
  BY <1>0, CopyLoad DEF CacheInv
<1> QED BY <1>1, <1>2, <1>3, <1>4

\* poll_for_grant: LOCKED read in the node's own slot is a grant.
LEMMA InvPoll ==
    ASSUME CacheInv, ~StrayRelease, NEW t \in Threads, Poll(t)
    PROVE  UNCHANGED <<clobbered, crossed>> /\ (~clobbered => Safe') /\ (~clobbered /\ ~crossed => ClearedInv')
<1>0. TypeOK /\ MutexInv /\ StoredInv /\ CacheTypeOK /\ ClientTypeOK
      /\ NodeOf[t] \in Nodes /\ OwnWord(t) \in Words /\ NodeAt(OwnWord(t)) = NodeOf[t]
  BY TypeParts, NodeOfType, OwnWordType DEF CacheInv
<1>1. /\ PollGranted(t) \/ PollAgain(t) \/ PollGivesUp(t)
      /\ PollGranted(t) => pc[t] = "poll"
      /\ Load(NodeOf[t], OwnWord(t))
      /\ UNCHANGED <<mpc, mlock, perLine, flushing, mflushing, pass, nid>>
  BY DEF Poll, PollGranted, managerVars, scanVars
<1>2. \A u \in Threads : flushing[u] => pc'[u] = pc[u] /\ arg'[u] = arg[u]
  BY <1>0, <1>1, ClientFlushes
<1>3. /\ UNCHANGED <<mem, clobbered, crossed>>
      /\ ~clobbered => CopyInv'
      /\ \A l \in Locks, n \in Nodes : SeenLocked(Word(l, n))' = SeenLocked(Word(l, n))
      /\ \A l \in Locks, n \in Nodes : InUse(l, n)' = InUse(l, n)
      /\ \A u \in Threads : flushing[u] => ClearsOwn(u)' = ClearsOwn(u)
  BY <1>0, <1>1, <1>2, LoadKeeps
<1>4. ~clobbered => ScanInv' /\ OneLocked'
  BY <1>0, <1>1, CopyLoad, ScanQuiet DEF CacheInv
<1>5. ASSUME ~clobbered PROVE HolderInv'
  <2>1. ASSUME NEW u \in Threads, NEW l \in Locks, Owns(u, l)'
        PROVE  /\ NodeOf[u] = ManagerNode => SeenLocked(Word(l, NodeOf[u]))
               /\ NodeOf[u] # ManagerNode => mem[Word(l, NodeOf[u])] = "LOCKED"
    <3>1. CASE Owns(u, l)
      BY <1>5, <3>1 DEF CacheInv, HolderInv
    <3>2. CASE ~Owns(u, l)
      <4>1. u = t /\ l = arg[t] /\ Granted(t)
        BY <1>0, <1>1, <2>1, <3>2
        DEF Owns, Poll, PollGranted, PollAgain, PollGivesUp, Goto, Return, ClientTypeOK
      <4>2. Value(NodeOf[t], Word(l, NodeOf[t])) = "LOCKED"
        BY <4>1 DEF Granted, OwnWord
      <4> QED BY <1>0, <1>5, <4>1, <4>2 DEF CacheInv, CopyInv, SeenLocked, OwnWord
    <3> QED BY <3>1, <3>2
  <2> QED BY <1>3, <2>1, NodeOfType DEF HolderInv
<1>6. ASSUME ~clobbered, ~crossed PROVE ClearedInv'
  <2>1. ClearedInv
    BY <1>6 DEF CacheInv
  <2>2. \A l \in Locks, n \in Nodes : Responsible(l, n) => Responsible(l, n)'
    BY <1>0, <1>1, ResponsibleKept
  <2> QED BY <1>1, <1>2, <1>3, <2>1, <2>2, ClearedParts, ClearedNext
<1> QED BY <1>3, <1>4, <1>5, <1>6 DEF Safe

\* write_slot_state's store: WAITING or IDLE in the caller's own slot.
LEMMA InvWrite ==
    ASSUME CacheInv, NEW t \in Threads, WriteSlot(t)
    PROVE  UNCHANGED <<clobbered, crossed>> /\ (~clobbered => Safe') /\ (~clobbered /\ ~crossed => ClearedInv')
<1> DEFINE new == IF pc[t] = "request" THEN "WAITING" ELSE "IDLE"
<1>0. TypeOK /\ MutexInv /\ StoredInv /\ CacheTypeOK /\ ClientTypeOK /\ NodeOf[t] \in Nodes
  BY TypeParts, NodeOfType DEF CacheInv
<1>p. PICK w \in Words : w = OwnWord(t) /\ NodeAt(w) = NodeOf[t]
  BY <1>0, OwnWordType
<1>1. /\ new \in SlotStates /\ new # "LOCKED" /\ Store(NodeAt(w), w, new)
      /\ pc[t] \in {"request", "release", "cancel"}
      /\ flushing' = [flushing EXCEPT ![t] = TRUE]
      /\ UNCHANGED <<clientVars, perLine, mpc, mlock, pass, nid, mflushing>>
  BY <1>p DEF WriteSlot, SlotStates, managerVars, scanVars
<1>2. /\ UNCHANGED <<mem, clobbered, crossed>>
      /\ stored' = [stored EXCEPT ![NodeAt(w)] = @ \cup {w}]
      /\ view'[NodeAt(w)][w] = new
      /\ \A j \in Nodes, v \in Words : j # NodeAt(w) \/ v # w =>
            /\ Value(j, v)' = Value(j, v)
  BY <1>0, <1>1, <1>p, StoreEffect
<1>3. \A j \in Nodes, v \in Words : j # NodeAt(w) \/ v # w =>
            (InCache(j, v) => view'[j][v] = view[j][v])
  <2>1. Fetch(NodeAt(w), w, new)
    BY <1>1 DEF Store
  <2> QED BY <1>0, <1>1, <1>p, <2>1, FetchEffect
<1> HIDE DEF new
<1>4. ~clobbered =>
        /\ CopyInv'
        /\ \A v \in Words : v # w \/ NodeAt(w) # ManagerNode => SeenLocked(v)' = SeenLocked(v)
        /\ \A v \in Words : SeenLocked(v)' => SeenLocked(v)
  BY <1>0, <1>1, CopyWrite DEF CacheInv
<1>5. ~clobbered => ScanInv' /\ OneLocked'
  BY <1>0, <1>1, <1>4, ScanQuiet DEF CacheInv
<1>6. \A u \in Threads : flushing[u] => flushing'[u]
  BY <1>1, TypeParts, <1>0
<1>7. \A u \in Threads : flushing'[u] => flushing[u] \/ u = t
  BY <1>1, TypeParts, <1>0
<1>8. ASSUME ~clobbered PROVE HolderInv'
  <2>1. ASSUME NEW u \in Threads, NEW l \in Locks, Owns(u, l)'
        PROVE  /\ NodeOf[u] = ManagerNode => SeenLocked(Word(l, NodeOf[u]))'
               /\ NodeOf[u] # ManagerNode => mem'[Word(l, NodeOf[u])] = "LOCKED"
    <3>1. Owns(u, l)
      BY <1>1, <1>6, <2>1 DEF Owns, clientVars
    <3>2. PICK v \in Words : v = Word(l, NodeOf[u])
      BY NodeOfType, WordOfSlot
    <3>3. v # w
      <4>1. SUFFICES ASSUME v = w PROVE FALSE
        OBVIOUS
      <4>2. u = t /\ l \notin held[t]
        BY <1>0, <1>1, <1>p, <3>1, <3>2, <4>1, WriterIsOwner
      <4>3. flushing'[t] /\ held' = held
        BY <1>0, <1>1, TypeParts DEF clientVars
      <4> QED BY <2>1, <4>2, <4>3 DEF Owns
    <3>4. SeenLocked(v)' = SeenLocked(v)
      BY <1>4, <1>8, <3>3
    <3>5. /\ NodeOf[u] = ManagerNode => SeenLocked(v)
          /\ NodeOf[u] # ManagerNode => mem[v] = "LOCKED"
      BY <1>8, <3>1, <3>2 DEF CacheInv, HolderInv
    <3> QED BY <1>2, <3>2, <3>4, <3>5 DEF SeenLocked
  <2> QED BY <2>1 DEF HolderInv, ManagerNode
<1>9. ASSUME ~clobbered, ~crossed PROVE ClearedInv'
  <2>0. ClearedInv
    BY <1>9 DEF CacheInv
  <2>1. \A l \in Locks, n \in Nodes : Responsible(l, n)' = Responsible(l, n)
    BY <1>1 DEF Responsible, clientVars
  <2>2. ASSUME NEW l \in Locks, NEW n \in Nodes, InUse(l, n)' PROVE Responsible(l, n)'
    <3>0. PICK v \in Words : v = Word(l, n)
      BY WordOfSlot
    <3>1. CASE v = w
      <4>1. l = arg[t] /\ n = NodeOf[t]
        BY <1>0, <1>p, <3>0, <3>1, SlotOfCall
      <4> QED BY <1>0, <1>1, <2>1, <4>1, CallIsResponsible
    <3>2. CASE v # w
      <4>1. mem'[v] = mem[v] /\ Value(n, v)' = Value(n, v)
        BY <1>2, <3>2
      <4>2. InUse(l, n)
        BY <2>2, <3>0, <4>1 DEF InUse, ManagerNode
      <4> QED BY <2>0, <2>1, <4>2, ClearedParts
    <3> QED BY <3>1, <3>2
  <2>3. ASSUME NEW u \in Threads, flushing'[u], pc'[u] \in {"cancel", "release"} PROVE ClearsOwn(u)'
    <3>1. CASE u = t
      <4>1. OwnWord(u)' = w /\ pc[t] \in {"cancel", "release"}
        BY <1>1, <1>p, <2>3, <3>1 DEF OwnWord, clientVars
      <4>2. w \in stored'[NodeOf[t]] /\ view'[NodeOf[t]][w] = "IDLE"
        BY <1>0, <1>2, <1>p, <4>1 DEF new, CacheTypeOK
      <4> QED BY <3>1, <4>1, <4>2 DEF ClearsOwn
    <3>2. CASE u # t
      <4>0. flushing[u] /\ pc[u] \in {"cancel", "release"}
        BY <1>1, <1>7, <2>3, <3>2 DEF clientVars
      <4>1. PICK v \in Words : v = OwnWord(u)
        BY <1>0, OwnWordType
      <4>2. OwnWord(u)' = v
        BY <1>1, <4>1 DEF OwnWord, clientVars
      <4>3. v # w
        <5>1. SUFFICES ASSUME v = w PROVE FALSE
          OBVIOUS
        <5>2. arg[u] = arg[t] /\ NodeOf[u] = NodeOf[t]
          <6>1. arg[t] \in Locks /\ OwnWord(u) = Word(arg[t], NodeOf[t])
            BY <1>0, <1>p, <4>1, <5>1 DEF OwnWord, ClientTypeOK
          <6> QED BY <1>0, <6>1, SlotOfCall
        <5> QED BY <1>0, <1>1, <3>2, <4>0, <5>2 DEF MutexInv, MutexOwner, AcquirePCs, ReleasePCs
      <4>4. v \in stored[NodeOf[u]] => view'[NodeOf[u]][v] = view[NodeOf[u]][v]
        BY <1>0, <1>3, <4>3, NodeOfType DEF StoredInv
      <4>5. v \in stored'[NodeOf[u]] <=> v \in stored[NodeOf[u]]
        BY <1>0, <1>2, <1>p, <4>3, NodeOfType DEF CacheTypeOK
      <4>6. ClearsOwn(u)
        BY <2>0, <4>0, ClearedParts
      <4> QED BY <1>2, <4>1, <4>2, <4>4, <4>5, <4>6 DEF ClearsOwn
    <3> QED BY <3>1, <3>2
  <2> QED BY <2>2, <2>3, ClearedNext
<1> QED BY <1>2, <1>4, <1>5, <1>8, <1>9 DEF Safe

\* write_slot_state's flush: acquire_lock or release_lock returns, and what the
\* call stored is in the memory.
LEMMA InvFlush ==
    ASSUME CacheInv, NEW t \in Threads, FlushSlot(t)
    PROVE  (~clobbered' => Safe') /\ (~clobbered' /\ ~crossed' => ClearedInv')
<1> DEFINE line == LineOf(OwnWord(t))
<1>0. TypeOK /\ MutexInv /\ StoredInv /\ CacheTypeOK /\ ClientTypeOK /\ NodeOf[t] \in Nodes
      /\ OwnWord(t) \in Words /\ line \in Words /\ NodeAt(OwnWord(t)) = NodeOf[t]
      /\ (\A v \in stored[NodeOf[t]] : InCache(NodeOf[t], v))
  BY TypeParts, NodeOfType, OwnWordType, LineType DEF CacheInv, CacheTypeOK, StoredInv
<1>1. /\ flushing[t] /\ pc[t] \in {"request", "release", "cancel"}
      /\ Drop(NodeOf[t], line)
      /\ flushing' = [flushing EXCEPT ![t] = FALSE]
      /\ UNCHANGED <<arg, mutex, held, perLine, mpc, mlock, pass, nid, mflushing>>
  BY <1>0 DEF FlushSlot, StoredInv, managerVars, scanVars
<1>2. /\ \A u \in Threads : u # t => pc'[u] = pc[u] /\ flushing'[u] = flushing[u]
      /\ ~flushing'[t]
      /\ pc'[t] = IF pc[t] = "request" THEN "poll"
                  ELSE IF pc[t] = "release" THEN "releaseLocal" ELSE "cancelLocal"
  <2>1. /\ \A u \in Threads : u # t => pc'[u] = pc[u]
        /\ pc[t] = "request" => pc'[t] = "poll"
        /\ pc[t] = "release" => pc'[t] = "releaseLocal"
        /\ pc[t] = "cancel" => pc'[t] = "cancelLocal"
    BY <1>0 DEF FlushSlot, Goto, ClientTypeOK
  <2>2. flushing \in [Threads -> BOOLEAN]
    BY <1>0, TypeParts
  <2> QED BY <1>1, <2>1, <2>2
<1>3. (~clobbered' => ~clobbered) /\ (~crossed' => ~crossed)
  BY <1>0, <1>1, DropEffect
<1>4. \A u \in Threads, l \in Locks : Owns(u, l)' => Owns(u, l)
  BY <1>1, <1>2 DEF Owns
<1>5. ASSUME ~clobbered' PROVE Safe'
  <2>1. CopyInv /\ HolderInv /\ ScanInv /\ OneLocked
    BY <1>3, <1>5 DEF CacheInv
  <2>2. CopyInv' /\ \A v \in Words : SeenLocked(v)' => SeenLocked(v)
    BY <1>0, <1>1, <1>5, <2>1, CopyDrop
  <2>3. HolderInv'
    BY <1>0, <1>1, <1>4, <1>5, <2>1, HolderDrop
  <2>4. ScanInv' /\ OneLocked'
    BY <1>0, <1>1, <2>1, <2>2, ScanQuiet
  <2> QED BY <2>2, <2>3, <2>4 DEF Safe
<1>6. ASSUME ~clobbered', ~crossed' PROVE ClearedInv'
  <2>0. CopyInv /\ ClearedInv
    BY <1>3, <1>6 DEF CacheInv
  <2>1. /\ \A l \in Locks, n \in Nodes : InUse(l, n)' => Responsible(l, n)
        /\ \A u \in Threads : flushing[u] /\ pc[u] \in {"cancel", "release"} =>
                LET w == OwnWord(u)
                IN IF w \in stored'[NodeOf[u]] THEN view'[NodeOf[u]][w] = "IDLE" ELSE mem'[w] = "IDLE"
    BY <1>0, <1>1, <1>6, <2>0, ClearedDrop
  <2>2. ASSUME NEW u \in Threads, flushing'[u], pc'[u] \in {"cancel", "release"} PROVE ClearsOwn(u)'
    <3>1. u # t /\ flushing[u] /\ pc[u] \in {"cancel", "release"} /\ OwnWord(u)' = OwnWord(u)
      BY <1>1, <1>2, <2>2 DEF OwnWord
    <3> QED BY <2>1, <3>1 DEF ClearsOwn
  <2>3. ASSUME NEW l \in Locks, NEW n \in Nodes, InUse(l, n)' PROVE Responsible(l, n)'
    <3>0. Responsible(l, n)
      BY <2>1, <2>3
    <3>1. CASE l = arg[t] /\ n = NodeOf[t] /\ pc[t] \in {"cancel", "release"}
      <4>0. PICK w \in Words : w = OwnWord(t) /\ w = Word(l, n) /\ NodeAt(w) = n
        BY <1>0, <3>1 DEF OwnWord
      <4>1. stored' = [stored EXCEPT ![NodeOf[t]] = @ \ WordsOf(line)]
        BY <1>0, <1>1, DropEffect
      <4>2. w \notin stored'[NodeOf[t]]
        BY <1>0, <4>0, <4>1 DEF WordsOf, CacheTypeOK
      <4>3. mem'[w] = "IDLE"
        BY <1>1, <2>1, <3>1, <4>0, <4>2
      <4>4. ~InCache(n, w)'
        BY <1>0, <1>1, <3>1, <4>0, DropEffect
      <4>5. Value(n, w)' = "IDLE"
        BY <4>3, <4>4 DEF Value, InCache
      <4>6. FALSE
        BY <2>3, <4>0, <4>3, <4>5 DEF InUse, ManagerNode
      <4> QED BY <4>6
    <3>2. CASE ~(l = arg[t] /\ n = NodeOf[t] /\ pc[t] \in {"cancel", "release"})
      <4>1. PICK r \in Threads :
              /\ NodeOf[r] = n /\ mutex[n][l] = r
              /\ \/ l \in held[r]
                 \/ pc[r] \in {"request", "poll", "cancel", "release"} /\ arg[r] = l
        BY <3>0 DEF Responsible
      <4>2. \/ l \in held'[r]
            \/ pc'[r] \in {"request", "poll", "cancel", "release"} /\ arg'[r] = l
        BY <1>1, <1>2, <3>2, <4>1
      <4> QED BY <1>1, <4>1, <4>2 DEF Responsible
    <3> QED BY <3>1, <3>2
  <2> QED BY <2>2, <2>3, ClearedNext
<1> QED BY <1>5, <1>6

\* A line lost by eviction or by the manager's flush, with the clients at rest.
LEMMA DropKeeps ==
    ASSUME CacheInv, UNCHANGED <<clientVars, flushing, perLine>>,
           NEW k \in Nodes, NEW line \in Words, Drop(k, line)
    PROVE  /\ ~clobbered' => /\ ~clobbered /\ CopyInv' /\ HolderInv'
                             /\ \A v \in Words : SeenLocked(v)' => SeenLocked(v)
           /\ ~clobbered' /\ ~crossed' => ClearedInv'
<1>0. TypeOK /\ MutexInv /\ StoredInv /\ CacheTypeOK /\ \A v \in stored[k] : InCache(k, v)
  BY TypeParts DEF CacheInv, StoredInv
<1>1. (~clobbered' => ~clobbered) /\ (~crossed' => ~crossed)
  BY <1>0, DropEffect
<1>2. \A u \in Threads, l \in Locks : Owns(u, l)' => Owns(u, l)
  BY DEF Owns, clientVars
<1>3. ASSUME ~clobbered', ~crossed' PROVE ClearedInv'
  <2>0. CopyInv /\ ClearedInv
    BY <1>1, <1>3 DEF CacheInv
  <2>1. /\ \A l \in Locks, n \in Nodes : InUse(l, n)' => Responsible(l, n)
        /\ \A u \in Threads : flushing[u] /\ pc[u] \in {"cancel", "release"} =>
                LET w == OwnWord(u)
                IN IF w \in stored'[NodeOf[u]] THEN view'[NodeOf[u]][w] = "IDLE" ELSE mem'[w] = "IDLE"
    BY <1>0, <1>3, <2>0, ClearedDrop
  <2>2. \A l \in Locks, n \in Nodes : Responsible(l, n) => Responsible(l, n)'
    BY DEF Responsible, clientVars
  <2>3. \A u \in Threads : flushing'[u] /\ pc'[u] \in {"cancel", "release"} => ClearsOwn(u)'
    <3>1. \A u \in Threads : OwnWord(u)' = OwnWord(u)
      BY DEF OwnWord, clientVars
    <3> QED BY <2>1, <3>1 DEF ClearsOwn, clientVars
  <2> QED BY <2>1, <2>2, <2>3, ClearedNext
<1> QED BY <1>0, <1>1, <1>2, <1>3, CopyDrop, HolderDrop DEF CacheInv

\* When the clients are at rest and nothing changes in the caches or they load, all
\* but the scan is kept.
LEMMA ReadKeeps ==
    ASSUME CacheInv, UNCHANGED <<clientVars, flushing, perLine>>,
           \/ UNCHANGED cacheVars
           \/ \E w \in Words : Load(ManagerNode, w)
    PROVE  /\ UNCHANGED <<clobbered, crossed>>
           /\ ~clobbered => CopyInv' /\ HolderInv' /\ OneLocked'
           /\ ~clobbered /\ ~crossed => ClearedInv'
           /\ \A l \in Locks, n \in Nodes : SeenLocked(Word(l, n))' = SeenLocked(Word(l, n))
<1>0. TypeOK /\ \A u \in Threads : OwnWord(u)' = OwnWord(u)
  BY DEF OwnWord, clientVars, CacheInv
<1>1. /\ UNCHANGED <<mem, clobbered, crossed>>
      /\ ~clobbered => CopyInv'
      /\ \A l \in Locks, n \in Nodes : SeenLocked(Word(l, n))' = SeenLocked(Word(l, n))
      /\ \A l \in Locks, n \in Nodes : InUse(l, n)' = InUse(l, n)
      /\ \A u \in Threads : flushing[u] => ClearsOwn(u)' = ClearsOwn(u)
  <2>1. CASE UNCHANGED cacheVars
    <3>1. UNCHANGED <<mem, view, cached, stored, clobbered, crossed>>
      BY <2>1 DEF cacheVars
    <3>2. CopyInv => CopyInv'
      BY <3>1 DEF CopyInv, SeenLocked, Value, InCache, LineOf, ManagerNode, NodeAt
    <3>3. \A l \in Locks, n \in Nodes :
            SeenLocked(Word(l, n))' = SeenLocked(Word(l, n)) /\ InUse(l, n)' = InUse(l, n)
      BY <3>1 DEF SeenLocked, InUse, Value, LineOf
    <3>4. \A u \in Threads : ClearsOwn(u)' = ClearsOwn(u)
      BY <1>0, <3>1 DEF ClearsOwn
    <3> QED BY <3>1, <3>2, <3>3, <3>4 DEF CacheInv
  <2>2. ASSUME NEW w \in Words, Load(ManagerNode, w)
        PROVE  /\ UNCHANGED <<mem, clobbered, crossed>>
               /\ ~clobbered => CopyInv'
               /\ \A l \in Locks, n \in Nodes : SeenLocked(Word(l, n))' = SeenLocked(Word(l, n))
               /\ \A l \in Locks, n \in Nodes : InUse(l, n)' = InUse(l, n)
               /\ \A u \in Threads : flushing[u] => ClearsOwn(u)' = ClearsOwn(u)
    BY <2>2, LoadKeeps, ManagerNodeExists DEF clientVars
  <2> QED BY <2>1, <2>2
<1>2. HolderInv => HolderInv'
  <2>1. \A u \in Threads, l \in Locks : Owns(u, l)' = Owns(u, l)
    BY DEF Owns, clientVars
  <2> QED BY <1>1, <2>1, NodeOfType DEF HolderInv
<1>3. OneLocked => OneLocked'
  BY <1>1 DEF OneLocked
<1>4. ClearedInv => ClearedInv'
  <2>1. \A l \in Locks, n \in Nodes : Responsible(l, n)' = Responsible(l, n)
    BY DEF Responsible, clientVars
  <2>2. UNCHANGED pc
    BY DEF clientVars
  <2> QED BY <1>1, <2>1, <2>2, ClearedParts, ClearedNext
<1> QED BY <1>1, <1>2, <1>3, <1>4 DEF CacheInv

\* Steps of the manager up to the grant, and the start and end of its thread.
LEMMA InvReads ==
    ASSUME CacheInv, UNCHANGED <<clientVars, flushing, perLine>>,
           \/ (Start \/ StopRequest \/ ManagerStep) /\ UNCHANGED <<cacheVars, mflushing, scanVars>>
           \/ CheckLocked \/ CheckWaiting
           \/ GrantExchange /\ Value(ManagerNode, Word(mlock, grantee)) # "WAITING"
    PROVE  UNCHANGED <<clobbered, crossed>> /\ (~clobbered => Safe') /\ (~clobbered /\ ~crossed => ClearedInv')
<1>0. TypeOK /\ ControlInv /\ mlock \in Locks /\ nid \in Nodes /\ Word(mlock, nid) \in Words
      /\ (mpc = "grant" => Word(mlock, grantee) \in Words)
  BY ManagerWords DEF CacheInv, TypeOK, ManagerTypeOK
<1>1. UNCHANGED cacheVars \/ \E w \in Words : Load(ManagerNode, w)
  BY <1>0 DEF CheckLocked, CheckWaiting, GrantExchange
<1>2. /\ UNCHANGED <<clobbered, crossed>>
      /\ ~clobbered => CopyInv' /\ HolderInv' /\ OneLocked'
      /\ ~clobbered /\ ~crossed => ClearedInv'
      /\ \A l \in Locks, n \in Nodes : SeenLocked(Word(l, n))' = SeenLocked(Word(l, n))
  BY <1>1, ReadKeeps
<1>3. ASSUME ~clobbered PROVE ScanInv'
  <2>0. ScanInv
    BY <1>3 DEF CacheInv
  <2>1. CASE mpc' \notin {"check", "grant"}
    BY <2>1 DEF ScanInv
  <2>2. CASE mpc' = "check" /\ pass' = 1 /\ nid' = 0
    BY <2>2 DEF ScanInv, Nodes
  <2>3. CASE Start \/ StopRequest \/ ManagerStep
    <3>1. UNCHANGED <<pass, nid, mflushing>>
      BY <2>3 DEF Start, StopRequest, ManagerStep, RunLoop, StopReturns, CheckLocked, CheckWaiting,
         GrantExchange, CheckReturns, GrantReturns, scanVars, managerVars
    <3>2. CASE StopRequest
      BY <1>0, <1>2, <2>0, <3>1, <3>2 DEF StopRequest, ScanInv
    <3>3. CASE Start \/ ManagerStep
      BY <1>0, <2>1, <2>2, <3>1, <3>3 DEF Start, ManagerStep, RunLoop, StopReturns, ControlInv
    <3> QED BY <2>3, <3>2, <3>3
  <2>4. CASE CheckLocked
    <3>1. CASE Seen = "LOCKED"
      BY <2>1, <2>2, <2>4, <3>1 DEF CheckLocked, CheckReturns, NextLock
    <3>2. CASE Seen # "LOCKED"
      <4>1. /\ UNCHANGED <<mpc, mlock>> /\ mpc = "check" /\ pass = 1
            /\ nid + 1 < NodeCount => nid' = nid + 1 /\ pass' = 1
            /\ ~(nid + 1 < NodeCount) => nid' = 0 /\ pass' = 2
        BY <2>4, <3>2 DEF CheckLocked, managerVars
      <4>2. ~SeenLocked(Word(mlock, nid))
        BY <3>2 DEF Seen, SeenLocked
      <4>3. \A n \in Nodes : n < nid => ~SeenLocked(Word(mlock, n))
        BY <2>0, <4>1 DEF ScanInv
      <4>4. \A n \in Nodes : n < nid + 1 => ~SeenLocked(Word(mlock, n))
        BY <1>0, <4>2, <4>3 DEF Nodes
      <4>5. ~(nid + 1 < NodeCount) => \A n \in Nodes : n < nid + 1
        BY <1>0, CountAssumption DEF Nodes
      <4> QED BY <1>0, <1>2, <4>1, <4>4, <4>5 DEF ScanInv, Nodes
    <3> QED BY <3>1, <3>2
  <2>5. CASE CheckWaiting
    <3>1. mpc = "check" /\ pass = 2
      BY <2>5 DEF CheckWaiting
    <3>2. \A n \in Nodes : ~SeenLocked(Word(mlock, n))
      BY <2>0, <3>1 DEF ScanInv
    <3>3. CASE UNCHANGED mlock
      BY <1>0, <1>2, <3>2, <3>3 DEF ScanInv
    <3>4. CASE ~UNCHANGED mlock
      BY <2>1, <2>2, <2>5, <3>4 DEF CheckWaiting, CheckReturns, NextLock, managerVars
    <3> QED BY <3>3, <3>4
  <2>6. CASE GrantExchange /\ Value(ManagerNode, Word(mlock, grantee)) # "WAITING"
    BY <1>0, <2>1, <2>2, <2>6 DEF GrantExchange, GrantReturns, NextLock, scanVars, ControlInv
  <2> QED BY <2>3, <2>4, <2>5, <2>6
<1> QED BY <1>2, <1>3 DEF Safe

\* grant_lock's exchange succeeds: the scan had found the lock free, and nothing
\* but a grant takes it.
LEMMA InvGrant ==
    ASSUME CacheInv, GrantExchange, Value(ManagerNode, Word(mlock, grantee)) = "WAITING"
    PROVE  UNCHANGED <<clobbered, crossed>> /\ (~clobbered => Safe') /\ (~clobbered /\ ~crossed => ClearedInv')
<1>0. TypeOK /\ ControlInv /\ StoredInv /\ MutexInv /\ CacheTypeOK /\ ClientTypeOK
      /\ ManagerNode \in Nodes /\ "LOCKED" \in SlotStates
  BY TypeParts, ManagerNodeExists DEF CacheInv, SlotStates
<1>1. /\ mpc = "grant" /\ ~mflushing /\ mflushing' = TRUE
      /\ Store(ManagerNode, Word(mlock, grantee), "LOCKED")
      /\ UNCHANGED <<clientVars, flushing, perLine, mpc, mlock, pass, nid>>
  BY DEF GrantExchange, managerVars, scanVars
<1>2. mlock \in Locks /\ grantee \in Nodes
  BY <1>0, <1>1 DEF TypeOK, ManagerTypeOK, ControlInv
<1>3. PICK w \in Words : w = Word(mlock, grantee) /\ NodeAt(w) = grantee
  BY <1>2, WordOfSlot
<1>4. Store(ManagerNode, w, "LOCKED") /\ Value(ManagerNode, w) = "WAITING"
  BY <1>1, <1>3
<1>5. /\ UNCHANGED <<mem, clobbered, crossed>>
      /\ stored' = [stored EXCEPT ![ManagerNode] = @ \cup {w}]
      /\ \A j \in Nodes, v \in Words : j # ManagerNode \/ v # w => Value(j, v)' = Value(j, v)
  BY <1>0, <1>1, <1>4, StoreEffect
<1>6. \A j \in Nodes, v \in Words : j # ManagerNode \/ v # w =>
            (InCache(j, v) => view'[j][v] = view[j][v])
  <2>1. Fetch(ManagerNode, w, "LOCKED")
    BY <1>4 DEF Store
  <2> QED BY <1>0, <1>1, <2>1, FetchEffect
<1>7. ASSUME ~clobbered PROVE Safe'
  <2>0. CopyInv /\ HolderInv /\ ScanInv /\ OneLocked
    BY <1>7 DEF CacheInv
  <2>1. CopyInv' /\ (\A v \in Words : v # w => SeenLocked(v)' = SeenLocked(v)) /\ SeenLocked(w)'
    BY <1>0, <1>1, <1>4, <2>0, CopyGrant
  <2>2. HolderInv'
    <3>1. ASSUME NEW u \in Threads, NEW l \in Locks, Owns(u, l)'
          PROVE  /\ NodeOf[u] = ManagerNode => SeenLocked(Word(l, NodeOf[u]))'
                 /\ NodeOf[u] # ManagerNode => mem'[Word(l, NodeOf[u])] = "LOCKED"
      <4>1. Owns(u, l)
        BY <1>1, <3>1 DEF Owns, clientVars
      <4>2. PICK v \in Words : v = Word(l, NodeOf[u])
        BY NodeOfType, WordOfSlot
      <4>3. /\ NodeOf[u] = ManagerNode => SeenLocked(v)
            /\ NodeOf[u] # ManagerNode => mem[v] = "LOCKED"
        BY <2>0, <4>1, <4>2 DEF HolderInv
      <4>4. SeenLocked(v) => SeenLocked(v)'
        BY <2>1
      <4> QED BY <1>5, <4>2, <4>3, <4>4 DEF SeenLocked
    <3> QED BY <3>1 DEF HolderInv, ManagerNode
  <2>3. ScanInv'
    BY <1>1 DEF ScanInv
  <2>4. OneLocked'
    <3>0. \A n \in Nodes : ~SeenLocked(Word(mlock, n))
      BY <1>1, <2>0 DEF ScanInv
    <3>1. ASSUME NEW l \in Locks, NEW n \in Nodes, SeenLocked(Word(l, n))'
          PROVE  SeenLocked(Word(l, n)) \/ (l = mlock /\ n = grantee)
      <4>1. PICK v \in Words : v = Word(l, n)
        BY WordOfSlot
      <4>2. SeenLocked(v)'
        BY <3>1, <4>1 DEF SeenLocked
      <4>3. CASE v = w
        BY <1>2, <1>3, <4>1, <4>3, WordInjective
      <4>4. CASE v # w
        BY <2>1, <4>1, <4>2, <4>4
      <4> QED BY <4>3, <4>4
    <3> QED BY <2>0, <3>0, <3>1 DEF OneLocked
  <2> QED BY <2>1, <2>2, <2>3, <2>4 DEF Safe
<1>8. ASSUME ~clobbered, ~crossed PROVE ClearedInv'
  <2>0. CopyInv /\ ClearedInv
    BY <1>8 DEF CacheInv
  <2>1. \A l \in Locks, n \in Nodes : Responsible(l, n)' = Responsible(l, n)
    BY <1>1 DEF Responsible, clientVars
  <2>2. ASSUME NEW l \in Locks, NEW n \in Nodes, InUse(l, n)' PROVE Responsible(l, n)'
    <3>0. PICK v \in Words : v = Word(l, n)
      BY WordOfSlot
    <3>1. mem'[v] # "IDLE" \/ (n = ManagerNode /\ Value(n, v)' # "IDLE")
      BY <2>2, <3>0 DEF InUse, ManagerNode
    <3>2. mem[v] # "IDLE" \/ (n = ManagerNode /\ Value(n, v) # "IDLE")
      BY <1>0, <1>4, <1>5, <3>1
    <3> QED BY <2>0, <2>1, <3>0, <3>2, ClearedParts DEF InUse
  <2>3. ASSUME NEW u \in Threads, flushing'[u], pc'[u] \in {"cancel", "release"} PROVE ClearsOwn(u)'
    <3>0. flushing[u] /\ pc[u] \in {"cancel", "release"}
      BY <1>1, <2>3 DEF clientVars
    <3>1. PICK v \in Words : v = OwnWord(u) /\ NodeAt(v) = NodeOf[u]
      BY <1>0, OwnWordType
    <3>2. OwnWord(u)' = v
      BY <1>1, <3>1 DEF OwnWord, clientVars
    <3>3. IF v \in stored[NodeOf[u]] THEN view[NodeOf[u]][v] = "IDLE" ELSE mem[v] = "IDLE"
      BY <2>0, <3>0, <3>1, ClearedParts DEF ClearsOwn
    <3>4. NodeOf[u] # ManagerNode \/ v # w
      <4>1. SUFFICES ASSUME NodeOf[u] = ManagerNode, v = w PROVE FALSE
        OBVIOUS
      <4>2. v \in stored[ManagerNode] => InCache(ManagerNode, v)
        BY <1>0 DEF StoredInv
      <4>3. v \notin stored[ManagerNode] /\ InCache(ManagerNode, v) => view[ManagerNode][v] = mem[v]
        BY <2>0, <3>1, <4>1 DEF CopyInv
      <4>4. Value(ManagerNode, v) = "IDLE"
        BY <3>3, <4>1, <4>2, <4>3 DEF Value, InCache
      <4> QED BY <1>4, <4>1, <4>4
    <3>5. v \in stored'[NodeOf[u]] <=> v \in stored[NodeOf[u]]
      BY <1>0, <1>5, <3>4, NodeOfType DEF CacheTypeOK
    <3>6. v \in stored[NodeOf[u]] => view'[NodeOf[u]][v] = view[NodeOf[u]][v]
      BY <1>0, <1>6, <3>4, NodeOfType DEF StoredInv
    <3> QED BY <1>5, <3>2, <3>3, <3>5, <3>6 DEF ClearsOwn
  <2> QED BY <2>2, <2>3, ClearedNext
<1> QED BY <1>5, <1>7, <1>8

\* The flush after the exchange, and the eviction of a line.
LEMMA InvDrop ==
    ASSUME CacheInv, GrantFlush \/ \E k \in Nodes : Evict(k)
    PROVE  (~clobbered' => Safe') /\ (~clobbered' /\ ~crossed' => ClearedInv')
<1>0. TypeOK /\ ControlInv /\ CacheTypeOK /\ ManagerNode \in Nodes
  BY TypeParts, ManagerNodeExists DEF CacheInv
<1>1. UNCHANGED <<clientVars, flushing, perLine>>
  BY DEF GrantFlush, Evict
<1>2. \E k \in Nodes, line \in Words : Drop(k, line)
  <2>1. CASE GrantFlush
    BY <1>0, <2>1, ManagerWords, LineType DEF GrantFlush, ControlInv, CacheTypeOK
  <2>2. ASSUME NEW k \in Nodes, Evict(k) PROVE \E j \in Nodes, line \in Words : Drop(j, line)
    BY <1>0, <2>2 DEF Evict, CacheTypeOK
  <2> QED BY <2>1, <2>2
<1>3. /\ ~clobbered' => /\ ~clobbered /\ CopyInv' /\ HolderInv'
                        /\ \A v \in Words : SeenLocked(v)' => SeenLocked(v)
      /\ ~clobbered' /\ ~crossed' => ClearedInv'
  BY <1>1, <1>2, DropKeeps
<1>4. ASSUME ~clobbered' PROVE ScanInv' /\ OneLocked'
  <2>0. ScanInv /\ OneLocked /\ \A v \in Words : SeenLocked(v)' => SeenLocked(v)
    BY <1>3, <1>4 DEF CacheInv
  <2>1. CASE UNCHANGED <<mpc, mlock, pass, nid, mflushing>>
    BY <1>0, <2>0, <2>1, ScanQuiet
  <2>2. CASE GrantFlush
    <3>1. mpc' \in {"check", "top"} /\ pass' = 1 /\ nid' = 0
      BY <1>0, <2>2 DEF GrantFlush, GrantReturns, NextLock, ControlInv, scanVars
    <3>2. ScanInv'
      BY <3>1 DEF ScanInv, Nodes
    <3>3. \A l \in Locks, n \in Nodes : SeenLocked(Word(l, n))' => SeenLocked(Word(l, n))
      <4>1. SUFFICES ASSUME NEW l \in Locks, NEW n \in Nodes, SeenLocked(Word(l, n))'
                     PROVE  SeenLocked(Word(l, n))
        OBVIOUS
      <4>2. PICK w \in Words : w = Word(l, n)
        BY WordOfSlot
      <4>3. SeenLocked(w)'
        BY <4>1, <4>2 DEF SeenLocked
      <4> QED BY <2>0, <4>2, <4>3
    <3>4. OneLocked'
      BY <2>0, <3>3 DEF OneLocked
    <3> QED BY <3>2, <3>4
  <2> QED BY <2>1, <2>2 DEF Evict, managerVars, scanVars
<1> QED BY <1>3, <1>4 DEF Safe

\* With one slot per line a write-back has no neighbour to overwrite.
LEMMA ClobberStep ==
    ASSUME TypeOK, ControlInv, StoredInv, perLine = 1 => ~clobbered, [Next]_vars
    PROVE  perLine' = 1 => ~clobbered'
<1>0. CacheTypeOK /\ ClientTypeOK /\ ManagerNode \in Nodes /\ \A k \in Nodes : \A v \in stored[k] : InCache(k, v)
  BY TypeParts, ManagerNodeExists DEF StoredInv
<1>1. UNCHANGED perLine
  BY DEF Next, Manager, Environment, Evict, Thread, WriteSlot, FlushSlot, Poll, vars, CheckLocked,
     CheckWaiting, GrantExchange, GrantFlush
<1>2. CASE UNCHANGED clobbered
  BY <1>1, <1>2
<1>3. ASSUME NEW k \in Nodes, NEW line \in Words, Drop(k, line) PROVE perLine' = 1 => ~clobbered'
  BY <1>0, <1>1, <1>3, DropEffect
<1>4. ASSUME NEW t \in Threads, FlushSlot(t) PROVE perLine' = 1 => ~clobbered'
  BY <1>0, <1>3, <1>4, NodeOfType, OwnWordType, LineType DEF FlushSlot, CacheTypeOK
<1>5. CASE GrantFlush
  BY <1>0, <1>3, <1>5, ManagerWords, LineType DEF GrantFlush, ControlInv, CacheTypeOK
<1>6. ASSUME NEW k \in Nodes, Evict(k) PROVE perLine' = 1 => ~clobbered'
  BY <1>0, <1>3, <1>6 DEF Evict, CacheTypeOK
<1>7. ASSUME NEW t \in Threads, Thread(t) PROVE perLine' = 1 => ~clobbered'
  BY <1>2, <1>4, <1>7 DEF Thread, WriteSlot, Poll, Load, Store, Fetch, cacheVars
<1>8. CASE Manager
  BY <1>2, <1>5, <1>8
  DEF Manager, CheckLocked, CheckWaiting, GrantExchange, Load, Store, Fetch, cacheVars
<1> QED BY <1>2, <1>6, <1>7, <1>8 DEF Next, Environment, vars, cacheVars

LEMMA InvInit == Init => CacheInv
<1> SUFFICES ASSUME Init PROVE CacheInv
    OBVIOUS
<1>1. TypeOK /\ ControlInv /\ StoredInv
  BY Init_Base
<1>2. MutexInv /\ NoLeakedMutex
  BY NodeOfType DEF Init, ClientInit, MutexInv, NoLeakedMutex, AcquirePCs, ReleasePCs
<1>3. /\ \A w \in Words : mem[w] = "IDLE"
      /\ \A k \in Nodes, w \in Words : Value(k, w) = "IDLE" /\ view[k][w] = "IDLE"
      /\ ~clobbered /\ ~crossed
  BY DEF Init, Value
<1>4. \A l \in Locks, n \in Nodes : ~SeenLocked(Word(l, n)) /\ mem[Word(l, n)] = "IDLE" /\ Value(n, Word(l, n)) = "IDLE"
  BY <1>3, WordOfSlot, ManagerNodeExists DEF SeenLocked
<1>5. CopyInv
  BY <1>3, WordType, ManagerNodeExists DEF CopyInv
<1>6. HolderInv
  BY DEF Init, ClientInit, HolderInv, Owns
<1>7. ScanInv /\ OneLocked
  BY <1>4 DEF Init, ManagerInit, ScanInv, OneLocked
<1>8. ClearedInv
  BY <1>4 DEF Init, ClearedInv
<1> QED BY <1>1, <1>2, <1>3, <1>5, <1>6, <1>7, <1>8 DEF CacheInv

LEMMA InvStep ==
    ASSUME ~StrayRelease
    PROVE  CacheInv /\ [Next]_vars => CacheInv'
<1> SUFFICES ASSUME CacheInv, [Next]_vars PROVE CacheInv'
    OBVIOUS
<1>0. TypeOK /\ ControlInv /\ StoredInv /\ MutexInv /\ NoLeakedMutex /\ (perLine = 1 => ~clobbered)
  BY DEF CacheInv
<1>1. TypeOK' /\ ControlInv' /\ StoredInv'
  BY <1>0, BaseStep
<1>2. MutexInv' /\ NoLeakedMutex'
  BY <1>0, MutexAll
<1>3. perLine' = 1 => ~clobbered'
  BY <1>0, ClobberStep
<1> DEFINE Rest == (~clobbered' => Safe') /\ (~clobbered' /\ ~crossed' => ClearedInv')
<1> SUFFICES Rest
    BY <1>1, <1>2, <1>3 DEF CacheInv, Safe
<1>4. CASE UNCHANGED vars
  <2>1. /\ UNCHANGED <<clientVars, flushing, perLine, cacheVars>>
        /\ UNCHANGED <<mpc, mlock, pass, nid, mflushing>>
    BY <1>4 DEF vars, managerVars, scanVars
  <2>2. /\ UNCHANGED <<clobbered, crossed>>
        /\ ~clobbered => CopyInv' /\ HolderInv' /\ OneLocked'
        /\ ~clobbered /\ ~crossed => ClearedInv'
    BY <2>1, ReadKeeps
  <2>3. \A w \in Words : SeenLocked(w)' => SeenLocked(w)
    BY <2>1 DEF SeenLocked, Value, LineOf, cacheVars
  <2>4. ~clobbered => ScanInv'
    BY <1>0, <2>1, <2>3, ScanQuiet DEF CacheInv
  <2> QED BY <2>2, <2>4 DEF Safe
<1>5. ASSUME NEW t \in Threads, ClientStep(t) \/ ClientCall(t),
             UNCHANGED <<managerVars, perLine, cacheVars, flushing, mflushing, scanVars>>
      PROVE  Rest
  BY <1>5, InvClient DEF cacheVars
<1>6. ASSUME NEW t \in Threads, Thread(t) PROVE Rest
  BY <1>5, <1>6, InvPoll, InvWrite, InvFlush DEF Thread
<1>7. CASE Manager
  <2>1. CASE GrantExchange
    <3>1. UNCHANGED <<clientVars, flushing, perLine>>
      BY <2>1 DEF GrantExchange
    <3> QED BY <2>1, <3>1, InvGrant, InvReads
  <2>2. CASE CheckLocked \/ CheckWaiting
    <3>1. UNCHANGED <<clientVars, flushing, perLine>>
      BY <2>2 DEF CheckLocked, CheckWaiting
    <3> QED BY <2>2, <3>1, InvReads
  <2>3. CASE GrantFlush
    BY <2>3, InvDrop
  <2>4. CASE ManagerStep /\ UNCHANGED <<clientVars, perLine, cacheVars, flushing, mflushing, scanVars>>
    <3>1. UNCHANGED <<clientVars, flushing, perLine>> /\ UNCHANGED <<cacheVars, mflushing, scanVars>>
      BY <2>4
    <3> QED BY <2>4, <3>1, InvReads
  <2> QED BY <1>7, <2>1, <2>2, <2>3, <2>4 DEF Manager
<1>8. CASE Environment
  <2>1. UNCHANGED <<perLine, cacheVars, flushing, mflushing, scanVars>>
    BY <1>8 DEF Environment
  <2>2. ASSUME NEW t \in Threads, ClientCall(t), UNCHANGED managerVars PROVE Rest
    BY <1>5, <2>1, <2>2
  <2>3. ASSUME Start \/ StopRequest, UNCHANGED clientVars PROVE Rest
    <3>1. UNCHANGED <<clientVars, flushing, perLine>> /\ UNCHANGED <<cacheVars, mflushing, scanVars>>
      BY <2>1, <2>3
    <3> QED BY <2>3, <3>1, InvReads
  <2> QED BY <1>8, <2>2, <2>3 DEF Environment
<1>9. CASE \E k \in Nodes : Evict(k)
  BY <1>9, InvDrop
<1> QED BY <1>4, <1>6, <1>7, <1>8, <1>9 DEF Next

\* The invariant that relates copies, memory, calls and the manager's scan always
\* holds when applications release only what they hold.
THEOREM CacheInvCorrect ==
    ASSUME ~StrayRelease
    PROVE  Spec => []CacheInv
  BY InvInit, InvStep, PTL DEF Spec

\* Stale loads, delayed flushes and evictions never make two holders of a lock: only
\* the write-back of a line that other nodes' slots share can, and with one slot per
\* line there is none.
THEOREM ExclusionHolds ==
    ASSUME ~StrayRelease
    PROVE  Spec => []ExclusionUnlessClobbered
<1>1. CacheInv => ExclusionUnlessClobbered
  <2> SUFFICES ASSUME CacheInv, ~clobbered, NEW t \in Threads, NEW u \in Threads, t # u,
                      NEW l \in held[t] \cap held[u]
               PROVE  FALSE
    BY DEF CacheInv, ExclusionUnlessClobbered, MutualExclusion
  <2>1. l \in Locks
    BY DEF CacheInv, TypeOK, ClientTypeOK
  <2>2. /\ \A v \in Words : NodeAt(v) # ManagerNode /\ mem[v] = "LOCKED" => SeenLocked(v)
        /\ HolderInv /\ OneLocked /\ MutexInv
    BY DEF CacheInv, CopyInv
  <2>3. SeenLocked(Word(l, NodeOf[t])) /\ SeenLocked(Word(l, NodeOf[u]))
    BY <2>1, <2>2, NodeOfType, WordOfSlot DEF HolderInv, Owns
  <2>4. NodeOf[t] = NodeOf[u]
    BY <2>1, <2>2, <2>3, NodeOfType DEF OneLocked
  <2> QED BY <2>2, <2>4 DEF MutexInv
<1> QED BY <1>1, CacheInvCorrect, PTL

\* A lock is lost only through an overwritten neighbour or a grant written back over
\* a withdrawal.
THEOREM LossNeedsLateGrant ==
    ASSUME ~StrayRelease
    PROVE  Spec => []LostOnlyByLateGrant
<1>1. CacheInv => LostOnlyByLateGrant
  BY DEF CacheInv, TypeOK, ClearedInv, Responsible, LostOnlyByLateGrant
<1> QED BY <1>1, CacheInvCorrect, PTL
=============================================================================
