---------------------------- MODULE CasCacheLines ----------------------------
(***************************************************************************)
(* The CAS algorithm in SOFTWARE_CONSISTENCY mode, the default: the nodes' *)
(* caches are not coherent with each other.  SharedMemoryRegion's atomics  *)
(* act on the line in the cache of the node that executes them (fetching   *)
(* it if absent); flush_cache (CLFLUSH) writes the whole line back and     *)
(* drops it; a line may also be evicted at any time.  Stores and the       *)
(* successful compare-exchange are followed by a flush; loads are preceded *)
(* by nothing, so they may return an old value.  The control is that of    *)
(* CasGlobalLock with every store and its flush as two steps.              *)
(***************************************************************************)
EXTENDS LockManager

ManagerNode == 0

VARIABLES
    perLine,    \* slots in one cache line: 1 when the nodes in use are far
                \* apart (16 or more ids), several when they are neighbours; the
                \* rows of the locks are packed, so a line may hold slots of two
    mem,        \* mem[w]: word w of the lock state in the shared memory
    view,       \* view[k][w]: that word in node k's cache, if its line is there
    cached,     \* cached[k]: the lines in node k's cache
    stored,     \* stored[k]: the words node k stored into them since fetched
    flushing,   \* flushing[t]: t has stored and not yet flushed
    mflushing,  \* the manager has exchanged and not yet flushed
    pass, nid,  \* check_grant's loop and node, as in CasGlobalLock
    clobbered,  \* history: a write-back replaced a word its node had not stored
    crossed     \* history: a grant was written back over a slot not WAITING any more

cacheVars == <<mem, view, cached, stored, clobbered, crossed>>
scanVars == <<pass, nid>>
vars == <<clientVars, managerVars, perLine, cacheVars, flushing, mflushing,
          scanVars>>

SlotStates == {"IDLE", "WAITING", "LOCKED"}
Words == 0 .. LockCount * NodeCount - 1

\* get_slot_offset, in words; the node and the cache line of a word.
Word(l, n) == l * NodeCount + n
NodeAt(w) == w % NodeCount
LineOf(w) == w \div perLine
WordsOf(line) == {w \in Words : LineOf(w) = line}

TypeOK ==
    /\ ClientTypeOK
    /\ ManagerTypeOK
    /\ perLine \in 1 .. LockCount * NodeCount
    /\ mem \in [Words -> SlotStates]
    /\ view \in [Nodes -> [Words -> SlotStates]]
    /\ cached \in [Nodes -> SUBSET Words]
    /\ stored \in [Nodes -> SUBSET Words]
    /\ flushing \in [Threads -> BOOLEAN]
    /\ mflushing \in BOOLEAN
    /\ pass \in {1, 2} /\ nid \in Nodes
    /\ clobbered \in BOOLEAN /\ crossed \in BOOLEAN

Init ==
    /\ ClientInit
    /\ ManagerInit
    /\ perLine \in 1 .. LockCount * NodeCount
    /\ mem = [w \in Words |-> "IDLE"]
    /\ view = [k \in Nodes |-> [w \in Words |-> "IDLE"]]
    /\ cached = [k \in Nodes |-> {}]
    /\ stored = [k \in Nodes |-> {}]
    /\ flushing = [t \in Threads |-> FALSE]
    /\ mflushing = FALSE
    /\ pass = 1 /\ nid = 0
    /\ clobbered = FALSE
    /\ crossed = FALSE

-----------------------------------------------------------------------------
(* A node's cache *)

\* What atomic_load returns on node k.
Value(k, w) == IF LineOf(w) \in cached[k] THEN view[k][w] ELSE mem[w]

\* The line of w is in k's cache, with `new' in w.
Fetch(k, w, new) ==
    /\ cached' = [cached EXCEPT ![k] = @ \cup {LineOf(w)}]
    /\ view' = [view EXCEPT ![k] = [v \in Words |->
                    IF v = w THEN new
                    ELSE IF v \in WordsOf(LineOf(w)) THEN Value(k, v) ELSE @[v]]]
    /\ UNCHANGED <<mem, clobbered, crossed>>

Load(k, w) == Fetch(k, w, Value(k, w)) /\ UNCHANGED stored

\* atomic_store, and compare_exchange when it succeeds.
Store(k, w, new) ==
    /\ Fetch(k, w, new)
    /\ stored' = [stored EXCEPT ![k] = @ \cup {w}]

\* CLFLUSH or an eviction: a line with a store in it is written back as a whole,
\* then dropped.
Drop(k, line) ==
    LET dirty == stored[k] \cap WordsOf(line) # {} /\ line \in cached[k]
    IN /\ mem' = [w \in Words |->
                    IF dirty /\ w \in WordsOf(line) THEN view[k][w] ELSE mem[w]]
       /\ clobbered' =
            (clobbered \/ (dirty /\ \E w \in WordsOf(line) \ stored[k] :
                                view[k][w] # mem[w]))
       /\ crossed' =
            (crossed \/ (dirty /\ \E w \in stored[k] \cap WordsOf(line) :
                                /\ NodeAt(w) # k
                                /\ view[k][w] = "LOCKED" /\ mem[w] # "WAITING"))
       /\ view' = [view EXCEPT ![k] = [w \in Words |->
                    IF w \in WordsOf(line) THEN "IDLE" ELSE @[w]]]
       /\ cached' = [cached EXCEPT ![k] = @ \ {line}]
       /\ stored' = [stored EXCEPT ![k] = @ \ WordsOf(line)]

Evict(k) ==
    /\ \E line \in cached[k] : Drop(k, line)
    /\ UNCHANGED <<clientVars, managerVars, perLine, flushing, mflushing, scanVars>>

-----------------------------------------------------------------------------
(* Clients *)

OwnWord(t) == Word(arg[t], NodeOf[t])

\* write_slot_state, the store: WAITING in acquire_lock, IDLE in release_lock.
WriteSlot(t) ==
    /\ pc[t] \in {"request", "release", "cancel"} /\ ~flushing[t]
    /\ Store(NodeOf[t], OwnWord(t), IF pc[t] = "request" THEN "WAITING" ELSE "IDLE")
    /\ flushing' = [flushing EXCEPT ![t] = TRUE]
    /\ UNCHANGED <<clientVars, managerVars, perLine, mflushing, scanVars>>

\* write_slot_state, the flush; acquire_lock or release_lock returns.
FlushSlot(t) ==
    /\ flushing[t]
    /\ Drop(NodeOf[t], LineOf(OwnWord(t)))
    /\ flushing' = [flushing EXCEPT ![t] = FALSE]
    /\ Goto(t, CASE pc[t] = "request" -> "poll"
                 [] pc[t] = "release" -> "releaseLocal"
                 [] pc[t] = "cancel" -> "cancelLocal")
    /\ UNCHANGED <<arg, mode, spins, mutex, held, managerVars, perLine,
                   mflushing, scanVars>>

\* The test of poll_for_grant.
Granted(t) == Value(NodeOf[t], OwnWord(t)) = "LOCKED"

\* poll_for_grant loads the slot, from the cache if it is there.
Poll(t) ==
    /\ \/ Granted(t) /\ PollGranted(t)
       \/ ~Granted(t) /\ (PollAgain(t) \/ PollGivesUp(t))
    /\ Load(NodeOf[t], OwnWord(t))
    /\ UNCHANGED <<managerVars, perLine, flushing, mflushing, scanVars>>

Thread(t) ==
    \/ /\ ClientStep(t)
       /\ UNCHANGED <<managerVars, perLine, cacheVars, flushing, mflushing, scanVars>>
    \/ WriteSlot(t) \/ FlushSlot(t) \/ Poll(t)

-----------------------------------------------------------------------------
(* The manager, on node 0 and in its cache *)

Seen == Value(ManagerNode, Word(mlock, nid))

\* Mutant of CheckLocked: the loop ends before the last node.
CheckLockedShort ==
    /\ mpc = "check" /\ pass = 1
    /\ \/ /\ Seen = "LOCKED"
          /\ CheckReturns(NoNode)
          /\ nid' = 0 /\ UNCHANGED pass
       \/ /\ Seen # "LOCKED"
          /\ nid' = IF nid + 2 < NodeCount THEN nid + 1 ELSE 0
          /\ pass' = IF nid + 2 < NodeCount THEN 1 ELSE 2
          /\ UNCHANGED managerVars
    /\ Load(ManagerNode, Word(mlock, nid))
    /\ UNCHANGED <<clientVars, perLine, flushing, mflushing>>

\* check_grant, first loop.
CheckLocked ==
    /\ mpc = "check" /\ pass = 1
    /\ \/ /\ Seen = "LOCKED"
          /\ CheckReturns(NoNode)
          /\ nid' = 0 /\ UNCHANGED pass
       \/ /\ Seen # "LOCKED"
          /\ nid' = IF nid + 1 < NodeCount THEN nid + 1 ELSE 0
          /\ pass' = IF nid + 1 < NodeCount THEN 1 ELSE 2
          /\ UNCHANGED managerVars
    /\ Load(ManagerNode, Word(mlock, nid))
    /\ UNCHANGED <<clientVars, perLine, flushing, mflushing>>

\* check_grant, second loop.
CheckWaiting ==
    /\ mpc = "check" /\ pass = 2
    /\ \/ /\ Seen = "WAITING"
          /\ CheckReturns(nid)
          /\ nid' = 0 /\ pass' = 1
       \/ /\ Seen # "WAITING" /\ nid + 1 < NodeCount
          /\ nid' = nid + 1
          /\ UNCHANGED <<managerVars, pass>>
       \/ /\ Seen # "WAITING" /\ nid + 1 = NodeCount
          /\ CheckReturns(NoNode)
          /\ nid' = 0 /\ pass' = 1
    /\ Load(ManagerNode, Word(mlock, nid))
    /\ UNCHANGED <<clientVars, perLine, flushing, mflushing>>

\* Mutant of GrantExchange: a plain store instead of the compare-exchange.
GrantByStore ==
    /\ mpc = "grant" /\ ~mflushing
    /\ Store(ManagerNode, Word(mlock, grantee), "LOCKED")
    /\ mflushing' = TRUE
    /\ UNCHANGED <<clientVars, managerVars, perLine, flushing, scanVars>>

\* grant_lock's compare-exchange, on the copy in node 0's cache.
GrantExchange ==
    LET w == Word(mlock, grantee)
    IN /\ mpc = "grant" /\ ~mflushing
       /\ \/ /\ Value(ManagerNode, w) = "WAITING"
             /\ Store(ManagerNode, w, "LOCKED")
             /\ mflushing' = TRUE
             /\ UNCHANGED managerVars
          \/ /\ Value(ManagerNode, w) # "WAITING"
             /\ Load(ManagerNode, w)
             /\ GrantReturns
             /\ UNCHANGED mflushing
       /\ UNCHANGED <<clientVars, perLine, flushing, scanVars>>

\* and the flush after it succeeded.
GrantFlush ==
    /\ mflushing
    /\ Drop(ManagerNode, LineOf(Word(mlock, grantee)))
    /\ GrantReturns
    /\ mflushing' = FALSE
    /\ UNCHANGED <<clientVars, perLine, flushing, scanVars>>

Manager ==
    \/ /\ ManagerStep
       /\ UNCHANGED <<clientVars, perLine, cacheVars, flushing, mflushing, scanVars>>
    \/ CheckLocked \/ CheckWaiting \/ GrantExchange \/ GrantFlush

Environment ==
    /\ \/ (\E t \in Threads : ClientCall(t)) /\ UNCHANGED managerVars
       \/ (Start \/ StopRequest) /\ UNCHANGED clientVars
    /\ UNCHANGED <<perLine, cacheVars, flushing, mflushing, scanVars>>

Next ==
    \/ Manager \/ Environment
    \/ \E t \in Threads : Thread(t)
    \/ \E k \in Nodes : Evict(k)

Spec == Init /\ [][Next]_vars

-----------------------------------------------------------------------------
(* Correctness *)

\* Mutual exclusion across incoherent caches fails in one way only: a node that
\* flushes or loses a line it has written puts back an old value of a neighbour's slot.
\* With one slot per line exclusion holds although every load may be out of date.
ExclusionUnlessClobbered ==
    /\ MutualExclusion \/ clobbered
    /\ perLine = 1 => ~clobbered

\* A lock is lost, LOCKED in memory for a node none of whose threads will clear
\* it, only if a neighbour was overwritten or the manager, having exchanged its
\* copy of a request, wrote LOCKED back over the withdrawal: no other order of
\* stores, flushes and evictions does it, although loads are never refreshed.
LostOnlyByLateGrant ==
    \A l \in Locks, n \in Nodes :
        mem[Word(l, n)] = "LOCKED" =>
            \/ clobbered \/ crossed
            \/ \E t \in Threads :
                /\ NodeOf[t] = n /\ mutex[n][l] = t
                /\ \/ l \in held[t]
                   \/ pc[t] \in {"request", "poll", "cancel", "release"} /\ arg[t] = l

-----------------------------------------------------------------------------
(* The inductive invariant, for clients that release only what they hold.      *)

InCache(k, w) == LineOf(w) \in cached[k]

\* The manager takes the lock of the slot at w for taken.
SeenLocked(w) == Value(ManagerNode, w) = "LOCKED"

\* A store not yet written back is a grant by the manager or was made by a call
\* that has yet to flush it.
StoredInv ==
    /\ \A t \in Threads : flushing[t] => pc[t] \in {"request", "release", "cancel"}
    /\ \A k \in Nodes : \A w \in stored[k] :
        /\ InCache(k, w)
        /\ NodeAt(w) # k => k = ManagerNode /\ view[k][w] = "LOCKED"
        /\ NodeAt(w) = k /\ k # ManagerNode =>
            /\ view[k][w] # "LOCKED"
            /\ \E t \in Threads : NodeOf[t] = k /\ flushing[t] /\ OwnWord(t) = w

\* Where the manager is in its loops.
ControlInv ==
    /\ ~running => mpc = "off"
    /\ mpc # "check" => pass = 1 /\ nid = 0
    /\ mpc = "grant" => grantee \in Nodes
    /\ mflushing => mpc = "grant"

\* A copy may be old, but not about LOCKED: the manager knows of every grant that
\* is in the memory, and a node that reads LOCKED in its slot reads what the memory
\* has.  Node 0's copies of its own slots are up to date.
CopyInv ==
    \A w \in Words :
        /\ NodeAt(w) = ManagerNode /\ InCache(ManagerNode, w) /\ w \notin stored[ManagerNode]
            => view[ManagerNode][w] = mem[w]
        /\ NodeAt(w) # ManagerNode =>
            /\ mem[w] = "LOCKED" => SeenLocked(w)
            /\ Value(NodeAt(w), w) = "LOCKED" => mem[w] = "LOCKED"

\* t holds lock l and has not begun to give it up.
Owns(t, l) == l \in held[t] \/ (pc[t] = "release" /\ arg[t] = l /\ ~flushing[t])

HolderInv ==
    \A t \in Threads, l \in Locks : Owns(t, l) =>
        /\ NodeOf[t] = ManagerNode => SeenLocked(Word(l, NodeOf[t]))
        /\ NodeOf[t] # ManagerNode => mem[Word(l, NodeOf[t])] = "LOCKED"

\* What the manager has passed in its first loop is not taken, nor becomes so.
ScanInv ==
    \A n \in Nodes :
        \/ mpc = "check" /\ (pass = 2 \/ n < nid)
        \/ mpc = "grant" /\ ~mflushing
        => ~SeenLocked(Word(mlock, n))

OneLocked ==
    \A l \in Locks : \A m, n \in Nodes :
        SeenLocked(Word(l, m)) /\ SeenLocked(Word(l, n)) => m = n

\* A thread of node n will clear the node's slot of lock l.
Responsible(l, n) ==
    \E t \in Threads :
        /\ NodeOf[t] = n /\ mutex[n][l] = t
        /\ \/ l \in held[t]
           \/ pc[t] \in {"request", "poll", "cancel", "release"} /\ arg[t] = l

\* A slot in use has a thread that will clear it, and one that is being cleared
\* is IDLE in the cache and will be in the memory.
ClearedInv ==
    /\ \A l \in Locks, n \in Nodes :
        \/ mem[Word(l, n)] # "IDLE"
        \/ n = ManagerNode /\ Value(n, Word(l, n)) # "IDLE"
        => Responsible(l, n)
    /\ \A t \in Threads : flushing[t] /\ pc[t] \in {"cancel", "release"} =>
        LET w == OwnWord(t)
        IN IF w \in stored[NodeOf[t]] THEN view[NodeOf[t]][w] = "IDLE" ELSE mem[w] = "IDLE"

\* Grants are known to the manager and holders keep theirs until a neighbour's
\* slot is overwritten; slots are cleared until a grant crosses a withdrawal.
CacheInv ==
    /\ TypeOK
    /\ MutexInv
    /\ NoLeakedMutex
    /\ StoredInv
    /\ ControlInv
    /\ perLine = 1 => ~clobbered
    /\ ~clobbered => CopyInv /\ HolderInv /\ ScanInv /\ OneLocked
    /\ ~clobbered /\ ~crossed => ClearedInv
=============================================================================
