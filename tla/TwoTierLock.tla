----------------------------- MODULE TwoTierLock -----------------------------
(***************************************************************************)
(* The client side of the two-tier lock (src/src/two_tier_lock.cpp) and    *)
(* the per-node array of error-checking pthread mutexes it takes first     *)
(* (src/src/local_lock.cpp).  A call of acquire(), try_acquire() or        *)
(* release() is a path through pc[t]; the steps that touch the algorithm's *)
(* shared memory (acquire_lock, release_lock, the load of poll_for_grant)  *)
(* belong to the modules that extend this one.                             *)
(***************************************************************************)
EXTENDS Integers

CONSTANTS
    Threads,       \* application threads of all nodes
    NodeCount,     \* node_count_: nodes are 0 .. NodeCount - 1
    LockCount,     \* max_locks_: locks are 0 .. LockCount - 1
    NodeOf,        \* NodeOf[t]: the node whose process runs thread t
    NoThread,      \* owner of a free mutex
    SpinLimit,     \* the 1000 of poll_for_grant, made small
    CallModes,     \* the kinds of acquisition applications ask for
    StrayRelease   \* may a thread call release() of a lock it does not hold?

Nodes == 0 .. NodeCount - 1
Locks == 0 .. LockCount - 1

\* "timed": acquire with a timeout that expires at some time or other; "long":
\* with one beyond the horizon; "zero": with timeout_ms = 0; "try": try_acquire.
Modes == {"timed", "long", "zero", "try"}

ASSUME CountAssumption == NodeCount \in Nat \ {0} /\ LockCount \in Nat \ {0}
ASSUME ThreadAssumption == NodeOf \in [Threads -> Nodes] /\ NoThread \notin Threads
ASSUME SpinAssumption == SpinLimit \in Nat
ASSUME ModeAssumption == CallModes \subseteq Modes
ASSUME StrayAssumption == StrayRelease \in BOOLEAN

VARIABLES
    pc,      \* where the thread is in its current call
    arg,     \* lock_id of the current call
    mode,    \* the kind of acquisition
    spins,   \* spin_count of poll_for_grant (counted when timeout_ms = 0)
    mutex,   \* mutex[n][l]: thread of node n that owns local mutex l
    held     \* held[t]: locks whose acquisition returned SUCCESS to t

clientVars == <<pc, arg, mode, spins, mutex, held>>

AcquirePCs == {"request", "poll", "cancel", "cancelLocal"}
ReleasePCs == {"release", "releaseLocal"}
PCs == {"idle", "local"} \cup AcquirePCs \cup ReleasePCs

ClientTypeOK ==
    /\ pc \in [Threads -> PCs]
    /\ arg \in [Threads -> Locks]
    /\ mode \in [Threads -> Modes]
    /\ spins \in [Threads -> 0 .. SpinLimit + 1]
    /\ mutex \in [Nodes -> [Locks -> Threads \cup {NoThread}]]
    /\ held \in [Threads -> SUBSET Locks]

ClientInit ==
    /\ pc = [t \in Threads |-> "idle"]
    /\ arg = [t \in Threads |-> 0]
    /\ mode = [t \in Threads |-> "timed"]
    /\ spins = [t \in Threads |-> 0]
    /\ mutex = [n \in Nodes |-> [l \in Locks |-> NoThread]]
    /\ held = [t \in Threads |-> {}]

MutexOwner(t) == mutex[NodeOf[t]][arg[t]]

Goto(t, label) == pc' = [pc EXCEPT ![t] = label]

\* A call returns: the scratch variables of the call are dropped.
Return(t) ==
    /\ pc' = [pc EXCEPT ![t] = "idle"]
    /\ arg' = [arg EXCEPT ![t] = 0]
    /\ mode' = [mode EXCEPT ![t] = "timed"]
    /\ spins' = [spins EXCEPT ![t] = 0]

\* acquire(l, timeout_ms) or try_acquire(l) is called.
Acquire(t, l, m) ==
    /\ pc[t] = "idle"
    /\ pc' = [pc EXCEPT ![t] = "local"]
    /\ arg' = [arg EXCEPT ![t] = l]
    /\ mode' = [mode EXCEPT ![t] = m]
    /\ UNCHANGED <<spins, mutex, held>>

\* LocalLockArray::acquire / try_acquire succeeds: the mutex was free.
LocalAcquire(t) ==
    /\ pc[t] = "local"
    /\ MutexOwner(t) = NoThread
    /\ mutex' = [mutex EXCEPT ![NodeOf[t]][arg[t]] = t]
    /\ Goto(t, "request")
    /\ UNCHANGED <<arg, mode, spins, held>>

\* It fails: EDEADLK for the owner of an error-checking mutex, EBUSY for
\* try_acquire.  Otherwise pthread_mutex_lock blocks (no step).
LocalRefused(t) ==
    /\ pc[t] = "local"
    /\ \/ MutexOwner(t) = t
       \/ mode[t] = "try" /\ MutexOwner(t) # NoThread
    /\ Return(t)
    /\ UNCHANGED <<mutex, held>>

\* poll_for_grant saw the grant: the acquisition returns SUCCESS.
PollGranted(t) ==
    /\ pc[t] = "poll"
    /\ held' = [held EXCEPT ![t] = @ \cup {arg[t]}]
    /\ Return(t)
    /\ UNCHANGED mutex

\* It saw no grant and goes round its loop.
PollAgain(t) ==
    /\ pc[t] = "poll"
    /\ mode[t] \in {"timed", "long"} \/ spins[t] <= SpinLimit
    /\ spins' = IF mode[t] \in {"timed", "long"} THEN spins
                ELSE [spins EXCEPT ![t] = @ + 1]
    /\ UNCHANGED <<pc, arg, mode, mutex, held>>

\* Mutant of PollGivesUp: the spin limit of a zero timeout is forgotten.
PollNeverBusy(t) ==
    /\ pc[t] = "poll"
    /\ mode[t] = "timed"
    /\ Goto(t, "cancel")
    /\ UNCHANGED <<arg, mode, spins, mutex, held>>

\* It saw no grant and returns ERROR_TIMEOUT (the clock may have passed
\* timeout_ms at any poll) or, when timeout_ms = 0, ERROR_BUSY.
PollGivesUp(t) ==
    /\ pc[t] = "poll"
    /\ mode[t] = "timed" \/ spins[t] > SpinLimit
    /\ Goto(t, "cancel")
    /\ UNCHANGED <<arg, mode, spins, mutex, held>>

\* release(l) is called; the application's critical section ends here.
Release(t, l) ==
    /\ pc[t] = "idle"
    /\ l \in held[t] \/ StrayRelease
    /\ pc' = [pc EXCEPT ![t] = "release"]
    /\ arg' = [arg EXCEPT ![t] = l]
    /\ held' = [held EXCEPT ![t] = @ \ {l}]
    /\ UNCHANGED <<mode, spins, mutex>>

\* Mutant of LocalRelease: an acquisition that gave up keeps the mutex.
LocalReleaseForgotten(t) ==
    /\ pc[t] \in {"cancelLocal", "releaseLocal"}
    /\ mutex' = IF MutexOwner(t) = t /\ pc[t] = "releaseLocal"
                THEN [mutex EXCEPT ![NodeOf[t]][arg[t]] = NoThread]
                ELSE mutex
    /\ Return(t)
    /\ UNCHANGED held

\* LocalLockArray::release, the last step of release() and of an acquisition
\* that gave up: EPERM when the caller does not own the mutex.
LocalRelease(t) ==
    /\ pc[t] \in {"cancelLocal", "releaseLocal"}
    /\ mutex' = IF MutexOwner(t) = t
                THEN [mutex EXCEPT ![NodeOf[t]][arg[t]] = NoThread]
                ELSE mutex
    /\ Return(t)
    /\ UNCHANGED held

\* The steps of thread t that involve no shared memory and that the thread
\* takes by itself once inside a call.
ClientStep(t) == LocalAcquire(t) \/ LocalRefused(t) \/ LocalRelease(t)

\* What the application decides to call.
ClientCall(t) ==
    \E l \in Locks : Release(t, l) \/ \E m \in CallModes : Acquire(t, l, m)

-----------------------------------------------------------------------------
(* What every algorithm under the two-tier lock owes its clients. *)

\* Mutual exclusion across threads and nodes: two acquisitions of the same lock
\* that both returned SUCCESS are never outstanding at the same time
\* (lock_types.h: "Only one node can have the LOCKED state for a given lock").
MutualExclusion ==
    \A t, u \in Threads : t # u => held[t] \cap held[u] = {}

\* A call past the local mutex always returns to its caller, also when the
\* manager is stopped: poll_for_grant is bounded by its timeout, unless that is
\* beyond the horizon, or its spin limit, and release has no unbounded wait.
CallsReturn ==
    \A t \in Threads :
        pc[t] \in AcquirePCs \cup ReleasePCs /\ mode[t] # "long" ~> pc[t] = "idle"

-----------------------------------------------------------------------------
(* What the first tier gives every algorithm, for clients that only release    *)
(* what they hold.                                                             *)

\* A local mutex is owned only by a thread of its node that holds the lock or is still in a
\* call about it: no early return of acquire or release leaks it.
NoLeakedMutex ==
    \A n \in Nodes, l \in Locks :
        mutex[n][l] # NoThread =>
            LET t == mutex[n][l] IN
                /\ NodeOf[t] = n
                /\ l \in held[t] \/ (pc[t] \notin {"idle", "local"} /\ arg[t] = l)

\* A thread past the local mutex, or holding a lock, owns the local mutex; a
\* call never concerns a lock its thread holds.
MutexInv ==
    \A t \in Threads :
        /\ \A l \in held[t] : mutex[NodeOf[t]][l] = t
        /\ pc[t] \in AcquirePCs \cup ReleasePCs =>
            MutexOwner(t) = t /\ arg[t] \notin held[t]

\* With one lock: the thread of node n that is past its local mutex, if any.
Caller(n) == mutex[n][0]
=============================================================================
