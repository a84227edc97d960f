# Verification of the CXL distributed lock

TLA+ models of the two-tier distributed lock in `src/`, TLC configurations that
check them on small instances, and TLAPS proofs for any number of nodes, locks
and threads.

## The system

Several servers (nodes) share one CXL memory region. An application thread takes
a lock through its node's `TwoTierLock`: first a local pthread mutex of that lock
(`LocalLockArray`), then the global lock in shared memory, by one of four
algorithms (`GlobalLockAlgorithm`: CAS, FAA, MCS, qspinlock). The thread writes a
request and polls shared memory; the `LockManager`, a worker thread on one node,
scans all locks and grants them (`check_grant`, then `grant_lock`).

| Component | State | Operations | Correct if |
|---|---|---|---|
| `TwoTierLock` | position of each thread in its call, timeout mode, spin count | `acquire`, `try_acquire`, `release`, `poll_for_grant` | at most one holder; every call returns; no early return leaks anything |
| `LocalLockArray` | one error-checking mutex per lock and node | `acquire`, `try_acquire`, `release` | owned only while a call or a hold needs it |
| `LockManager` | `running_`, `stop_requested_`, scan position | `start`, `stop`, `run`, `run_single_scan` | one worker at a time; `stop` returns; waiters are served |
| CAS | slot IDLE/WAITING/LOCKED per lock and node | `acquire_lock`, `release_lock`, `check_grant`, `grant_lock` | one LOCKED slot per lock; none without a thread that will clear it |
| FAA | ticket counters per lock, one ticket per node | same | same, and first come first served |
| MCS | queue head, tail, owner per lock; one queue record per node | same | same, and nobody is lost from the queue |
| qspinlock | lock word, pending tail, owner per lock; record per node | same | same |
| `DistributedLockSystem`, `CxlMemoryPool`, `SharedMemoryRegion` | mapping of the shared file, sub-objects of a node | `initialize`, `shutdown`, `open`, `close` | joining, leaving or crashing does not disturb other nodes' locks |
| `NodeRegistry` | node table with heartbeats | `register`, `unregister`, `update_heartbeat`, `is_node_alive` | a live node is alive, a dead one is not |

Components interact only through the shared memory (clients and manager of all
nodes), through the local mutexes (threads of one node) and through calls inside
a process. What is hard: the manager's decisions rest on reads that are stale when
used; a timeout races a grant; the steps of a release are separate stores; the
per-node records of FAA, MCS and qspinlock are shared by all locks; every node
that starts initialises the shared state again; caches are not coherent in the
default mode; registry entries are copied without a lock and stamped by different
clocks. `PROJECT.json` lists these hazards at their lines. `NodeRegistry` is used by
applications; `DistributedLockSystem` itself neither registers nor beats.

## Modules

| Module | Models |
|---|---|
| `TwoTierLock` | the client's control: calls, local mutexes, polling, giving up, and what the local mutexes keep under every algorithm (`MutexInv`, `NoLeakedMutex`). Algorithm modules supply the shared-memory steps. |
| `LockManager` | the worker's control: `start`, `stop`, the scan over the locks. Algorithm modules supply `check_grant` and `grant_lock`. |
| `CasGlobalLock` | both of these with the CAS algorithm, its fairness, properties and inductive invariant |
| `GlobalLockSpec` | what the algorithm interface promises: Request, Withdraw, Grant, Enter, Leave, Free |
| `McsGlobalLock`, `FaaGlobalLock`, `QspinGlobalLock` | client and manager with the other three algorithms, each with its properties |
| `NodeLifecycle` | `CasGlobalLock` inside the life of its nodes: `initialize` and `shutdown` of `DistributedLockSystem` with pool, mapping, local locks, two-tier lock and manager; crash and restart |
| `CasCacheLines` | `TwoTierLock` and `LockManager` with the CAS algorithm over caches that are not coherent (`SOFTWARE_CONSISTENCY`): loads from a node's cache, flushes and evictions of whole lines |
| `NodeRegistry` | the registry of nodes: registration, heartbeat, departure, crash, the liveness check and the scans |
| `MCCas`, `MCMcs`, `MCFaa`, `MCQspin`, `MCLifecycle`, `MCCache`, `MCRegistry` | constants for TLC |
| `TwoTierLockProofs` | lemmas that all proofs share: types of client and manager, the local mutexes through every kind of step (`MutexStep`, `MutexMove`), one lock (`OneCall`) |
| `CasGlobalLockProofs`, `McsGlobalLockProofs`, `FaaGlobalLockProofs`, `QspinGlobalLockProofs`, `NodeLifecycleProofs`, `CasCacheLinesProofs`, `NodeRegistryProofs` | the theorems about each module and their lemmas |

Each module ends with its inductive invariant, so that TLC can check it; the theorem
module has only lemmas and proofs.

One action is one access to shared memory, atomic or plain, or one call on a local
mutex. Plain stores (the per-node records of MCS, FAA and qspinlock) take effect in
program order, as on the x86 targets of the build; a compiler could reorder them
further, which is not modelled. State and code
correspond as follows.

* `pc[t]`: where thread `t` is. `local` is inside `pthread_mutex_lock`, `request`
  before `acquire_lock`, `poll` in `poll_for_grant`, `cancel` and `cancelLocal` on
  the way out of an acquisition that gave up, `release` and `releaseLocal` in
  `release()`. `arg[t]` is the call's lock, `mode[t]` its timeout.
* `held[t]`: the locks whose acquisition returned SUCCESS to `t` and which it has
  not begun to release. It is what the application believes.
* `mutex[n][l]`: owner of node `n`'s local mutex. Locking a mutex one owns fails
  (`EDEADLK`), unlocking another's fails (`EPERM`), as for error-checking mutexes.
* `slot[l][n]`: the `LockSlotState` in shared memory.
* `mpc`, `mlock`, `grantee`, `pass`, `nid`: the worker's position: which lock it
  is at, in which loop of `check_grant`, at which node, and whom it chose.

* MCS: `tail`, `head`, `owner` are a lock's `McsLockEntry`; `next`, `locked`,
  `waiting` a node's `McsNode`; `ahead[l][n]` is history: the nodes that swapped the
  tail of `l` up to `n` and have not been granted since.
  FAA: `next_ticket`, `now_serving`, `owner` and the node's `ticket`, `active`.
  qspinlock: `lock_word` with the encoding of the header, `owner`, `pending_tail`,
  `granting` (`grant_in_progress`) and the node's record. `step[t]` and `mstep` are
  the position inside an algorithm's function, `link`, `word`, `mine`, `seen`,
  `mhead` and so on its locals.

* Lifecycle: `phase[n]` is the position of node `n` in `initialize` or `shutdown`,
  `up` being `initialized_`; `cursor[n]` is the word its `memset` is at, `mapped`,
  `locals` and `tier` say which parts exist. `backing` is what all nodes map. A file
  is zeroed three times by the manager's node, twice by others; a device one time
  less. `wiped[t]` is history: locks whose slot was zeroed while `t` held them.
* Caches: `mem` is the shared memory, `view[k]` and `cached[k]` node `k`'s cache,
  `stored[k]` the words it wrote since a line was fetched; a line with a stored word
  is written back as a whole. `perLine` is any number of slots: rows are packed without
  padding (cas_global_lock.cpp:21), so neighbours on a line may belong to two locks; in
  the run, with one lock, it is 1 or the whole row. `clobbered` and `crossed` are history.
* Registry: `active` and `beat` are `is_active` and `last_heartbeat` in the entries,
  the two fields a decision reads; a `memcpy` moves them one by one in either order.
  `registered` is `registration_time`, which the code writes and never reads; the
  model writes it along with `beat`, to tell a heartbeat stored late over a newer
  registration. `now + Offset[p]` is the steady clock of `p`'s machine. `status`,
  `downAt`, `steady`, `readAt`, `outdated`, `ever`, `always` are history.

Abstractions: time, in the lock modules, is a nondeterministic choice at each poll of a call with a
timeout (`timed`) or lies beyond the run (`long`); the 1000 spins of a zero timeout
are `SpinLimit`; the 1,000,000 spins of qspinlock's release may run out at any
moment no link is there. Parameter checks that
no initialised system can fail (null region, invalid id, lock id out of range)
return without changing state and have no action. A cache flush after an atomic
store has no effect on coherent memory, so only `CasCacheLines` has it as a step.

Callers are taken to keep to the documented order of calls, and these guards have no
counterpart in the code:

* `LockManager.Start` is one step and `StopRequest` is not taken while a stop is under
  way. lock_manager.cpp:98 and :117 check and store separately, although
  api_reference.md:1304 and :1312 call both thread-safe; two concurrent calls could
  create two workers or join one twice. The only caller, `DistributedLockSystem`,
  makes one call at a time.
* A node in `shutdown` is not `up` from its first step, while the code leaves
  `initialized_` set to the end (distributed_lock.cpp:223), so that calls made meanwhile
  would still enter. api_reference.md:1676 asks callers for none.
* A process loads its configuration only while it is not in service and calls
  `update_heartbeat` only while it is, on one thread; node_registry.cpp:211 and :423
  accept both at any time. `register` and `unregister` wait for nothing: a heartbeat
  that was under way before them may be stored after them.

## Runs

| Run | Instance | Shows |
|---|---|---|
| `cas_threads` | 2 nodes, 3 threads (2 on node 0), 1 lock, manager stopped and restarted, fair scheduling | the inductive invariant, mutual exclusion over both tiers; every call returns even while the manager is stopped; `stop` returns; waiters are served, node 0 is never starved |
| `cas_locks` | 2 nodes, 1 thread each, 2 locks, nested | the algorithm implements `GlobalLockSpec`; holders are protected lock by lock; no orphaned slot, no leaked mutex |
| `mcs_queue` | 3 nodes, 1 thread each, 1 lock, no timeouts, fair threads | the inductive invariant `McsInv`, mutual exclusion, hand-over to waiters only, service in order of arrival; the unbounded wait in `release_lock` ends |
| `mcs_head` | 2 nodes, 1 lock, no timeouts | violated: the head of a queue with a waiter is erased by the previous holder |
| `faa_record` | 2 nodes, 3 threads, 1 lock, timeouts, 4 tickets | a node's ticket record is active exactly while needed (`RecordInv` and its parts); no ticket is served before it is drawn |
| `faa_mutex` | 2 nodes, 1 lock, no timeouts | violated: `check_grant` finds no owner, passes a node whose `active` flag is not stored yet and chooses another; the first node's ticket 0 counts as served because `now_serving` starts at 0; then the other is granted too |
| `qspin_queue` | 2 nodes, 1 lock, no timeouts | the algorithm implements `GlobalLockSpec`; the inductive invariant `QspinInv`, mutual exclusion of fast path, hand-over and manager; `release_lock` returns |
| `qspin_locks` | 2 nodes, 1 thread each, 2 locks, no timeouts | violated: a node that holds both locks releases the second and wakes a waiter for the first, which takes it as granted |
| `node_lifecycle` | 2 nodes, 3 threads (2 on node 1), 1 lock, device or file, 2 starts per node, crashes | among threads whose slot was not zeroed under them exclusion survives every crash, restart and failed start; a node that is up has no orphaned slot; nothing is used after it is closed; `initialize` and `shutdown` return |
| `lifecycle_join` | 2 nodes, 2 threads, 1 start per node | violated: a node that starts zeroes the slot of a holder, and the lock is granted twice |
| `cache_lines` | 2 nodes, 3 threads (2 on node 1), 1 lock, both line layouts, timeouts | exclusion fails only when a write-back restores an old neighbour, never with one slot per line; a lock is lost only so or when a grant is written back over a withdrawal |
| `node_registry` | 1 member (node 1 of 2), 1 reader, clocks 1 apart, timeout 3, interval 1, 6 time units | a false death needs a delayed reader or a heartbeat stored over a newer registration, a death is found within timeout and clock difference, a node that left is not alive, scans are right about what does not change |

Bounds. Three threads suffice for the two kinds of competition, on one node and
between nodes. Three nodes in `mcs_queue` let one node hold, one wait and one link
itself in. Two locks show nested use and interference. `SpinLimit = 0` keeps two
polls before a zero timeout gives up, enough for a grant to come before, between
and after them. `TicketBound = 4` lets every thread of `faa_record` ask again after
a cancellation. `MaxStarts = 2` lets a node crash or shut down and come back while
the other starts, runs or comes back itself; when both are closed for good the
system stops, so that run does not check deadlock. `MaxTime = 6` is two timeouts, so
a node can register, die, be found dead and register again; one member suffices as
entries are independent, and the second entry is empty. Nothing else is bounded:
calls repeat for ever.

What the lifecycle and cache runs show together is the envelope of the code. A lock
taken is safe only as long as no node starts; a lock whose owner dies is freed only
because some node starts. In software-consistency mode it is safe only if neighbouring
nodes do not share a line, and even then a timeout that races a grant can leave a
slot LOCKED for nobody, where coherent memory excludes that (`NoOrphanSlot`).

What the documents say and the code does not do, beyond the violated runs:
`acquire` with timeout 0 is documented as "no timeout" (two_tier_lock.h:93) and gives
up after 1000 spins (two_tier_lock.cpp:291); `release_lock` is documented to answer
`ERROR_NOT_OWNER` (lock_interface.h:152) and in CAS clears the slot whatever it holds
(cas_global_lock.cpp:119); PERFORMANCE_ANALYSIS.md:163 reports an `invalidate_cache` in
`poll_for_grant` that is not there; `discover_nodes` is called a snapshot
(node_registry.h:338) and is a scan; `last_heartbeat` is documented as the "timestamp of
the most recent heartbeat" (node_registry.h:171) and can go back: a heartbeat thread that
is preempted between its clock and its store (node_registry.cpp:447, :448) while the
process unregisters and registers again overwrites the newer stamp, and until the next
heartbeat a check declares the live node dead; architecture.md describes a manager that cleans
up after failed nodes, and the recovery functions are empty.

Runs also check the inductive invariants of the proofs: `IInv` in `cas_threads` and
`node_registry`, `LifecycleInv`, `CacheInv`, `McsInv`, `QspinInv` (types included) and
`RecordInv` in the runs of their modules. TLC evaluates them on every reachable state of
an instance, which shows that they are invariants; that they are inductive is what the
proofs show.

`ReleasesLetGo` of `mcs_queue` speaks of all threads in one formula: only one thread
has the lock, and it gives it up before the next release begins, so a release that
never lets go would make the left side true for ever. One formula per thread would cost
TLC three times the time.

What the queue algorithms do beyond these runs. MCS and qspinlock exclude only as
long as no acquisition times out and a node uses one lock at a time: with timeouts
a cancelled waiter stays in the queue and a late wake-up can fall into its next
request; with two locks in use the single record of a node mixes their queues, as
`qspin_locks` shows. TLC finds two holders in the instance of `qspin_queue` as soon as
`CallModes` is `{"timed"}` or `LockCount` is 2. In qspinlock the last releaser clears
`owner_node` after it has freed the word (qspinlock_global_lock.cpp:234), as MCS does
with its head (`mcs_head`): it can erase the owner that a fast-path holder has just
stored, that holder's release is refused, and the word stays locked. The hazards in
`PROJECT.json` name the lines.

Fairness. `Fairness` is weak fairness of the manager's worker and of each thread
that is inside a call, which a preemptive scheduler gives, and of `start`, which
the manager node's `initialize` calls. A call in mode `long` never sees its timeout,
so for it progress is the manager's merit and not a side effect of giving up;
`TimeoutsExpire` says that for the others clocks advance. `HoldersRelease` is strong
fairness of releases: an application that keeps returning from calls with a lock in
hand releases it. The `FairSpec` of MCS and qspinlock is fairness of threads inside
a call; a compare-exchange that is retried may fail for ever under it, so only
releases are claimed to return there. `LifecycleFairness` is weak fairness of the
worker and of a node inside `initialize` or `shutdown`; nobody need call either.

In `NodeRegistry`, `Tick` waits for the heartbeat of a process in service: that the
application calls `update_heartbeat` at least every `Interval` is the contract of
node_registry.cpp, and the reader is free to be slow. What counts is the latest stamp
the process has written (`Latest`), also if the entry does not show it any more because
an older heartbeat was stored over it. `NoFalseDeath` says what remains: a node in
service is declared dead only if the reader was delayed between copying the entry and
reading its clock by `Timeout - Interval` less the clock difference, or copied such an
older heartbeat (`outdated`; TLC finds the violation when this exception is taken out).
With clocks of two machines, whose steady clocks count from their own boots, the
margin may be zero or negative, and then a check of a live node may fail with no delay.

`NoStuckWaiter` excludes one case that the code really has: threads of lower
nodes that ask and cancel for ever make `check_grant` choose a node whose grant
then fails, and a higher node waits though the lock is free.

## Proofs

Every theorem is for any `Threads`, `NodeCount`, `LockCount`, `NodeOf` and
`SpinLimit` (any members, readers, clocks and intervals of the registry) that the
assumptions of the modules allow, and for the specification without fairness.

| Module | Unconditional | Under assumptions |
|---|---|---|
| CAS | `TypeOK` | `~StrayRelease`: `IInv`, `MutualExclusion`, `HolderProtected`, `NoOrphanSlot`, `NoLeakedMutex`, refinement of `GlobalLockSpec` |
| CAS, lifecycle | `LifecycleTypeOK` | `~StrayRelease`: `LifecycleInv`, `OneUnwipedHolder`, `RestartLeavesNoOrphan`, `NoUseAfterClose` |
| CAS, caches | `TypeOK` | `~StrayRelease`: `CacheInv`, `ExclusionUnlessClobbered`, `LostOnlyByLateGrant` |
| FAA | `TypeOK` | `~StrayRelease` and `UnsharedRecord`: `RecordInv`, `WaiterVisible`, `NoOrphanTicket`; `LockCount = 1`: `ServesDrawnTickets` |
| MCS | `TypeOK` | `~StrayRelease`, `LockCount = 1`, `CallModes \subseteq {"long"}`: `McsInv`, `MutualExclusion`, `HandoverToWaiter`, `FifoGrants` |
| qspinlock | `TypeOK` | the same: `QspinInv`, `MutualExclusion`, refinement of `GlobalLockSpec` |
| Registry | `TypeOK`, `IInv`, `ScanBetween`, `LeftIsNotAlive`, `DeadDetected`, `NoFalseDeath` | |

The assumptions are preconditions of the code. `~StrayRelease`: applications release
only what they hold, the contract of `lock_interface.h`. `UnsharedRecord`: there is one
lock or every node has one thread, so that a node's ticket record is in use for one call
at a time; two threads of a node that ask for two locks overwrite it. `LockCount = 1`
and calls that do not time out: without them MCS and qspinlock do not exclude, as said
above. Types hold whatever the application does.

CAS. Mutual exclusion is not inductive. Two holders on one node are excluded by the
local mutex (`MutexInv`: whoever holds a lock or is past the mutex owns it), two
nodes by the slots (`SlotInv`: a holder's slot is LOCKED; `OneLocked`). That
`grant_lock` keeps `OneLocked` needs `ScanInv`: only the manager writes LOCKED, so
what `check_grant` has read as not LOCKED stays so until its grant, however old
the reads are; and `running` keeps a second worker from existing.
`NoOrphanSlot` is needed for a thread that takes the mutex to find an IDLE slot,
`NoLeakedMutex` for the owner of a mutex to be a thread of its node.
`Refinement` maps LOCKED to the abstract owner; a cancellation is `Withdraw`
before a grant and `Free` after one.

Lifecycle. A start zeroes slots under their holders, so `SlotInv` becomes
`WipedSlotInv`, about holders that were not wiped. `PhaseInv` says what exists in each
phase and that threads and the worker run only where it does; `ColumnInv` that the
node's own `memset` has left its slots IDLE and nobody writes them before the node is
up, which makes `RestartLeavesNoOrphan` inductive.

Caches. `CopyInv` says in which respect an old copy is right: only the manager writes
LOCKED, so it knows of every LOCKED in the memory, and a node that reads LOCKED reads
what the memory has. From that follow `HolderInv`, `ScanInv` and `OneLocked`, up to the
first write-back that overwrites a neighbour (`clobbered`); with one slot per line there
is none. `ClearedInv` is about withdrawals and holds up to the first grant written back
over one (`crossed`).

FAA. `RecordInv` ties a node's active flag to its threads: set while one polls, and while
set, one is on its way to clear it. `TicketInv` follows every ticket from `acquire_lock`
to `now_serving`, through the load that `grant_lock` repeats.

MCS. `OwnerInv`: at most one thread has the lock, and it is recorded as owner, or is
about to be. `QueueInv` says what the queue is between its separate stores: links lead
to waiters (`LinkInv`), a node that swapped the tail and has not linked in has a
predecessor that stays (`LinkingInv`), the tail arrived last (`TailInv`), the head that
the manager may find is first (`HeadInv`), and `ahead` counts exactly the nodes before
the holder's successor (`AheadInv`, `TurnInv`). It holds while the lock is `Alive`. The
code can leave that: `grant_lock` wakes the grantee before it records it as owner, the
grantee may release at once, is refused, and is recorded afterwards. Nobody then has the
lock, nor ever will; the invariant says so instead of excluding it.

qspinlock. The queue need not be understood for exclusion: whoever hands the lock over
sets the locked bit of the word and wakes one node, and a node has one call (`OneCall`).
`WordInv` says that at most one thread has the lock, that the bit is set while one has
it or the manager is about to set it, and that the manager, from its look at the word
to its grant, has found a word that is neither locked nor 0; as the word is not 0, the
fast path fails all that time. So a stale head, a release that is forced after its spins
or a waiter lost from the queue can cost progress and not exclusion, for any number of
nodes. TLC reaches all of `QspinInv`'s states for two nodes only.
`Refinement` maps a node that has stored `locked = 1` and not seen 2 to an abstract
waiter and the thread that has the lock to the owner, until it has cleared the word,
given up, or written the successor's word. Each of the three ways to give the lock
away (the swap from 0, a releaser's and the manager's store of `locked = 2`) is then a
`Grant`: nobody owns the lock, and the node asks. A store of `locked = 2` at a node
that does not ask changes nothing the service sees: the next request overwrites it.

Registry. `EntryOK` and `MemberOK` relate an entry to what its member has stored and is
about to store: stamps are never ahead of the member's clock, and a heartbeat that was
taken before `unregister` is stored after it without reviving the entry. A heartbeat may
be pending through a new registration; while it is, the entry's stamp is older than it
or is the registration's, so that the later of the entry's two stamps (`Latest`) stays
fresh whether it is stored or not, and a heartbeat older than the registration is the
only stale one a check can copy. `CopyOK` says
that what a check has copied was true when it was copied, and still is if the member has
not changed status since; `ScanInv` the same for what a scan has counted.

Only model-checked: the liveness properties (`CallsReturn`, `StopCompletes`,
`NoStuckWaiter`, `LowestNodeServed`, `ReleasesLetGo`, `ReleasesReturn`,
`LifecycleCallsReturn`): the proof system does not cover liveness under fairness. Every
invariant and action property of a passing run is proved, under the assumptions above.

## Not modelled, and why

* Key hashing: 64-bit multiplication, out of TLC's integers. A call by data key is a
  call of some lock, so that two keys on one lock are covered.
* `LockAlgorithmRegistry`: a map under one mutex that the lock system does not use.
* Manager statistics: counters no decision reads.
* The text parser of the configuration file (its outcomes are modelled), names and
  addresses in registry entries.
* Sizes in bytes: regions smaller than the lock state, files truncated by a node
  with another size.
* Nodes on different memories (device on one, fallback file on another).
* Shutdown with threads inside calls, which the code leaves to the caller, and the
  stubs of fault recovery.
* The lifecycle and the caches under MCS, FAA and qspinlock: their `initialize` zeroes
  the state in the same way, and what they lose without any start is shown by their
  own runs.

## Plan

1. Done: client, manager, the four algorithms, the abstract service, lifecycle, caches
   and registry; every safety property of the runs proved.
2. Proofs still worth having: that MCS without timeouts and with one lock implements
   `GlobalLockSpec`, from `OwnerInv`. Nothing of the kind is planned for FAA: its
   exclusion fails in more than one way (ticket 0, the `active` flag stored late, the
   ticket loaded again by `grant_lock`).
3. Runs still worth having: two locks in one MCS record; three nodes on qspinlock.
