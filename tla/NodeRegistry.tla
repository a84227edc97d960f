----------------------------- MODULE NodeRegistry -----------------------------
(***************************************************************************)
(* The registry of nodes in shared memory (src/src/node_registry.cpp): one *)
(* NodeGlobalInfo entry per node id, written by its own process            *)
(* (register_in_shared_memory, update_heartbeat, unregister) and read by   *)
(* all (is_node_alive, discover_nodes, get_active_node_count).  Nothing is *)
(* locked: an entry is written and read by memcpy, field by field in any   *)
(* order, and stamps of one machine's steady clock are compared with the   *)
(* clock of another.  Processes crash and restart.  Stores are visible at  *)
(* once (every writer flushes, every reader invalidates).                  *)
(***************************************************************************)
EXTENDS Integers

CONSTANTS
    Members,     \* the processes that register, beat and leave
    Readers,     \* the threads that ask, in these or other processes
    NodeIdOf,    \* NodeIdOf[m]: the node_id in m's configuration file
    NoId,        \* INVALID_NODE_ID
    MaxNodes,    \* MAX_NODE_COUNT
    ScanArgs,    \* values of the max_nodes parameter of a scan
    Offset,      \* Offset[p]: p's steady clock minus the common time `now'
    Timeout,     \* timeout_ms of is_node_alive
    Interval,    \* the longest a process in service lets its entry grow old
    MaxTime      \* bound on `now'

Slots == 0 .. MaxNodes - 1

ASSUME CountAssumption == MaxNodes \in Nat \ {0} /\ ScanArgs \subseteq Nat
ASSUME IdAssumption ==
    /\ NodeIdOf \in [Members -> Nat] /\ NoId \notin Nat
    /\ \A m, n \in Members : NodeIdOf[m] = NodeIdOf[n] => m = n
ASSUME TimeAssumption ==
    /\ Offset \in [Members \cup Readers -> Nat \ {0}]
    /\ Timeout \in Nat \ {0} /\ Interval \in Nat \ {0} /\ MaxTime \in Nat

VARIABLES
    now,         \* the common time
    \* the entries in shared memory
    active,      \* active[i]: is_active of entry i
    beat,        \* beat[i]: last_heartbeat of entry i, 0 when never written
    registered,  \* registered[i]: registration_time of entry i, which nobody reads
    \* a member process
    up,          \* it exists
    config,      \* local_config.node_id
    has_config,  \* has_local_config
    unwritten,   \* fields its register_in_shared_memory has yet to write
    stamp,       \* and the registration_time it writes
    pending,     \* time its heartbeat thread has read and not yet stored, or 0
    \* a reader thread
    pc,          \* what it is doing
    target,      \* node_id argument of is_node_alive, or entry a scan is at
    uncopied,    \* fields the memcpy of get_node_info has yet to copy
    copy,        \* the fields copied
    limit,       \* limit of a scan
    found,       \* entries a scan has counted so far
    \* history, for the properties only
    status,      \* member "out", "joining", "in" service, "dead" (crashed)
    downAt,      \* when a dead member crashed
    steady,      \* status of a check's target throughout, or "mixed"
    readAt,      \* when a check copied last_heartbeat
    outdated,    \* and whether that was older than the entry's registration_time
    ever,        \* entries active at some time of a scan
    always       \* entries active throughout a scan

entryVars == <<active, beat, registered>>
memberVars == <<up, config, has_config, unwritten, stamp, pending, status, downAt>>
readerVars == <<pc, target, uncopied, copy, limit, found, readAt, outdated>>
vars == <<now, entryVars, memberVars, readerVars, steady, ever, always>>

Fields == {"active", "beat"}
NoCopy == [active |-> FALSE, beat |-> 0]

TypeOK ==
    /\ now \in 0 .. MaxTime
    /\ active \in [Slots -> BOOLEAN]
    /\ beat \in [Slots -> Nat]
    /\ registered \in [Slots -> Nat]
    /\ up \in [Members -> BOOLEAN]
    /\ config \in [Members -> Nat \cup {NoId}]
    /\ has_config \in [Members -> BOOLEAN]
    /\ unwritten \in [Members -> SUBSET Fields]
    /\ stamp \in [Members -> Nat]
    /\ pending \in [Members -> Nat]
    /\ pc \in [Readers -> {"idle", "check", "clock", "alive", "dead",
                           "scan", "counted"}]
    /\ target \in [Readers -> Slots]
    /\ uncopied \in [Readers -> SUBSET Fields]
    /\ copy \in [Readers -> [active : BOOLEAN, beat : Nat]]
    /\ limit \in [Readers -> 0 .. MaxNodes]
    /\ found \in [Readers -> SUBSET Slots]

Init ==
    /\ now = 0
    /\ active = [i \in Slots |-> FALSE]
    /\ beat = [i \in Slots |-> 0]
    /\ registered = [i \in Slots |-> 0]
    /\ up = [m \in Members |-> TRUE]
    /\ config = [m \in Members |-> NoId]
    /\ has_config = [m \in Members |-> FALSE]
    /\ unwritten = [m \in Members |-> {}]
    /\ stamp = [m \in Members |-> 0]
    /\ pending = [m \in Members |-> 0]
    /\ pc = [r \in Readers |-> "idle"]
    /\ target = [r \in Readers |-> 0]
    /\ uncopied = [r \in Readers |-> {}]
    /\ copy = [r \in Readers |-> NoCopy]
    /\ limit = [r \in Readers |-> 0]
    /\ found = [r \in Readers |-> {}]
    /\ status = [m \in Members |-> "out"]
    /\ downAt = [m \in Members |-> 0]
    /\ steady = [r \in Readers |-> "mixed"]
    /\ readAt = [r \in Readers |-> 0]
    /\ outdated = [r \in Readers |-> FALSE]
    /\ ever = [r \in Readers |-> {}]
    /\ always = [r \in Readers |-> {}]

\* get_monotonic_time_ns(): a clock of p's machine, never 0.
Clock(p) == now + Offset[p]

-----------------------------------------------------------------------------
(* Members *)

\* The tests every function that writes m's entry begins with.
MayWrite(m) == up[m] /\ has_config[m] /\ config[m] \in Slots

\* m's status becomes s.
SetStatus(m, s) ==
    /\ status' = [status EXCEPT ![m] = s]
    /\ downAt' = [downAt EXCEPT ![m] = IF s = "dead" THEN now ELSE 0]

\* load_local_config of a process that is not registered.  An unreadable file
\* changes nothing.  Otherwise local_config is reset first: a file without a
\* node_id leaves it invalid, one with an error in a later line leaves the id set
\* and has_local_config, which is set at the end and never cleared, as it was.
LoadLocalConfig(m) ==
    /\ up[m] /\ unwritten[m] = {} /\ status[m] # "in"
    /\ \E id \in {NoId, NodeIdOf[m]}, ok \in BOOLEAN :
        /\ config' = [config EXCEPT ![m] = id]
        /\ has_config' = [has_config EXCEPT ![m] = @ \/ (ok /\ id # NoId)]
    /\ UNCHANGED <<unwritten, stamp, pending, up, entryVars, status, downAt>>

\* register_in_shared_memory up to its memcpy: nothing asks whether the entry is
\* already active, or whether the heartbeat thread is still in update_heartbeat.
BeginRegister(m) ==
    /\ MayWrite(m)
    /\ unwritten[m] = {}
    /\ unwritten' = [unwritten EXCEPT ![m] = Fields]
    /\ stamp' = [stamp EXCEPT ![m] = Clock(m)]
    /\ SetStatus(m, IF status[m] = "in" THEN "in" ELSE "joining")
    /\ UNCHANGED <<up, config, has_config, pending, entryVars>>

\* One field of the memcpy, both stamps being one; the call returns after the last.
RegisterField(m, f) ==
    /\ f \in unwritten[m]
    /\ \/ /\ f = "active"
          /\ active' = [active EXCEPT ![config[m]] = TRUE]
          /\ UNCHANGED <<beat, registered>>
       \/ /\ f = "beat"
          /\ beat' = [beat EXCEPT ![config[m]] = stamp[m]]
          /\ registered' = [registered EXCEPT ![config[m]] = stamp[m]]
          /\ UNCHANGED active
    /\ unwritten' = [unwritten EXCEPT ![m] = @ \ {f}]
    /\ \/ /\ unwritten[m] = {f}
          /\ stamp' = [stamp EXCEPT ![m] = 0]
          /\ SetStatus(m, "in")
       \/ /\ unwritten[m] # {f}
          /\ UNCHANGED <<stamp, status, downAt>>
    /\ UNCHANGED <<up, config, has_config, pending>>

\* unregister: last_heartbeat stays as it is.
Unregister(m) ==
    /\ MayWrite(m)
    /\ unwritten[m] = {}
    /\ active' = [active EXCEPT ![config[m]] = FALSE]
    /\ SetStatus(m, "out")
    /\ UNCHANGED <<up, config, has_config, unwritten, stamp, pending, beat, registered>>

\* update_heartbeat, on one thread of its own: the clock is read ...
HeartbeatReads(m) ==
    /\ MayWrite(m)
    /\ status[m] = "in" /\ pending[m] = 0
    /\ pending' = [pending EXCEPT ![m] = Clock(m)]
    /\ UNCHANGED <<up, config, has_config, unwritten, stamp, entryVars, status, downAt>>

\* Mutant of HeartbeatStores: the entry is marked active along with the stamp.
HeartbeatRevives(m) ==
    /\ pending[m] # 0
    /\ beat' = [beat EXCEPT ![NodeIdOf[m]] = pending[m]]
    /\ active' = [active EXCEPT ![NodeIdOf[m]] = TRUE]
    /\ pending' = [pending EXCEPT ![m] = 0]
    /\ UNCHANGED <<up, config, has_config, unwritten, stamp, registered, status, downAt>>

\* ... and then stored in the entry found before, perhaps after unregister and even
\* after a new registration, whose stamp it then overwrites with an older one.
HeartbeatStores(m) ==
    /\ pending[m] # 0
    /\ beat' = [beat EXCEPT ![NodeIdOf[m]] = pending[m]]
    /\ pending' = [pending EXCEPT ![m] = 0]
    /\ UNCHANGED <<up, config, has_config, unwritten, stamp, active, registered,
                   status, downAt>>

\* A process dies where it stands; its entry stays as it is.
Crash(m) ==
    /\ up[m]
    /\ up' = [up EXCEPT ![m] = FALSE]
    /\ config' = [config EXCEPT ![m] = NoId]
    /\ has_config' = [has_config EXCEPT ![m] = FALSE]
    /\ unwritten' = [unwritten EXCEPT ![m] = {}]
    /\ stamp' = [stamp EXCEPT ![m] = 0]
    /\ pending' = [pending EXCEPT ![m] = 0]
    /\ SetStatus(m, IF status[m] = "out" THEN "out" ELSE "dead")
    /\ UNCHANGED entryVars

Restart(m) ==
    /\ ~up[m]
    /\ up' = [up EXCEPT ![m] = TRUE]
    /\ UNCHANGED <<config, has_config, unwritten, stamp, pending, entryVars,
                   status, downAt>>

Member(m) ==
    /\ \/ LoadLocalConfig(m)
       \/ BeginRegister(m)
       \/ \E f \in Fields : RegisterField(m, f)
       \/ Unregister(m)
       \/ HeartbeatReads(m)
       \/ HeartbeatStores(m)
       \/ Crash(m)
       \/ Restart(m)
    /\ steady' = [r \in Readers |->
                    IF target[r] = NodeIdOf[m] /\ status'[m] # status[m]
                    THEN "mixed" ELSE steady[r]]
    /\ UNCHANGED <<now, readerVars>>

-----------------------------------------------------------------------------
(* Readers *)

StatusOf(i) ==
    IF \E m \in Members : NodeIdOf[m] = i
    THEN status[CHOOSE m \in Members : NodeIdOf[m] = i]
    ELSE "out"

\* is_node_alive(i) is called.
BeginCheck(r, i) ==
    /\ pc[r] = "idle"
    /\ pc' = [pc EXCEPT ![r] = "check"]
    /\ target' = [target EXCEPT ![r] = i]
    /\ uncopied' = [uncopied EXCEPT ![r] = Fields]
    /\ steady' = [steady EXCEPT ![r] = StatusOf(i)]
    /\ UNCHANGED <<copy, limit, found, readAt, outdated>>

\* get_node_info copies one field of the entry.
CopyField(r, f) ==
    /\ f \in uncopied[r]
    /\ \/ /\ f = "active"
          /\ copy' = [copy EXCEPT ![r] =
                        [active |-> active[target[r]], beat |-> copy[r].beat]]
          /\ UNCHANGED <<readAt, outdated>>
       \/ /\ f = "beat"
          /\ copy' = [copy EXCEPT ![r] =
                        [active |-> copy[r].active, beat |-> beat[target[r]]]]
          /\ readAt' = [readAt EXCEPT ![r] = now]
          /\ outdated' = [outdated EXCEPT ![r] = beat[target[r]] < registered[target[r]]]
    /\ uncopied' = [uncopied EXCEPT ![r] = @ \ {f}]
    /\ pc' = [pc EXCEPT ![r] = IF uncopied[r] = {f} THEN "clock" ELSE "check"]
    /\ UNCHANGED <<target, limit, found, steady>>

\* Mutants of Alive: the node is given up one unit early; a node that once beat
\* is never given up.
AliveTooShort(r) ==
    /\ copy[r].active /\ copy[r].beat # 0
    /\ Clock(r) < copy[r].beat \/ Clock(r) - copy[r].beat < Timeout - 1
AliveOnceBeaten(r) == copy[r].active /\ copy[r].beat # 0

\* What is_node_alive makes of its copy: an inactive entry or one without a
\* heartbeat is dead, one from the future alive, else its age decides.
Alive(r) ==
    /\ copy[r].active
    /\ copy[r].beat # 0
    /\ Clock(r) < copy[r].beat \/ Clock(r) - copy[r].beat < Timeout

\* is_node_alive reads its clock and decides.
CheckClock(r) ==
    /\ pc[r] = "clock"
    /\ pc' = [pc EXCEPT ![r] = IF Alive(r) THEN "alive" ELSE "dead"]
    /\ UNCHANGED <<target, uncopied, copy, limit, found, readAt, outdated, steady>>

\* Mutant of BeginScan: max_nodes is not cut to MAX_NODE_COUNT.
BeginScanUncut(r, max_nodes) ==
    /\ pc[r] = "idle"
    /\ pc' = [pc EXCEPT ![r] = "scan"]
    /\ limit' = [limit EXCEPT ![r] = max_nodes]
    /\ UNCHANGED <<target, uncopied, copy, found, readAt, outdated, steady>>

\* discover_nodes or get_active_node_count is called with max_nodes.
BeginScan(r, max_nodes) ==
    /\ pc[r] = "idle"
    /\ pc' = [pc EXCEPT ![r] = "scan"]
    /\ limit' = [limit EXCEPT ![r] =
                    IF max_nodes > MaxNodes THEN MaxNodes ELSE max_nodes]
    /\ UNCHANGED <<target, uncopied, copy, found, readAt, outdated, steady>>

\* Mutant of ScanEntry: the loop ends before the last entry.
ScanEntryShort(r) ==
    /\ pc[r] = "scan"
    /\ \/ /\ target[r] + 1 < limit[r]
          /\ found' = IF active[target[r]]
                      THEN [found EXCEPT ![r] = @ \cup {target[r]}] ELSE found
          /\ target' = [target EXCEPT ![r] = @ + 1]
          /\ UNCHANGED pc
       \/ /\ target[r] + 1 >= limit[r]
          /\ pc' = [pc EXCEPT ![r] = "counted"]
          /\ UNCHANGED <<found, target>>
    /\ UNCHANGED <<uncopied, copy, limit, readAt, outdated, steady>>

\* Their loop looks at one entry, or ends.
ScanEntry(r) ==
    /\ pc[r] = "scan"
    /\ found' = IF target[r] < limit[r] /\ active[target[r]]
                THEN [found EXCEPT ![r] = @ \cup {target[r]}] ELSE found
    /\ \/ /\ target[r] + 1 < limit[r]
          /\ target' = [target EXCEPT ![r] = @ + 1]
          /\ UNCHANGED pc
       \/ /\ target[r] + 1 >= limit[r]
          /\ pc' = [pc EXCEPT ![r] = "counted"]
          /\ UNCHANGED target
    /\ UNCHANGED <<uncopied, copy, limit, readAt, outdated, steady>>

\* The caller has its answer.
Answered(r) ==
    /\ pc[r] \in {"alive", "dead", "counted"}
    /\ pc' = [pc EXCEPT ![r] = "idle"]
    /\ target' = [target EXCEPT ![r] = 0]
    /\ copy' = [copy EXCEPT ![r] = NoCopy]
    /\ limit' = [limit EXCEPT ![r] = 0]
    /\ found' = [found EXCEPT ![r] = {}]
    /\ readAt' = [readAt EXCEPT ![r] = 0]
    /\ outdated' = [outdated EXCEPT ![r] = FALSE]
    /\ steady' = [steady EXCEPT ![r] = "mixed"]
    /\ UNCHANGED uncopied

Reader(r) ==
    /\ \/ \E i \in Slots : BeginCheck(r, i)
       \/ \E f \in Fields : CopyField(r, f)
       \/ CheckClock(r)
       \/ \E max_nodes \in ScanArgs : BeginScan(r, max_nodes)
       \/ ScanEntry(r)
       \/ Answered(r)
    /\ UNCHANGED <<now, entryVars, memberVars>>

-----------------------------------------------------------------------------
Latest(i) == IF beat[i] < registered[i] THEN registered[i] ELSE beat[i]

\* Time passes, but update_heartbeat is called and returns often enough that the
\* latest stamp of a process in service never grows older than Interval, be it in
\* the entry or overwritten there by an older one, nor that of one in register.
Tick ==
    /\ now < MaxTime
    /\ \A m \in Members :
        /\ status[m] = "in" => Clock(m) + 1 - Latest(NodeIdOf[m]) <= Interval
        /\ unwritten[m] # {} => Clock(m) + 1 - stamp[m] <= Interval
    /\ now' = now + 1
    /\ UNCHANGED <<entryVars, memberVars, readerVars, steady>>

\* History of the scans: the entries active in each of their states.
ActiveSlots == {i \in Slots : active[i]}
WatchScan(r) ==
    IF pc[r] # "scan" /\ pc'[r] # "scan"
    THEN IF pc'[r] = "counted" THEN [ever |-> ever[r], always |-> always[r]]
                               ELSE [ever |-> {}, always |-> {}]
    ELSE [ever |-> ActiveSlots' \cup (IF pc[r] = "scan" THEN ever[r] ELSE {}),
          always |-> ActiveSlots' \cap (IF pc[r] = "scan" THEN always[r] ELSE Slots)]

Next ==
    /\ \/ Tick
       \/ \E m \in Members : Member(m)
       \/ \E r \in Readers : Reader(r)
    /\ ever' = [r \in Readers |-> WatchScan(r).ever]
    /\ always' = [r \in Readers |-> WatchScan(r).always]

Spec == Init /\ [][Next]_vars

-----------------------------------------------------------------------------
(* Correctness *)

Decides(r, answer) == pc[r] = "clock" /\ pc'[r] = answer

\* A node in service throughout the check is declared dead for one of two reasons
\* only.  The checker was delayed between copying the heartbeat and reading its own
\* clock by at least what Timeout leaves once the heartbeat interval and the lead of
\* its clock over the node's are taken off (no delay at all if nothing is left).  Or
\* the heartbeat it copied was begun before the node's registration, and stored late.
NoFalseDeath ==
    [][\A r \in Readers, m \in Members :
        Decides(r, "dead") /\ target[r] = NodeIdOf[m] /\ steady[r] = "in" =>
            \/ now - readAt[r] >= Timeout - Interval - (Offset[r] - Offset[m])
            \/ outdated[r]]_vars

\* A node that died without unregistering is found out: once Timeout, corrected
\* by the difference of the clocks, has passed since the crash no check answers
\* alive, whatever registration or heartbeat the crash cut short.
DeadDetected ==
    [][\A r \in Readers, m \in Members :
        Decides(r, "alive") /\ target[r] = NodeIdOf[m] /\ status[m] = "dead" =>
            now - downAt[m] < Timeout + Offset[m] - Offset[r]]_vars

\* A node that was out of the registry throughout the check is not alive, even
\* though its last heartbeat is kept and a late one may be stored after it left.
LeftIsNotAlive ==
    [][\A r \in Readers : Decides(r, "alive") => steady[r] # "out"]_vars

\* A scan is no snapshot, yet it is right about every entry that did not change
\* meanwhile: it reports each node active throughout the scan (below its limit)
\* and none that was active at no time of it.
ScanBetween ==
    \A r \in Readers : pc[r] = "counted" =>
        /\ \A i \in always[r] : i < limit[r] => i \in found[r]
        /\ found[r] \subseteq ever[r]

-----------------------------------------------------------------------------
(* The inductive invariant behind the safety properties.                       *)

HistoryTypeOK ==
    /\ status \in [Members -> {"out", "joining", "in", "dead"}]
    /\ downAt \in [Members -> 0 .. now]
    /\ steady \in [Readers -> {"out", "joining", "in", "dead", "mixed"}]
    /\ readAt \in [Readers -> Nat]
    /\ outdated \in [Readers -> BOOLEAN]
    /\ ever \in [Readers -> SUBSET Slots]
    /\ always \in [Readers -> SUBSET Slots]

\* What member m is about to store: it has checked that its entry exists, and the
\* stamp is of its own clock, and fresh if it registers.  A registration and a
\* heartbeat may both have a store outstanding.
MemberOK(m) ==
    /\ config[m] \in {NoId, NodeIdOf[m]}
    /\ status[m] = "in" => config[m] \in Slots
    /\ status[m] = "joining" => unwritten[m] # {}
    /\ unwritten[m] # {} =>
        /\ config[m] \in Slots /\ status[m] \in {"joining", "in"}
        /\ stamp[m] \in 1 .. Clock(m) /\ Clock(m) - stamp[m] <= Interval
    /\ pending[m] # 0 =>
        NodeIdOf[m] \in Slots /\ status[m] # "dead" /\ pending[m] <= Clock(m)

\* What m's entry, the i-th, says of m: its stamps are never ahead of m's clock, the
\* later of them is fresh while m is in service, the heartbeat stays where a crash left
\* it, and one still to be stored is older than the entry's only if the entry's is of a
\* registration.
EntryOK(m, i) ==
    /\ beat[i] <= Clock(m) /\ registered[i] <= Clock(m)
    /\ status[m] = "out" => ~active[i]
    /\ status[m] = "joining" =>
        /\ "active" \in unwritten[m] \/ active[i]
        /\ "beat" \in unwritten[m] \/ (beat[i] # 0 /\ registered[i] = stamp[m])
    /\ status[m] = "in" => active[i] /\ beat[i] # 0 /\ Clock(m) - Latest(i) <= Interval
    /\ status[m] = "dead" => beat[i] <= downAt[m] + Offset[m]
    /\ pending[m] # 0 => beat[i] <= pending[m] \/ beat[i] <= registered[i]

EntryInv ==
    /\ \A m \in Members : NodeIdOf[m] \in Slots => EntryOK(m, NodeIdOf[m])
    /\ \A i \in Slots : active[i] => \E m \in Members : NodeIdOf[m] = i

\* What a check has copied of member m was true when it was copied, and still is
\* as far as m's status has not changed since the check began.
CopyOK(r, m) ==
    /\ steady[r] \in {status[m], "mixed"}
    /\ "beat" \notin uncopied[r] =>
        /\ copy[r].beat <= Clock(m)
        /\ status[m] = "dead" => copy[r].beat <= downAt[m] + Offset[m]
        /\ steady[r] = "in" =>
            /\ copy[r].beat # 0
            /\ outdated[r] \/ readAt[r] + Offset[m] - copy[r].beat <= Interval

\* What check r has copied, of a member's entry or of one that is nobody's.
CheckOK(r) ==
    /\ pc[r] # "check" => uncopied[r] = {}
    /\ pc[r] \in {"check", "clock"} =>
        /\ \A m \in Members : NodeIdOf[m] = target[r] => CopyOK(r, m)
        /\ steady[r] = "in" => \E m \in Members : NodeIdOf[m] = target[r]
        /\ "active" \notin uncopied[r] =>
            /\ steady[r] = "out" => ~copy[r].active
            /\ steady[r] = "in" => copy[r].active

CopyInv == \A r \in Readers : CheckOK(r)

\* A scan has counted every entry it has passed that was active throughout, and
\* only entries that were active at some time.
ScanInv ==
    \A r \in Readers :
        /\ pc[r] = "idle" => target[r] = 0 /\ found[r] = {}
        /\ pc[r] = "scan" =>
            /\ always[r] \subseteq ActiveSlots /\ ActiveSlots \subseteq ever[r]
            /\ found[r] \subseteq ever[r]
            /\ \A i \in always[r] : i < target[r] => i \in found[r]

\* Together, with types, the invariant that every step preserves.
IInv ==
    /\ TypeOK /\ HistoryTypeOK
    /\ \A m \in Members : MemberOK(m)
    /\ EntryInv /\ CopyInv /\ ScanInv /\ ScanBetween
=============================================================================
