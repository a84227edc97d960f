-------------------------- MODULE NodeRegistryProofs --------------------------
(***************************************************************************)
(* Proofs that the unlocked registry keeps its promises for any number of  *)
(* members, readers and entries, any clock offsets, timeout and heartbeat  *)
(* interval: what a check may conclude from an entry it copied field by    *)
(* field, and what a scan may report of entries that change under it.      *)
(***************************************************************************)
EXTENDS NodeRegistry, TLAPS

\* A clock reading is a positive number.
LEMMA ClockType ==
    ASSUME TypeOK, NEW p \in Members \cup Readers
    PROVE  Clock(p) \in Nat /\ Clock(p) # 0
  BY TimeAssumption DEF TypeOK, Clock

-----------------------------------------------------------------------------
(* Types *)

LEMMA TypeInit == Init => TypeOK /\ HistoryTypeOK
  BY CountAssumption, TimeAssumption
  DEF Init, TypeOK, HistoryTypeOK, Slots, NoCopy

\* Each step of a member process keeps every variable's type.
LEMMA TypeMember ==
    ASSUME TypeOK, HistoryTypeOK, NEW m \in Members, Member(m)
    PROVE  TypeOK' /\ status' \in [Members -> {"out", "joining", "in", "dead"}]
                   /\ downAt' \in [Members -> 0 .. now]
<1> USE IdAssumption, ClockType
    DEF TypeOK, HistoryTypeOK, SetStatus, readerVars, entryVars, Fields
<1>0. UNCHANGED <<now, readerVars>>
  BY DEF Member
<1>1. CASE LoadLocalConfig(m)
  BY <1>0, <1>1 DEF LoadLocalConfig
<1>2. CASE BeginRegister(m)
  BY <1>0, <1>2 DEF BeginRegister
<1>3. ASSUME NEW f \in Fields, RegisterField(m, f)
      PROVE  TypeOK' /\ status' \in [Members -> {"out", "joining", "in", "dead"}]
                     /\ downAt' \in [Members -> 0 .. now]
  <2>1. (active \in [Slots -> BOOLEAN])'
    BY <1>3 DEF RegisterField
  <2>2. (beat \in [Slots -> Nat] /\ registered \in [Slots -> Nat])'
    BY <1>3 DEF RegisterField
  <2>3. (unwritten \in [Members -> SUBSET Fields] /\ stamp \in [Members -> Nat])'
    BY <1>3 DEF RegisterField
  <2>4. status' \in [Members -> {"out", "joining", "in", "dead"}]
        /\ downAt' \in [Members -> 0 .. now]
    <3>1. CASE SetStatus(m, "in")
      BY <3>1
    <3>2. CASE UNCHANGED <<status, downAt>>
      BY <3>2
    <3> QED BY <1>3, <3>1, <3>2 DEF RegisterField
  <2> QED BY <1>0, <1>3, <2>1, <2>2, <2>3, <2>4 DEF RegisterField
<1>4. CASE Unregister(m)
  <2>1. (active \in [Slots -> BOOLEAN])'
    BY <1>4 DEF Unregister
  <2>2. status' \in [Members -> {"out", "joining", "in", "dead"}]
        /\ downAt' \in [Members -> 0 .. now]
    BY <1>4 DEF Unregister
  <2> QED BY <1>0, <1>4, <2>1, <2>2 DEF Unregister
<1>5. CASE HeartbeatReads(m)
  BY <1>0, <1>5 DEF HeartbeatReads
<1>8. CASE HeartbeatStores(m)
  <2>1. (beat \in [Slots -> Nat] /\ pending \in [Members -> Nat])'
    BY <1>8 DEF HeartbeatStores
  <2> QED BY <1>0, <1>8, <2>1 DEF HeartbeatStores
<1>6. CASE Crash(m)
  BY <1>0, <1>6 DEF Crash
<1>7. CASE Restart(m)
  BY <1>0, <1>7 DEF Restart
<1> QED BY <1>1, <1>2, <1>3, <1>4, <1>5, <1>6, <1>7, <1>8 DEF Member

\* The entry after one of a scan below its limit is an entry.
LEMMA EntryAfter ==
    ASSUME NEW i \in Slots, NEW l \in 0 .. MaxNodes, i + 1 < l
    PROVE  i + 1 \in Slots
  BY CountAssumption DEF Slots

\* Each step of a reader keeps every variable's type: in particular a scan never
\* looks past the last entry.
LEMMA TypeReader ==
    ASSUME TypeOK, HistoryTypeOK, NEW r \in Readers, Reader(r)
    PROVE  /\ TypeOK'
           /\ steady' \in [Readers -> {"out", "joining", "in", "dead", "mixed"}]
           /\ readAt' \in [Readers -> Nat] /\ outdated' \in [Readers -> BOOLEAN]
<1> USE CountAssumption, IdAssumption
    DEF TypeOK, HistoryTypeOK, memberVars, entryVars, Fields, NoCopy
<1>0. UNCHANGED <<now, entryVars, memberVars>>
  BY DEF Reader
<1>1. ASSUME NEW i \in Slots, BeginCheck(r, i)
      PROVE  /\ TypeOK'
             /\ steady' \in [Readers -> {"out", "joining", "in", "dead", "mixed"}]
             /\ readAt' \in [Readers -> Nat] /\ outdated' \in [Readers -> BOOLEAN]
  <2>1. StatusOf(i) \in {"out", "joining", "in", "dead"}
    <3>1. CASE \E m \in Members : NodeIdOf[m] = i
      BY <3>1 DEF StatusOf
    <3> QED BY <3>1 DEF StatusOf
  <2> QED BY <1>0, <1>1, <2>1 DEF BeginCheck
<1>2. ASSUME NEW f \in Fields, CopyField(r, f)
      PROVE  /\ TypeOK'
             /\ steady' \in [Readers -> {"out", "joining", "in", "dead", "mixed"}]
             /\ readAt' \in [Readers -> Nat] /\ outdated' \in [Readers -> BOOLEAN]
  <2>1. (copy \in [Readers -> [active : BOOLEAN, beat : Nat]])'
    BY <1>0, <1>2 DEF CopyField
  <2>2. readAt' \in [Readers -> Nat] /\ outdated' \in [Readers -> BOOLEAN]
    <3>1. now \in Nat /\ (beat[target[r]] < registered[target[r]]) \in BOOLEAN
      BY TimeAssumption
    <3>2. CASE f = "active"
      BY <1>2, <3>2 DEF CopyField
    <3>3. CASE f = "beat"
      <4>1. readAt' \in [Readers -> Nat]
        BY <1>2, <3>1, <3>3 DEF CopyField
      <4>2. outdated' \in [Readers -> BOOLEAN]
        BY <1>2, <3>1, <3>3 DEF CopyField
      <4> QED BY <4>1, <4>2
    <3> QED BY <3>2, <3>3
  <2>3. (uncopied \in [Readers -> SUBSET Fields])'
        /\ (pc \in [Readers -> {"idle", "check", "clock", "alive", "dead",
                                "scan", "counted"}])'
    BY <1>2 DEF CopyField
  <2> QED BY <1>0, <1>2, <2>1, <2>2, <2>3 DEF CopyField
<1>3. CASE CheckClock(r)
  BY <1>0, <1>3 DEF CheckClock
<1>4. ASSUME NEW max_nodes \in ScanArgs, BeginScan(r, max_nodes)
      PROVE  /\ TypeOK'
             /\ steady' \in [Readers -> {"out", "joining", "in", "dead", "mixed"}]
             /\ readAt' \in [Readers -> Nat] /\ outdated' \in [Readers -> BOOLEAN]
  BY <1>0, <1>4 DEF BeginScan
<1>5. CASE ScanEntry(r)
  <2>1. (target \in [Readers -> Slots])'
    <3>1. target[r] + 1 < limit[r] => target[r] + 1 \in Slots
      <4>1. target[r] \in Slots /\ limit[r] \in 0 .. MaxNodes
        OBVIOUS
      <4> QED BY <4>1, EntryAfter
    <3> QED BY <1>5, <3>1 DEF ScanEntry
  <2>2. (found \in [Readers -> SUBSET Slots])'
    BY <1>5 DEF ScanEntry
  <2> QED BY <1>0, <1>5, <2>1, <2>2 DEF ScanEntry
<1>6. CASE Answered(r)
  <2>1. (target \in [Readers -> Slots] /\ limit \in [Readers -> 0 .. MaxNodes])'
    <3>1. 0 \in Slots /\ 0 \in 0 .. MaxNodes
      BY DEF Slots
    <3> QED BY <1>6, <3>1 DEF Answered
  <2> QED BY <1>0, <1>6, <2>1 DEF Answered
<1> QED BY <1>1, <1>2, <1>3, <1>4, <1>5, <1>6 DEF Reader

\* What the history variables of the scans become.
LEMMA WatchStep ==
    ASSUME Next, NEW r \in Readers
    PROVE  /\ pc[r] = "scan" =>
                ever'[r] = ActiveSlots' \cup ever[r] /\ always'[r] = ActiveSlots' \cap always[r]
           /\ pc[r] # "scan" /\ pc'[r] = "scan" =>
                ever'[r] = ActiveSlots' /\ always'[r] = ActiveSlots' \cap Slots
           /\ pc[r] # "scan" /\ pc'[r] = "counted" =>
                ever'[r] = ever[r] /\ always'[r] = always[r]
<1>1. ever'[r] = WatchScan(r).ever /\ always'[r] = WatchScan(r).always
  BY DEF Next
<1>2. CASE pc[r] = "scan"
  BY <1>1, <1>2 DEF WatchScan
<1>3. CASE pc[r] # "scan" /\ pc'[r] = "scan"
  <2>1. WatchScan(r) = [ever |-> ActiveSlots' \cup {}, always |-> ActiveSlots' \cap Slots]
    BY <1>3 DEF WatchScan
  <2> QED BY <1>1, <1>3, <2>1
<1>4. CASE pc[r] # "scan" /\ pc'[r] # "scan"
  BY <1>1, <1>4 DEF WatchScan
<1> QED BY <1>2, <1>3, <1>4

\* Every variable, those kept for the properties included, keeps its type.
LEMMA TypeStep == TypeOK /\ HistoryTypeOK /\ [Next]_vars => TypeOK' /\ HistoryTypeOK'
<1> SUFFICES ASSUME TypeOK, HistoryTypeOK, [Next]_vars PROVE TypeOK' /\ HistoryTypeOK'
    OBVIOUS
<1>1. CASE UNCHANGED vars
  BY <1>1 DEF vars, entryVars, memberVars, readerVars, TypeOK, HistoryTypeOK
<1>2. CASE Next
  <2>1. /\ TypeOK'
        /\ status' \in [Members -> {"out", "joining", "in", "dead"}]
        /\ downAt' \in [Members -> 0 .. now']
        /\ steady' \in [Readers -> {"out", "joining", "in", "dead", "mixed"}]
        /\ readAt' \in [Readers -> Nat] /\ outdated' \in [Readers -> BOOLEAN]
    <3>1. CASE Tick
      <4>1. now' \in 0 .. MaxTime /\ 0 .. now \subseteq 0 .. now'
        BY <3>1, TimeAssumption DEF Tick, TypeOK
      <4>2. UNCHANGED <<active, beat, registered, up, config, has_config, unwritten, stamp,
                        pending, status, downAt, pc, target, uncopied, copy, limit, found,
                        readAt, outdated, steady>>
        BY <3>1 DEF Tick, entryVars, memberVars, readerVars
      <4>3. TypeOK'
        BY <4>1, <4>2 DEF TypeOK
      <4> QED BY <4>1, <4>2, <4>3 DEF HistoryTypeOK
    <3>2. ASSUME NEW m \in Members, Member(m)
          PROVE  /\ steady' \in [Readers -> {"out", "joining", "in", "dead", "mixed"}]
                 /\ readAt' \in [Readers -> Nat] /\ outdated' \in [Readers -> BOOLEAN]
                 /\ now' = now
      BY <3>2 DEF Member, HistoryTypeOK, readerVars
    <3>3. ASSUME NEW r \in Readers, Reader(r)
          PROVE  UNCHANGED <<now, status, downAt>>
      BY <3>3 DEF Reader, memberVars
    <3>4. CASE \E m \in Members : Member(m)
      BY <3>2, <3>4, TypeMember
    <3>5. CASE \E r \in Readers : Reader(r)
      BY <3>3, <3>5, TypeReader DEF HistoryTypeOK
    <3> QED BY <1>2, <3>1, <3>4, <3>5 DEF Next
  <2>2. \A r \in Readers :
            WatchScan(r).ever \in SUBSET Slots /\ WatchScan(r).always \in SUBSET Slots
    <3>1. ActiveSlots' \subseteq Slots
      BY DEF ActiveSlots
    <3> QED BY <3>1 DEF WatchScan, HistoryTypeOK
  <2>3. ever' \in [Readers -> SUBSET Slots] /\ always' \in [Readers -> SUBSET Slots]
    BY <1>2, <2>2 DEF Next
  <2> QED BY <2>1, <2>3 DEF HistoryTypeOK
<1> QED BY <1>1, <1>2

\* Every reachable state is well typed: no node id or clock reading leaves its
\* range, and no scan leaves the array of entries.
THEOREM TypeCorrect == Spec => []TypeOK
<1>1. Init => TypeOK /\ HistoryTypeOK
  BY TypeInit
<1>2. TypeOK /\ HistoryTypeOK /\ [Next]_vars => (TypeOK /\ HistoryTypeOK)'
  BY TypeStep
<1> QED BY <1>1, <1>2, PTL DEF Spec

-----------------------------------------------------------------------------
(* Members and entries *)

\* A member writes nothing but its own variables and its own entry, and one that
\* is dead after a step was so before or died in that step.
LEMMA MemberFrame ==
    ASSUME TypeOK, HistoryTypeOK, NEW m \in Members, MemberOK(m), Member(m)
    PROVE  /\ now' = now
           /\ \A k \in Members \ {m} :
                /\ config'[k] = config[k] /\ unwritten'[k] = unwritten[k]
                /\ stamp'[k] = stamp[k] /\ pending'[k] = pending[k]
                /\ status'[k] = status[k] /\ downAt'[k] = downAt[k]
           /\ \A i \in Slots \ {NodeIdOf[m]} :
                active'[i] = active[i] /\ beat'[i] = beat[i] /\ registered'[i] = registered[i]
           /\ status'[m] = "dead" =>
                downAt'[m] = now \/ (status[m] = "dead" /\ downAt'[m] = downAt[m])
<1> DEFINE Frame ==
      /\ \A k \in Members \ {m} :
           /\ config'[k] = config[k] /\ unwritten'[k] = unwritten[k]
           /\ stamp'[k] = stamp[k] /\ pending'[k] = pending[k]
           /\ status'[k] = status[k] /\ downAt'[k] = downAt[k]
      /\ \A i \in Slots \ {NodeIdOf[m]} :
           active'[i] = active[i] /\ beat'[i] = beat[i] /\ registered'[i] = registered[i]
      /\ status'[m] = "dead" =>
           downAt'[m] = now \/ (status[m] = "dead" /\ downAt'[m] = downAt[m])
<1> USE DEF TypeOK, HistoryTypeOK, SetStatus, entryVars
<1>1. CASE LoadLocalConfig(m) \/ HeartbeatReads(m) \/ Restart(m)
  <2>1. Frame
    BY <1>1 DEF LoadLocalConfig, HeartbeatReads, Restart
  <2> QED BY <2>1 DEF Member
<1>2. CASE BeginRegister(m) \/ Crash(m)
  <2>1. Frame
    BY <1>2 DEF BeginRegister, Crash
  <2> QED BY <2>1 DEF Member
<1>3. ASSUME NEW f \in Fields, RegisterField(m, f) PROVE Frame
  <2>1. config[m] = NodeIdOf[m]
    BY <1>3, IdAssumption DEF RegisterField, MemberOK, Slots
  <2>2. CASE SetStatus(m, "in")
    BY <1>3, <2>1, <2>2 DEF RegisterField
  <2>3. CASE UNCHANGED <<status, downAt>> /\ UNCHANGED stamp
    BY <1>3, <2>1, <2>3 DEF RegisterField
  <2> QED BY <1>3, <2>2, <2>3 DEF RegisterField
<1>4. CASE Unregister(m)
  <2>1. config[m] = NodeIdOf[m]
    BY <1>4, IdAssumption DEF Unregister, MayWrite, MemberOK, Slots
  <2>2. Frame
    BY <1>4, <2>1 DEF Unregister
  <2> QED BY <2>2 DEF Member
<1>5. CASE HeartbeatStores(m)
  <2>1. Frame
    BY <1>5 DEF HeartbeatStores
  <2> QED BY <2>1 DEF Member
<1> QED BY <1>1, <1>2, <1>3, <1>4, <1>5 DEF Member

\* What holds between a member and its entry survives each of the member's steps,
\* the crash in the middle of a registration or heartbeat included.
LEMMA MemberKeepsOwn ==
    ASSUME TypeOK, HistoryTypeOK, TypeOK', NEW m \in Members, MemberOK(m),
           NodeIdOf[m] \in Slots => EntryOK(m, NodeIdOf[m]), Member(m)
    PROVE  MemberOK(m)' /\ (NodeIdOf[m] \in Slots => EntryOK(m, NodeIdOf[m])')
<1> DEFINE Good == MemberOK(m) /\ (NodeIdOf[m] \in Slots => EntryOK(m, NodeIdOf[m]))
<1> SUFFICES Good' OBVIOUS
<1>0. now' = now /\ Clock(m) \in Nat \ {0} /\ Offset[m] \in Nat /\ now \in Nat
      /\ Interval \in Nat /\ NodeIdOf[m] \in Nat /\ NoId \notin Nat
  BY ClockType, TimeAssumption, IdAssumption DEF Member, TypeOK
<1>00. /\ pending[m] \in Nat /\ stamp[m] \in Nat /\ downAt[m] \in Nat
       /\ NodeIdOf[m] \in Slots => /\ beat[NodeIdOf[m]] \in Nat
                                  /\ registered[NodeIdOf[m]] \in Nat
  BY DEF TypeOK, HistoryTypeOK
<1> USE <1>0, <1>00 DEF MemberOK, EntryOK, Latest, SetStatus, entryVars, MayWrite, Clock
<1>1. CASE LoadLocalConfig(m)
  BY <1>1, IdAssumption DEF LoadLocalConfig, TypeOK, Slots
<1>2. CASE BeginRegister(m)
  BY <1>2 DEF BeginRegister, TypeOK, HistoryTypeOK, Fields
<1>3. ASSUME NEW f \in Fields, RegisterField(m, f) PROVE Good'
  <2>0. /\ config[m] = NodeIdOf[m] /\ NodeIdOf[m] \in Slots
        /\ status[m] \in {"joining", "in"}
        /\ stamp[m] \in 1 .. Clock(m) /\ Clock(m) - stamp[m] <= Interval
        /\ unwritten'[m] = unwritten[m] \ {f} /\ unwritten[m] \in SUBSET Fields
        /\ config'[m] = config[m] /\ pending'[m] = pending[m]
    BY <1>3 DEF RegisterField, TypeOK, Slots
  <2>1. \/ unwritten'[m] = {} /\ status'[m] = "in"
        \/ unwritten'[m] # {} /\ status'[m] = status[m] /\ stamp'[m] = stamp[m]
    BY <1>3, <2>0 DEF RegisterField, HistoryTypeOK
  <2>2. CASE f = "active"
    <3>1. active'[NodeIdOf[m]] = TRUE /\ UNCHANGED <<beat, registered>>
      BY <1>3, <2>0, <2>2 DEF RegisterField, TypeOK
    <3>2. unwritten'[m] = {} => "beat" \notin unwritten[m]
      BY <2>0, <2>2
    <3>3. beat[NodeIdOf[m]] \in Nat
      BY <2>0 DEF TypeOK
    <3>4. MemberOK(m)'
      BY <2>0, <2>1
    <3> QED BY <2>0, <2>1, <2>2, <3>1, <3>2, <3>3, <3>4
  <2>3. CASE f = "beat"
    <3>1. /\ beat'[NodeIdOf[m]] = stamp[m] /\ registered'[NodeIdOf[m]] = stamp[m]
          /\ active' = active
      BY <1>3, <2>0, <2>3 DEF RegisterField, TypeOK
    <3>2. unwritten'[m] = {} => "active" \notin unwritten[m]
      BY <2>0, <2>3
    <3>3. MemberOK(m)'
      BY <2>0, <2>1
    <3> QED BY <2>0, <2>1, <2>3, <3>1, <3>2, <3>3
  <2> QED BY <2>2, <2>3 DEF Fields
<1>4. CASE Unregister(m)
  <2>1. config[m] = NodeIdOf[m] /\ NodeIdOf[m] \in Slots
    BY <1>4 DEF Unregister, Slots
  <2>2. /\ active'[NodeIdOf[m]] = FALSE /\ status'[m] = "out"
        /\ UNCHANGED <<beat, registered, config, unwritten, pending, stamp>>
        /\ unwritten[m] = {}
    BY <1>4, <2>1 DEF Unregister, TypeOK, HistoryTypeOK
  <2> QED BY <2>1, <2>2
<1>5. CASE HeartbeatReads(m)
  <2>1. config[m] = NodeIdOf[m] /\ NodeIdOf[m] \in Slots
    BY <1>5 DEF HeartbeatReads, Slots
  <2>2. /\ pending'[m] = Clock(m) /\ status[m] = "in"
        /\ UNCHANGED <<beat, registered, active, config, unwritten, stamp, status, downAt>>
    BY <1>5 DEF HeartbeatReads, TypeOK
  <2>3. beat[NodeIdOf[m]] \in Nat
    BY <2>1 DEF TypeOK
  <2> QED BY <2>1, <2>2, <2>3
<1>6. CASE HeartbeatStores(m)
  <2>1. /\ NodeIdOf[m] \in Slots /\ pending[m] # 0 /\ pending'[m] = 0
        /\ beat'[NodeIdOf[m]] = pending[m]
        /\ UNCHANGED <<registered, active, config, unwritten, stamp, status, downAt>>
    BY <1>6 DEF HeartbeatStores, TypeOK
  <2>2. MemberOK(m)'
    BY <2>1
  <2> QED BY <2>1, <2>2
<1>7. CASE Crash(m)
  BY <1>7 DEF Crash, TypeOK, HistoryTypeOK
<1>8. CASE Restart(m)
  BY <1>8 DEF Restart, TypeOK
<1> QED BY <1>1, <1>2, <1>3, <1>4, <1>5, <1>6, <1>7, <1>8 DEF Member

\* An entry is written by its own member only, so the others' stay right too.
LEMMA EntriesAfterMember ==
    ASSUME IInv, TypeOK', NEW m \in Members, Member(m)
    PROVE  EntryInv' /\ \A k \in Members : MemberOK(k)'
<1>0. /\ TypeOK /\ HistoryTypeOK /\ EntryInv
      /\ \A k \in Members : MemberOK(k) /\ NodeIdOf[k] \in Nat
  BY IdAssumption DEF IInv
<1>1. MemberOK(m)' /\ (NodeIdOf[m] \in Slots => EntryOK(m, NodeIdOf[m])')
  BY <1>0, MemberKeepsOwn DEF EntryInv
<1>2. ASSUME NEW k \in Members \ {m}
      PROVE  MemberOK(k)' /\ (NodeIdOf[k] \in Slots => EntryOK(k, NodeIdOf[k])')
  <2>1. NodeIdOf[k] # NodeIdOf[m]
    BY <1>2, IdAssumption
  <2>2. MemberOK(k)'
    BY <1>0, MemberFrame DEF MemberOK, Clock
  <2>3. NodeIdOf[k] \in Slots => EntryOK(k, NodeIdOf[k])'
    BY <1>0, <2>1, MemberFrame DEF EntryInv, EntryOK, Latest, Clock
  <2> QED BY <2>2, <2>3
<1>3. ASSUME NEW i \in Slots, active'[i] PROVE \E k \in Members : NodeIdOf[k] = i
  BY <1>0, <1>3, MemberFrame DEF EntryInv
<1> QED BY <1>1, <1>2, <1>3 DEF EntryInv

\* Time passes only while every member in service or in register stays within the
\* heartbeat interval.
LEMMA EntriesAfterTick ==
    ASSUME IInv, Tick
    PROVE  EntryInv' /\ \A k \in Members : MemberOK(k)'
<1>1. /\ now' = now + 1 /\ now \in Nat /\ Interval \in Nat
      /\ UNCHANGED <<active, beat, registered, config, unwritten, stamp, pending, status, downAt>>
  BY TimeAssumption DEF IInv, TypeOK, Tick, entryVars, memberVars
<1>2. ASSUME NEW k \in Members
      PROVE  MemberOK(k)' /\ (NodeIdOf[k] \in Slots => EntryOK(k, NodeIdOf[k])')
  <2>1. /\ Offset[k] \in Nat /\ stamp[k] \in Nat /\ pending[k] \in Nat /\ downAt[k] \in Nat
        /\ NodeIdOf[k] \in Slots => /\ beat[NodeIdOf[k]] \in Nat
                                   /\ registered[NodeIdOf[k]] \in Nat
    BY TimeAssumption DEF IInv, TypeOK, HistoryTypeOK
  <2>2. /\ status[k] = "in" => now + Offset[k] + 1 - Latest(NodeIdOf[k]) <= Interval
        /\ unwritten[k] # {} => now + Offset[k] + 1 - stamp[k] <= Interval
    BY DEF Tick, Clock
  <2>3. MemberOK(k)'
    BY <1>1, <2>1, <2>2 DEF IInv, MemberOK, Clock
  <2>4. NodeIdOf[k] \in Slots => EntryOK(k, NodeIdOf[k])'
    BY <1>1, <2>1, <2>2 DEF IInv, EntryInv, EntryOK, Latest, Clock
  <2> QED BY <2>3, <2>4
<1> QED BY <1>1, <1>2 DEF IInv, EntryInv

\* A reader writes no entry.
LEMMA EntriesAfterReader ==
    ASSUME IInv, NEW r \in Readers, Reader(r)
    PROVE  EntryInv' /\ \A k \in Members : MemberOK(k)'
<1>1. UNCHANGED <<now, active, beat, registered, config, unwritten, stamp, pending, status, downAt>>
  BY DEF Reader, entryVars, memberVars
<1> QED BY <1>1 DEF IInv, EntryInv, EntryOK, Latest, MemberOK, Clock

-----------------------------------------------------------------------------
(* Checks *)

\* A step of a member leaves every copy alone; a change of its status is noted.
LEMMA CopiesAfterMember ==
    ASSUME IInv, TypeOK', NEW m \in Members, Member(m)
    PROVE  CopyInv'
<1>0. TypeOK /\ HistoryTypeOK /\ MemberOK(m)
  BY DEF IInv
<1>1. UNCHANGED <<now, pc, target, uncopied, copy, readAt, outdated>>
  BY DEF Member, readerVars
<1>2. ASSUME NEW r \in Readers, NEW k \in Members, NodeIdOf[k] = target[r], CopyOK(r, k)
      PROVE  CopyOK(r, k)'
  <2>0. /\ copy[r].beat \in Nat /\ now \in Nat /\ Offset[k] \in Nat
        /\ downAt[k] \in 0 .. now /\ readAt[r] \in Nat
        /\ steady[r] \in {"out", "joining", "in", "dead", "mixed"}
    BY <1>0, TimeAssumption DEF TypeOK, HistoryTypeOK
  <2>1. /\ steady'[r] = steady[r] \/ steady'[r] = "mixed"
        /\ k = m /\ status'[m] # status[m] => steady'[r] = "mixed"
    BY <1>2 DEF Member
  <2>2. CASE k = m
    BY <1>0, <1>1, <1>2, <2>0, <2>1, <2>2, MemberFrame DEF CopyOK, Clock
  <2>3. CASE k # m
    BY <1>0, <1>1, <1>2, <2>0, <2>1, <2>3, MemberFrame DEF CopyOK, Clock
  <2> QED BY <2>2, <2>3
<1>3. \A r \in Readers : steady'[r] = steady[r] \/ steady'[r] = "mixed"
  BY DEF Member
<1> QED BY <1>1, <1>2, <1>3 DEF IInv, CopyInv, CheckOK

\* Waiting between two steps of a check only makes its copy older.
LEMMA CopiesAfterTick ==
    ASSUME IInv, Tick
    PROVE  CopyInv'
<1>1. now' = now + 1 /\ UNCHANGED <<pc, target, uncopied, copy, readAt, outdated, steady,
                                status, downAt>>
  BY DEF Tick, readerVars, memberVars
<1>2. ASSUME NEW r \in Readers, NEW k \in Members, CopyOK(r, k)
      PROVE  CopyOK(r, k)'
  <2>0. copy[r].beat \in Nat /\ now \in Nat /\ Offset[k] \in Nat
    BY TimeAssumption DEF IInv, TypeOK
  <2> QED BY <1>1, <1>2, <2>0 DEF CopyOK, Clock
<1> QED BY <1>1, <1>2 DEF IInv, CopyInv, CheckOK

\* A member's status is what StatusOf says of its entry.
LEMMA StatusOfMember == \A m \in Members : StatusOf(NodeIdOf[m]) = status[m]
<1> TAKE m \in Members
<1>1. (CHOOSE k \in Members : NodeIdOf[k] = NodeIdOf[m]) = m
  BY IdAssumption
<1> QED BY <1>1 DEF StatusOf

\* A field that a check copies is true of the entry at that moment, whichever
\* field it copies first.
LEMMA CopiesAfterField ==
    ASSUME IInv, NEW r \in Readers, NEW f \in Fields, CopyField(r, f),
           UNCHANGED <<now, entryVars, memberVars>>
    PROVE  CopyInv'
<1>0. TypeOK /\ HistoryTypeOK /\ EntryInv /\ CopyInv
  BY DEF IInv
<1>1. /\ UNCHANGED <<now, active, beat, registered, status, downAt, target, steady>>
      /\ uncopied' = [uncopied EXCEPT ![r] = @ \ {f}]
      /\ pc' = [pc EXCEPT ![r] = IF uncopied[r] = {f} THEN "clock" ELSE "check"]
      /\ pc[r] = "check" /\ target[r] \in Slots
      /\ \A q \in Readers \ {r} : /\ copy'[q] = copy[q] /\ readAt'[q] = readAt[q]
                                  /\ outdated'[q] = outdated[q]
  BY <1>0 DEF CopyField, entryVars, memberVars, CopyInv, CheckOK, TypeOK, HistoryTypeOK
<1>2. /\ f = "active" => /\ copy'[r].active = active[target[r]]
                        /\ copy'[r].beat = copy[r].beat /\ readAt'[r] = readAt[r]
                        /\ outdated'[r] = outdated[r]
      /\ f = "beat" => /\ copy'[r].beat = beat[target[r]]
                      /\ copy'[r].active = copy[r].active /\ readAt'[r] = now
                      /\ outdated'[r] = (beat[target[r]] < registered[target[r]])
  BY <1>0 DEF CopyField, TypeOK, HistoryTypeOK
<1>3. ASSUME NEW q \in Readers \ {r}
      PROVE  /\ pc'[q] # "check" => uncopied'[q] = {}
             /\ pc'[q] \in {"check", "clock"} =>
                 /\ \A m \in Members : NodeIdOf[m] = target'[q] => CopyOK(q, m)'
                 /\ steady'[q] = "in" => \E m \in Members : NodeIdOf[m] = target'[q]
                 /\ "active" \notin uncopied'[q] =>
                     /\ steady'[q] = "out" => ~copy'[q].active
                     /\ steady'[q] = "in" => copy'[q].active
  BY <1>0, <1>1 DEF CopyInv, CheckOK, CopyOK, Clock, TypeOK
<1>4. pc'[r] # "check" => uncopied'[r] = {}
  BY <1>0, <1>1 DEF TypeOK
<1>5. ASSUME NEW m \in Members, NodeIdOf[m] = target[r] PROVE CopyOK(r, m)'
  <2>1. CopyOK(r, m) /\ EntryOK(m, target[r])
    BY <1>0, <1>1, <1>5 DEF CopyInv, CheckOK, EntryInv
  <2>2. /\ "beat" \notin uncopied'[r] => f = "beat" \/ "beat" \notin uncopied[r]
        /\ steady[r] = "in" => status[m] = "in"
    BY <1>0, <1>1, <2>1 DEF TypeOK, CopyOK
  <2>3. now \in Nat /\ Offset[m] \in Nat /\ beat[target[r]] \in Nat
        /\ registered[target[r]] \in Nat
    BY <1>0, <1>1, TimeAssumption DEF TypeOK
  <2>4. CASE f = "beat"
    <3>1. /\ copy'[r].beat = beat[target[r]] /\ readAt'[r] = now
          /\ outdated'[r] = (beat[target[r]] < registered[target[r]])
          /\ UNCHANGED <<now, status, downAt, steady>>
      BY <1>1, <1>2, <2>4
    <3>2. status[m] = "in" => /\ beat[target[r]] # 0
                              /\ \/ beat[target[r]] < registered[target[r]]
                                 \/ now + Offset[m] - beat[target[r]] <= Interval
      BY <2>1, <2>3 DEF EntryOK, Latest, Clock
    <3>3. /\ beat[target[r]] <= now + Offset[m]
          /\ status[m] = "dead" => beat[target[r]] <= downAt[m] + Offset[m]
          /\ steady[r] \in {status[m], "mixed"}
      BY <2>1 DEF EntryOK, CopyOK, Clock
    <3> QED BY <2>2, <3>1, <3>2, <3>3 DEF CopyOK, Clock
  <2>5. CASE f = "active"
    BY <1>1, <1>2, <2>1, <2>2, <2>5 DEF CopyOK, Clock
  <2> QED BY <2>4, <2>5 DEF Fields
<1>6. ASSUME "active" \notin uncopied'[r]
      PROVE  /\ steady'[r] = "out" => ~copy'[r].active
             /\ steady'[r] = "in" => copy'[r].active
  <2>1. CASE f = "beat"
    BY <1>0, <1>1, <1>2, <1>6, <2>1 DEF CopyInv, CheckOK, TypeOK
  <2>2. CASE f = "active"
    <3>1. CASE \E m \in Members : NodeIdOf[m] = target[r]
      <4>1. PICK m \in Members : NodeIdOf[m] = target[r]
        BY <3>1
      <4>2. EntryOK(m, target[r]) /\ steady[r] \in {status[m], "mixed"}
        BY <1>0, <1>1, <4>1 DEF EntryInv, CopyInv, CheckOK, CopyOK
      <4> QED BY <1>1, <1>2, <2>2, <4>2 DEF EntryOK
    <3>2. CASE ~\E m \in Members : NodeIdOf[m] = target[r]
      <4>1. ~active[target[r]] /\ steady[r] # "in"
        BY <1>0, <1>1, <3>2 DEF EntryInv, CopyInv, CheckOK
      <4> QED BY <1>1, <1>2, <2>2, <4>1
    <3> QED BY <3>1, <3>2
  <2> QED BY <2>1, <2>2 DEF Fields
<1>7. steady'[r] = "in" => \E m \in Members : NodeIdOf[m] = target'[r]
  BY <1>0, <1>1 DEF CopyInv, CheckOK
<1> QED BY <1>1, <1>3, <1>4, <1>5, <1>6, <1>7 DEF CopyInv, CheckOK

\* The other steps of a reader begin a check with nothing copied yet, or leave the
\* copies alone.
LEMMA CopiesAfterReader ==
    ASSUME IInv, NEW r \in Readers, Reader(r)
    PROVE  CopyInv'
<1>0. TypeOK /\ HistoryTypeOK /\ CopyInv /\ UNCHANGED <<now, entryVars, memberVars>>
  BY DEF IInv, Reader
<1>1. UNCHANGED <<now, status, downAt>>
  BY <1>0 DEF memberVars
<1> USE DEF TypeOK, HistoryTypeOK
<1>2. \A q \in Readers : CheckOK(q)
  BY <1>0 DEF CopyInv
<1>3. ASSUME NEW q \in Readers, uncopied'[q] = uncopied[q],
             \/ /\ pc'[q] = pc[q] /\ target'[q] = target[q] /\ copy'[q] = copy[q]
                /\ readAt'[q] = readAt[q] /\ outdated'[q] = outdated[q]
                /\ steady'[q] = steady[q]
             \/ pc[q] # "check" /\ pc'[q] \notin {"check", "clock"}
      PROVE  CheckOK(q)'
  <2>1. CASE pc[q] # "check" /\ pc'[q] \notin {"check", "clock"}
    BY <1>2, <1>3, <2>1 DEF CheckOK
  <2>2. CASE /\ pc'[q] = pc[q] /\ target'[q] = target[q] /\ copy'[q] = copy[q]
             /\ readAt'[q] = readAt[q] /\ outdated'[q] = outdated[q]
             /\ steady'[q] = steady[q]
    <3>1. \A m \in Members : CopyOK(q, m) => CopyOK(q, m)'
      BY <1>1, <1>3, <2>2 DEF CopyOK, Clock
    <3> QED BY <1>2, <1>3, <2>2, <3>1 DEF CheckOK
  <2> QED BY <1>3, <2>1, <2>2
<1>4. ASSUME NEW i \in Slots, BeginCheck(r, i) PROVE CopyInv'
  <2>1. /\ copy' = copy /\ readAt' = readAt /\ outdated' = outdated
        /\ pc'[r] = "check" /\ target'[r] = i /\ uncopied'[r] = Fields
        /\ steady'[r] = StatusOf(i)
        /\ \A q \in Readers \ {r} : /\ pc'[q] = pc[q] /\ target'[q] = target[q]
                                     /\ uncopied'[q] = uncopied[q] /\ steady'[q] = steady[q]
    BY <1>0, <1>4 DEF BeginCheck
  <2>2. \A m \in Members : NodeIdOf[m] = i => CopyOK(r, m)'
    BY <1>1, <2>1, StatusOfMember DEF CopyOK, Fields
  <2>3. StatusOf(i) = "in" => \E m \in Members : NodeIdOf[m] = i
    BY DEF StatusOf
  <2>4. CheckOK(r)'
    BY <2>1, <2>2, <2>3 DEF CheckOK, Fields
  <2>5. \A q \in Readers \ {r} : CheckOK(q)'
    BY <1>3, <2>1
  <2> QED BY <2>4, <2>5 DEF CopyInv
<1>5. ASSUME NEW f \in Fields, CopyField(r, f) PROVE CopyInv'
  BY <1>0, <1>5, CopiesAfterField
<1>6. CASE CheckClock(r)
  <2>1. \A q \in Readers : /\ uncopied'[q] = uncopied[q]
                            /\ \/ /\ pc'[q] = pc[q] /\ target'[q] = target[q]
                                  /\ copy'[q] = copy[q] /\ readAt'[q] = readAt[q]
                                  /\ outdated'[q] = outdated[q] /\ steady'[q] = steady[q]
                               \/ pc[q] # "check" /\ pc'[q] \notin {"check", "clock"}
    BY <1>0, <1>6 DEF CheckClock
  <2> QED BY <1>3, <2>1 DEF CopyInv
<1>7. CASE ScanEntry(r) \/ \E max_nodes \in ScanArgs : BeginScan(r, max_nodes)
  <2>1. \A q \in Readers : /\ uncopied'[q] = uncopied[q]
                            /\ \/ /\ pc'[q] = pc[q] /\ target'[q] = target[q]
                                  /\ copy'[q] = copy[q] /\ readAt'[q] = readAt[q]
                                  /\ outdated'[q] = outdated[q] /\ steady'[q] = steady[q]
                               \/ pc[q] # "check" /\ pc'[q] \notin {"check", "clock"}
    BY <1>0, <1>7 DEF ScanEntry, BeginScan
  <2> QED BY <1>3, <2>1 DEF CopyInv
<1>8. CASE Answered(r)
  <2>1. \A q \in Readers : /\ uncopied'[q] = uncopied[q]
                            /\ \/ /\ pc'[q] = pc[q] /\ target'[q] = target[q]
                                  /\ copy'[q] = copy[q] /\ readAt'[q] = readAt[q]
                                  /\ outdated'[q] = outdated[q] /\ steady'[q] = steady[q]
                               \/ pc[q] # "check" /\ pc'[q] \notin {"check", "clock"}
    BY <1>0, <1>8 DEF Answered
  <2> QED BY <1>3, <2>1 DEF CopyInv
<1> QED BY <1>4, <1>5, <1>6, <1>7, <1>8 DEF Reader

-----------------------------------------------------------------------------
(* Scans *)

\* Entries that change under a scan leave what it promises of the others.
LEMMA ScansUnderway ==
    ASSUME IInv, Next, UNCHANGED <<pc, target, limit, found>>
    PROVE  ScanInv' /\ ScanBetween'
<1>1. ASSUME NEW r \in Readers, pc[r] = "scan"
      PROVE  /\ always'[r] \subseteq ActiveSlots' /\ ActiveSlots' \subseteq ever'[r]
             /\ ever[r] \subseteq ever'[r] /\ always'[r] \subseteq always[r]
  BY <1>1, WatchStep
<1>2. ScanInv'
  BY <1>1 DEF IInv, ScanInv
<1>3. ASSUME NEW r \in Readers, pc[r] = "counted"
      PROVE  ever'[r] = ever[r] /\ always'[r] = always[r]
  BY <1>3, WatchStep
<1>4. ScanBetween'
  BY <1>3 DEF IInv, ScanBetween
<1> QED BY <1>2, <1>4

\* A scan starts with nothing found, looks at one entry at a time and ends when
\* it has passed its limit.
LEMMA ScansAfterReader ==
    ASSUME IInv, TypeOK', Next, NEW r \in Readers, Reader(r)
    PROVE  ScanInv' /\ ScanBetween'
<1>0. TypeOK /\ HistoryTypeOK /\ CopyInv /\ ScanInv /\ ScanBetween
      /\ UNCHANGED <<now, entryVars, memberVars>>
  BY DEF IInv, Reader
<1>1. ActiveSlots' = ActiveSlots /\ ActiveSlots \subseteq Slots /\ active' = active
  BY <1>0 DEF ActiveSlots, entryVars
<1> DEFINE Good(q) ==
      /\ pc[q] = "idle" => target[q] = 0 /\ found[q] = {}
      /\ pc[q] = "scan" =>
          /\ always[q] \subseteq ActiveSlots /\ ActiveSlots \subseteq ever[q]
          /\ found[q] \subseteq ever[q]
          /\ \A i \in always[q] : i < target[q] => i \in found[q]
      /\ pc[q] = "counted" =>
          /\ \A i \in always[q] : i < limit[q] => i \in found[q]
          /\ found[q] \subseteq ever[q]
<1>2. \A q \in Readers : Good(q)
  BY <1>0 DEF ScanInv, ScanBetween
<1>3. ASSUME NEW q \in Readers, pc'[q] = pc[q], target'[q] = target[q],
             limit'[q] = limit[q], found'[q] = found[q]
      PROVE  Good(q)'
  BY <1>1, <1>2, <1>3, WatchStep
<1>4. ASSUME NEW q \in Readers \ {r}
      PROVE  /\ pc'[q] = pc[q] /\ target'[q] = target[q]
             /\ limit'[q] = limit[q] /\ found'[q] = found[q]
  BY <1>0 DEF Reader, BeginCheck, CopyField, CheckClock, BeginScan, ScanEntry, Answered, TypeOK
<1>5. Good(r)'
  <2> USE DEF TypeOK
  <2>1. ASSUME NEW i \in Slots, BeginCheck(r, i) PROVE Good(r)'
    BY <1>0, <2>1 DEF BeginCheck
  <2>2. ASSUME NEW f \in Fields, CopyField(r, f) PROVE Good(r)'
    BY <1>0, <2>2 DEF CopyField, CopyInv, CheckOK
  <2>3. CASE CheckClock(r)
    BY <1>0, <2>3 DEF CheckClock
  <2>4. ASSUME NEW max_nodes \in ScanArgs, BeginScan(r, max_nodes) PROVE Good(r)'
    <3>1. pc[r] = "idle" /\ pc'[r] = "scan" /\ target'[r] = target[r] /\ found'[r] = found[r]
      BY <1>0, <2>4 DEF BeginScan
    <3>2. ever'[r] = ActiveSlots' /\ always'[r] = ActiveSlots' \cap Slots
      BY <3>1, WatchStep
    <3>3. \A i \in Slots : ~(i < 0)
      BY DEF Slots
    <3> QED BY <1>2, <3>1, <3>2, <3>3
  <2>5. CASE ScanEntry(r)
    <3>1. /\ pc[r] = "scan" /\ limit'[r] = limit[r]
          /\ found'[r] = found[r] \/ (active[target[r]] /\ found'[r] = found[r] \cup {target[r]})
          /\ target[r] < limit[r] /\ active[target[r]] => target[r] \in found'[r]
      BY <1>0, <2>5 DEF ScanEntry
    <3>2. \/ target[r] + 1 < limit[r] /\ target'[r] = target[r] + 1 /\ pc'[r] = "scan"
          \/ target[r] + 1 >= limit[r] /\ pc'[r] = "counted"
      BY <1>0, <2>5 DEF ScanEntry
    <3>3. ever'[r] = ActiveSlots' \cup ever[r] /\ always'[r] = ActiveSlots' \cap always[r]
      BY <3>1, WatchStep
    <3>4. found'[r] \subseteq ever'[r]
      BY <1>0, <1>1, <1>2, <3>1, <3>3 DEF ActiveSlots
    <3>5. ASSUME NEW i \in always'[r], i < limit[r], i <= target[r] PROVE i \in found'[r]
      <4>1. i \in Slots /\ active[i] /\ i \in always[r]
        BY <1>1, <3>3, <3>5 DEF ActiveSlots
      <4>2. target[r] \in Slots /\ limit[r] \in Nat
        BY <1>0
      <4>3. CASE i < target[r]
        BY <1>2, <3>1, <4>1, <4>3
      <4>4. CASE i = target[r]
        BY <3>1, <3>5, <4>1, <4>4
      <4> QED BY <3>5, <4>1, <4>2, <4>3, <4>4 DEF Slots
    <3>6. always'[r] \subseteq Slots /\ target[r] \in Slots /\ limit[r] \in Nat
      BY <1>0, <1>1, <3>3
    <3>7. \A i \in Slots : i \in Int
      BY DEF Slots
    <3>8. CASE target[r] + 1 < limit[r] /\ target'[r] = target[r] + 1 /\ pc'[r] = "scan"
      <4>1. ASSUME NEW i \in always'[r], i < target'[r] PROVE i \in found'[r]
        <5>1. i \in Int /\ target[r] \in Int
          BY <3>6, <3>7
        <5>2. i <= target[r] /\ i < limit[r]
          BY <3>6, <3>8, <4>1, <5>1
        <5> QED BY <3>5, <5>2
      <4> QED BY <1>1, <1>2, <3>1, <3>3, <3>4, <3>8, <4>1
    <3>9. CASE target[r] + 1 >= limit[r] /\ pc'[r] = "counted"
      <4>1. \A i \in always'[r] : i < limit'[r] => i \in found'[r]
        BY <3>1, <3>5, <3>6, <3>7, <3>9
      <4> QED BY <3>4, <3>9, <4>1
    <3> QED BY <3>2, <3>8, <3>9
  <2>6. CASE Answered(r)
    BY <1>0, <2>6 DEF Answered
  <2> QED BY <2>1, <2>2, <2>3, <2>4, <2>5, <2>6 DEF Reader
<1>6. \A q \in Readers : Good(q)'
  BY <1>3, <1>4, <1>5
<1> QED BY <1>6 DEF ScanInv, ScanBetween

-----------------------------------------------------------------------------
(* The theorems *)

LEMMA InvInit == Init => IInv
<1> SUFFICES ASSUME Init PROVE IInv
    OBVIOUS
<1>1. TypeOK /\ HistoryTypeOK
  BY TypeInit
<1>2. \A m \in Members : MemberOK(m)
  BY DEF Init, MemberOK
<1>3. EntryInv
  BY TimeAssumption DEF Init, EntryInv, EntryOK, Latest, Clock
<1>4. CopyInv /\ ScanInv /\ ScanBetween
  BY DEF Init, CopyInv, CheckOK, ScanInv, ScanBetween
<1> QED BY <1>1, <1>2, <1>3, <1>4 DEF IInv

LEMMA InvStep == IInv /\ [Next]_vars => IInv'
<1> SUFFICES ASSUME IInv, [Next]_vars PROVE IInv'
    OBVIOUS
<1>0. TypeOK' /\ HistoryTypeOK'
  BY TypeStep DEF IInv
<1>1. CASE UNCHANGED vars
  <2>1. (\A m \in Members : MemberOK(m)') /\ EntryInv'
    BY <1>1 DEF IInv, vars, memberVars, entryVars, MemberOK, EntryInv, EntryOK, Latest,
                Clock
  <2>2. CopyInv' /\ ScanInv' /\ ScanBetween'
    BY <1>1 DEF IInv, vars, memberVars, entryVars, readerVars, CopyInv, CheckOK, CopyOK,
                ScanInv, ScanBetween, ActiveSlots, Clock
  <2> QED BY <1>0, <2>1, <2>2 DEF IInv
<1>2. CASE Next
  <2>1. CASE Tick
    <3>1. UNCHANGED <<pc, target, limit, found>>
      BY <2>1 DEF Tick, readerVars
    <3> QED BY <1>0, <1>2, <2>1, <3>1, EntriesAfterTick, CopiesAfterTick, ScansUnderway DEF IInv
  <2>2. ASSUME NEW m \in Members, Member(m) PROVE IInv'
    <3>1. UNCHANGED <<pc, target, limit, found>>
      BY <2>2 DEF Member, readerVars
    <3> QED BY <1>0, <1>2, <2>2, <3>1, EntriesAfterMember, CopiesAfterMember, ScansUnderway DEF IInv
  <2>3. ASSUME NEW r \in Readers, Reader(r) PROVE IInv'
    BY <1>0, <1>2, <2>3, EntriesAfterReader, CopiesAfterReader, ScansAfterReader DEF IInv
  <2> QED BY <1>2, <2>1, <2>2, <2>3 DEF Next
<1> QED BY <1>1, <1>2

\* The invariant that relates what members are about to store, what the entries
\* say, what checks have copied and what scans have counted always holds.
THEOREM InvCorrect == Spec => []IInv
  BY InvInit, InvStep, PTL DEF Spec

\* A scan reports every node that was active throughout it and none that never
\* was, although it locks nothing.
THEOREM ScanIsBetween == Spec => []ScanBetween
<1>1. IInv => ScanBetween
  BY DEF IInv
<1> QED BY <1>1, InvCorrect, PTL

\* Only is_node_alive's own last step produces an answer, from the copy it made.
LEMMA DecidesByCopy ==
    ASSUME IInv, [Next]_vars, NEW r \in Readers, NEW answer \in {"alive", "dead"},
           Decides(r, answer)
    PROVE  /\ answer = "alive" <=> Alive(r)
           /\ CheckOK(r) /\ pc[r] = "clock" /\ uncopied[r] = {}
<1>1. pc[r] = "clock" /\ pc'[r] = answer /\ CheckOK(r) /\ uncopied[r] = {}
  BY DEF Decides, IInv, CopyInv, CheckOK
<1>2. ~UNCHANGED pc
  BY <1>1
<1>3. PICK q \in Readers : Reader(q)
  BY <1>2 DEF Next, Tick, Member, vars, readerVars
<1>4. pc \in [Readers -> {"idle", "check", "clock", "alive", "dead", "scan", "counted"}]
  BY DEF IInv, TypeOK
<1>5. CASE CheckClock(q)
  BY <1>1, <1>4, <1>5 DEF CheckClock
<1>6. CASE ~CheckClock(q)
  BY <1>1, <1>3, <1>4, <1>6
  DEF Reader, BeginCheck, CopyField, BeginScan, ScanEntry, Answered
<1> QED BY <1>1, <1>5, <1>6

\* A node that was out of the registry throughout a check is never declared
\* alive: unregister clears is_active, and a heartbeat stored late, after it, does
\* not bring the entry back.
THEOREM LeftStaysOut == Spec => LeftIsNotAlive
<1>1. IInv /\ [Next]_vars =>
        [\A r \in Readers : Decides(r, "alive") => steady[r] # "out"]_vars
  BY DecidesByCopy DEF CheckOK, Alive
<1> QED BY <1>1, InvCorrect, PTL DEF Spec, LeftIsNotAlive

\* A crashed node is found out within the timeout, corrected by the clocks'
\* difference, wherever the crash cut its registration or heartbeat.
THEOREM CrashIsDetected == Spec => DeadDetected
<1>1. ASSUME IInv, [Next]_vars, NEW r \in Readers, NEW m \in Members,
             Decides(r, "alive"), target[r] = NodeIdOf[m], status[m] = "dead"
      PROVE  now - downAt[m] < Timeout + Offset[m] - Offset[r]
  <2>1. Alive(r) /\ CopyOK(r, m) /\ uncopied[r] = {}
    BY <1>1, DecidesByCopy DEF CheckOK
  <2>2. copy[r].beat <= downAt[m] + Offset[m]
    BY <1>1, <2>1 DEF CopyOK
  <2>3. /\ copy[r].beat \in Nat /\ now \in Nat /\ downAt[m] \in Nat
        /\ Offset[r] \in Nat /\ Offset[m] \in Nat /\ Timeout \in Nat
    BY <1>1, TimeAssumption DEF IInv, TypeOK, HistoryTypeOK
  <2> QED BY <2>1, <2>2, <2>3, TimeAssumption DEF Alive, Clock
<1>2. IInv /\ [Next]_vars =>
        [\A r \in Readers, m \in Members :
           Decides(r, "alive") /\ target[r] = NodeIdOf[m] /\ status[m] = "dead" =>
               now - downAt[m] < Timeout + Offset[m] - Offset[r]]_vars
  BY <1>1
<1> QED BY <1>2, InvCorrect, PTL DEF Spec, DeadDetected

\* A node in service that beats often enough is declared dead only by a checker that
\* was delayed beyond the margin its clock leaves (at once if it leaves none), or by
\* one that copied a heartbeat begun before the node's registration and stored after
\* it: no order in which fields are written and copied yields another false death.
THEOREM LiveIsNotDead == Spec => NoFalseDeath
<1>1. ASSUME IInv, [Next]_vars, NEW r \in Readers, NEW m \in Members,
             Decides(r, "dead"), target[r] = NodeIdOf[m], steady[r] = "in", ~outdated[r]
      PROVE  now - readAt[r] >= Timeout - Interval - (Offset[r] - Offset[m])
  <2>1. ~Alive(r) /\ CheckOK(r) /\ pc[r] = "clock" /\ uncopied[r] = {}
    BY <1>1, DecidesByCopy
  <2>2. copy[r].active /\ CopyOK(r, m)
    BY <1>1, <2>1 DEF CheckOK
  <2>3. copy[r].beat # 0 /\ readAt[r] + Offset[m] - copy[r].beat <= Interval
    BY <1>1, <2>1, <2>2 DEF CopyOK
  <2>4. /\ copy[r].beat \in Nat /\ now \in Nat /\ readAt[r] \in Nat
        /\ Offset[r] \in Nat /\ Offset[m] \in Nat /\ Timeout \in Nat /\ Interval \in Nat
    BY <1>1, TimeAssumption DEF IInv, TypeOK, HistoryTypeOK
  <2>5. ~(Clock(r) < copy[r].beat \/ Clock(r) - copy[r].beat < Timeout)
    BY <2>1, <2>2, <2>3 DEF Alive
  <2> QED BY <2>3, <2>4, <2>5 DEF Clock
<1>2. IInv /\ [Next]_vars =>
        [\A r \in Readers, m \in Members :
           Decides(r, "dead") /\ target[r] = NodeIdOf[m] /\ steady[r] = "in" =>
               \/ now - readAt[r] >= Timeout - Interval - (Offset[r] - Offset[m])
               \/ outdated[r]]_vars
  BY <1>1
<1> QED BY <1>2, InvCorrect, PTL DEF Spec, NoFalseDeath
=============================================================================
