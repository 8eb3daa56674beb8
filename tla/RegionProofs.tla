---------------------------- MODULE RegionProofs ----------------------------
(* What is shown of the regions: the registry of one collector, as a        *)
(* connected agent and a reader of /api/regions may rely on it, and the     *)
(* aggregator's cache of many, for any nodes, regions, timeouts, upstreams  *)
(* and versions of their data.                                              *)
EXTENDS Presence, Aggregator, TLAPS

(***************************************************************************)
(* The inductive strengthening: the checker's sample is in the past, and   *)
(* the map's LastSeen is the time the node was really last heard.          *)
(***************************************************************************)
IInv ==
    /\ TypeOK
    /\ MarkedMeansSilent
    /\ sample <= now
    /\ \A n \in Nodes : /\ heard[n] <= now
                        /\ Present(n) => /\ nodes[n].lastSeen = heard[n]
                                         /\ heard[n] # Never

(***************************************************************************)
(* IInv holds initially, in an empty registry.                             *)
(***************************************************************************)
LEMMA InitIInv == Init => IInv
  BY RegistryAssumption
  DEF Init, IInv, TypeOK, MarkedMeansSilent, Present, Absent, AgentNode,
      Time, Never, StoredRegions

(***************************************************************************)
(* What markStaleInactive's first test leaves of one entry: either the     *)
(* entry as it was, or the same entry inactive since the sampled time.     *)
(***************************************************************************)
LEMMA MarkStaleResult ==
  ASSUME NEW node \in AgentNode, NEW at \in Time
  PROVE  \/ MarkStale(node, at) = node
         \/ /\ node.status = "active"
            /\ node.lastSeen < at - Timeout
            /\ MarkStale(node, at) =
                 [status |-> "inactive", lastSeen |-> node.lastSeen,
                  inactiveSince |-> at, region |-> node.region]
  BY DEF MarkStale, AgentNode

(***************************************************************************)
(* Every step of the registry, checker and clock preserves IInv.           *)
(***************************************************************************)
LEMMA NextIInv == IInv /\ [Next]_vars => IInv'
<1> SUFFICES ASSUME IInv, [Next]_vars PROVE IInv'
  OBVIOUS
<1> USE RegistryAssumption
    DEF IInv, TypeOK, MarkedMeansSilent, Present, AgentNode, Time, Never
<1>1. ASSUME NEW n \in Nodes, NEW region \in Regions, Register(n, region)
      PROVE  IInv'
  <2>1. normalizeRegion(region) \in StoredRegions
    BY DEF normalizeRegion, StoredRegions
  <2> QED
    BY <1>1, <2>1 DEF Register
<1>2. ASSUME NEW n \in Nodes, Heartbeat(n)
      PROVE  IInv'
  <2>1. CASE Present(n)
    <3>1. /\ nodes'[n] = [status |-> "active", lastSeen |-> now,
                          inactiveSince |-> Never, region |-> nodes[n].region]
          /\ \A m \in Nodes \ {n} : nodes'[m] = nodes[m]
          /\ nodes' = [m \in Nodes |-> nodes'[m]]
          /\ heard' = [heard EXCEPT ![n] = now]
      BY <1>2, <2>1 DEF Heartbeat, Refreshed
    <3>2. nodes'[n] \in AgentNode
      BY <3>1
    <3>3. TypeOK'
      BY <1>2, <3>1, <3>2 DEF Heartbeat
    <3> QED
      BY <1>2, <3>1, <3>3 DEF Heartbeat
  <2>2. CASE ~Present(n)
    BY <1>2, <2>2 DEF Heartbeat
  <2> QED
    BY <2>1, <2>2
<1>3. ASSUME NEW n \in Nodes, SetInactive(n)
      PROVE  IInv'
  BY <1>3 DEF SetInactive
<1>4. CASE CheckerSample
  BY <1>4 DEF CheckerSample
<1>5. CASE CheckerSweep
  <2>1. ASSUME NEW n \in Nodes
        PROVE  /\ nodes'[n] \in AgentNode
               /\ nodes'[n].status # "absent" =>
                      nodes'[n].lastSeen = heard[n] /\ heard[n] # Never
               /\ nodes'[n].inactiveSince # Never =>
                      /\ nodes'[n].status = "inactive"
                      /\ heard[n] + Timeout < nodes'[n].inactiveSince
                      /\ nodes'[n].inactiveSince <= now
    <3> DEFINE marked == MarkStale(nodes[n], sample)
    <3>1. /\ marked \in AgentNode
          /\ marked.status # "absent" =>
                marked.lastSeen = heard[n] /\ heard[n] # Never
          /\ marked.inactiveSince # Never =>
                /\ marked.status = "inactive"
                /\ heard[n] + Timeout < marked.inactiveSince
                /\ marked.inactiveSince <= now
      BY <1>5, MarkStaleResult DEF CheckerSweep
    <3>2. nodes'[n] = EvictExpired(marked, sample)
      BY <1>5 DEF CheckerSweep
    <3>3. Absent \in AgentNode
      BY DEF Absent, StoredRegions
    <3> HIDE DEF marked
    <3> QED
      BY <3>1, <3>2, <3>3 DEF EvictExpired, Absent
  <2>2. nodes' = [n \in Nodes |-> nodes'[n]]
    BY <1>5 DEF CheckerSweep
  <2> QED
    BY <1>5, <2>1, <2>2 DEF CheckerSweep
<1>6. CASE Tick
  BY <1>6 DEF Tick
<1>7. CASE UNCHANGED vars
  BY <1>7 DEF vars
<1> QED
  BY <1>1, <1>2, <1>3, <1>4, <1>5, <1>6, <1>7 DEF Next, ServeNext

(***************************************************************************)
(* The registry's variables keep their types, every stored region is       *)
(* non-empty, and the strengthening above always holds.                    *)
(***************************************************************************)
THEOREM InductiveInvariant == Spec => []IInv
  BY InitIInv, NextIInv, PTL DEF Spec

(***************************************************************************)
(* Type correctness; in particular Register never stores an empty region   *)
(* (normalizeRegion).                                                      *)
(***************************************************************************)
THEOREM TypeCorrect == Spec => []TypeOK
<1>1. IInv => TypeOK
  BY DEF IInv
<1> QED
  BY <1>1, InductiveInvariant, PTL

(***************************************************************************)
(* A node marked by the checker had been silent for longer than the        *)
(* timeout, whatever slipped in between its clock read and its lock.       *)
(***************************************************************************)
THEOREM MarkedMeansSilentHolds == Spec => []MarkedMeansSilent
<1>1. IInv => MarkedMeansSilent
  BY DEF IInv
<1> QED
  BY <1>1, InductiveInvariant, PTL

(***************************************************************************)
(* A step that evicts a node finds it silent for long enough.              *)
(***************************************************************************)
LEMMA EvictionStep == IInv /\ [Next]_vars => [EvictedNodeWasSilent]_vars
<1> SUFFICES ASSUME IInv, [Next]_vars, NEW n \in Nodes,
                    Present(n), nodes'[n].status = "absent"
             PROVE  now - heard[n] > Timeout + EvictAfter
  BY DEF EvictedNodeWasSilent
<1> USE RegistryAssumption
    DEF IInv, TypeOK, MarkedMeansSilent, Present, AgentNode, Time, Never
<1>1. CASE CheckerSweep
  <2> DEFINE marked == MarkStale(nodes[n], sample)
  <2>1. /\ marked \in AgentNode
        /\ marked.status # "absent"
        /\ marked.inactiveSince # Never =>
              heard[n] + Timeout < marked.inactiveSince
    BY <1>1, MarkStaleResult DEF CheckerSweep
  <2>2. nodes'[n] = EvictExpired(marked, sample)
    BY <1>1 DEF CheckerSweep
  <2>3. sample \in Time /\ sample <= now /\ heard[n] \in Int
    BY <1>1 DEF CheckerSweep
  <2> HIDE DEF marked
  <2>4. /\ marked.inactiveSince # Never
        /\ sample - marked.inactiveSince > EvictAfter
        /\ marked.inactiveSince \in Int
    BY <2>1, <2>2 DEF EvictExpired
  <2> QED
    BY <2>1, <2>3, <2>4
<1>2. CASE ~CheckerSweep
  <2>1. ASSUME NEW m \in Nodes, NEW region \in Regions, Register(m, region)
        PROVE  FALSE
    BY <2>1 DEF Register
  <2>2. ASSUME NEW m \in Nodes, Heartbeat(m) PROVE FALSE
    <3>1. nodes'[n] \in {nodes[n], Refreshed(nodes[n])}
      BY <2>2 DEF Heartbeat
    <3> QED
      BY <3>1 DEF Refreshed
  <2>3. ASSUME NEW m \in Nodes, SetInactive(m) PROVE FALSE
    BY <2>3 DEF SetInactive
  <2>4. nodes' = nodes => FALSE
    OBVIOUS
  <2> QED
    BY <1>2, <2>1, <2>2, <2>3, <2>4
    DEF Next, ServeNext, CheckerSample, Tick, vars
<1> QED
  BY <1>1, <1>2

(***************************************************************************)
(* No step evicts a node heard within timeout + evictAfter.                *)
(***************************************************************************)
THEOREM EvictionNeedsSilenceHolds == Spec => EvictionNeedsSilence
  BY EvictionStep, InductiveInvariant, PTL DEF Spec, EvictionNeedsSilence

-----------------------------------------------------------------------------
(* The registry behind the receiver and the REST API. *)

(***************************************************************************)
(* The handlers and the reader drive the registry as Registry allows: each *)
(* of their steps is one of its steps or leaves it alone.                  *)
(***************************************************************************)
LEMMA StepIsRegistryStep == [PNext]_pvars => [Next]_vars
<1>1. ASSUME NEW n \in Nodes, NEW region \in AgentRegions[n], RegisterRPC(n, region)
      PROVE  Next
  <2>1. (IF region = NoRegion THEN CollectorRegion ELSE region) \in Regions
    BY PresenceAssumption
  <2> QED
    BY <1>1, <2>1 DEF RegisterRPC, Next, ServeNext
<1>2. ASSUME NEW n \in Nodes, StreamEvent(n) PROVE Next
  BY <1>2 DEF StreamEvent, Next, ServeNext
<1>3. ASSUME NEW n \in Nodes, OpenStream(n) \/ Disconnect(n) PROVE UNCHANGED vars
  BY <1>3 DEF OpenStream, Disconnect
<1>4. Checker \/ Clock => Next
  BY DEF Checker, Clock, Next, ServeNext
<1>5. Reader => UNCHANGED vars
  BY DEF Reader, RegionsBegin, RegionsLookup, RegionsAnswer
<1>6. UNCHANGED pvars => UNCHANGED vars
  BY DEF pvars
<1> QED
  BY <1>1, <1>2, <1>3, <1>4, <1>5, <1>6 DEF PNext

(***************************************************************************)
(* The composed system implements Registry, so everything proved of it     *)
(* holds of the registry behind the receiver and the REST API.             *)
(***************************************************************************)
THEOREM PresenceImplementsRegistry == PSpec => Spec
<1>1. PInit => Init
  BY DEF PInit
<1> QED
  BY <1>1, StepIsRegistryStep, PTL DEF PSpec, Spec

(***************************************************************************)
(* SteadyStreamVisible, made inductive: a silence is recorded as soon as   *)
(* it is too long, before any sweep can act on it.                         *)
(***************************************************************************)
PInv ==
    /\ stream \in [Nodes -> {"none", "registered", "open"}]
    /\ lapsed \subseteq Nodes
    /\ \A n \in Nodes : stream[n] # "none" =>
          /\ Present(n) \/ n \in lapsed
          /\ now - heard[n] <= Timeout + EvictAfter \/ n \in lapsed

(***************************************************************************)
(* The part of the strengthening that speaks of the streams.               *)
(***************************************************************************)
LEMMA StepKeepsPInv == IInv /\ IInv' /\ PInv /\ [PNext]_pvars => PInv'
<1> SUFFICES ASSUME IInv, IInv', PInv, [PNext]_pvars PROVE PInv'
  OBVIOUS
<1> USE RegistryAssumption DEF PInv
<1>t. /\ now \in Int /\ now' \in Int /\ Timeout + EvictAfter \in Nat
      /\ \A n \in Nodes : heard[n] \in Int /\ heard[n] <= now
      /\ \A n \in Nodes : heard'[n] \in Int /\ heard'[n] <= now'
      /\ nodes \in [Nodes -> AgentNode] /\ heard \in [Nodes -> Time \cup {Never}]
  BY DEF IInv, TypeOK, Time, Never
<1>1. ASSUME NEW n \in Nodes, NEW region \in AgentRegions[n], RegisterRPC(n, region)
      PROVE  PInv'
  BY <1>1, <1>t DEF RegisterRPC, Register, Present
<1>2. ASSUME NEW n \in Nodes, OpenStream(n) PROVE PInv'
  BY <1>2 DEF OpenStream, vars, Present
<1>3. ASSUME NEW n \in Nodes, StreamEvent(n) PROVE PInv'
  <2>1. \A m \in Nodes : Present(m) => Present(m)'
    BY <1>3, <1>t DEF StreamEvent, Heartbeat, Refreshed, Present
  <2>2. \A m \in Nodes : now' - heard'[m] <= now - heard[m] \/ heard'[m] = now'
    BY <1>3, <1>t DEF StreamEvent, Heartbeat
  <2>3. stream' = stream /\ lapsed' = lapsed
    BY <1>3 DEF StreamEvent
  <2> QED
    BY <1>t, <2>1, <2>2, <2>3
<1>4. ASSUME NEW n \in Nodes, Disconnect(n) PROVE PInv'
  BY <1>4 DEF Disconnect, vars, Present
<1>5. CASE Checker
  <2>1. now' = now /\ heard' = heard /\ stream' = stream /\ lapsed' = lapsed
    BY <1>5 DEF Checker, CheckerSample, CheckerSweep
  <2>2. ASSUME NEW n \in Nodes, Present(n), ~Present(n)'
        PROVE  now - heard[n] > Timeout + EvictAfter
    <3>1. [Next]_vars
      BY StepIsRegistryStep
    <3>2. EvictedNodeWasSilent
      BY <2>2, <3>1, EvictionStep DEF vars, Present
    <3> QED
      BY <2>2, <3>2 DEF EvictedNodeWasSilent, Present
  <2>3. ASSUME NEW n \in Nodes, stream'[n] # "none"
        PROVE  Present(n)' \/ n \in lapsed'
    BY <1>t, <2>1, <2>2, <2>3
  <2> QED
    BY <2>1, <2>3
<1>6. CASE Clock
  BY <1>6, <1>t DEF Clock, Tick, Present
<1>7. CASE Reader
  BY <1>7 DEF Reader, RegionsBegin, RegionsLookup, RegionsAnswer, vars, Present
<1>8. CASE UNCHANGED pvars
  BY <1>8 DEF pvars, vars, Present
<1> QED
  BY <1>1, <1>2, <1>3, <1>4, <1>5, <1>6, <1>7, <1>8 DEF PNext

(***************************************************************************)
(* A connected agent is missing only after a silence longer than timeout   *)
(* and eviction delay: no interleaving of the checker, of other agents and *)
(* of reconnects hides one that keeps sending.                             *)
(***************************************************************************)
THEOREM SteadyStreamVisibleHolds == PSpec => []SteadyStreamVisible
<1>1. PInit => PInv
  BY DEF PInit, PInv
<1>2. PSpec => []IInv
  BY PresenceImplementsRegistry, InductiveInvariant, PTL
<1>3. PInv => SteadyStreamVisible
  BY DEF PInv, SteadyStreamVisible
<1> QED
  BY <1>1, <1>2, <1>3, StepKeepsPInv, PTL DEF PSpec

\* Only the checker makes a node inactive, and notes when.
MarkedInv == \A n \in Nodes : nodes[n].status = "inactive" => nodes[n].inactiveSince # Never

\* What a node that is in the registry after a sweep has to show for it.
SweepClears ==
    CheckerSweep => \A n \in Nodes : nodes'[n].status # "absent" =>
        \/ nodes'[n].status = "active" /\ heard[n] + Timeout >= sample
        \/ /\ nodes'[n].status = "inactive"
           /\ sample - nodes'[n].inactiveSince <= EvictAfter

(***************************************************************************)
(* Every step of the running collector keeps MarkedInv.                    *)
(***************************************************************************)
LEMMA StepKeepsMarkedInv == IInv /\ MarkedInv /\ [PNext]_pvars => MarkedInv'
<1> SUFFICES ASSUME IInv, MarkedInv, [PNext]_pvars PROVE MarkedInv'
  OBVIOUS
<1>0. nodes \in [Nodes -> AgentNode]
  BY DEF IInv, TypeOK
<1>1. ASSUME NEW n \in Nodes, NEW region, Register(n, region) PROVE MarkedInv'
  BY <1>0, <1>1 DEF Register, MarkedInv
<1>2. ASSUME NEW n \in Nodes, Heartbeat(n) PROVE MarkedInv'
  <2>1. ASSUME NEW m \in Nodes PROVE nodes'[m] = nodes[m] \/ nodes'[m].status = "active"
    BY <1>0, <1>2 DEF Heartbeat, Refreshed
  <2> QED
    BY <2>1 DEF MarkedInv
<1>3. CASE CheckerSweep
  <2>1. ASSUME NEW n \in Nodes, nodes'[n].status = "inactive" PROVE nodes'[n].inactiveSince # Never
    <3> DEFINE marked == MarkStale(nodes[n], sample)
    <3>1. sample \in Time /\ nodes[n] \in AgentNode
      BY <1>0, <1>3 DEF CheckerSweep, IInv, TypeOK
    <3>2. marked.status = "inactive" => marked.inactiveSince # Never
      <4>1. sample # Never
        BY <1>3 DEF CheckerSweep
      <4> QED
        BY <3>1, <4>1, MarkStaleResult DEF MarkedInv
    <3>3. nodes'[n] = EvictExpired(marked, sample)
      BY <1>3 DEF CheckerSweep
    <3> HIDE DEF marked
    <3> QED
      BY <2>1, <3>2, <3>3 DEF EvictExpired, Absent
  <2> QED
    BY <2>1 DEF MarkedInv
<1>4. nodes' = nodes => MarkedInv'
  BY DEF MarkedInv
<1> QED
  BY <1>1, <1>2, <1>3, <1>4 DEF PNext, RegisterRPC, OpenStream, StreamEvent, Disconnect, Checker,
     CheckerSample, Clock, Tick, Reader, RegionsBegin, RegionsLookup, RegionsAnswer, pvars, vars

(***************************************************************************)
(* A sweep of the heartbeat checker leaves no dead node behind: what is    *)
(* still in the registry was heard within the timeout, or has been         *)
(* inactive for no longer than the eviction delay, at the time the checker *)
(* read the clock, however late it got the lock (#105).                    *)
(***************************************************************************)
THEOREM SweepClearsHolds == PSpec => [][SweepClears]_pvars
<1>1. PInit => MarkedInv
  BY DEF PInit, Init, MarkedInv, Absent
<1>2. PSpec => []IInv
  BY PresenceImplementsRegistry, InductiveInvariant, PTL
<1>3. ASSUME IInv, MarkedInv PROVE SweepClears
  <2> SUFFICES ASSUME CheckerSweep, NEW n \in Nodes, nodes'[n].status # "absent"
               PROVE  \/ nodes'[n].status = "active" /\ heard[n] + Timeout >= sample
                      \/ /\ nodes'[n].status = "inactive"
                         /\ sample - nodes'[n].inactiveSince <= EvictAfter
    BY DEF SweepClears
  <2> DEFINE marked == MarkStale(nodes[n], sample)
  <2>1. /\ sample \in Int /\ sample # Never /\ sample \in Time /\ nodes[n] \in AgentNode
        /\ heard[n] \in Int
    BY <1>3, RegistryAssumption DEF CheckerSweep, IInv, TypeOK, Time, Never
  <2>2. nodes'[n] = EvictExpired(marked, sample)
    BY DEF CheckerSweep
  <2>3. \/ marked = nodes[n] /\ nodes[n].status = "active" /\ heard[n] + Timeout >= sample
        \/ marked = nodes[n] /\ nodes[n].status # "active"
        \/ marked.status = "inactive" /\ marked.inactiveSince = sample
    <3>1. CASE nodes[n].status = "active" /\ nodes[n].lastSeen < sample - Timeout
      <4>1. marked = [nodes[n] EXCEPT !.status = "inactive", !.inactiveSince = sample]
        BY <3>1 DEF MarkStale
      <4> QED
        BY <2>1, <4>1 DEF AgentNode
    <3>2. CASE nodes[n].status = "active" /\ ~(nodes[n].lastSeen < sample - Timeout)
      <4>1. nodes[n].lastSeen = heard[n]
        BY <1>3, <3>2 DEF IInv, Present
      <4>2. heard[n] + Timeout >= sample
        BY <2>1, <3>2, <4>1, RegistryAssumption
      <4> QED
        BY <3>2, <4>2 DEF MarkStale
    <3>3. CASE nodes[n].status # "active"
      BY <3>3 DEF MarkStale
    <3> QED
      BY <3>1, <3>2, <3>3
  <2> HIDE DEF marked
  <2>4. nodes'[n] = marked /\ (marked.status = "inactive" /\ marked.inactiveSince # Never =>
                                  ~(sample - marked.inactiveSince > EvictAfter))
    BY <2>2 DEF EvictExpired, Absent
  <2>5. marked.status \in {"active", "inactive"}
    BY <2>1, <2>3, <2>4 DEF AgentNode
  <2>6. CASE marked.status = "active"
    BY <2>3, <2>4, <2>6
  <2>7. CASE marked.status = "inactive"
    <3>1. marked.inactiveSince # Never /\ marked.inactiveSince \in Int
      BY <1>3, <2>1, <2>3, <2>7 DEF MarkedInv, AgentNode, Time, Never
    <3> QED
      BY <2>1, <2>4, <2>7, <3>1, RegistryAssumption
  <2> QED
    BY <2>5, <2>6, <2>7
<1> QED
  BY <1>1, <1>2, <1>3, StepKeepsMarkedInv, PTL DEF PSpec

(***************************************************************************)
(* SteadyNodesCounted, made inductive: while the request runs, a steady    *)
(* node is still where it was, and has been counted exactly if its region  *)
(* has been looked up.                                                     *)
(***************************************************************************)
RInv ==
    /\ rest \in {"idle", "busy"} /\ todo \subseteq StoredRegions
    /\ summary \in [StoredRegions -> SUBSET Nodes]
    /\ steady \in [Nodes -> StoredRegions \cup {NoRegion}]
    /\ rest = "idle" => todo = {} /\ \A r \in StoredRegions : summary[r] = {}
    /\ \A n \in Nodes : steady[n] # NoRegion =>
          /\ RegionOf(n) = steady[n]
          /\ \A r \in StoredRegions :
                n \in summary[r] <=> r = steady[n] /\ rest = "busy" /\ r \notin todo

(***************************************************************************)
(* A node that moves or leaves is no longer steady, and the reader alone   *)
(* changes the rest.                                                       *)
(***************************************************************************)
LEMMA UnsettleKeepsRInv ==
    ASSUME IInv, IInv', RInv, Unsettle, UNCHANGED <<rest, todo, summary>>
    PROVE  RInv'
<1>1. steady' \in [Nodes -> StoredRegions \cup {NoRegion}]
  BY DEF Unsettle, RInv
<1>2. ASSUME NEW n \in Nodes, steady'[n] # NoRegion
      PROVE  steady[n] = steady'[n] /\ RegionOf(n)' = steady'[n]
  BY <1>2 DEF Unsettle, RInv
<1> QED
  BY <1>1, <1>2 DEF RInv

(***************************************************************************)
(* Every step keeps the reader's strengthening.                            *)
(***************************************************************************)
LEMMA StepKeepsRInv == IInv /\ IInv' /\ RInv /\ [PNext]_pvars => RInv'
<1> SUFFICES ASSUME IInv, IInv', RInv, [PNext]_pvars PROVE RInv'
  OBVIOUS
<1>t. /\ NoRegion \notin StoredRegions
      /\ \A n \in Nodes : Present(n) => nodes[n].region \in StoredRegions
  BY RegistryAssumption DEF IInv, TypeOK, AgentNode, StoredRegions
<1>1. ASSUME NEW n \in Nodes, NEW region \in AgentRegions[n], RegisterRPC(n, region)
      PROVE  RInv'
  BY <1>1, UnsettleKeepsRInv DEF RegisterRPC
<1>2. ASSUME NEW n \in Nodes, OpenStream(n) \/ Disconnect(n) PROVE RInv'
  BY <1>2 DEF OpenStream, Disconnect, vars, view, RInv, RegionOf, Present
<1>3. ASSUME NEW n \in Nodes, StreamEvent(n) PROVE RInv'
  <2>1. \A m \in Nodes : RegionOf(m)' = RegionOf(m)
    BY <1>3 DEF StreamEvent, Heartbeat, Refreshed, RegionOf, Present, IInv, TypeOK, AgentNode
  <2> QED
    BY <1>3, <2>1 DEF StreamEvent, view, RInv
<1>4. CASE Checker
  BY <1>4, UnsettleKeepsRInv DEF Checker
<1>5. CASE Clock
  BY <1>5 DEF Clock, Tick, view, RInv, RegionOf, Present
<1>6. CASE RegionsBegin
  <2>1. /\ rest' = "busy" /\ todo' = ListRegions /\ rest = "idle" /\ summary' = summary
        /\ steady' = [n \in Nodes |-> RegionOf(n)] /\ nodes' = nodes
    BY <1>6 DEF RegionsBegin, vars
  <2>2. ListRegions \subseteq StoredRegions
    BY <1>t DEF ListRegions
  <2>3. \A n \in Nodes : RegionOf(n) \in StoredRegions \cup {NoRegion} /\ RegionOf(n)' = RegionOf(n)
    BY <1>t, <2>1 DEF RegionOf, Present
  <2>4. \A n \in Nodes : RegionOf(n) # NoRegion => RegionOf(n) \in ListRegions
    BY DEF RegionOf, ListRegions
  <2> QED
    BY <2>1, <2>2, <2>3, <2>4 DEF RInv
<1>7. ASSUME NEW r \in StoredRegions, RegionsLookup(r) PROVE RInv'
  <2>1. /\ r \in todo /\ todo' = todo \ {r} /\ rest' = rest /\ steady' = steady /\ nodes' = nodes
        /\ summary' = [summary EXCEPT ![r] = ListByRegion(r)]
    BY <1>7 DEF RegionsLookup, vars
  <2>2. \A n \in Nodes : RegionOf(n)' = RegionOf(n)
    BY <2>1 DEF RegionOf, Present
  <2>3. rest = "busy"
    BY <2>1 DEF RInv
  <2>4. summary' \in [StoredRegions -> SUBSET Nodes]
    BY <2>1 DEF RInv, ListByRegion
  <2>5. ASSUME NEW n \in Nodes, steady'[n] # NoRegion, NEW q \in StoredRegions
        PROVE  n \in summary'[q] <=> q = steady'[n] /\ q \notin todo'
    <3>1. CASE q = r
      <4>1. summary'[q] = ListByRegion(r)
        BY <2>1, <3>1 DEF RInv
      <4> QED
        BY <2>1, <2>5, <3>1, <4>1 DEF RInv, ListByRegion
    <3>2. CASE q # r
      BY <2>1, <2>3, <2>5, <3>2 DEF RInv
    <3> QED
      BY <3>1, <3>2
  <2> QED
    BY <2>1, <2>2, <2>3, <2>4, <2>5 DEF RInv
<1>8. CASE RegionsAnswer
  BY <1>8 DEF RegionsAnswer, RInv
<1>9. CASE UNCHANGED pvars
  BY <1>9 DEF pvars, vars, view, RInv, RegionOf, Present
<1> QED
  BY <1>1, <1>2, <1>3, <1>4, <1>5, <1>6, <1>7, <1>8, <1>9 DEF PNext, Reader

(***************************************************************************)
(* /api/regions counts a node that stays where it is once, in its region,  *)
(* for any number of nodes that register, move and leave while it runs.    *)
(***************************************************************************)
THEOREM SteadyNodesCountedHolds == PSpec => []SteadyNodesCounted
<1>1. PInit => RInv
  BY DEF PInit, RInv
<1>2. PSpec => []IInv
  BY PresenceImplementsRegistry, InductiveInvariant, PTL
<1>3. RInv => SteadyNodesCounted
  BY DEF RInv, SteadyNodesCounted
<1> QED
  BY <1>1, <1>2, <1>3, StepKeepsRInv, PTL DEF PSpec

-----------------------------------------------------------------------------
(* The aggregator: polling never mixes rounds and never goes back. *)

\* How far a goroutine has come, and what it holds then.
Consistent(u, g) ==
    /\ g.pc = "nodes" => g.st = [Empty EXCEPT !.reachable = "yes"]
    /\ g.pc \in {"events", "alerts", "store"} /\ g.st.reachable = "yes" =>
          /\ newest[u] <= g.st.nodes /\ state[u].alerts <= g.st.nodes
          /\ 0 <= g.st.nodes /\ g.st.nodes <= version[u]
    /\ g.pc \in {"alerts", "store"} /\ g.st.reachable = "yes" =>
          g.st.nodes <= g.st.events /\ g.st.events <= version[u]
    /\ g.pc = "store" /\ g.st.reachable = "yes" =>
          g.st.events <= g.st.alerts /\ g.st.alerts <= version[u]
    /\ g.pc \in {"events", "alerts"} => g.st.reachable = "yes"
    /\ g.pc = "store" /\ g.st.reachable = "no" => g.st = Empty

(***************************************************************************)
(* The inductive strengthening: only the current round's goroutines run,   *)
(* and what they hold is at least as new as everything shown.              *)
(***************************************************************************)
AInv ==
    /\ ATypeOK
    /\ ViewsAgree
    /\ CacheNeverGoesBack
    /\ \A u \in Upstreams :
          /\ newest[u] <= version[u] /\ state[u].alerts <= version[u]
          /\ poll[1 - slot][u].pc = "idle"
          /\ round = "wait" => poll[slot][u].pc = "idle"
          /\ Consistent(u, poll[slot][u])

Goroutine == [pc: {"idle", "nodes", "events", "alerts", "store"}, st: RegionState]

(* What AInv says of one upstream. *)
Good(u) ==
    /\ NodesShown(u) = RegionsCounted(u)
    /\ state[u].reachable = "yes" =>
          /\ newest[u] <= state[u].nodes
          /\ 0 <= state[u].nodes
          /\ state[u].nodes <= state[u].events
          /\ state[u].events <= state[u].alerts
          /\ state[u].alerts <= version[u]
    /\ newest[u] <= version[u] /\ state[u].alerts <= version[u]
    /\ poll[1 - slot][u].pc = "idle"
    /\ round = "wait" => poll[slot][u].pc = "idle"
    /\ Consistent(u, poll[slot][u])

(***************************************************************************)
(* AInv speaks of each upstream on its own.                                *)
(***************************************************************************)
LEMMA AInvByUpstream == AInv <=> ATypeOK /\ \A u \in Upstreams : Good(u)
  BY DEF AInv, Good, ViewsAgree, CacheNeverGoesBack

(***************************************************************************)
(* A regionState without data is one (New, markUnreachable).               *)
(***************************************************************************)
LEMMA EmptyType ==
  /\ Empty \in RegionState
  /\ [Empty EXCEPT !.reachable = "yes"] \in RegionState
  /\ Idle \in Goroutine
  BY AggregatorAssumption
  DEF Empty, RegionState, Idle, Goroutine, None, Versions

(***************************************************************************)
(* The cache as New makes it satisfies AInv.                               *)
(***************************************************************************)
LEMMA InitAInv == AInit => AInv
<1> SUFFICES ASSUME AInit PROVE AInv
  OBVIOUS
<1>1. ATypeOK
  BY EmptyType, AggregatorAssumption
  DEF AInit, ATypeOK, Goroutine, Slots, Versions, None
<1>2. ASSUME NEW u \in Upstreams PROVE Good(u)
  BY <1>2, AggregatorAssumption
  DEF AInit, Good, NodesShown, RegionsCounted, Consistent, Empty, Idle, Slots, None
<1> QED
  BY <1>1, <1>2, AInvByUpstream

(***************************************************************************)
(* What the types say of one upstream.                                     *)
(***************************************************************************)
LEMMA UpstreamTypes ==
  ASSUME ATypeOK, NEW u \in Upstreams
  PROVE  /\ slot \in Slots /\ 1 - slot \in Slots /\ slot # 1 - slot
         /\ poll[slot][u] \in Goroutine /\ poll[1 - slot][u] \in Goroutine
         /\ state[u] \in RegionState
         /\ version[u] \in Int /\ newest[u] \in Int
         /\ \A v \in Versions \cup {None} : v \in Int
  BY AggregatorAssumption DEF ATypeOK, Slots, Goroutine, Versions, None

(***************************************************************************)
(* PollOnce preserves AInv: the other set of goroutines has ended.         *)
(***************************************************************************)
LEMMA PollOnceAInv ==
  ASSUME AInv, PollOnce
  PROVE  AInv'
<1> DEFINE New == [pc |-> "nodes", st |-> [Empty EXCEPT !.reachable = "yes"]]
<1>0. ATypeOK /\ \A u \in Upstreams : Good(u)
  BY AInvByUpstream
<1>1. New \in Goroutine
  BY EmptyType DEF Goroutine
<1>2. slot \in Slots /\ 1 - slot \in Slots /\ slot # 1 - slot /\ 1 - (1 - slot) = slot
  BY <1>0 DEF ATypeOK, Slots
<1>3. poll' = [poll EXCEPT ![1 - slot] = [u \in Upstreams |-> New]]
  BY DEF PollOnce
<1>4. ATypeOK'
  BY <1>0, <1>1, <1>2, <1>3 DEF PollOnce, ATypeOK, Goroutine
<1>5. ASSUME NEW u \in Upstreams PROVE Good(u)'
  <2>1. poll'[slot'][u] = New /\ poll'[1 - slot'][u] = poll[slot][u]
    BY <1>0, <1>2, <1>3 DEF PollOnce, ATypeOK
  <2>2. poll[slot][u].pc = "idle"
    BY <1>0 DEF Good, PollOnce
  <2>3. Consistent(u, poll[slot][u])'
    BY <2>1 DEF Consistent
  <2>4. /\ state' = state /\ newest' = newest /\ version' = version
        /\ round' = "poll"
    BY DEF PollOnce
  <2> QED
    BY <1>0, <2>1, <2>2, <2>3, <2>4 DEF Good, NodesShown, RegionsCounted
<1> QED
  BY <1>4, <1>5 DEF AInv, Good, ViewsAgree, CacheNeverGoesBack

(***************************************************************************)
(* A step of one goroutine of the current round changes that one only.     *)
(***************************************************************************)
LEMMA GoroutineStep ==
  ASSUME ATypeOK, NEW u \in Upstreams, NEW g \in Goroutine,
         poll' = [poll EXCEPT ![slot][u] = g], slot' = slot
  PROVE  /\ poll' \in [Slots -> [Upstreams -> Goroutine]]
         /\ poll'[slot'][u] = g
         /\ \A w \in Upstreams : /\ poll'[1 - slot'][w] = poll[1 - slot][w]
                                 /\ w # u => poll'[slot'][w] = poll[slot][w]
<1>1. slot \in Slots /\ 1 - slot \in Slots /\ slot # 1 - slot
  BY DEF ATypeOK, Slots
<1>2. poll \in [Slots -> [Upstreams -> Goroutine]]
  BY DEF ATypeOK, Goroutine
<1>3. poll' = [poll EXCEPT ![slot] = [poll[slot] EXCEPT ![u] = g]]
  BY <1>1, <1>2
<1>4. [poll[slot] EXCEPT ![u] = g] \in [Upstreams -> Goroutine]
  BY <1>1, <1>2
<1>5. poll'[slot] = [poll[slot] EXCEPT ![u] = g] /\ poll'[1 - slot] = poll[1 - slot]
  BY <1>1, <1>2, <1>3
<1> QED
  BY <1>1, <1>2, <1>3, <1>4, <1>5

(***************************************************************************)
(* An upstream keeps its invariant when nothing of it changes but that its *)
(* own data may get newer.                                                 *)
(***************************************************************************)
LEMMA OthersUntouched ==
  ASSUME ATypeOK, ATypeOK', NEW w \in Upstreams, Good(w),
         state'[w] = state[w], newest'[w] = newest[w], version[w] <= version'[w],
         slot' = slot, round' = round \/ round' = "poll",
         poll'[1 - slot'][w] = poll[1 - slot][w],
         poll'[slot'][w] = poll[slot][w]
  PROVE  Good(w)'
<1> DEFINE g == poll[slot][w]
<1>1. /\ g \in Goroutine /\ state[w] \in RegionState
      /\ version[w] \in Int /\ version'[w] \in Int /\ newest[w] \in Int
  BY UpstreamTypes, AggregatorAssumption DEF ATypeOK, Versions
<1>2. \A v \in Versions \cup {None} : v \in Int
  BY UpstreamTypes
<1>3. /\ g.st.nodes \in Int /\ g.st.events \in Int /\ g.st.alerts \in Int
      /\ state[w].nodes \in Int /\ state[w].events \in Int /\ state[w].alerts \in Int
  BY <1>1, <1>2 DEF Goroutine, RegionState
<1>4. Consistent(w, g)
  BY DEF Good
<1>5. Consistent(w, poll[slot][w])'
  BY <1>1, <1>3, <1>4 DEF Consistent
<1>6. /\ (newest[w] <= version[w])' /\ (state[w].alerts <= version[w])'
      /\ (NodesShown(w) = RegionsCounted(w))'
  BY <1>1, <1>3 DEF Good, NodesShown, RegionsCounted
<1>7. (state[w].reachable = "yes" =>
          /\ newest[w] <= state[w].nodes
          /\ 0 <= state[w].nodes
          /\ state[w].nodes <= state[w].events
          /\ state[w].events <= state[w].alerts
          /\ state[w].alerts <= version[w])'
  BY <1>1, <1>3 DEF Good
<1> QED
  BY <1>5, <1>6, <1>7 DEF Good

(***************************************************************************)
(* A fetch, successful or not, and the end of a goroutine preserve AInv.   *)
(***************************************************************************)
LEMMA FetchAInv ==
  ASSUME AInv, NEW u \in Upstreams, Fetch(slot, u)
  PROVE  AInv'
<1> DEFINE g == poll[slot][u]
           h == [pc |-> Following(g.pc), st |-> [g.st EXCEPT ![g.pc] = version[u]]]
<1>0. ATypeOK /\ \A w \in Upstreams : Good(w)
  BY AInvByUpstream
<1>1. /\ g \in Goroutine /\ version[u] \in Versions /\ version[u] \in Int
      /\ newest[u] \in Int /\ state[u] \in RegionState
      /\ \A v \in Versions \cup {None} : v \in Int
  BY <1>0, UpstreamTypes DEF ATypeOK
<1>2. /\ g.st \in RegionState
      /\ g.st.nodes \in Int /\ g.st.events \in Int /\ g.st.alerts \in Int
      /\ state[u].alerts \in Int
  BY <1>1 DEF Goroutine, RegionState
<1>3. /\ Consistent(u, g) /\ newest[u] <= version[u] /\ state[u].alerts <= version[u]
      /\ 0 <= version[u]
  BY <1>0, <1>1, AggregatorAssumption DEF Good, Versions
<1>4. h \in Goroutine /\ Consistent(u, h) /\ g.pc # "idle"
  <2>1. CASE g.pc = "nodes"
    <3>1. h = [pc |-> "events", st |-> [reachable |-> "yes", nodes |-> version[u],
                                        events |-> None, alerts |-> None]]
      BY <1>3, <2>1 DEF Following, Consistent, Empty
    <3> QED
      BY <1>1, <1>3, <2>1, <3>1 DEF Goroutine, RegionState, Consistent
  <2>2. CASE g.pc = "events"
    <3>1. h = [pc |-> "alerts",
               st |-> [reachable |-> g.st.reachable, nodes |-> g.st.nodes,
                       events |-> version[u], alerts |-> g.st.alerts]]
      BY <1>2, <2>2 DEF Following, RegionState
    <3> QED
      BY <1>1, <1>2, <1>3, <2>2, <3>1 DEF Goroutine, RegionState, Consistent
  <2>3. CASE g.pc = "alerts"
    <3>1. h = [pc |-> "store",
               st |-> [reachable |-> g.st.reachable, nodes |-> g.st.nodes,
                       events |-> g.st.events, alerts |-> version[u]]]
      BY <1>2, <2>3 DEF Following, RegionState
    <3>2. h \in Goroutine
      BY <1>1, <1>2, <3>1 DEF Goroutine, RegionState
    <3>3. /\ g.st.reachable = "yes" /\ newest[u] <= g.st.nodes
          /\ state[u].alerts <= g.st.nodes /\ 0 <= g.st.nodes
          /\ g.st.nodes <= version[u] /\ g.st.nodes <= g.st.events
          /\ g.st.events <= version[u] /\ version[u] <= version[u]
      BY <1>1, <1>3, <2>3 DEF Consistent
    <3>4. /\ h.pc = "store" /\ h.st.reachable = g.st.reachable /\ h.st.nodes = g.st.nodes
          /\ h.st.events = g.st.events /\ h.st.alerts = version[u]
      BY <3>1
    <3> HIDE DEF g, h
    <3>5. Consistent(u, h)
      BY <3>3, <3>4 DEF Consistent
    <3> QED
      BY <2>3, <3>2, <3>5
  <2> QED
    BY <2>1, <2>2, <2>3 DEF Fetch
<1>5. /\ poll' = [poll EXCEPT ![slot][u] = h] /\ slot' = slot /\ round' = round
      /\ version' = version /\ state' = state /\ newest' = newest
      /\ health' = health
  BY DEF Fetch
<1>6. /\ poll' \in [Slots -> [Upstreams -> Goroutine]] /\ poll'[slot'][u] = h
      /\ \A w \in Upstreams : /\ poll'[1 - slot'][w] = poll[1 - slot][w]
                              /\ w # u => poll'[slot'][w] = poll[slot][w]
  <2> HIDE DEF h
  <2> QED
    BY <1>0, <1>4, <1>5, GoroutineStep
<1>7. ATypeOK'
  BY <1>0, <1>5, <1>6 DEF ATypeOK, Goroutine
<1>8. \A w \in Upstreams : w # u => Good(w)'
  BY <1>0, <1>1, <1>5, <1>6, <1>7, UpstreamTypes, OthersUntouched
<1>9. Good(u)'
  <2> HIDE DEF h
  <2>1. round = "poll"
    BY <1>0, <1>4 DEF Good, ATypeOK
  <2>2. Consistent(u, poll[slot][u])'
    BY <1>4, <1>5, <1>6 DEF Consistent
  <2> QED
    BY <1>0, <1>5, <1>6, <2>1, <2>2 DEF Good, NodesShown, RegionsCounted
<1> QED
  BY <1>7, <1>8, <1>9 DEF AInv, Good, ViewsAgree, CacheNeverGoesBack

(***************************************************************************)
(* A failed fetch preserves AInv: what will be stored holds no data.       *)
(***************************************************************************)
LEMMA FetchFailsAInv ==
  ASSUME AInv, NEW u \in Upstreams, FetchFails(slot, u)
  PROVE  AInv'
<1> DEFINE h == [pc |-> "store", st |-> Empty]
<1>0. ATypeOK /\ \A w \in Upstreams : Good(w)
  BY AInvByUpstream
<1>1. h \in Goroutine /\ Consistent(u, h)
  BY EmptyType DEF Goroutine, Consistent, Empty
<1>2. /\ poll' = [poll EXCEPT ![slot][u] = h] /\ slot' = slot /\ round' = round
      /\ version' = version /\ state' = state /\ newest' = newest
      /\ health' = health /\ poll[slot][u].pc # "idle"
  BY DEF FetchFails, markUnreachable
<1> HIDE DEF h
<1>3. /\ poll' \in [Slots -> [Upstreams -> Goroutine]] /\ poll'[slot'][u] = h
      /\ \A w \in Upstreams : /\ poll'[1 - slot'][w] = poll[1 - slot][w]
                              /\ w # u => poll'[slot'][w] = poll[slot][w]
  BY <1>0, <1>1, <1>2, GoroutineStep
<1>4. ATypeOK'
  BY <1>0, <1>2, <1>3 DEF ATypeOK, Goroutine
<1>5. \A w \in Upstreams : w # u => Good(w)'
  BY <1>0, <1>2, <1>3, <1>4, UpstreamTypes, OthersUntouched
<1>6. Good(u)'
  <2>1. round = "poll"
    BY <1>0, <1>2 DEF Good, ATypeOK
  <2>2. Consistent(u, poll[slot][u])'
    BY <1>1, <1>2, <1>3 DEF Consistent
  <2> QED
    BY <1>0, <1>2, <1>3, <2>1, <2>2 DEF Good, NodesShown, RegionsCounted
<1> QED
  BY <1>4, <1>5, <1>6 DEF AInv, Good, ViewsAgree, CacheNeverGoesBack

(***************************************************************************)
(* Storing a goroutine's result preserves AInv: it is complete or empty,   *)
(* and not older than what the region has shown.                           *)
(***************************************************************************)
LEMMA StoreAInv ==
  ASSUME AInv, NEW u \in Upstreams, Store(slot, u)
  PROVE  AInv'
<1> DEFINE st == poll[slot][u].st
<1>0. ATypeOK /\ \A w \in Upstreams : Good(w)
  BY AInvByUpstream
<1>1. /\ st \in RegionState /\ state[u] \in RegionState
      /\ version[u] \in Int /\ newest[u] \in Int
      /\ newest[u] \in Versions \cup {None}
      /\ \A v \in Versions \cup {None} : v \in Int
  BY <1>0, UpstreamTypes DEF Goroutine, ATypeOK
<1>2. /\ st.nodes \in Int /\ st.events \in Int /\ st.alerts \in Int
      /\ state[u].alerts \in Int /\ state[u].alerts \in Versions \cup {None}
      /\ st.reachable \in {"yes", "no"}
  BY <1>1 DEF RegionState
<1>3. /\ poll' = [poll EXCEPT ![slot][u] = Idle] /\ slot' = slot /\ round' = round
      /\ version' = version /\ health' = health /\ poll[slot][u].pc = "store"
  BY DEF Store
<1>4. /\ poll' \in [Slots -> [Upstreams -> Goroutine]] /\ poll'[slot'][u] = Idle
      /\ \A w \in Upstreams : /\ poll'[1 - slot'][w] = poll[1 - slot][w]
                              /\ w # u => poll'[slot'][w] = poll[slot][w]
  BY <1>0, <1>3, EmptyType, GoroutineStep
<1>5. /\ state' = [state EXCEPT ![u] = st]
      /\ newest' = [newest EXCEPT ![u] =
                        IF state[u].alerts > @ THEN state[u].alerts ELSE @]
  BY DEF Store
<1>6. /\ state'[u] = st
      /\ newest'[u] = IF state[u].alerts > newest[u] THEN state[u].alerts ELSE newest[u]
      /\ \A w \in Upstreams : w # u => state'[w] = state[w] /\ newest'[w] = newest[w]
  BY <1>0, <1>5 DEF ATypeOK
<1>7. state' \in [Upstreams -> RegionState]
  BY <1>0, <1>1, <1>5 DEF ATypeOK
<1>8. newest' \in [Upstreams -> Versions \cup {None}]
  BY <1>0, <1>2, <1>5 DEF ATypeOK
<1>9. ATypeOK'
  BY <1>0, <1>3, <1>4, <1>7, <1>8 DEF ATypeOK, Goroutine
<1>10. \A w \in Upstreams : w # u => Good(w)'
  <2> SUFFICES ASSUME NEW w \in Upstreams, w # u PROVE Good(w)'
    OBVIOUS
  <2>1. Good(w) /\ state'[w] = state[w] /\ newest'[w] = newest[w]
    BY <1>0, <1>6, Zenon
  <2>2. version[w] <= version'[w]
    BY <1>0, <1>3, UpstreamTypes
  <2>3. poll'[1 - slot'][w] = poll[1 - slot][w] /\ poll'[slot'][w] = poll[slot][w]
    BY <1>4, Zenon
  <2> QED
    BY <1>0, <1>3, <1>9, <2>1, <2>2, <2>3, OthersUntouched
<1>11. Good(u)'
  <2>1. Consistent(u, poll[slot][u]) /\ newest'[u] <= version[u]
    BY <1>0, <1>6 DEF Good
  <2>2. Consistent(u, poll[slot][u])'
    BY <1>4 DEF Consistent, Idle
  <2>3. poll'[1 - slot'][u].pc = "idle" /\ poll'[slot'][u].pc = "idle"
    <3>1. poll[1 - slot][u].pc = "idle"
      BY <1>0, Zenon DEF Good
    <3>2. poll'[1 - slot'][u] = poll[1 - slot][u] /\ poll'[slot'][u] = Idle
      BY <1>4, Zenon
    <3>3. Idle.pc = "idle"
      BY DEF Idle
    <3> QED
      BY <3>1, <3>2, <3>3, Zenon
  <2>4. CASE st.reachable = "yes"
    <3>1. /\ newest[u] <= st.nodes /\ state[u].alerts <= st.nodes /\ 0 <= st.nodes
          /\ st.nodes <= st.events /\ st.events <= st.alerts /\ st.alerts <= version[u]
      BY <1>3, <2>1, <2>4, Zenon DEF Consistent
    <3>2. newest'[u] <= st.nodes
      BY <1>6, <3>1
    <3> QED
      BY <1>3, <1>6, <2>1, <2>2, <2>3, <2>4, <3>1, <3>2
      DEF Good, NodesShown, RegionsCounted
  <2>5. CASE st.reachable = "no"
    <3>1. st = Empty
      BY <1>3, <2>1, <2>5 DEF Consistent
    <3>2. None <= version[u]
      BY <1>0, AggregatorAssumption DEF ATypeOK, Versions, None
    <3> QED
      BY <1>3, <1>6, <2>1, <2>2, <2>3, <3>1, <3>2
      DEF Good, NodesShown, RegionsCounted, Empty
  <2> QED
    BY <1>2, <2>4, <2>5
<1> QED
  BY <1>9, <1>10, <1>11 DEF AInv, Good, ViewsAgree, CacheNeverGoesBack

(***************************************************************************)
(* Every step of poller, goroutines and upstreams preserves AInv.          *)
(***************************************************************************)
LEMMA NextAInv == AInv /\ [ANext]_avars => AInv'
<1> SUFFICES ASSUME AInv, [ANext]_avars PROVE AInv'
  OBVIOUS
<1>0. ATypeOK /\ \A u \in Upstreams : Good(u)
  BY AInvByUpstream
<1>1. CASE PollOnce
  BY <1>1, PollOnceAInv
<1>2. CASE PollEnds
  BY <1>0, <1>2
  DEF PollEnds, AllDone, AInv, ATypeOK, ViewsAgree, CacheNeverGoesBack,
      Consistent, NodesShown, RegionsCounted
<1>3. ASSUME NEW s \in Slots, NEW u \in Upstreams,
             Fetch(s, u) \/ FetchFails(s, u) \/ Store(s, u)
      PROVE  AInv'
  <2>1. poll[s][u].pc # "idle"
    BY <1>3 DEF Fetch, FetchFails, Store
  <2>2. s = slot
    BY <1>0, <2>1 DEF Good, ATypeOK, Slots
  <2> QED
    BY <1>3, <2>2, FetchAInv, FetchFailsAInv, StoreAInv
<1>4. ASSUME NEW u \in Upstreams, Change(u) PROVE AInv'
  <2>1. ATypeOK'
    BY <1>0, <1>4, AggregatorAssumption DEF Change, ATypeOK, Versions
  <2>2. /\ slot' = slot /\ round' = round /\ poll' = poll /\ state' = state
        /\ newest' = newest
    BY <1>4 DEF Change
  <2>3. \A w \in Upstreams : version[w] <= version'[w]
    BY <1>0, <1>4, AggregatorAssumption DEF Change, ATypeOK, Versions
  <2>4. \A w \in Upstreams : Good(w)'
    BY <1>0, <2>1, <2>2, <2>3, OthersUntouched
  <2> QED
    BY <2>1, <2>4 DEF AInv, Good, ViewsAgree, CacheNeverGoesBack
<1>5. ASSUME NEW u \in Upstreams, Toggle(u) PROVE AInv'
  <2>1. ATypeOK'
    BY <1>0, <1>5 DEF Toggle, ATypeOK
  <2> QED
    BY <1>5, <2>1 DEF Toggle, AInv, ViewsAgree, CacheNeverGoesBack, Consistent,
                      NodesShown, RegionsCounted
<1>6. CASE UNCHANGED avars
  BY <1>6 DEF avars, AInv, ATypeOK, ViewsAgree, CacheNeverGoesBack, Consistent,
              NodesShown, RegionsCounted
<1> QED
  BY <1>1, <1>2, <1>3, <1>4, <1>5, <1>6 DEF ANext

(***************************************************************************)
(* Only goroutines of the current round run, and none holds stale data.    *)
(***************************************************************************)
THEOREM CacheInvariant == ASpec => []AInv
  BY InitAInv, NextAInv, PTL DEF ASpec

(***************************************************************************)
(* /api/nodes and the counts of /api/regions agree in every state.         *)
(***************************************************************************)
THEOREM ViewsAgreeHolds == ASpec => []ViewsAgree
<1>1. AInv => ViewsAgree
  BY DEF AInv
<1> QED
  BY <1>1, CacheInvariant, PTL

(***************************************************************************)
(* A region shows one poll and never data older than it showed before.     *)
(***************************************************************************)
THEOREM CacheNeverGoesBackHolds == ASpec => []CacheNeverGoesBack
<1>1. AInv => CacheNeverGoesBack
  BY DEF AInv
<1> QED
  BY <1>1, CacheInvariant, PTL
=============================================================================
