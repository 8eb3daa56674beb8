------------------------------ MODULE Registry ------------------------------
(***************************************************************************)
(* The collector's in-memory agent registry (internal/registry).  Agents   *)
(* enter by Register, are refreshed by Heartbeat (one per accepted event)  *)
(* and leave when the heartbeat checker evicts them.                       *)
(*                                                                         *)
(* Every operation but one runs entirely under the registry's mutex and is *)
(* one action.  The exception is markStaleInactive: it reads the clock     *)
(* BEFORE it takes the mutex, so other operations can run between the two. *)
(* That gap is the pair CheckerSample / CheckerSweep.                      *)
(*                                                                         *)
(* hostname, ip, version and the registration time never influence any     *)
(* decision and are left out.                                              *)
(***************************************************************************)
EXTENDS Integers

CONSTANTS
    Nodes,          \* node ids agents may use (all non-empty)
    Regions,        \* region names an agent may send, NoRegion included
    NoRegion,       \* the empty region
    DefaultRegion,  \* what the empty region is stored as
    Timeout,        \* heartbeat timeout, in clock ticks
    EvictAfter,     \* how long a node may stay inactive, in clock ticks
    MaxTime         \* bound on the clock

ASSUME RegistryAssumption ==
    /\ NoRegion \in Regions
    /\ DefaultRegion # NoRegion
    /\ Timeout \in Nat \ {0}
    /\ EvictAfter \in Nat
    /\ MaxTime \in Nat

VARIABLES
    now,      \* the wall clock
    nodes,    \* the map from node id to AgentNode
    sample,   \* the time the checker read before locking, or Never
    heard     \* history: when each node last registered or, once it had
              \* registered, sent an event; Never before it first registers

vars == <<now, nodes, sample, heard>>

Never == -1
Time == 0 .. MaxTime
StoredRegions == (Regions \ {NoRegion}) \cup {DefaultRegion}

AgentNode == [status: {"absent", "active", "inactive"},
              lastSeen: Time \cup {Never},
              inactiveSince: Time \cup {Never},
              region: StoredRegions]

Absent == [status |-> "absent", lastSeen |-> Never,
           inactiveSince |-> Never, region |-> DefaultRegion]

Present(n) == nodes[n].status # "absent"

Init ==
    /\ now = 0
    /\ nodes = [n \in Nodes |-> Absent]
    /\ sample = Never
    /\ heard = [n \in Nodes |-> Never]
-----------------------------------------------------------------------------
normalizeRegion(region) == IF region = NoRegion THEN DefaultRegion ELSE region

\* Both branches of the code agree on the fields kept here.
Register(n, region) ==
    /\ nodes' = [nodes EXCEPT ![n] = [status |-> "active",
                                      lastSeen |-> now,
                                      inactiveSince |-> Never,
                                      region |-> normalizeRegion(region)]]
    /\ heard' = [heard EXCEPT ![n] = now]
    /\ UNCHANGED <<now, sample>>

\* Mutated form: the heartbeat restores the status but keeps the old time.
RestoredOnly(node) ==
    [status |-> "active", lastSeen |-> node.lastSeen,
     inactiveSince |-> Never, region |-> node.region]

\* The entry after a heartbeat.
Refreshed(node) ==
    [status |-> "active", lastSeen |-> now,
     inactiveSince |-> Never, region |-> node.region]

\* A heartbeat of a node the registry does not hold changes nothing.
Heartbeat(n) ==
    /\ nodes' = IF Present(n) THEN [nodes EXCEPT ![n] = Refreshed(@)]
                              ELSE nodes
    /\ heard' = [heard EXCEPT ![n] = IF @ = Never THEN Never ELSE now]
    /\ UNCHANGED <<now, sample>>

\* Leaves inactiveSince alone.  Nothing outside the tests calls it.
SetInactive(n) ==
    /\ nodes' = IF Present(n) THEN [nodes EXCEPT ![n].status = "inactive"]
                              ELSE nodes
    /\ UNCHANGED <<now, sample, heard>>
-----------------------------------------------------------------------------
\* markStaleInactive(timeout, evictAfter), first half: now := time.Now().
CheckerSample ==
    /\ sample = Never
    /\ sample' = now
    /\ UNCHANGED <<now, nodes, heard>>

MarkStale(node, at) ==
    IF node.status = "active" /\ node.lastSeen < at - Timeout
    THEN [node EXCEPT !.status = "inactive", !.inactiveSince = at]
    ELSE node

\* Mutated form: nothing is ever evicted.
KeepForever(node, at) == node

\* Mutated form: forgets how long the node has been inactive.
EvictAnyInactive(node, at) ==
    IF node.status = "inactive" /\ node.inactiveSince # Never
    THEN Absent
    ELSE node

EvictExpired(node, at) ==
    IF /\ node.status = "inactive"
       /\ node.inactiveSince # Never
       /\ at - node.inactiveSince > EvictAfter
    THEN Absent
    ELSE node

\* Second half, under the mutex: every node is tested against the sample.
CheckerSweep ==
    /\ sample # Never
    /\ nodes' = [n \in Nodes |->
                    EvictExpired(MarkStale(nodes[n], sample), sample)]
    /\ sample' = Never
    /\ UNCHANGED <<now, heard>>

Tick ==
    /\ now < MaxTime
    /\ now' = now + 1
    /\ UNCHANGED <<nodes, sample, heard>>

\* What the running collector does.
ServeNext ==
    \/ \E n \in Nodes : \/ \E region \in Regions : Register(n, region)
                        \/ Heartbeat(n)
    \/ CheckerSample
    \/ CheckerSweep
    \/ Tick

\* Everything the package exports.
Next == ServeNext \/ \E n \in Nodes : SetInactive(n)

Spec == Init /\ [][Next]_vars
-----------------------------------------------------------------------------
TypeOK ==
    /\ now \in Time
    /\ nodes \in [Nodes -> AgentNode]
    /\ sample \in Time \cup {Never}
    /\ heard \in [Nodes -> Time \cup {Never}]

(***************************************************************************)
(* A node the checker has marked inactive had really been silent for more  *)
(* than the timeout at that moment, even though the checker compares with  *)
(* a clock it read before it had the lock, and a heartbeat or registration *)
(* may have slipped in between (markStaleInactive against Heartbeat).      *)
(***************************************************************************)
MarkedMeansSilent ==
    \A n \in Nodes :
        nodes[n].inactiveSince # Never =>
            /\ nodes[n].status = "inactive"
            /\ heard[n] + Timeout < nodes[n].inactiveSince
            /\ nodes[n].inactiveSince <= now

(***************************************************************************)
(* A node leaves the registry only after a silence longer than the timeout *)
(* and the eviction delay together (StartHeartbeatChecker): no order of    *)
(* heartbeats, registrations and a delayed sweep evicts one earlier.       *)
(***************************************************************************)
EvictedNodeWasSilent ==
    \A n \in Nodes :
        Present(n) /\ nodes'[n].status = "absent" =>
            now - heard[n] > Timeout + EvictAfter

EvictionNeedsSilence == [][EvictedNodeWasSilent]_vars
=============================================================================
