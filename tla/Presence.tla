------------------------------ MODULE Presence ------------------------------
(***************************************************************************)
(* The registry as its users drive and see it: the Register and            *)
(* StreamEvents handlers of the receiver on one side, the REST handler of  *)
(* GET /api/regions on the other.                                          *)
(*                                                                         *)
(* A node registers when it connects and from then on only its accepted    *)
(* events keep it in the registry; nothing registers it again while its    *)
(* stream is open, and the end of a stream does not touch the registry.    *)
(*                                                                         *)
(* /api/regions takes the registry's lock once for the list of regions and *)
(* once more for each of them, so nodes register, move and are evicted     *)
(* while it runs.                                                          *)
(***************************************************************************)
EXTENDS Registry, FiniteSets

CONSTANTS
    CollectorRegion,  \* the collector's --region
    AgentRegions      \* the regions each agent may be started with

ASSUME PresenceAssumption ==
    CollectorRegion \in Regions /\ AgentRegions \in [Nodes -> SUBSET Regions]

VARIABLES
    stream,   \* each agent's connection: "none", "registered" or "open"
    lapsed,   \* history: connected nodes that have been silent too long
    rest,     \* "idle" or "busy": the handler of /api/regions
    todo,     \* the regions it still has to look up
    summary,  \* the nodes it found in each region looked up so far
    steady    \* history: the region of every node that has been registered
              \* in that region since the request began, NoRegion for others

view == <<rest, todo, summary, steady>>
pvars == <<vars, stream, lapsed, view>>

RegionOf(n) == IF Present(n) THEN nodes[n].region ELSE NoRegion

PInit ==
    /\ Init
    /\ stream = [n \in Nodes |-> "none"]
    /\ lapsed = {}
    /\ rest = "idle" /\ todo = {}
    /\ summary = [r \in StoredRegions |-> {}]
    /\ steady = [n \in Nodes |-> NoRegion]

\* A node that leaves the region it was in is not steady.
Unsettle ==
    steady' = [n \in Nodes |-> IF RegionOf(n)' = steady[n] THEN steady[n] ELSE NoRegion]
-----------------------------------------------------------------------------
\* The Register RPC: an agent without a region gets the collector's.  A
\* request that fails validation or names another node changes nothing.
RegisterRPC(n, region) ==
    /\ stream[n] = "none"
    /\ Register(n, IF region = NoRegion THEN CollectorRegion ELSE region)
    /\ stream' = [stream EXCEPT ![n] = "registered"]
    /\ Unsettle
    /\ UNCHANGED <<lapsed, rest, todo, summary>>

OpenStream(n) ==
    /\ stream[n] = "registered"
    /\ stream' = [stream EXCEPT ![n] = "open"]
    /\ UNCHANGED <<vars, lapsed, view>>

\* An event that is throttled, invalid or of another node is no heartbeat.
StreamEvent(n) ==
    /\ stream[n] = "open"
    /\ Heartbeat(n)
    /\ UNCHANGED <<stream, lapsed, view>>

\* The call or the connection ends; the handler leaves the registry alone.
Disconnect(n) ==
    /\ stream[n] # "none"
    /\ stream' = [stream EXCEPT ![n] = "none"]
    /\ lapsed' = lapsed \ {n}
    /\ UNCHANGED <<vars, view>>

Checker ==
    /\ CheckerSample \/ CheckerSweep
    /\ Unsettle
    /\ UNCHANGED <<stream, lapsed, rest, todo, summary>>

Clock ==
    /\ Tick
    /\ lapsed' = lapsed \cup {n \in Nodes : /\ stream[n] # "none"
                                            /\ now' - heard[n] > Timeout + EvictAfter}
    /\ UNCHANGED <<stream, view>>
-----------------------------------------------------------------------------
\* Mutated form: regions are listed by their active nodes.
ActiveRegions == {nodes[n].region : n \in {m \in Nodes : nodes[m].status = "active"}}

\* Registry.Regions
ListRegions == {nodes[n].region : n \in {m \in Nodes : Present(m)}}

\* Registry.ListByRegion
ListByRegion(r) == {n \in Nodes : RegionOf(n) = r}

RegionsBegin ==
    /\ rest = "idle"
    /\ rest' = "busy"
    /\ todo' = ListRegions
    /\ steady' = [n \in Nodes |-> RegionOf(n)]
    /\ UNCHANGED <<vars, stream, lapsed, summary>>

\* One turn of the loop.  The order of the regions does not matter here.
RegionsLookup(r) ==
    /\ r \in todo
    /\ todo' = todo \ {r}
    /\ summary' = [summary EXCEPT ![r] = ListByRegion(r)]
    /\ UNCHANGED <<vars, stream, lapsed, rest, steady>>

RegionsAnswer ==
    /\ rest = "busy" /\ todo = {}
    /\ rest' = "idle"
    /\ summary' = [r \in StoredRegions |-> {}]
    /\ steady' = [n \in Nodes |-> NoRegion]
    /\ UNCHANGED <<vars, stream, lapsed, todo>>

Reader == RegionsBegin \/ (\E r \in StoredRegions : RegionsLookup(r)) \/ RegionsAnswer

PNext ==
    \/ \E n \in Nodes : \/ \E region \in AgentRegions[n] : RegisterRPC(n, region)
                        \/ OpenStream(n) \/ StreamEvent(n) \/ Disconnect(n)
    \/ Checker \/ Clock \/ Reader

PSpec == PInit /\ [][PNext]_pvars

PFairSpec ==
    PSpec /\ WF_pvars(Clock) /\ WF_pvars(Checker /\ CheckerSample)
          /\ WF_pvars(Checker /\ CheckerSweep)
-----------------------------------------------------------------------------
(***************************************************************************)
(* A connected agent is missing from the registry only if, since it last   *)
(* registered, none of its events was accepted for longer than the timeout *)
(* and the eviction delay together.  Once that has happened no event       *)
(* brings it back (Heartbeat of an unknown node), only a reconnect.        *)
(***************************************************************************)
SteadyStreamVisible ==
    \A n \in Nodes : stream[n] # "none" /\ ~Present(n) => n \in lapsed

(***************************************************************************)
(* A node that stays in its region while /api/regions runs is counted once *)
(* and in that region, although every region is read under a lock of its   *)
(* own and other nodes move between them meanwhile.                        *)
(***************************************************************************)
SteadyNodesCounted ==
    rest = "busy" /\ todo = {} =>
        \A n \in Nodes : steady[n] # NoRegion =>
            {r \in StoredRegions : n \in summary[r]} = {steady[n]}

(***************************************************************************)
(* Dead nodes do not stay (#105).  Once the clock stands at its bound, the *)
(* checker has marked every node whose silence passed the timeout by then  *)
(* and has evicted every node it had marked more than EvictAfter before.   *)
(***************************************************************************)
SilentNodesLeave ==
    <>[](\A n \in Nodes : Present(n) =>
            \/ nodes[n].status = "active" /\ heard[n] + Timeout >= MaxTime
            \/ /\ nodes[n].status = "inactive"
               /\ nodes[n].inactiveSince + EvictAfter >= MaxTime)
=============================================================================
