----------------------------- MODULE Aggregator -----------------------------
(***************************************************************************)
(* Aggregate mode (internal/aggregator): a poller fetches nodes, events    *)
(* and alerts of every regional collector, one goroutine per collector,    *)
(* and replaces that region's cached state when all three have arrived or  *)
(* one has failed.  PollOnce waits for all goroutines, so the next round   *)
(* starts only when the slowest has ended.  The REST handlers read the     *)
(* cache under the mutex at any time.                                      *)
(*                                                                         *)
(* An upstream's data is a version number; the three fetches of one poll   *)
(* may see different ones.  Upstreams have distinct regions.               *)
(***************************************************************************)
EXTENDS Integers

CONSTANTS
    Upstreams,
    MaxVersion   \* bound on the changes of an upstream's data

ASSUME AggregatorAssumption == MaxVersion \in Nat

VARIABLES
    health,   \* does the upstream answer ("up") or fail and hang ("down")
    version,  \* what its API would return now
    slot,     \* which of two sets of goroutines the current round uses
    round,    \* is PollOnce running
    poll,     \* the goroutines of both sets
    state,    \* Aggregator.state
    newest    \* history: the newest data each region showed before what it shows now

avars == <<health, version, slot, round, poll, state, newest>>

Slots == {0, 1}
None == -1
Versions == 0 .. MaxVersion

\* A regionState with nothing in it, as New and markUnreachable make them.
Empty == [reachable |-> "no", nodes |-> None, events |-> None, alerts |-> None]

Idle == [pc |-> "idle", st |-> Empty]

AInit ==
    /\ health \in [Upstreams -> {"up", "down"}]
    /\ version = [u \in Upstreams |-> 0]
    /\ slot = 0
    /\ round = "wait"
    /\ poll = [s \in Slots |-> [u \in Upstreams |-> Idle]]
    /\ state = [u \in Upstreams |-> Empty]
    /\ newest = [u \in Upstreams |-> None]
-----------------------------------------------------------------------------
\* Start's first poll, and every tick of the ticker while no poll runs.
PollOnce ==
    /\ round = "wait"
    /\ \A u \in Upstreams : poll[1 - slot][u].pc = "idle"
    /\ round' = "poll"
    /\ slot' = 1 - slot
    /\ poll' = [poll EXCEPT ![1 - slot] =
                  [u \in Upstreams |->
                      [pc |-> "nodes", st |-> [Empty EXCEPT !.reachable = "yes"]]]]
    /\ UNCHANGED <<health, version, state, newest>>

Following(pc) == CASE pc = "nodes" -> "events"
                   [] pc = "events" -> "alerts"
                   [] pc = "alerts" -> "store"

\* fetchJSON of /api/nodes, /api/events, /api/alerts, in this order.
Fetch(s, u) ==
    LET g == poll[s][u]
    IN  /\ g.pc \in {"nodes", "events", "alerts"} /\ health[u] = "up"
        /\ poll' = [poll EXCEPT ![s][u] =
                      [pc |-> Following(g.pc),
                       st |-> [g.st EXCEPT ![g.pc] = version[u]]]]
        /\ UNCHANGED <<health, version, slot, round, state, newest>>

\* Mutated form: the last data stays in place next to the error.
MarkedUnreachable(u) == [state[u] EXCEPT !.reachable = "no"]

markUnreachable(u) == Empty

\* Mutated form: requests to an upstream that hangs have no timeout.
FetchHangs(s, u) == FALSE

\* An error, a status other than 200, a bad body or the client's 5s timeout.
FetchFails(s, u) ==
    /\ poll[s][u].pc \in {"nodes", "events", "alerts"} /\ health[u] = "down"
    /\ poll' = [poll EXCEPT ![s][u] = [pc |-> "store", st |-> markUnreachable(u)]]
    /\ UNCHANGED <<health, version, slot, round, state, newest>>

\* The goroutine replaces the region's state under the mutex and ends.
Store(s, u) ==
    LET st == poll[s][u].st
    IN  /\ poll[s][u].pc = "store"
        /\ state' = [state EXCEPT ![u] = st]
        /\ newest' = [newest EXCEPT ![u] = IF state[u].alerts > @ THEN state[u].alerts ELSE @]
        /\ poll' = [poll EXCEPT ![s][u] = Idle]
        /\ UNCHANGED <<health, version, slot, round>>

\* Mutated form: PollOnce does not wait for its goroutines.
NoWait == TRUE

\* wg.Wait()
AllDone == \A u \in Upstreams : poll[slot][u].pc = "idle"

PollEnds ==
    /\ round = "poll" /\ AllDone
    /\ round' = "wait"
    /\ UNCHANGED <<health, version, slot, poll, state, newest>>

\* The upstream's data changes.
Change(u) ==
    /\ version[u] < MaxVersion
    /\ version' = [version EXCEPT ![u] = @ + 1]
    /\ UNCHANGED <<health, slot, round, poll, state, newest>>

\* The upstream, or the way to it, fails or comes back.
Toggle(u) ==
    /\ health' = [health EXCEPT ![u] = IF @ = "up" THEN "down" ELSE "up"]
    /\ UNCHANGED <<version, slot, round, poll, state, newest>>

ANext ==
    \/ PollOnce \/ PollEnds
    \/ \E s \in Slots, u \in Upstreams : Fetch(s, u) \/ FetchFails(s, u) \/ Store(s, u)
    \/ \E u \in Upstreams : Change(u) \/ Toggle(u)

ASpec == AInit /\ [][ANext]_avars

\* The ticker ticks, goroutines run, and the HTTP client's timeout ends every
\* request.  Upstreams may flap for ever.
Fairness ==
    /\ WF_avars(PollOnce) /\ WF_avars(PollEnds)
    /\ \A s \in Slots, u \in Upstreams :
          /\ WF_avars(Fetch(s, u) \/ FetchFails(s, u))
          /\ WF_avars(Store(s, u))

AFairSpec == ASpec /\ Fairness
-----------------------------------------------------------------------------
RegionState == [reachable: {"yes", "no"}, nodes: Versions \cup {None},
                events: Versions \cup {None}, alerts: Versions \cup {None}]

ATypeOK ==
    /\ health \in [Upstreams -> {"up", "down"}]
    /\ version \in [Upstreams -> Versions]
    /\ slot \in Slots /\ round \in {"wait", "poll"}
    /\ poll \in [Slots -> [Upstreams ->
                   [pc: {"idle", "nodes", "events", "alerts", "store"},
                    st: RegionState]]]
    /\ state \in [Upstreams -> RegionState]
    /\ newest \in [Upstreams -> Versions \cup {None}]

\* What Nodes() shows of a region, and the data Regions() counts.
NodesShown(u) == IF state[u].reachable = "yes" THEN state[u].nodes ELSE None
RegionsCounted(u) == state[u].nodes

(***************************************************************************)
(* Nodes() skips unreachable regions and Regions() does not: /api/nodes    *)
(* and the counts of /api/regions still agree, because a region that could *)
(* not be polled completely keeps no data.                                 *)
(***************************************************************************)
ViewsAgree == \A u \in Upstreams : NodesShown(u) = RegionsCounted(u)

(***************************************************************************)
(* A reachable region shows one poll: its alerts are not older than its    *)
(* events, nor those than its nodes, and none of them is older than any    *)
(* data the region has shown before, however slow a poll was (PollOnce).   *)
(***************************************************************************)
CacheNeverGoesBack ==
    \A u \in Upstreams :
        state[u].reachable = "yes" =>
            /\ newest[u] <= state[u].nodes
            /\ 0 <= state[u].nodes
            /\ state[u].nodes <= state[u].events
            /\ state[u].events <= state[u].alerts
            /\ state[u].alerts <= version[u]

(***************************************************************************)
(* A region that answers from some time on is shown from some time on, and *)
(* with its current nodes, events and alerts once these no longer change   *)
(* (MaxVersion bounds the changes), even if other regions hang or flap for *)
(* ever and every round of PollOnce waits for them.                        *)
(***************************************************************************)
HealthyRegionShown ==
    \A u \in Upstreams :
        <>[](health[u] = "up") =>
            <>[](state[u] = [reachable |-> "yes", nodes |-> version[u],
                             events |-> version[u], alerts |-> version[u]])
=============================================================================
