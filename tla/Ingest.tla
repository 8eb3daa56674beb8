------------------------------- MODULE Ingest -------------------------------
(***************************************************************************)
(* The collector's ingest path: the StreamEvents handler of every agent    *)
(* stream (internal/receiver) writing to the shared event store            *)
(* (internal/store).  A handler takes one event at a time, gates it,       *)
(* saves it, raises alerts for it, saves and dispatches those, and answers *)
(* with one acknowledgement.                                               *)
(*                                                                         *)
(* Every store write runs on a goroutine of its own (runWithContext): the  *)
(* handler waits for it at most storeOpTimeout, and a write nobody waits   *)
(* for any longer still commits, fails or hangs by itself.                 *)
(*                                                                         *)
(* Record <<s, i, k>> is the i-th event of stream s for k = 0, and its     *)
(* k-th alert otherwise.  What the limiter, the rule engine and the        *)
(* detector decide is an input here; other modules model it.               *)
(***************************************************************************)
EXTENDS Integers, Sequences, FiniteSets

CONSTANTS
    Streams,     \* StreamEvents calls (a reconnecting agent opens a new one)
    Nodes,       \* node ids
    Types,       \* event types
    Identity,    \* the node id each stream's token resolves to
    NoIdentity,  \* the identity of a stream when authentication is disabled
    Sent,        \* the events each stream's agent may send
    MaxEvents,   \* bound on the events of one stream
    MaxTotal,    \* bound on the events of all streams
    MaxAlerts,   \* bound on the alerts one event raises
    MaxCrashes   \* bound on the crashes of the collector

Event == [node: Nodes, type: Types, valid: BOOLEAN]

ASSUME IngestAssumption ==
    /\ Identity \in [Streams -> Nodes]
    /\ NoIdentity \notin Nodes
    /\ MaxEvents \in Nat /\ MaxTotal \in Nat /\ MaxAlerts \in Nat /\ MaxCrashes \in Nat

ASSUME SentAssumption == Sent \in [Streams -> SUBSET Event]

ASSUME FinitelyMany == IsFiniteSet(Streams)

VARIABLES
    authed,      \* authedNodeID of every stream
    received,    \* the events each stream has received
    pc,          \* where each handler is
    saveOk,      \* its local saveOk
    alert,       \* index of the alert it is saving
    raised,      \* how many alerts each event raised (len(allAlerts))
    gone,        \* is the stream's context done
    acks,        \* the acknowledgements sent on each stream
    write,       \* what has become of the goroutine writing each record
    disk,        \* what BadgerDB holds of each record
    counters,    \* Store.counters
    heartbeats,  \* events that reached Registry.Heartbeat
    dispatched,  \* alerts handed to Dispatcher.DispatchAsync
    abandoned,   \* history: events whose SaveEvent failed since start-up
    crashes

local == <<authed, received, pc, saveOk, alert, raised, gone, acks>>
store == <<write, disk, counters, abandoned>>
vars == <<local, store, heartbeats, dispatched, crashes>>

Records == Streams \X (1 .. MaxEvents) \X (0 .. MaxAlerts)
EventIds == Streams \X (1 .. MaxEvents)

CurrentId(s) == <<s, Len(received[s])>>

\* The k-th record of the event stream s is working on.
Current(s, k) == <<s, Len(received[s]), k>>
TypeOf(id) == received[id[1]][id[2]].type

Init ==
    /\ authed \in {Identity, [s \in Streams |-> NoIdentity]}
    /\ received = [s \in Streams |-> <<>>]
    /\ pc = [s \in Streams |-> "recv"]
    /\ saveOk = [s \in Streams |-> TRUE]
    /\ alert = [s \in Streams |-> 0]
    /\ raised = [id \in EventIds |-> 0]
    /\ gone = [s \in Streams |-> FALSE]
    /\ acks = [s \in Streams |-> <<>>]
    /\ write = [r \in Records |-> "none"]
    /\ disk = [r \in Records |-> "none"]
    /\ counters = [t \in Types |-> 0]
    /\ heartbeats = {}
    /\ dispatched = {}
    /\ abandoned = {}
    /\ crashes = 0
-----------------------------------------------------------------------------
(* The handler's gates, in the order of the code. *)

\* Mutated form: the claimed node id is not compared with the token's.
RejectedUnlessValid(s, e, allowed) == ~allowed \/ ~e.valid

Rejected(s, e, allowed) ==
    \/ ~allowed                                          \* limiter.allow()
    \/ ~e.valid                                          \* validateKernelEvent
    \/ authed[s] # NoIdentity /\ e.node # authed[s]

\* runWithContext: the write starts on a goroutine of its own.
Spawn(r) == write' = [write EXCEPT ![r] = "running"]

Receive(s, e, allowed) ==
    /\ pc[s] = "recv" /\ ~gone[s]
    /\ Len(received[s]) < MaxEvents
    /\ Cardinality({id \in EventIds : id[2] <= Len(received[id[1]])}) < MaxTotal
    /\ received' = [received EXCEPT ![s] = Append(@, e)]
    /\ IF Rejected(s, e, allowed)
       THEN /\ pc' = [pc EXCEPT ![s] = "ack"]
            /\ saveOk' = [saveOk EXCEPT ![s] = FALSE]
            /\ UNCHANGED <<write, heartbeats>>
       ELSE /\ pc' = [pc EXCEPT ![s] = "event"]
            /\ saveOk' = [saveOk EXCEPT ![s] = TRUE]
            /\ heartbeats' = heartbeats \cup {<<s, Len(received'[s])>>}
            /\ Spawn(<<s, Len(received'[s]), 0>>)
    /\ alert' = [alert EXCEPT ![s] = 0]
    /\ UNCHANGED <<authed, raised, gone, acks, disk, counters, abandoned,
                   dispatched, crashes>>

\* for _, alert := range allAlerts
MoreAlerts(i, k) == i <= k

\* The handler has k alerts in allAlerts and goes on with number i.
SaveAlertFrom(s, i, k) ==
    /\ raised' = [raised EXCEPT ![CurrentId(s)] = k]
    /\ IF MoreAlerts(i, k)
       THEN /\ pc' = [pc EXCEPT ![s] = "alert"]
            /\ alert' = [alert EXCEPT ![s] = i]
            /\ Spawn(Current(s, i))
       ELSE /\ pc' = [pc EXCEPT ![s] = "ack"]
            /\ UNCHANGED <<alert, write>>

\* Mutated form: every call counts, whatever became of the write.
CountAlways(s, stored) == [counters EXCEPT ![TypeOf(Current(s, 0))] = @ + 1]

\* The end of SaveEvent: the counter moves only when the write succeeded.
Count(s, stored) ==
    IF stored THEN [counters EXCEPT ![TypeOf(Current(s, 0))] = @ + 1]
              ELSE counters

\* SaveEvent returns; the engine and the detector are then asked for alerts
\* even when the event could not be saved.
EventSaved(s, stored) ==
    /\ pc[s] = "event"
    /\ saveOk' = [saveOk EXCEPT ![s] = stored]
    /\ counters' = Count(s, stored)
    /\ abandoned' = IF stored THEN abandoned
                    ELSE abandoned \cup {CurrentId(s)}
    /\ \E k \in 0 .. MaxAlerts : SaveAlertFrom(s, 1, k)
    /\ UNCHANGED <<authed, received, gone, acks, disk, heartbeats,
                   dispatched, crashes>>

\* Mutated form: a failed SaveAlert is only logged.
IgnoreOutcome(s, stored) == saveOk[s]

\* saveOk after a SaveAlert.
Outcome(s, stored) == saveOk[s] /\ stored

\* Mutated form: an alert that could not be saved is not notified either.
DispatchIfStored(s, stored) ==
    IF stored THEN dispatched \cup {Current(s, alert[s])} ELSE dispatched

\* The alert is handed to DispatchAsync whether or not it was saved.
Dispatch(s, stored) == dispatched \cup {Current(s, alert[s])}

\* SaveAlert returns, the alert is dispatched, the loop goes on.
AlertSaved(s, stored) ==
    /\ pc[s] = "alert"
    /\ saveOk' = [saveOk EXCEPT ![s] = Outcome(s, stored)]
    /\ dispatched' = Dispatch(s, stored)
    /\ SaveAlertFrom(s, alert[s] + 1, raised[CurrentId(s)])
    /\ UNCHANGED <<authed, received, gone, acks, disk, counters, abandoned,
                   heartbeats, crashes>>

Awaited(s) == Current(s, IF pc[s] = "event" THEN 0 ELSE alert[s])

\* runWithContext receives the goroutine's result.
WriteReturns(s) ==
    /\ pc[s] \in {"event", "alert"}
    /\ \E stored \in BOOLEAN :
          /\ write[Awaited(s)] = IF stored THEN "committed" ELSE "failed"
          /\ EventSaved(s, stored) \/ AlertSaved(s, stored)

\* Mutated form: the handler waits for the goroutine only.
NoTimeout(s) == FALSE

\* storeOpTimeout, or the end of the stream's context, comes first.  Go's
\* select may take this branch even when the result is already there.
WriteTimesOut(s) == EventSaved(s, FALSE) \/ AlertSaved(s, FALSE)

\* Mutated form: a failed save ends the iteration without an answer.
AnswerIfSaved(s) == IF saveOk[s] THEN Append(acks[s], TRUE) ELSE acks[s]

\* stream.Send(&pb.EventAck{Ok: saveOk})
Answer(s) == Append(acks[s], saveOk[s])

SendAck(s) ==
    /\ pc[s] = "ack"
    /\ IF gone[s]
       THEN pc' = [pc EXCEPT ![s] = "done"] /\ UNCHANGED acks
       ELSE /\ pc' = [pc EXCEPT ![s] = "recv"]
            /\ acks' = [acks EXCEPT ![s] = Answer(s)]
    /\ UNCHANGED <<authed, received, saveOk, alert, raised, gone, store,
                   heartbeats, dispatched, crashes>>

\* Recv sees the end of the stream (io.EOF), its failure or its context done.
StreamEnds(s) ==
    /\ pc[s] = "recv"
    /\ pc' = [pc EXCEPT ![s] = "done"]
    /\ gone' = [gone EXCEPT ![s] = TRUE]
    /\ UNCHANGED <<authed, received, saveOk, alert, raised, acks, store,
                   heartbeats, dispatched, crashes>>
-----------------------------------------------------------------------------
(* The store's goroutines and the world. *)

Commit(r) ==
    /\ write[r] = "running"
    /\ write' = [write EXCEPT ![r] = "committed"]
    /\ disk' = [disk EXCEPT ![r] = "live"]
    /\ UNCHANGED <<local, counters, abandoned, heartbeats, dispatched, crashes>>

UpdateFails(r) ==
    /\ write[r] = "running"
    /\ write' = [write EXCEPT ![r] = "failed"]
    /\ UNCHANGED <<local, disk, counters, abandoned, heartbeats, dispatched,
                   crashes>>

\* An event's TTL (DefaultRetention) has passed: reads no longer see it.  That
\* of an alert is left out, as nothing here reads stored alerts again.
Expire(r) ==
    /\ r[3] = 0 /\ disk[r] = "live"
    /\ disk' = [disk EXCEPT ![r] = "expired"]
    /\ UNCHANGED <<local, write, counters, abandoned, heartbeats, dispatched,
                   crashes>>

\* The agent's connection breaks.
Disconnect(s) ==
    /\ ~gone[s] /\ pc[s] # "done"
    /\ gone' = [gone EXCEPT ![s] = TRUE]
    /\ UNCHANGED <<authed, received, pc, saveOk, alert, raised, acks, store,
                   heartbeats, dispatched, crashes>>

StoredOn(d, t, states) ==
    {id \in EventIds : /\ id[2] <= Len(received[id[1]])
                       /\ TypeOf(id) = t
                       /\ d[<<id[1], id[2], 0>>] \in states}

\* loadCounters: a scan of the events found on disk.
loadCounters(d) == [t \in Types |-> Cardinality(StoredOn(d, t, {"live"}))]

\* The process dies and starts again on the same directory.  A transaction
\* that was running has either reached the log or not.  Every open stream is
\* gone; one that has received nothing is taken for one opened afterwards, so
\* that the collector goes on counting from what it has loaded.
Crash ==
    /\ crashes < MaxCrashes
    /\ crashes' = crashes + 1
    /\ \E done \in SUBSET {r \in Records : write[r] = "running"} :
          /\ disk' = [r \in Records |-> IF r \in done THEN "live" ELSE disk[r]]
          /\ counters' = loadCounters(disk')
    /\ write' = [r \in Records |-> IF write[r] = "running" THEN "none"
                                                           ELSE write[r]]
    /\ abandoned' = {}
    /\ pc' = [s \in Streams |-> IF received[s] = <<>> THEN pc[s] ELSE "done"]
    /\ gone' = [s \in Streams |-> gone[s] \/ received[s] # <<>>]
    /\ UNCHANGED <<authed, received, saveOk, alert, raised, acks, heartbeats,
                   dispatched>>

Handler(s) ==
    \/ \E e \in Sent[s], allowed \in BOOLEAN : Receive(s, e, allowed)
    \/ WriteReturns(s)
    \/ WriteTimesOut(s)
    \/ SendAck(s)
    \/ StreamEnds(s)

Next ==
    \/ \E s \in Streams : Handler(s) \/ Disconnect(s)
    \/ \E r \in Records : Commit(r) \/ UpdateFails(r) \/ Expire(r)
    \/ Crash

Spec == Init /\ [][Next]_vars

\* The Go scheduler runs every handler and timer; BadgerDB owes nothing.
Fairness ==
    \A s \in Streams : /\ WF_vars(WriteReturns(s) \/ WriteTimesOut(s))
                       /\ WF_vars(SendAck(s))

FairSpec == Spec /\ Fairness
-----------------------------------------------------------------------------
Working(s) == pc[s] \in {"event", "alert", "ack"}

(***************************************************************************)
(* An EventAck names no event, so the agent can only match them by order:  *)
(* every received event is answered exactly once before the next one is    *)
(* taken, on every path of StreamEvents that continues the loop.           *)
(***************************************************************************)
OneAckPerEvent ==
    \A s \in Streams :
        LET unanswered == Len(received[s]) - Len(acks[s])
        IN  unanswered \in IF Working(s) THEN {1}
                           ELSE IF pc[s] = "done" THEN {0, 1} ELSE {0}

(***************************************************************************)
(* A positive acknowledgement means that the event and every alert raised  *)
(* for it are in the store, and stay there until their TTL: no timeout,    *)
(* failed write, lost connection or crash of the process takes it back.    *)
(***************************************************************************)
AckedIsDurable ==
    \A s \in Streams : \A i \in 1 .. Len(acks[s]) :
        acks[s][i] => \A k \in 0 .. raised[<<s, i>>] :
                            disk[<<s, i, k>>] # "none"

\* What validateKernelEvent or the check of the token's node refuses.
Foreign(s, e) == ~e.valid \/ authed[s] \notin {NoIdentity, e.node}

NoTrace(s, i) ==
    /\ <<s, i>> \notin heartbeats
    /\ \A k \in 0 .. MaxAlerts : /\ write[<<s, i, k>>] = "none"
                                 /\ disk[<<s, i, k>>] = "none"
                                 /\ <<s, i, k>> \notin dispatched

(***************************************************************************)
(* An event that fails validation, or that names another node than the one *)
(* its stream authenticated as, never reaches the registry, the store or   *)
(* the notifier, not even through a late write.                            *)
(***************************************************************************)
RejectedLeavesNoTrace ==
    \A s \in Streams : \A i \in 1 .. Len(received[s]) :
        Foreign(s, received[s][i]) => NoTrace(s, i)

(***************************************************************************)
(* By the time an event is answered every alert it raised, and no other,   *)
(* has been handed to the dispatcher, also when the store refused it.      *)
(***************************************************************************)
AlertsDispatched ==
    \A s \in Streams : \A i \in 1 .. Len(acks[s]) :
        \A k \in 1 .. MaxAlerts :
            <<s, i, k>> \in dispatched <=> k <= raised[<<s, i>>]

\* The events whose SaveEvent has not reported that they were stored.
Unreported ==
    abandoned \cup {CurrentId(s) : s \in {x \in Streams : pc[x] = "event"}}

(***************************************************************************)
(* The counters behind /api/stats agree with the store.  Every event that  *)
(* can be read is counted, unless its SaveEvent is still running or        *)
(* reported a failure although the write committed after all; nothing else *)
(* is counted but events that have expired since the collector started.    *)
(***************************************************************************)
CountersWithinDrift ==
    \A t \in Types :
        /\ Cardinality(StoredOn(disk, t, {"live"}) \ Unreported) <= counters[t]
        /\ counters[t] <= Cardinality(StoredOn(disk, t, {"live", "expired"}) \ Unreported)

(***************************************************************************)
(* Every event taken from a stream is answered, or the stream ends, even   *)
(* if BadgerDB never completes a single write (runWithContext, #155).      *)
(***************************************************************************)
EveryEventAnswered ==
    \A s \in Streams : Working(s) ~> ~Working(s)
=============================================================================
