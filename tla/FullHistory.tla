---------------------------- MODULE FullHistory ----------------------------
(***************************************************************************)
(* What the anomaly detector promises: it behaves as if it remembered      *)
(* every event it was ever told about.  An event raises an alarm for the   *)
(* first window that holds more events of its node and type than the       *)
(* window's threshold, and window statistics count the whole history.      *)
(***************************************************************************)
EXTENDS Integers, Sequences, FiniteSets, FiniteSetsExt

CONSTANTS Nodes, Types, Windows, MaxTime, MaxEvents

VARIABLES
    now,
    log,      \* the times of all events, per node and type
    alarm,    \* the window the last event alarmed for, 0 if none
    report    \* the last window statistics, per type and window

vars == <<now, log, alarm, report>>

Keys == Nodes \X Types

\* The events of a log that a window holds.
Inside(times, dur) == {i \in DOMAIN times : times[i] >= now - dur}
InWindow(times, dur) == Cardinality(Inside(times, dur))

Breached(times) ==
    {w \in DOMAIN Windows : InWindow(times, Windows[w].dur) > Windows[w].threshold}

First(S) == IF S = {} THEN 0 ELSE Min(S)

Init ==
    /\ now = 0
    /\ log = [k \in Keys |-> <<>>]
    /\ alarm = 0
    /\ report = [t \in Types |-> [w \in DOMAIN Windows |-> 0]]

Record(k) ==
    /\ Len(log[k]) < MaxEvents
    /\ log' = [log EXCEPT ![k] = Append(@, now)]
    /\ alarm' = First(Breached(log'[k]))
    /\ UNCHANGED <<now, report>>

\* An event is identified by its node and its position in that node's log.
WindowStats ==
    /\ report' = [t \in Types |-> [w \in DOMAIN Windows |->
           Cardinality(UNION {{n} \X Inside(log[<<n, t>>], Windows[w].dur) : n \in Nodes})]]
    /\ UNCHANGED <<now, log, alarm>>

Tick ==
    /\ now < MaxTime
    /\ now' = now + 1
    /\ UNCHANGED <<log, alarm, report>>

Next == (\E k \in Keys : Record(k)) \/ WindowStats \/ Tick

Spec == Init /\ [][Next]_vars
=============================================================================
