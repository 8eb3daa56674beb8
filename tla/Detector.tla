------------------------------ MODULE Detector ------------------------------
(***************************************************************************)
(* The sliding-window anomaly detector (internal/anomaly).  It keeps, per  *)
(* node and event type, the times of recent events only: every Record      *)
(* prunes the key it touches, and a periodic gc drops whole keys that have *)
(* gone idle.  Record, WindowStats and gc each hold the mutex throughout   *)
(* and read the (monotonic) clock under it, so each is one action.         *)
(*                                                                         *)
(* A key that is not in the map is an empty sequence: Record never leaves  *)
(* one behind, since the time it has just appended is never pruned.  A     *)
(* window's label in the statistics is its index here; the labels of       *)
(* DefaultWindows, the only windows the collector uses, are distinct.      *)
(***************************************************************************)
EXTENDS Integers, Sequences, FiniteSets, FiniteSetsExt

CONSTANTS
    Nodes, Types,
    Windows,    \* sequence of [dur, threshold]
    MaxTime,    \* bound on the clock
    MaxEvents   \* bound on the events of one key

ASSUME DetectorAssumption ==
    /\ Windows \in Seq([dur: Nat \ {0}, threshold: Nat])
    /\ Len(Windows) > 0
    /\ MaxTime \in Nat /\ MaxEvents \in Nat
    /\ IsFiniteSet(Nodes)

VARIABLES
    now,
    timestamps,  \* Detector.timestamps
    alarm,       \* the window the last Record alerted for, 0 for no alert
    report,      \* what the last WindowStats returned
    log          \* history: the times of all events ever recorded

dvars == <<now, timestamps, alarm, report, log>>

Keys == Nodes \X Types

DInit ==
    /\ now = 0
    /\ timestamps = [k \in Keys |-> <<>>]
    /\ alarm = 0
    /\ report = [t \in Types |-> [w \in DOMAIN Windows |-> 0]]
    /\ log = [k \in Keys |-> <<>>]
-----------------------------------------------------------------------------
\* Mutated form: the first window is taken for the longest.
FirstDuration == Windows[1].dur

maxDuration == Max({Windows[w].dur : w \in DOMAIN Windows})

\* The loop of prune stops at the first time that is not before the cutoff.
PruneStopsAt(ts, i) ==
    /\ \A j \in 1 .. i : ts[j] < now - maxDuration
    /\ i = Len(ts) \/ ts[i + 1] >= now - maxDuration

\* The loop over a key's times: !t.Before(now.Add(-dur)).
Within(ts, dur) == {i \in DOMAIN ts : ts[i] >= now - dur}

countWithin(ts, dur) == Cardinality(Within(ts, dur))

ExceededWindows(ts) ==
    {w \in DOMAIN Windows : countWithin(ts, Windows[w].dur) > Windows[w].threshold}

\* One alert, for the first window exceeded, or none.
Record(k) ==
    /\ Len(log[k]) < MaxEvents
    /\ \E i \in 0 .. Len(timestamps[k]) + 1 :
          LET ts == Append(timestamps[k], now)
          IN  /\ PruneStopsAt(ts, i)
              /\ timestamps' = [timestamps EXCEPT ![k] = SubSeq(ts, i + 1, Len(ts))]
    /\ LET exceeded == ExceededWindows(timestamps'[k])
       IN  alarm' = IF exceeded = {} THEN 0 ELSE Min(exceeded)
    /\ log' = [log EXCEPT ![k] = Append(@, now)]
    /\ UNCHANGED <<now, report>>

\* The counts of a type's keys, added up: the number of their times.
WindowStats ==
    /\ report' = [t \in Types |-> [w \in DOMAIN Windows |->
           Cardinality(UNION {{n} \X Within(timestamps[<<n, t>>], Windows[w].dur) : n \in Nodes})]]
    /\ UNCHANGED <<now, timestamps, alarm, log>>

\* Mutated form: no key is ever found idle.
NeverIdle(ts) == FALSE

Idle(ts) == ts # <<>> /\ ts[Len(ts)] < now - maxDuration

gc ==
    /\ timestamps' = [k \in Keys |-> IF Idle(timestamps[k]) THEN <<>>
                                                            ELSE timestamps[k]]
    /\ UNCHANGED <<now, alarm, report, log>>

Tick ==
    /\ now < MaxTime
    /\ now' = now + 1
    /\ UNCHANGED <<timestamps, alarm, report, log>>

DNext == (\E k \in Keys : Record(k)) \/ WindowStats \/ gc \/ Tick

DSpec == DInit /\ [][DNext]_dvars

\* StartGC's ticker and the clock go on; events need not.
DFairSpec == DSpec /\ WF_dvars(gc) /\ WF_dvars(Tick)
-----------------------------------------------------------------------------
\* The specification of a detector that forgets nothing.
History == INSTANCE FullHistory WITH now <- now, log <- log, alarm <- alarm, report <- report

(***************************************************************************)
(* Pruning and garbage collection are invisible: every alert of Record and *)
(* every answer of WindowStats is the one a detector with the complete     *)
(* history would give.                                                     *)
(***************************************************************************)
RemembersEverything == History!Spec

(***************************************************************************)
(* A key whose node has stopped sending leaves the map (StartGC), so node  *)
(* ids that come and go do not leak entries.                               *)
(***************************************************************************)
IdleKeysLeave ==
    \A k \in Keys, n \in 0 .. MaxEvents :
        (Len(log[k]) = n /\ now + maxDuration < MaxTime)
            ~> (timestamps[k] = <<>> \/ Len(log[k]) # n)
=============================================================================
