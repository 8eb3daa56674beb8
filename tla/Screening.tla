----------------------------- MODULE Screening ------------------------------
(***************************************************************************)
(* What StreamEvents decides about the events of one stream: the stream's  *)
(* rate limiter comes first, before validation; an event it admits and     *)
(* that is valid is evaluated by the rules engine and then recorded by the *)
(* anomaly detector.  The engine is set up before the collector serves.    *)
(* The detector is shared: WindowStats and gc come from other goroutines,  *)
(* between any two events.  Storing and answering are Ingest's.            *)
(***************************************************************************)
EXTENDS TokenBucket, Alerting, Detector

\* The detector's types are those of the events (eventTypeName).
ASSUME ScreeningAssumption == \A e \in Events : e.type \in Types

svars == <<bvars, vars, dvars>>

SInit == BInit /\ Init /\ DInit

\* serve reads the rules before it opens a stream.
StartUp ==
    /\ \/ StartWithoutRules \/ LoadFails
       \/ \E rs \in Files : StartWithRules(rs)
    /\ UNCHANGED <<bvars, dvars>>

\* limiter.allow() = false: the rest of the iteration is skipped.
DropEvent ==
    /\ phase = "serving"
    /\ Throttle
    /\ UNCHANGED <<vars, dvars>>

\* An event is admitted and then fails validateKernelEvent, or names another
\* node than the stream's token: it has used up the token.
RejectEvent ==
    /\ phase = "serving"
    /\ Admit
    /\ UNCHANGED <<vars, dvars>>

\* engine.Evaluate and detector.Record, each whatever the other says.
ScreenEvent(n, e) ==
    /\ Admit
    /\ Evaluate(e)
    /\ Record(<<n, e.type>>)

\* Handlers of /api/stats/windows, and StartGC's ticker.
Others == phase = "serving" /\ (WindowStats \/ gc) /\ UNCHANGED <<bvars, vars>>

\* Both clocks are the process's monotonic one.
Pass == phase = "serving" /\ Elapse /\ Tick /\ UNCHANGED vars

Watch == phase = "serving" /\ Observe /\ UNCHANGED <<vars, dvars>>

SNext ==
    \/ StartUp \/ DropEvent \/ RejectEvent
    \/ \E n \in Nodes, e \in Events : ScreenEvent(n, e)
    \/ Others \/ Pass \/ Watch

SSpec == SInit /\ [][SNext]_svars

\* StartGC's ticker and the clock go on; events need not.
SFairSpec ==
    /\ SSpec
    /\ WF_svars(phase = "serving" /\ gc /\ UNCHANGED <<bvars, vars>>)
    /\ WF_svars(Pass)
=============================================================================
