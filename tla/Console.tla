------------------------------- MODULE Console -------------------------------
(***************************************************************************)
(* A page of the web console polling the collector (usePolling.ts, api.ts, *)
(* Events.tsx) and the handler that answers it (exporter/api.go), on top   *)
(* of EventLog.                                                            *)
(*                                                                         *)
(* The hook starts a request when its effect runs and on every tick of its *)
(* timer, unless one of the same effect is in flight.  The request asks    *)
(* for the view of the fetcher that fetcherRef holds, which lags behind    *)
(* the view the user has chosen until React has run the effects of that    *)
(* render.  Under StrictMode the effect of a page is torn down and run     *)
(* again with the page's state kept, and the first effect's request stays  *)
(* in flight.                                                              *)
(*                                                                         *)
(* What an unmounted page has asked for can reach nothing any more.        *)
(***************************************************************************)
EXTENDS EventLog

CONSTANTS
    Views,        \* the node filters and limits a user may choose
    FirstView,    \* what the page starts with
    MaxMounts, MaxChanges, MaxFailures  \* bounds on what users and faults do

ASSUME ConsoleAssumption ==
    /\ FirstView \in Views
    /\ \A v \in Views : v.limit \in Nat \ {0}
    /\ MaxMounts \in Nat /\ MaxChanges \in Nat /\ MaxFailures \in Nat

VARIABLES
    mounted,
    effect,    \* which run of the polling effect is the current one
    view,      \* node and limit as chosen
    fetcher,   \* the view fetcherRef.current asks for
    running,   \* the current effect's guard
    requests,  \* the requests in flight
    data, error, loading,               \* the hook's state
    mounts, changes, failures

page == <<mounted, effect, view, fetcher, running, requests, data, error, loading>>
bounds == <<mounts, changes, failures>>
cvars == <<logVars, page, bounds>>

\* A fetch of GET /api/events, and how it is answered on a snapshot S.
Waiting(v) == [view |-> v, events |-> <<>>, snapshot |-> {}, answered |-> FALSE]
Answered(v, S) == [view |-> v, events |-> ListEvents(S, v), snapshot |-> S, answered |-> TRUE]

Nothing == Waiting(FirstView)

CInit ==
    /\ LogInit
    /\ mounted = FALSE /\ effect = 0 /\ view = FirstView /\ fetcher = FirstView
    /\ running = FALSE /\ requests = {}
    /\ data = Nothing /\ error = FALSE /\ loading = TRUE
    /\ mounts = 0 /\ changes = 0 /\ failures = 0

\* fetcherRef.current(), from the effect of the given number.
Ask(e, v) == requests \cup {[effect |-> e, answer |-> Waiting(v)]}
-----------------------------------------------------------------------------
\* The user opens the tab: fresh state, and the effect runs at once.
Mount ==
    /\ ~mounted /\ mounts < MaxMounts
    /\ mounts' = mounts + 1
    /\ mounted' = TRUE /\ effect' = 1 /\ running' = TRUE
    /\ requests' = Ask(1, FirstView)
    /\ UNCHANGED <<logVars, view, fetcher, data, error, loading, changes, failures>>

\* StrictMode's second run of the effect, after the clean-up of the first.
RunEffectAgain ==
    /\ mounted /\ effect = 1
    /\ effect' = 2 /\ running' = TRUE
    /\ requests' = Ask(2, fetcher)
    /\ UNCHANGED <<logVars, mounted, view, fetcher, data, error, loading, bounds>>

Unmount ==
    /\ mounted
    /\ mounted' = FALSE /\ effect' = 0 /\ view' = FirstView /\ fetcher' = FirstView
    /\ running' = FALSE /\ requests' = {}
    /\ data' = Nothing /\ error' = FALSE /\ loading' = TRUE
    /\ UNCHANGED <<logVars, bounds>>

ChangeFilter(v) ==
    /\ mounted /\ changes < MaxChanges /\ v # view
    /\ changes' = changes + 1
    /\ view' = v
    /\ UNCHANGED <<logVars, mounted, effect, fetcher, running, requests, data, error,
                   loading, mounts, failures>>

\* Mutated form: the first fetcher is kept.
KeepFetcher == fetcher

\* fetcherRef.current = fetcher, after every render.
LatestFetcher == view

UpdateRef ==
    /\ mounted /\ fetcher # view
    /\ fetcher' = LatestFetcher
    /\ UNCHANGED <<logVars, mounted, effect, view, running, requests, data, error,
                   loading, bounds>>

\* Mutated form: ticks do not look whether a request is in flight.
MayAlwaysRun == TRUE

\* if (running) return
MayRun == ~running

Tick ==
    /\ mounted /\ MayRun
    /\ running' = TRUE
    /\ requests' = Ask(effect, fetcher)
    /\ UNCHANGED <<logVars, mounted, effect, view, fetcher, data, error, loading, bounds>>

\* GET /api/events: ListEvents on a snapshot taken while the request is open.
Serve(q) ==
    /\ q \in requests /\ ~q.answer.answered
    /\ requests' = (requests \ {q}) \cup
          {[q EXCEPT !.answer = Answered(q.answer.view, visible)]}
    /\ UNCHANGED <<logVars, mounted, effect, view, fetcher, running, data, error,
                   loading, bounds>>

\* Mutated form: the clean-up does not cancel.
NeverCancelled(q) == FALSE

Cancelled(q) == q.effect # effect

\* finally: each effect has a guard of its own.
RunningAfter(q, ok) == running /\ q.effect # effect

\* The fetch resolves with an answer (ok) or rejects.
Settle(q, ok) ==
    /\ requests' = requests \ {q}
    /\ running' = RunningAfter(q, ok)
    /\ data' = IF ~Cancelled(q) /\ ok THEN q.answer ELSE data
    /\ error' = IF Cancelled(q) THEN error ELSE ~ok
    /\ loading' = (loading /\ Cancelled(q))
    /\ UNCHANGED <<logVars, mounted, effect, view, fetcher, mounts, changes>>

Resolve(q) ==
    /\ q \in requests /\ q.answer.answered
    /\ Settle(q, TRUE)
    /\ UNCHANGED failures

\* An error status, a lost connection, or the abort after TIMEOUT_MS.  With
\* the abort the handler's context ends and its answer reaches nobody.
Reject(q) ==
    /\ q \in requests /\ failures < MaxFailures
    /\ failures' = failures + 1
    /\ Settle(q, FALSE)

Store == /\ SaveEvent \/ \E i \in Ids : Commit(i)
         /\ UNCHANGED <<page, bounds>>

User == Mount \/ RunEffectAgain \/ Unmount \/ \E v \in Views : ChangeFilter(v)

CNext ==
    \/ Store \/ User \/ UpdateRef \/ Tick
    \/ \E q \in requests : Serve(q) \/ Resolve(q) \/ Reject(q)

CSpec == CInit /\ [][CNext]_cvars

\* The browser runs its timers, effects and callbacks, and the collector
\* answers what is not given up.
CFairSpec ==
    CSpec /\ WF_cvars(UpdateRef) /\ WF_cvars(Tick)
          /\ WF_cvars(\E q \in requests : Serve(q))
          /\ WF_cvars(\E q \in requests : Resolve(q))
-----------------------------------------------------------------------------
Answers == {Waiting(v) : v \in Views}
           \cup {Answered(v, S) : v \in Views, S \in SUBSET Ids}

TypeOK ==
    /\ saving \in 0 .. Len(Received) /\ visible \subseteq 1 .. saving
    /\ {mounted, running, error, loading} \subseteq BOOLEAN
    /\ effect \in IF mounted THEN {1, 2} ELSE {0}
    /\ view \in Views /\ fetcher \in Views
    /\ requests \subseteq [effect: {1, 2}, answer: Answers]
    /\ data \in Answers
    /\ Cardinality({q \in requests : ~Cancelled(q)}) = (IF running THEN 1 ELSE 0)

(***************************************************************************)
(* Every list a page shows is a complete answer about one state of the     *)
(* store: newest first to the second, nothing skipped but by the limit or  *)
(* the scan cap, whatever the agents claim about their clocks (ListEvents  *)
(* says "newest first"; the keys make it exact only across seconds).       *)
(***************************************************************************)
ShownIsNewest ==
    data.answered => NewestFirst(data.snapshot, data.view, data.events)

(***************************************************************************)
(* While a page stays mounted it never replaces what it shows by an older  *)
(* state of the store: no answer overtakes another within an effect, and   *)
(* none of an effect that was torn down is applied.                        *)
(***************************************************************************)
ViewNeverGoesBack ==
    [][data.answered /\ data'.answered => data.snapshot \subseteq data'.snapshot]_cvars

(***************************************************************************)
(* Once events, users and faults come to rest, an open page shows exactly  *)
(* what the store holds for the chosen filter, with no error and no        *)
(* "Loading" left over from before.                                        *)
(***************************************************************************)
PageCatchesUp ==
    <>[](mounted => /\ data.answered /\ ~error /\ ~loading
                    /\ data.view = view
                    /\ data.events = ListEvents(visible, view))
=============================================================================
