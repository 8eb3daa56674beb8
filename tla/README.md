# Formal models of SentinelMesh

TLA+ specifications of the agent/collector system in this repository, TLC
models that check them on small instances, and TLAPS proofs of the central
invariants for all instances. `PROJECT.json` maps every definition to the
source lines it models and lists runs, hazards and theorems.

## The system

| Part | Source | State | Operations | Talks to |
| --- | --- | --- | --- | --- |
| Agent event stream | `rust-agent/agent`, `agent-ebpf` | ring buffer, channel `rx`, per-attempt bridge, backoff | probe, drain, connect/register/open, hand off, read ack, drain, reconnect | collector over gRPC |
| Event ingest | `internal/receiver` | per-stream handler, limiter | gate, heartbeat, save, alert, dispatch, ack | registry, store, detector, dispatcher |
| Rate limiter | `internal/receiver` (`tokenBucket`) | tokens, last | allow | ingest |
| Event store | `internal/store/badger.go` | BadgerDB, counters | SaveEvent, SaveAlert, loadCounters, lists | ingest, REST |
| Agent tokens | `internal/store/agenttoken.go`, `cmd/collector/token.go` | token records | issue, revoke, lookup | CLI, auth interceptor |
| Registry | `internal/registry` | nodes | Register, Heartbeat, SetInactive, checker | ingest, REST |
| Anomaly detector | `internal/anomaly` | timestamps per (node, type) | Record, WindowStats, gc | ingest, REST |
| Dispatcher | `internal/notify` | semaphore, lastSent, dropped | DispatchAsync, Dispatch | ingest, Slack/SMTP |
| Aggregator | `internal/aggregator` | cached region states | PollOnce, merged views | regional collectors' REST |
| Rules engine | `internal/alerting` | the rule set | LoadRules, Validate, Evaluate | ingest |
| Lifecycle | `cmd/collector/main.go`, `Serve` | servers | start, graceful stop, close | all |
| REST API | `internal/exporter` | none | reads | registry, store, detector |
| Web UI | `web/` | effect, request in flight, last answer | mount, filter, poll | REST API |

What makes it hard to get right: store writes that outlive their timeout
(`runWithContext`), clocks read before a lock is taken (registry checker,
`shouldSend`), bounded queues on both sides of one bidirectional stream, a
check and a write in separate transactions (tokens), readers that lock several
times for one answer, slow polls and late answers, conversions that change
what is compared, crashes.

## Modules

| Module | Models | Kept | Abstracted |
| --- | --- | --- | --- |
| `Registry` | `registry.go` | every mutating operation; the checker in two steps (clock read, locked sweep) | hostname, ip, version; times are ticks |
| `Presence` | `Registry` composed with the handlers that call it and with `/api/regions` | registration, streams, disconnects, the checker, one lock per region read | the payload of events |
| `TokenBucket` | `tokenBucket` | lazy refill, cap, one token per event | float64 as fixed point (rounding left out) |
| `Ingest` | `StreamEvents`, `SaveEvent`, `SaveAlert`, `runWithContext`, `loadCounters` | all gates in order, with and without authentication, the write goroutine, timeouts, late commits, TTL, process crash and restart | payloads; verdicts of limiter, engine and detector are inputs |
| `EventLog` | keys of `SaveEvent`, `ListEvents` | key as text, commit order, backward scan, limit and scan cap | everything down to the second is one number, and so is the EventID; retention (in `Ingest`) |
| `Alerting` | `engine.go`, `rules.go`, `eventPayload` | loading, validation, omitted zero fields, dotted paths, number formatting, all operators | texts are tagged numbers or words; `contains` and `regex` are constants; the alerts of an event are a set |
| `Detector`, `FullHistory` | `detector.go`; what it promises | prune, gc, first breached window | the label of a window is its index |
| `Screening` | the decisions of `StreamEvents`: `TokenBucket`, `Alerting` and `Detector` composed | the order limiter, validation, engine, detector; one clock; statistics and gc between any two events | storing and answering (in `Ingest`); one stream |
| `Dispatcher` | `notify.go`, `Send` of both channels | semaphore, drop counter, severity floor, cooldown in two steps (clock read, locked decision), one shared deadline | message text |
| `Agent` | the probes, `events.rs`, `grpc.rs`, the collector's side of the stream | ring buffer, rx, bridge, the event in hand, biased select, drain, backoff; each end notices a broken connection by itself, so old handlers receive beside the new one | events are numbers; jitter and sleep times |
| `LossyStreams` | what the whole path promises | refuse when full, drop the newest, lose a bounded number of the oldest, streams given up that still deliver | |
| `Console` | `usePolling.ts`, `api.ts`, `Events.tsx`, `GET /api/events`, on top of `EventLog` | effects run twice, cleanup, the in-flight guard, the fetcher ref that lags, timeouts | rendering; one page |
| `Aggregator` | `aggregator.go` | goroutine per upstream, three fetches, replacement of the state, `wg.Wait` | data is a version number; regions are distinct |
| `TokenStore` | `agenttoken.go`, `token.go`, auth interceptor | get and put as separate steps, directory lock, commands killed at any point | a collector without authentication, where streams have no token; tokens are numbers; the hash is injective |
| `Lifecycle` | `serve` in `main.go`, `Serve`, `gracefulStopWithTimeout`, `store.New`, `Close`, `runValueLogGC`, composed with `TokenStore` | start-up and every early return (as one failure), handlers and writes that outlive connection and server, the context check apart from `Recv`, forced stop, listener error, GC goroutine, REST shutdown, kill | configuration; events |
| `MC*` | | instances for TLC | |
| `*Proofs` | | the theorems and their proofs, see [Proofs](#proofs) | |

Each operator called "Mutated form" is a plausible bug in the definition below
it; replacing that definition by it must make the named property fail. They
are no part of the specifications.

Variables marked *history* record what happened and never influence a step.

## Runs

| Run | Question | Answer |
| --- | --- | --- |
| `presence` | Can a delayed sweep mark or evict a node that was heard? Can a connected agent be invisible? Does `/api/regions` count a node twice or not at all? Do dead nodes leave? | No. Only after a silence longer than timeout + eviction delay (then until it reconnects). Not one that stays in its region. Yes |
| `ingest` | Slow, failing and late writes, a crash: is a positive ack durable, does a rejected event leave a trace, how far do counters drift, do acks stay in step, are all alerts dispatched, is every event answered if the store stalls? | Durable; no trace; low only by events whose SaveEvent failed or is running, high only by expired ones; yes |
| `screening` | At most burst + rate x time in every window, and never throttled below that? Does a rule fire exactly when it is true of the agent's message? Can pruning or gc change an alarm or a statistic? Do idle keys leave? | Yes. Wherever the fields it compares are not zero and not printed with an exponent. No (refinement of `FullHistory`). Yes |
| `dispatcher` | Do slots leak? Is a channel skipped? Does the cooldown leak or over-suppress under clock/lock reordering? | No. No. No |
| `agent` | Duplicates or reordering over reconnects, and what may be lost? Clean exit complete? Mutual wait of agent and collector? Can an absent collector stop the ring buffer from being drained? | Refinement of `LossyStreams`: none, on one stream or across two; a bounded number. Yes. No. No |
| `aggregator` | Do the views agree, can the cache go back in time, does a hanging region keep a healthy one from being shown up to date? | Agree. No. No |
| `lifecycle` | Can an event be stored under a revoked token by a handler or write that outlives the server? Can an active token be replaced? Does GC meet a closed store? Does shutdown always end? | No. No. No. Yes |
| `console` | Is a page's list a complete answer? Can it go back in time? Does it catch up? | To the second. No. Yes |
| `notify_timeout` | Does every notifier have the send timeout for itself? | No: one context for all of them, so a slow one cuts off the next (finding) |
| `agent_loss` | Does a dropped connection lose events the source has queued? | Yes: those moved to the attempt's bridge, and the one in hand (finding) |
| `agent_headers` | Does an agent with queued events get one through while nothing fails? | Not if response headers come with the first message (finding) |
| `rules_shipped` | Does the shipped `tcp_to_suspicious_port` alert on a high port? | No: it names `dport`, the payload has `dst_port` (finding) |

`agent_headers` depends on two libraries outside the repository: tonic's client
call returns when the response headers arrive, and a grpc-go handler that
calls no `SendHeader` sends them with its first message. `Agent` therefore has
a variable `transport`; "lazy" is that behaviour, "eager" a transport that
delivers headers at once. The `agent` run covers both.

### Bounds

Presence: two nodes, one of which may come back in another region, two stored
regions, timeout and eviction of one tick each,
four ticks: a node can be marked, restored and marked again, or marked, evicted
and registered again, in another region, in the middle of a request.
Screening: a tick refills two thirds of an event, and the burst is one event and a third; two
nodes, three events each, windows of 1 and 2 ticks with threshold 1; two events with
zero, small and large numbers and all kinds of texts in their fields; a rule for
every operator on every field, ten rules of two conditions, and six files that
validation refuses. Ingest: two streams, two events in all on either or both,
one alert each, and a crash; with authentication the second stream's events are
foreign, without it both streams write. A stream that has received nothing before
the crash stands for one opened after it, so the restarted collector goes on
working.
Dispatcher: three goroutine identities for two slots, so a leaked or doubled
slot shows; cooldown 0 or 2; four calls, four ticks. Agent: six events,
queues of one or two, two failures: more events than `rx`, the bridge and the
send window hold together, so the agent really blocks on a full bridge. Console:
three events, of which two share a second and have keys in the other order, a
limit and a scan cap that both cut; one change of filter, one failed request, two
mounts. Aggregator: two
regions, two versions. Lifecycle: two nodes, three
tokens (so one node can be issued, revoked and issued again beside the other),
two commands, one stream, opened any number of times, with at most one
transaction on the way. Clocks, calls, events and failures are bounded in guards by the
`Max...` constants. Symmetry is used only for safety
(`dispatcher`).

Deadlock checking is off where the modelled part may stop: streams end
(`Ingest`), calls are used up (`Dispatcher`), the agent exits (`Agent`), the
collector refuses its rules (`Screening`), the page is closed (`Console`).

### Fairness

Goroutines, tasks and tickers are scheduled (weak fairness): the checker, gc,
the poller, `WriteReturns \/ WriteTimesOut` (the timer of `storeOpTimeout`),
sending an ack, the agent's steps (the drain of the ring buffer among them),
`RPC_TIMEOUT`, the clock of `Screening`, the browser's timers, effects and callbacks. The collector
answers the console's requests that are not given up. The HTTP client's timeout
ends every fetch. BadgerDB's transactions, upstreams, sources and agents owe nothing; in
`Lifecycle` alone a value-log GC round and `db.Close` are assumed to end, and
Go's `select` to be fair between a tick and the closed `gcStop` (strong
fairness of `GcStops`). The
network delivers while a connection is up and a broken one is noticed.
`Agent` assumes in addition that fewer acks are on the way at once (`Flight`)
than the receive window holds (`AckWindow`); with 64 KB windows and acks of a
few bytes this is tens of thousands. Time-bounded leads-to properties exempt
what happens within the last ticks before the clock's bound.

## Proofs

For every value of the constants satisfying the named `ASSUME`s. The inductive
invariants contain the types of the variables they need; `LIInv`, the largest, is
also an invariant of a run. Where one
module holds the proofs about several specifications, their names differ
(`BSpec`, `DSpec`, `SSpec`, `ASpec`, `PSpec`, `CSpec`).

* `RegionProofs`
  * `Registry`: `TypeOK`, `MarkedMeansSilent` and the action property
    `EvictionNeedsSilence`. `MarkedMeansSilent` is not inductive: the sweep
    compares with `lastSeen`, so `IInv` adds that a present node's `lastSeen` is
    the time it was really heard and that the checker's sample is not ahead of
    the clock.
  * `Presence` implements `Registry` (every step of a handler or reader is a step
    of the registry or none), so the two theorems above hold of it; on top of them
    `SteadyStreamVisible` (`PInv`: a silence is recorded before any sweep can act
    on it; `EvictionNeedsSilence` does the rest) and `SteadyNodesCounted` (`RInv`:
    a steady node has been counted exactly if its region has been looked up).
    `SweepClearsHolds` is what `SilentNodesLeave` rests on besides a checker that
    runs: after a sweep each node still listed was heard within the timeout of the
    time the sweep read, or has been inactive no longer than `evictAfter`
    (`MarkedInv`: in the running collector only the checker makes a node inactive,
    and it notes when).
  * `Aggregator`: `ViewsAgree` and `CacheNeverGoesBack`. `AInv` adds that only the
    current round's goroutines run, and that what they hold is at least as new as
    everything shown, nodes, events and alerts alike.
* `DecisionProofs`, what the collector decides about one event
  * `TokenBucket`: `RateBound` and `NeverThrottlesEarly`. `BInv` states the
    bucket's contents exactly: burst + refill since it was last full - what was
    admitted since; and bounds any window by what it admitted plus what is left.
  * `Alerting`: `FiresAsWritten`, for every rule file, every message and every
    meaning of `contains` and `regex`. `EInv` says that the rules in use were
    validated and that the alerts are those of the last event. The argument is in
    the lemmas: the loop of `getFieldValue` is defined for every path
    (`WalkExists`), finds a message's field exactly if its path has one part and
    the field is not zero (`FlatField`), and each operator then says of the
    converted value what it says of the message's (`HoldsAsSaid`).
    `AsideIsSilentHolds`: a rule with a condition on a field the messages of its
    type do not have, or on a nested one, never alerts, which is the finding of
    `rules_shipped` for every rule file.
  * `Detector` implements `FullHistory` (`DetectorRemembersEverything`). `DInv`
    says that what is kept is in order and covers the log: whatever is missing is
    older than the longest window. Counting the kept timestamps inside a window
    therefore gives the same number as counting the whole history. The other
    direction is `KeepsOneWindowHolds`: of each key nothing is kept that was outside
    the longest window when its last event came, so memory follows the rate of
    events and not the uptime.
  * `Screening` keeps what its parts promise (`ScreeningKeepsAll`): every step of it
    is a step or a stutter of each of the three (`ScreeningSteps`).
* `IngestProofs`: `AckedIsDurable`, `OneAckPerEvent`, `AlertsDispatched` and
  `RejectedLeavesNoTrace`, for any number of streams, events, alerts and crashes.
  `StreamInv` ties a handler's program counter to what it has stored, dispatched
  and answered; a step of one stream leaves the others' part of it alone.
* `CounterProofs`: `CountersWithinDrift`. `CountInv` adds that the event a handler
  is saving has not been given up before, and that a write still on its way
  belongs to an event not reported as stored, so that neither a late commit nor
  the count itself can leave the bounds; by cardinality of sets of events.
* `DispatcherProofs`: `AdmissionsSpaced` and `SuppressedHasCover` (`CooldownInv`:
  `lastSent` of a key is its last admission recorded), `EveryCallAccounted` (the semaphore counts the goroutines that are not idle; by
  cardinality) and `EveryChannelTried` (`TriedInv`: a dispatch stands at the first
  channel until it is past `shouldSend`).
* `AgentProofs`
  * `LossyStreams` delivers in order and nothing twice, although streams that were
    given up deliver beside the live one: what a stream has delivered or may still
    deliver is strictly increasing and older than all of the streams after it, and
    removing events keeps it so (`StreamsDeliverInOrder`).
  * `Agent` implements `LossyStreams`, step by step: probing accepts or refuses,
    draining into a full `rx` drops, the end of an attempt loses at most what
    bridge, window and hand hold, or leaves what is on the wire to the old handler,
    and all other moves leave the concatenation of the queues as it is. `SeqInv`
    bounds the queues. With the first result it follows that the collector receives
    in order and nothing twice (`ReceivedInOrder`).
  * `CleanExit`. `ExitInv` keeps an account of the attempt: what was offered is on
    its way, being answered, or answered.
  * `OnlyBrokenStreamsLose`: a recorded event is lost with the ring buffer when the
    source ends, at a full `rx`, or with a connection that broke, and in no other
    step. It rests on `SeqInv`'s last part: bridge and wire are empty until a stream
    is open.
  * `LazyTransportDeliversNothing`: the finding of `agent_headers` for all capacities
    and any number of attempts; under a lazy transport nothing is ever received.
  * `NoMutualWaitHolds`, the part of `HandoffCompletes` that needs no fairness: while
    the connection is up, an agent that waits for room in the bridge, or for the last
    acks, always leaves the network or the collector a step that helps it. `WaitInv`
    adds that the agent starts to wait with at most `Flight` acks unread (it reads
    acks first) and that a full bridge and a full wire leave the ack queue short of
    its window. This is where `Flight < AckWindow` is needed.
* `ConsoleProofs`
  * `ListEvents`: `ListsNewestFirst`, that its answer about any snapshot and view
    is `NewestFirst`. Keys have a shape in which none is the beginning of another
    (`KeyShape`), so their order as text is total, and never against the order of
    the seconds (`KeyOrder`); each event thus has a place in the backward scan
    (`Ranks`). The loop's invariant `LoopInv` says that what has been listed is
    what is wanted among the records scanned, in that order.
  * `Console`: `TypeOK`, `ViewNeverGoesBack` and `ShownIsNewest`. `VInv` adds that
    the guard of an effect says exactly whether a request of it is in flight, and
    that the answer which may still be shown is no older than the one that is.
* `LifecycleProofs`
  * `TokenStore`: `StreamTokenActive`, `RevokedStaysDead` and the action property
    `OnlyRevokedReplaced`. `IInv` adds the lock discipline: a running command is
    alone, the record it has seen is still the record, and no stream is open
    meanwhile; tokens are numbered in the order of issue and belong to one node.
  * `Lifecycle` implements `TokenStore`, so those theorems hold of the process
    with all its handlers; `LIInv` itself, `NoGcOnClosedStore` and the action
    property `StoredUnderActiveToken`. `LIInv` adds that, while the process holds
    the store, every handler has its identity and every transaction on its way the
    token that is still its node's active one, and that nothing runs once the
    process is down.
  * The part of `ShutdownEnds` that needs no fairness: `ShutdownNeverStuck` (from
    SIGTERM or the first error on, some step that depends on no agent, request or
    transaction is open until the process is gone; `GcInv`: the GC goroutine `Close`
    waits for exists from `store.New` on) and the action property
    `ShutdownOnlyOnwards` (a shutdown is not called off and does not go back).

Facts about loops (`getFieldValue`, `ListEvents`, the longest window) are proved
by minimal counterexample: the set of turns at which the claim fails would have a
least element (`WFMin` on the natural numbers), which the turn before it refutes.

The assumptions on constants are that counts, bounds and delays are natural
numbers of the range the code's configuration allows, that the sets of nodes,
streams and goroutines a cardinality is taken of are finite, that acks on the way
fit the receive window (`Agent`, see Fairness; only `NoMutualWaitHolds` needs it),
`KeysDiffer` (`EventLog`): no two events have the same EventID and the same
nanosecond of receipt (the second would overwrite the first, and there would be one
record), and `ScreeningAssumption`: the types of the events are
among those the detector counts. Nothing is assumed of `strings.Contains` and of
regular expressions.

Only model-checked: liveness (`SilentNodesLeave`, `EveryEventAnswered`,
`IdleKeysLeave`, `HandoffCompletes`, `RingKeepsDraining`, `HealthyRegionShown`,
`ShutdownEnds`, `PageCatchesUp`), because fairness is out of the prover's reach. Every
invariant and every action property of the passing runs is also proved.

## Other disagreements

Found while modelling, without a run of their own:

* `docs/implementation-guide.md:35` has an alert recorded whenever a rule's
  conditions match, and `engine.go:69` says "checks if all conditions match the event
  payload"; neither says that the payload lacks fields that are zero
  (`sentinel.pb.go:73`, so `uid` `eq` `0` never matches) or that a number from 10^6 on
  is compared as `1e+06` (`engine.go:99`). `FiresAsWritten` requires nothing of these
  two cases and shows that there is no third.
* `badger.go:185` says "newest first"; within a second it is the order of the
  text, in which a fraction that was trimmed sorts after a longer one
  (`ShownIsNewest` states what holds).
* `registry.go:155` says any node inactive for longer than `evictAfter` is
  evicted; one put to inactive by `SetInactive` is not, since `inactiveSince`
  stays zero (`registry.go:193`). Only tests call `SetInactive`.
* `badger.go:56` says counters may run slightly high; a write that commits after
  `SaveEvent` gave up makes them run low (`CountersWithinDrift` allows it).
* `README.md:248` says "30+ events/min"; `detector.go:76` alerts from the 31st.
* `notify.go:75` says the cooldown is the minimum gap between notifications; it is
  the minimum gap between decisions, and deliveries may be closer.
* `agenttoken.go:55` says replacing a credential leaves an explicit revoke in the
  record; the new record overwrites the revoked one.
* `main.go:37` says REST shutdown waits for in-flight requests up to a timeout;
  `serve` does not wait for that goroutine (`main.go:234`), so the store closes
  and the process exits as soon as gRPC has stopped.

## Not modelled

Telemetry (output only); what the eBPF probes copy out of kernel structures and
how `events.rs` decodes it (straight-line); rendering and client-side filters of
the web UI; `/api/nodes`, `/api/alerts`, `/api/stats` (one snapshot each,
encoded); configuration parsing; `ListAlerts` (`ListEvents` over another prefix);
aggregate mode's shutdown. Dispatches cut off by the exit, notifications
delivered late or in bunches, and growth of `lastSent` are listed as hazards
without a property: no line of the code claims anything about them. A node that
moves between regions while `/api/regions` is answered may be counted twice or not
at all; `SteadyNodesCounted` speaks of the others. `TokenStore` and `Lifecycle`
have authentication switched on: without it (`checkAuth` returns at once) no stream
rests on a token. `Ingest` has both.

Also left out: an operating-system crash (the crash of `Ingest` is that of the process, after which what BadgerDB has written is still there,
although `SyncWrites` is off); a `stream.Send` that blocks for ever
in `Ingest`.

## Library behaviour assumed

grpc-go: `GracefulStop` refuses new streams and waits for handlers; `Stop`
closes connections without waiting for handlers; `Serve` returns once either
is done. BadgerDB: one process at a time holds the directory; a transaction
on a closed database fails. At most one `serve` process uses a data directory
at a time. React runs the effects of a render after it and, under StrictMode in
development, runs each effect of a new page twice. `fmt`'s `%v` prints a float64
from 10^6 on with an exponent. BadgerDB orders keys as bytes.

## What could follow

The REST server's shutdown against its readers; `ListEvents` together with the
retention of `Ingest`; rounding in the rate limiter's float64.
