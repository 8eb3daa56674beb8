----------------------------- MODULE Lifecycle -----------------------------
(***************************************************************************)
(* The life of a `serve` process (cmd/collector/main.go, receiver.Serve,   *)
(* store.New and Close) around the token store: start-up and its early     *)
(* returns, streams and their handlers, SIGTERM, the graceful stop and its *)
(* forced fallback, closing the store, exit, and being killed.             *)
(*                                                                         *)
(* TokenStore lets the collector stop in one step that ends all streams.   *)
(* Here a stream's handler can outlive its connection and the gRPC server, *)
(* and a write that runWithContext gave up on can outlive its handler.     *)
(* stream[s] is the identity in the handler's context for as long as the   *)
(* store it was looked up in is open.                                      *)
(*                                                                         *)
(* One serve process runs at a time; token commands run at any time.       *)
(* Authentication is switched on, as in TokenStore.                        *)
(***************************************************************************)
EXTENDS TokenStore

VARIABLES
    phase,    \* where RunE and Serve are
    ctx,      \* the context of signal.NotifyContext: "live" or "done"
    conn,     \* the connection of each stream
    handler,  \* the StreamEvents goroutine of each stream
    write,    \* its SaveEvent transaction: for whom, and how far
    gc,       \* the goroutine runValueLogGC
    rest      \* the goroutine runHTTPServerUntilDone and its requests

process == <<phase, ctx, gc, rest>>
streams == <<conn, handler, write>>
lvars == <<vars, process, streams>>

NoWrite == [for |-> Closed, st |-> "none"]

AllClosed == [s \in Streams |-> "closed"]
NoHandlers == [s \in Streams |-> "none"]
NoWrites == [s \in Streams |-> NoWrite]

LInit ==
    /\ Init
    /\ phase = "down" /\ ctx = "live" /\ gc = "off" /\ rest = "off"
    /\ conn = AllClosed /\ handler = NoHandlers /\ write = NoWrites

\* Everything in the process's memory is gone.
ProcessEnds ==
    /\ phase' = "down" /\ ctx' = "live" /\ gc' = "off" /\ rest' = "off"
    /\ conn' = AllClosed /\ handler' = NoHandlers /\ write' = NoWrites
-----------------------------------------------------------------------------
\* store.New: the lock, then the GC goroutine.
StoreNew ==
    /\ phase = "down" /\ ServeStart
    /\ phase' = "starting" /\ gc' = "idle"
    /\ UNCHANGED <<ctx, rest, streams>>

\* go runHTTPServerUntilDone(...)
RestStarts ==
    /\ phase = "starting"
    /\ phase' = "listening" /\ rest' = "idle"
    /\ UNCHANGED <<vars, ctx, gc, streams>>

\* net.Listen, the options, srv.Serve.
Listens ==
    /\ phase = "listening"
    /\ phase' = "serving"
    /\ UNCHANGED <<vars, ctx, gc, rest, streams>>

\* Mutated form: an early return without the deferred Close.
StartFailsOpen ==
    /\ phase \in {"starting", "listening"}
    /\ phase' = "exiting"
    /\ UNCHANGED <<vars, ctx, gc, rest, streams>>

\* An early return of RunE (flags, rules, telemetry) or of Serve (listen, TLS).
StartFails ==
    /\ phase \in {"starting", "listening"}
    /\ phase' = "returned"
    /\ UNCHANGED <<vars, ctx, gc, rest, streams>>

\* SIGINT or SIGTERM.
Signal ==
    /\ phase # "down" /\ ctx = "live"
    /\ ctx' = "done"
    /\ UNCHANGED <<vars, phase, gc, rest, streams>>
-----------------------------------------------------------------------------
\* streamAuthInterceptor lets the stream through to StreamEvents.
StreamOpens(s, token, n) ==
    /\ phase = "serving" /\ handler[s] = "none"
    /\ OpenStream(s, token, n)
    /\ handler' = [handler EXCEPT ![s] = "top"]
    /\ conn' = [conn EXCEPT ![s] = "open"]
    /\ UNCHANGED <<process, write>>

\* The agent disconnects or is cut off.
AgentLeaves(s) ==
    /\ conn[s] = "open"
    /\ conn' = [conn EXCEPT ![s] = "closed"]
    /\ UNCHANGED <<vars, process, handler, write>>

\* The top of the loop: the stream's context is not done.
Checks(s) ==
    /\ handler[s] = "top" /\ conn[s] = "open"
    /\ handler' = [handler EXCEPT ![s] = "recv"]
    /\ UNCHANGED <<vars, process, conn, write>>

\* Recv returns an event, one that was buffered if the connection has closed
\* since the check, and SaveEvent starts its transaction.  Bound: a stream has
\* at most one transaction on the way.
Receive(s) ==
    /\ handler[s] = "recv" /\ write[s] = NoWrite
    /\ handler' = [handler EXCEPT ![s] = "save"]
    /\ write' = [write EXCEPT ![s] = [for |-> stream[s], st |-> "pending"]]
    /\ UNCHANGED <<vars, process, conn>>

\* Mutated form: a transaction goes through after db.Close.
CommitsAnyway == TRUE

\* A transaction fails on a database that is closed.
CanCommit == lock = "serve"

Commit(s) ==
    /\ write[s].st = "pending" /\ CanCommit
    /\ write' = [write EXCEPT ![s].st = "stored"]
    /\ UNCHANGED <<vars, process, conn, handler>>

Refuse(s) ==
    /\ write[s].st = "pending"
    /\ write' = [write EXCEPT ![s].st = "refused"]
    /\ UNCHANGED <<vars, process, conn, handler>>

\* The result reaches the handler, which answers, or nobody.
WriteReturns(s) ==
    /\ write[s].st \in {"stored", "refused"}
    /\ write' = [write EXCEPT ![s] = NoWrite]
    /\ handler' = [handler EXCEPT ![s] = IF @ = "save" THEN "top" ELSE @]
    /\ UNCHANGED <<vars, process, conn>>

\* runWithContext returns ctx.Err(): storeOpTimeout, or the stream's context.
WriteAbandoned(s) ==
    /\ handler[s] = "save"
    /\ handler' = [handler EXCEPT ![s] = "top"]
    /\ UNCHANGED <<vars, process, conn, write>>

\* The context is done, or Recv fails.
HandlerReturns(s) ==
    /\ handler[s] \in {"top", "recv"} /\ conn[s] = "closed"
    /\ handler' = [handler EXCEPT ![s] = "none"]
    /\ IF stream[s] = Closed THEN UNCHANGED vars ELSE CloseStream(s)
    /\ UNCHANGED <<process, conn, write>>
-----------------------------------------------------------------------------
\* Serve's goroutine sees ctx.Done() and calls GracefulStop: no new streams.
StopBegins ==
    /\ phase = "serving" /\ ctx = "done"
    /\ phase' = "stopping"
    /\ UNCHANGED <<vars, ctx, gc, rest, streams>>

\* GracefulStop has waited for every handler.
GracefulStopDone ==
    /\ phase = "stopping" /\ \A s \in Streams : handler[s] = "none"
    /\ phase' = "returned"
    /\ UNCHANGED <<vars, ctx, gc, rest, streams>>

\* Mutated form: GracefulStop is not bounded.
NoGracePeriod == FALSE

\* grpcShutdownGracePeriod is over: Stop closes the connections and does not
\* wait for the handlers.
GraceExpires ==
    /\ phase = "stopping"
    /\ phase' = "returned"
    /\ conn' = AllClosed
    /\ UNCHANGED <<vars, ctx, gc, rest, handler, write>>

\* srv.Serve returns by itself (a listener error); connections stay.
ServeFails ==
    /\ phase = "serving"
    /\ phase' = "returned"
    /\ UNCHANGED <<vars, ctx, gc, rest, streams>>

\* RunE returns.  Its deferred calls cancel ctx and enter Store.Close, which
\* closes gcStop.
CloseBegins ==
    /\ phase = "returned"
    /\ phase' = "closing" /\ ctx' = "done"
    /\ UNCHANGED <<vars, gc, rest, streams>>

\* A tick of the ticker; select may prefer it to a closed gcStop.
GcRound ==
    /\ gc = "idle"
    /\ gc' = "round"
    /\ UNCHANGED <<vars, phase, ctx, rest, streams>>

GcRoundEnds ==
    /\ gc = "round"
    /\ gc' = "idle"
    /\ UNCHANGED <<vars, phase, ctx, rest, streams>>

GcStops ==
    /\ gc = "idle" /\ phase = "closing"
    /\ gc' = "done"
    /\ UNCHANGED <<vars, phase, ctx, rest, streams>>

\* Mutated form: Close does not wait for the GC goroutine.
NoGcWait == TRUE

\* <-s.gcDone
GcDone == gc = "done"

\* db.Close, which releases the lock.
StoreCloses ==
    /\ phase = "closing" /\ GcDone
    /\ ServeStop
    /\ phase' = "exiting"
    /\ UNCHANGED <<ctx, gc, rest, streams>>

\* main returns.  Nothing waits for the REST goroutine.
Exit ==
    /\ phase = "exiting"
    /\ ProcessEnds
    /\ UNCHANGED vars

\* The process is killed, or crashes, while it has the store open.
Kill ==
    /\ phase \notin {"down", "exiting"}
    /\ ServeStop
    /\ ProcessEnds
-----------------------------------------------------------------------------
\* The REST server: requests arrive and are answered until ctx is done.
RestRequest ==
    /\ rest = "idle" /\ rest' = "busy"
    /\ UNCHANGED <<vars, phase, ctx, gc, streams>>

RestAnswers ==
    /\ rest \in {"busy", "draining"}
    /\ rest' = IF rest = "busy" THEN "idle" ELSE "off"
    /\ UNCHANGED <<vars, phase, ctx, gc, streams>>

RestShutdown ==
    /\ ctx = "done" /\ rest \in {"idle", "busy"}
    /\ rest' = IF rest = "busy" THEN "draining" ELSE "off"
    /\ UNCHANGED <<vars, phase, ctx, gc, streams>>

\* httpShutdownTimeout, or ListenAndServe fails by itself.
RestEnds ==
    /\ rest # "off" /\ (rest = "draining" \/ ctx = "live")
    /\ rest' = "off"
    /\ UNCHANGED <<vars, phase, ctx, gc, streams>>

StreamStep(s) ==
    \/ \E token \in 1 .. issued, n \in Nodes : StreamOpens(s, token, n)
    \/ AgentLeaves(s) \/ Checks(s) \/ Receive(s)
    \/ Commit(s) \/ Refuse(s) \/ WriteReturns(s) \/ WriteAbandoned(s)
    \/ HandlerReturns(s)

LNext ==
    \/ StoreNew \/ RestStarts \/ Listens \/ StartFails \/ Signal
    \/ StopBegins \/ GracefulStopDone \/ GraceExpires \/ ServeFails
    \/ CloseBegins \/ GcRound \/ GcRoundEnds \/ GcStops \/ StoreCloses
    \/ Exit \/ Kill
    \/ RestRequest \/ RestAnswers \/ RestShutdown \/ RestEnds
    \/ \E s \in Streams : StreamStep(s)
    \/ \E p \in Procs : Command(p) /\ UNCHANGED <<process, streams>>

LSpec == LInit /\ [][LNext]_lvars

\* The process runs, its timers fire, and BadgerDB ends a GC round and a Close.
\* select is fair between a tick and gcStop.  Agents, requests and transactions
\* owe nothing.
LFairSpec ==
    /\ LSpec
    /\ WF_lvars(RestStarts) /\ WF_lvars(Listens \/ StartFails)
    /\ WF_lvars(StopBegins) /\ WF_lvars(GracefulStopDone \/ GraceExpires)
    /\ WF_lvars(CloseBegins) /\ WF_lvars(GcRoundEnds) /\ SF_lvars(GcStops)
    /\ WF_lvars(StoreCloses) /\ WF_lvars(Exit)
-----------------------------------------------------------------------------
(***************************************************************************)
(* The types, and: every way from store.New to the end of the process,     *)
(* early returns of start-up included, closes the store on its way, and no *)
(* authenticated identity is left without its handler.                     *)
(***************************************************************************)
LInv ==
    /\ phase \in {"down", "starting", "listening", "serving", "stopping",
                  "returned", "closing", "exiting"}
    /\ ctx \in {"live", "done"}
    /\ gc \in {"off", "idle", "round", "done"}
    /\ rest \in {"off", "idle", "busy", "draining"}
    /\ conn \in [Streams -> {"open", "closed"}]
    /\ handler \in [Streams -> {"none", "top", "recv", "save"}]
    /\ lock = "serve" <=> phase \notin {"down", "exiting"}
    /\ \A s \in Streams : /\ stream[s] # Closed => handler[s] # "none"
                          /\ handler[s] = "save" => write[s].st # "none"

(***************************************************************************)
(* An event enters the store only under a token that is active at that     *)
(* moment, even from a handler or an abandoned transaction that has        *)
(* outlived its connection, a forced stop or Serve itself, and with a      *)
(* token command ready to run as soon as the lock is free (SaveEvent       *)
(* against Close and RevokeToken).                                         *)
(***************************************************************************)
StoredUnderActiveToken ==
    [][\A s \in Streams :
          write[s].st = "pending" /\ write'[s].st = "stored" =>
              /\ write[s].for # Closed
              /\ record[write[s].for.node] =
                     [token |-> write[s].for.token, status |-> "active"]]_lvars

(***************************************************************************)
(* The value-log GC never works on a database that is closed, although a   *)
(* tick may still start a round after Close has asked it to stop (Close,   *)
(* runValueLogGC).                                                         *)
(***************************************************************************)
NoGcOnClosedStore == lock # "serve" => gc # "round"

(***************************************************************************)
(* The inductive strengthening: a process that has left the store keeps no *)
(* GC, one that has ended keeps nothing at all, and while the store is     *)
(* open every handler has its identity and every transaction on the way    *)
(* the active token it was received under.                                 *)
(***************************************************************************)
LIInv ==
    /\ IInv /\ LInv
    /\ write \in [Streams -> [for: [token: Tokens \cup {NoToken}, node: Nodes \cup {"none"}],
                              st: {"none", "pending", "stored", "refused"}]]
    /\ phase = "exiting" => gc = "done"
    /\ phase = "down" => gc = "off" /\ handler = NoHandlers /\ write = NoWrites
    /\ lock = "serve" => \A s \in Streams :
          /\ handler[s] # "none" => stream[s] # Closed
          /\ write[s].st = "pending" =>
                /\ write[s].for # Closed /\ write[s].for.node \in Nodes
                /\ record[write[s].for.node] =
                       [token |-> write[s].for.token, status |-> "active"]

(***************************************************************************)
(* After SIGTERM, or once Serve or start-up has failed, the process ends   *)
(* and frees the store, even if agents stay connected in silence, writes   *)
(* and REST requests hang, and GC rounds get in between (#117, #155).      *)
(***************************************************************************)
ShutdownEnds == (ctx = "done" \/ phase = "returned") ~> (phase = "down")
=============================================================================
