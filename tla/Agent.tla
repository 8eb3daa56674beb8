------------------------------- MODULE Agent -------------------------------
(***************************************************************************)
(* The agent's side of the event stream (rust-agent, grpc.rs): the probes  *)
(* fill a ring buffer in the kernel, which the source drains into a        *)
(* bounded channel rx that outlives connections; each connection attempt   *)
(* registers, opens StreamEvents with a fresh bounded bridge channel as    *)
(* its request stream, and then moves events from rx to the bridge while   *)
(* reading acknowledgements.  Any failure ends the attempt and is retried  *)
(* after a backoff.                                                        *)
(*                                                                         *)
(* The connection is HTTP/2: events that left the bridge wait in a window  *)
(* (wire), acknowledgements in another (acks on the way, then ackq) that   *)
(* the collector cannot overfill.  The collector is the loop of its        *)
(* StreamEvents handler, one acknowledgement per event; Ingest models it.  *)
(*                                                                         *)
(* The two ends notice a broken connection each by itself.  The agent may  *)
(* have reconnected while the handler of the old stream still receives     *)
(* what had reached the collector (late), beside that of the new one.      *)
(*                                                                         *)
(* stream_events(..).await returns when the response HEADERS arrive.  A    *)
(* grpc-go handler that calls no SendHeader, like the collector's, sends   *)
(* them with its first message.  transport is "lazy" then, and "eager" if  *)
(* something delivers the headers as soon as the handler starts.           *)
(***************************************************************************)
EXTENDS Integers, Sequences, FiniteSets

CONSTANTS
    RingCap,       \* records the ring buffer holds (512 KB in agent-ebpf)
    RxCap,         \* capacity of rx (256 in main.rs)
    BridgeCap,     \* capacity of the bridge (256)
    Window,        \* events the connection holds
    AckWindow,     \* acknowledgements the connection holds unread
    Flight,        \* how many of them may be on the way at once
    Transports,    \* which of "lazy" and "eager" the transport may be
    MaxEvents,     \* bound on the events of the source
    MaxFailures,   \* bound on failed attempts
    MaxBackoff     \* MAX_BACKOFF, in units of INITIAL_BACKOFF

ASSUME AgentAssumption ==
    /\ RingCap \in Nat \ {0} /\ RxCap \in Nat \ {0} /\ BridgeCap \in Nat \ {0}
    /\ Window \in Nat \ {0} /\ AckWindow \in Nat
    /\ Flight \in Nat \ {0} /\ Flight < AckWindow
    /\ Transports \subseteq {"lazy", "eager"}
    /\ MaxEvents \in Nat /\ MaxFailures \in Nat /\ MaxBackoff \in Nat \ {0}

VARIABLES
    produced,  \* events the probes have seen; they are numbered from 1
    source,    \* "open" until the source drops its Sender
    ring,      \* the ring buffer EVENTS
    rx,        \* the channel from the source
    pc,        \* where stream_to_collector and run_once are
    held,      \* the event taken from rx and not yet in the bridge, or 0
    backoff,
    bridge, wire, acks, ackq,
    conn,      \* "none", "up" or "broken"
    srv,       \* the collector's handler: "none", "recv", "ack" or "done"
    transport,
    headers,   \* has the collector sent the response headers
    late,      \* events of given-up streams that the collector may still receive
    received,  \* history: the events the collector has received, by stream;
               \* a stream that left nothing behind continues the one before
    offered,   \* history: events this attempt has moved out of rx
    ackRead,   \* history: acknowledgements this attempt has read
    failures   \* attempts and connections the environment has failed

queues == <<bridge, wire, acks, ackq>>
vars == <<produced, source, ring, rx, pc, held, backoff, queues, conn, srv, transport,
          headers, late, received, offered, ackRead, failures>>

\* The live stream, among those received lists.
Current == Len(received)

Init ==
    /\ produced = 0 /\ source = "open" /\ ring = <<>> /\ rx = <<>>
    /\ pc = "connect" /\ held = 0 /\ backoff = 1
    /\ bridge = <<>> /\ wire = <<>> /\ acks = 0 /\ ackq = 0
    /\ conn = "none" /\ srv = "none" /\ headers = "none"
    /\ transport \in Transports
    /\ late = <<>> /\ received = << <<>> >>
    /\ offered = 0 /\ ackRead = 0 /\ failures = 0
-----------------------------------------------------------------------------
\* A probe fires in the kernel: its record is lost if the ring buffer is full
\* (reserve fails).  The mock source is a probe drained at once.
Probe ==
    /\ source = "open" /\ produced < MaxEvents
    /\ produced' = produced + 1
    /\ ring' = IF Len(ring) < RingCap THEN Append(ring, produced') ELSE ring
    /\ UNCHANGED <<source, rx, pc, held, backoff, queues, conn, srv, headers,
                   late, received, offered, ackRead, failures, transport>>

\* Mutated form: tx.send(event).await, which waits for room in rx.
SendAwaits == Len(rx) < RxCap

\* try_send never waits.
TrySend == TRUE

\* The drain loop of ebpf_source: an event that finds rx full is dropped.
Drain ==
    /\ source = "open" /\ ring # <<>> /\ TrySend
    /\ ring' = Tail(ring)
    /\ rx' = IF Len(rx) < RxCap THEN Append(rx, Head(ring)) ELSE rx
    /\ UNCHANGED <<produced, source, pc, held, backoff, queues, conn, srv, headers,
                   late, received, offered, ackRead, failures, transport>>

\* The source returns: its Sender is dropped, and with the loaded object the
\* probes and their ring buffer.
SourceEnds ==
    /\ source = "open"
    /\ source' = "closed"
    /\ ring' = <<>>
    /\ UNCHANGED <<produced, rx, pc, held, backoff, queues, conn, srv, headers,
                   late, received, offered, ackRead, failures, transport>>

\* connect() and register() succeed; stream_events() is called.
Open ==
    /\ pc = "connect"
    /\ pc' = "open"
    /\ conn' = "up" /\ srv' = "recv" /\ headers' = "none"
    /\ bridge' = <<>> /\ wire' = <<>> /\ acks' = 0 /\ ackq' = 0
    /\ offered' = 0 /\ ackRead' = 0
    /\ UNCHANGED <<produced, source, ring, rx, held, backoff, late, received, failures,
                   transport>>

HeadersReady == transport = "eager" \/ headers = "sent"

HeadersArrive ==
    /\ pc = "open" /\ conn = "up" /\ HeadersReady
    /\ pc' = "stream"
    /\ UNCHANGED <<produced, source, ring, rx, held, backoff, queues, conn, srv,
                   headers, late, received, offered, ackRead, failures, transport>>

\* Mutated form: acknowledgements are read when there is nothing to send.
AckFirstUnlessBusy == ackq > 0 /\ rx = <<>>

\* biased: a waiting acknowledgement is always taken first.
AckFirst == ackq > 0

ReadAck ==
    /\ pc \in {"stream", "drain"}
    /\ pc = "stream" => AckFirst
    /\ ackq > 0
    /\ ackq' = ackq - 1
    /\ ackRead' = ackRead + 1
    /\ UNCHANGED <<produced, source, ring, rx, pc, held, backoff, bridge, wire, acks,
                   conn, srv, headers, late, received, offered, failures, transport>>

\* rx.recv() = Some(event)
TakeEvent ==
    /\ pc = "stream" /\ ~AckFirst /\ rx # <<>>
    /\ held' = Head(rx)
    /\ rx' = Tail(rx)
    /\ pc' = "handoff"
    /\ UNCHANGED <<produced, source, ring, backoff, queues, conn, srv, headers,
                   late, received, offered, ackRead, failures, transport>>

\* bridge_tx.send(event).await has room; meanwhile nothing else is polled.
Handoff ==
    /\ pc = "handoff" /\ conn = "up"
    /\ Len(bridge) < BridgeCap
    /\ bridge' = Append(bridge, held)
    /\ held' = 0
    /\ offered' = offered + 1
    /\ pc' = "stream"
    /\ UNCHANGED <<produced, source, ring, rx, backoff, wire, acks, ackq, conn, srv,
                   headers, late, received, ackRead, failures, transport>>

\* rx.recv() = None: drop(bridge_tx), then read what is left.
BeginDrain ==
    /\ pc = "stream" /\ ~AckFirst /\ rx = <<>> /\ source = "closed"
    /\ pc' = "drain"
    /\ UNCHANGED <<produced, source, ring, rx, held, backoff, queues, conn, srv,
                   headers, late, received, offered, ackRead, failures, transport>>

\* Mutated form: the agent leaves without waiting for the collector.
Leave == pc = "drain"

\* response.message() = None in the drain loop: every answer has been read.
Drained == pc = "drain" /\ conn = "up" /\ srv = "done" /\ acks = 0 /\ ackq = 0

Exit ==
    /\ Drained
    /\ pc' = "exit"
    /\ UNCHANGED <<produced, source, ring, rx, held, backoff, queues, conn, srv,
                   headers, late, received, offered, ackRead, failures, transport>>

\* Mutated form: what was sent and not acknowledged is queued again.
Requeue == wire \o bridge \o rx

\* rx is all that survives an attempt.
Survives == rx

\* run_once returns Err: its locals (the bridge, the event in hand) are gone,
\* and the loop sleeps and doubles the backoff.  The collector's end of the
\* stream is not told: what is on the wire may still be received.
EndAttempt ==
    /\ pc' = "connect"
    /\ rx' = Survives
    /\ late' = IF wire = <<>> THEN late ELSE Append(late, wire)
    /\ received' = IF wire = <<>> THEN received ELSE Append(received, <<>>)
    /\ held' = 0
    /\ bridge' = <<>> /\ wire' = <<>> /\ acks' = 0 /\ ackq' = 0
    /\ conn' = "none" /\ srv' = "none"
    /\ backoff' = IF 2 * backoff < MaxBackoff THEN 2 * backoff ELSE MaxBackoff
    /\ UNCHANGED <<produced, source, ring, headers, offered, ackRead, transport>>

\* stream_events() has had no answer for RPC_TIMEOUT.
OpenTimesOut ==
    /\ pc = "open" /\ conn = "up" /\ ~HeadersReady
    /\ EndAttempt
    /\ UNCHANGED failures

\* connect, register or stream_events fails.
AttemptFails ==
    /\ failures < MaxFailures
    /\ pc \in {"connect", "open"}
    /\ failures' = failures + 1
    /\ EndAttempt

\* response.message() or bridge_tx.send() reports that the stream is gone.
StreamFails ==
    /\ pc \in {"open", "stream", "handoff", "drain"} /\ conn = "broken"
    /\ UNCHANGED failures
    /\ EndAttempt
-----------------------------------------------------------------------------
(* The connection and the collector. *)

Transmit ==
    /\ conn = "up" /\ bridge # <<>> /\ Len(wire) < Window
    /\ wire' = Append(wire, Head(bridge))
    /\ bridge' = Tail(bridge)
    /\ UNCHANGED <<produced, source, ring, rx, pc, held, backoff, acks, ackq, conn,
                   srv, headers, late, received, offered, ackRead, failures, transport>>

\* Recv() = an event, which a broken connection may still have in store.
CollectorRecv ==
    /\ conn # "none" /\ srv = "recv" /\ wire # <<>>
    /\ received' = [received EXCEPT ![Current] = Append(received[Current], Head(wire))]
    /\ wire' = Tail(wire)
    /\ srv' = "ack"
    /\ UNCHANGED <<produced, source, ring, rx, pc, held, backoff, bridge, acks, ackq,
                   conn, headers, late, offered, ackRead, failures, transport>>

\* stream.Send blocks while the window is full.  The network delivers an
\* acknowledgement before Flight more have been sent.  Over a connection that
\* has broken unnoticed it goes nowhere.
CollectorSend ==
    /\ srv = "ack"
    /\ acks + ackq < AckWindow /\ acks < Flight
    /\ srv' = "recv"
    /\ IF conn = "up" THEN acks' = acks + 1 /\ headers' = "sent"
                      ELSE UNCHANGED <<acks, headers>>
    /\ UNCHANGED <<produced, source, ring, rx, pc, held, backoff, bridge, wire, ackq,
                   conn, late, received, offered, ackRead, failures, transport>>

\* Recv() or Send() reports that the connection is gone: the handler returns.
CollectorNotices ==
    /\ conn = "broken" /\ srv \in {"recv", "ack"}
    /\ srv' = "done"
    /\ wire' = <<>>
    /\ UNCHANGED <<produced, source, ring, rx, pc, held, backoff, bridge, acks, ackq,
                   conn, headers, late, received, offered, ackRead, failures, transport>>

\* The handler of a stream the agent has given up receives another event of
\* it, and in the end returns.
LateRecv(s) ==
    /\ late[s] # <<>>
    /\ received' = [received EXCEPT ![s] = Append(received[s], Head(late[s]))]
    /\ late' = [late EXCEPT ![s] = Tail(late[s])]
    /\ UNCHANGED <<produced, source, ring, rx, pc, held, backoff, queues, conn, srv,
                   headers, offered, ackRead, failures, transport>>

LateEnds(s) ==
    /\ late[s] # <<>>
    /\ late' = [late EXCEPT ![s] = <<>>]
    /\ UNCHANGED <<produced, source, ring, rx, pc, held, backoff, queues, conn, srv,
                   headers, received, offered, ackRead, failures, transport>>

AckArrives ==
    /\ conn = "up" /\ acks > 0
    /\ acks' = acks - 1 /\ ackq' = ackq + 1
    /\ UNCHANGED <<produced, source, ring, rx, pc, held, backoff, bridge, wire, conn,
                   srv, headers, late, received, offered, ackRead, failures, transport>>

\* Recv() = io.EOF: the handler returns once the request stream has ended.
CollectorEOF ==
    /\ conn = "up" /\ srv = "recv" /\ pc = "drain"
    /\ bridge = <<>> /\ wire = <<>>
    /\ srv' = "done"
    /\ UNCHANGED <<produced, source, ring, rx, pc, held, backoff, queues, conn,
                   headers, late, received, offered, ackRead, failures, transport>>

\* The connection is lost, or the collector ends the stream with an error.
Break ==
    /\ conn = "up" /\ failures < MaxFailures
    /\ conn' = "broken"
    /\ failures' = failures + 1
    /\ UNCHANGED <<produced, source, ring, rx, pc, held, backoff, queues, srv,
                   headers, late, received, offered, ackRead, transport>>

AgentStep == \/ Open \/ HeadersArrive \/ ReadAck \/ TakeEvent \/ Handoff
             \/ BeginDrain \/ Exit

Network == Transmit \/ CollectorRecv \/ CollectorSend \/ AckArrives \/ CollectorEOF

Next == \/ Probe \/ Drain \/ SourceEnds \/ AgentStep \/ OpenTimesOut \/ AttemptFails
        \/ StreamFails \/ Network \/ Break \/ CollectorNotices
        \/ \E s \in 1 .. Len(late) : LateRecv(s) \/ LateEnds(s)

Spec == Init /\ [][Next]_vars

\* The agent and the collector are scheduled and the network delivers while
\* the connection is up; RPC_TIMEOUT ends a stalled stream_events call, and
\* a broken connection is noticed.
FairSpec ==
    /\ Spec
    /\ WF_vars(Drain) /\ WF_vars(Open) /\ WF_vars(HeadersArrive) /\ WF_vars(ReadAck)
    /\ WF_vars(TakeEvent) /\ WF_vars(Handoff) /\ WF_vars(BeginDrain)
    /\ WF_vars(Exit) /\ WF_vars(OpenTimesOut) /\ WF_vars(StreamFails)
    /\ WF_vars(Transmit) /\ WF_vars(CollectorRecv) /\ WF_vars(CollectorSend)
    /\ WF_vars(AckArrives) /\ WF_vars(CollectorEOF)
-----------------------------------------------------------------------------
InHand == IF held = 0 THEN <<>> ELSE <<held>>

\* All events on their way, the oldest first.
InTransit == wire \o bridge \o InHand \o rx \o ring

\* What each of the streams may still bring, the live one last.
Pending == Append(late, InTransit)

Elements(s) == {s[i] : i \in DOMAIN s}

Streams == INSTANCE LossyStreams WITH
               Capacity <- IF RingCap < RxCap THEN RingCap ELSE RxCap,
               Slack <- Window + BridgeCap + 1,
               open <- source = "open", offered <- produced,
               queue <- Pending, delivered <- received

(***************************************************************************)
(* Everything between the probes and the collector is a LossyStreams:      *)
(* across any number of reconnects, and although the handler of an old     *)
(* stream may still be receiving beside the new one's, each stream brings  *)
(* events in order and later streams only later events; one is lost on the *)
(* way into the ring buffer or rx only when that is full of older ones;    *)
(* and a failed attempt loses no more than the connection's window, the    *)
(* bridge and the event in hand, all of them older than what is in rx.     *)
(***************************************************************************)
ImplementsLossyStreams == Streams!Spec

(***************************************************************************)
(* What the comment on stream_to_collector says of its rx: "a dropped      *)
(* connection doesn't lose events already queued by the source".  Those    *)
(* that run_once has taken from rx and the connection has not taken from   *)
(* it are queued for the next attempt.                                     *)
(***************************************************************************)
DroppedConnectionLosesNothing ==
    [][conn = "broken" /\ conn' = "none" =>
          Elements(bridge \o InHand \o rx) \subseteq Elements(rx')]_vars

(***************************************************************************)
(* When the agent exits because its source has ended, everything the last  *)
(* attempt took from rx has reached the collector and been answered, and   *)
(* nothing is left behind (the drain loop of run_once).                    *)
(***************************************************************************)
CleanExit ==
    pc = "exit" => /\ rx = <<>> /\ bridge = <<>> /\ wire = <<>>
                   /\ ackRead = offered

(***************************************************************************)
(* While run_once waits for room in the bridge it reads no acknowledgement. *)
(* The wait always ends: the collector is never stuck on a full window of  *)
(* acknowledgements while the agent is stuck on a full bridge.             *)
(***************************************************************************)
HandoffCompletes == pc = "handoff" ~> pc # "handoff"

(***************************************************************************)
(* The ring buffer keeps being drained whatever becomes of the collector,  *)
(* so a full one is never what stops the probes for good: the source drops *)
(* events itself rather than wait for room in rx (ebpf_source's try_send). *)
(***************************************************************************)
RingKeepsDraining == []<>(ring = <<>>)

(***************************************************************************)
(* What the comment on stream_to_collector says: it connects and streams   *)
(* events until the connection drops.  As long as nothing fails, an agent  *)
(* with an event queued gets one to the collector.                         *)
(***************************************************************************)
QueuedEventsFlow ==
    (rx # <<>> /\ failures = 0) ~> (received # << <<>> >> \/ failures > 0)
=============================================================================
