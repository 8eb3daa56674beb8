----------------------------- MODULE Dispatcher -----------------------------
(***************************************************************************)
(* The notification dispatcher (internal/notify).  DispatchAsync starts a  *)
(* goroutine per alert while fewer than maxConcurrentDispatch run, and     *)
(* drops the notification otherwise.  Each goroutine applies the severity  *)
(* floor and the per-(rule, node) cooldown and then tries the channels one *)
(* after the other under ONE context with one deadline.                    *)
(*                                                                         *)
(* shouldSend reads the clock before it takes the mutex: Gate and Decide   *)
(* are separate steps, and goroutines may reach the mutex in another order *)
(* than they read the clock.  A goroutine may be delayed anywhere, but a   *)
(* Send returns when its context expires (slack.go, email.go, #109).       *)
(***************************************************************************)
EXTENDS Integers, Sequences, FiniteSets

CONSTANTS
    Workers,        \* identities for the goroutines
    Keys,           \* (rule, node) pairs
    Cooldowns,      \* values the configured cooldown may have
    NotifierCount,  \* len(notifiers); with none DispatchAsync does nothing
    Timeout,        \* Dispatcher.timeout, in clock ticks
    MaxConcurrent,  \* maxConcurrentDispatch
    MaxTime,        \* bound on the clock
    MaxCalls        \* bound on the calls of DispatchAsync

ASSUME DispatcherAssumption ==
    /\ IsFiniteSet(Workers) /\ Keys # {}
    /\ Cooldowns \subseteq Nat
    /\ NotifierCount \in Nat \ {0}
    /\ Timeout \in Nat \ {0}
    /\ MaxConcurrent \in Nat \ {0}
    /\ MaxTime \in Nat /\ MaxCalls \in Nat

VARIABLES
    now,
    cooldown,   \* Dispatcher.cooldown, fixed at start-up
    sem,        \* how many tokens the channel sem holds
    job,        \* the goroutines
    lastSent,   \* Dispatcher.lastSent
    dropped,    \* Dispatcher.dropped
    calls,      \* history: calls of DispatchAsync
    fate,       \* history: how many goroutines ended in which way
    tried,      \* history: how many Sends each channel was given
    admitted,   \* history: the times recorded by shouldSend, per key
    suppressed  \* history: the times shouldSend refused, per key

history == <<calls, fate, tried, admitted, suppressed>>
vars == <<now, cooldown, sem, job, lastSent, dropped, history>>

Never == -1
Time == 0 .. MaxTime
Channels == 1 .. NotifierCount

Job == [pc: {"idle", "gate", "decide", "send"}, key: Keys,
        severity: {"below", "passes"}, sample: Time \cup {Never},
        start: Time \cup {Never}, called: Time \cup {Never}, next: Channels]

Idle == [pc |-> "idle", key |-> CHOOSE k \in Keys : TRUE, severity |-> "below",
         sample |-> Never, start |-> Never, called |-> Never, next |-> 1]

Init ==
    /\ now = 0
    /\ cooldown \in Cooldowns
    /\ sem = 0
    /\ job = [w \in Workers |-> Idle]
    /\ lastSent = [k \in Keys |-> Never]
    /\ dropped = 0
    /\ calls = 0
    /\ fate = [below |-> 0, suppressed |-> 0, notified |-> 0]
    /\ tried = [c \in Channels |-> 0]
    /\ admitted = [k \in Keys |-> <<>>]
    /\ suppressed = [k \in Keys |-> {}]
-----------------------------------------------------------------------------
Room == sem < MaxConcurrent

DispatchAsync(k, severity) ==
    /\ calls < MaxCalls
    /\ calls' = calls + 1
    /\ \/ /\ Room
          /\ sem' = sem + 1
          /\ \E w \in Workers :
                /\ job[w].pc = "idle"
                /\ job' = [job EXCEPT ![w] = [Idle EXCEPT !.pc = "gate", !.key = k,
                                                          !.severity = severity]]
          /\ UNCHANGED dropped
       \/ /\ ~Room
          /\ dropped' = dropped + 1
          /\ UNCHANGED <<sem, job>>
    /\ UNCHANGED <<now, cooldown, lastSent, fate, tried, admitted, suppressed>>

\* Mutated form: a goroutine that sends nothing keeps its slot.
ReleaseIfNotified(how) == IF how = "notified" THEN sem - 1 ELSE sem

\* defer func() { <-d.sem }()
Release(how) == sem - 1

\* The goroutine ends.
Finish(w, how) ==
    /\ job' = [job EXCEPT ![w] = Idle]
    /\ sem' = Release(how)
    /\ fate' = [fate EXCEPT ![how] = @ + 1]

\* Past shouldSend: the context's deadline starts to run.  The history field
\* called remembers when the current channel's Send was called.
BeginSends(w) ==
    /\ job' = [job EXCEPT ![w].pc = "send", ![w].start = now, ![w].called = now]
    /\ UNCHANGED <<sem, fate>>

\* shouldSend up to the mutex.
Gate(w) ==
    /\ job[w].pc = "gate"
    /\ \/ /\ job[w].severity = "below"
          /\ Finish(w, "below")
       \/ /\ job[w].severity = "passes" /\ cooldown = 0
          /\ BeginSends(w)
       \/ /\ job[w].severity = "passes" /\ cooldown > 0
          /\ job' = [job EXCEPT ![w].pc = "decide", ![w].sample = now]
          /\ UNCHANGED <<sem, fate>>
    /\ UNCHANGED <<now, cooldown, lastSent, dropped, calls, tried, admitted,
                   suppressed>>

\* Mutated form: a clock read before the last admission is not compared.
InCooldownIfLater(k, at) ==
    lastSent[k] # Never /\ at >= lastSent[k] /\ at - lastSent[k] < cooldown

\* Mutated form: one tick too long.
InCooldownInclusive(k, at) == lastSent[k] # Never /\ at - lastSent[k] <= cooldown

InCooldown(k, at) == lastSent[k] # Never /\ at - lastSent[k] < cooldown

\* The rest of shouldSend, under the mutex.
Decide(w) ==
    /\ job[w].pc = "decide"
    /\ LET k == job[w].key  at == job[w].sample
       IN  \/ /\ InCooldown(k, at)
              /\ Finish(w, "suppressed")
              /\ suppressed' = [suppressed EXCEPT ![k] = @ \cup {at}]
              /\ UNCHANGED <<lastSent, admitted>>
           \/ /\ ~InCooldown(k, at)
              /\ BeginSends(w)
              /\ lastSent' = [lastSent EXCEPT ![k] = at]
              /\ admitted' = [admitted EXCEPT ![k] = Append(@, at)]
              /\ UNCHANGED suppressed
    /\ UNCHANGED <<now, cooldown, dropped, calls, tried>>

\* Mutated form: the loop ends at the first channel that fails.
DoneAfter(c, ok) == c = NotifierCount \/ ~ok

\* for _, n := range d.notifiers, with continue on error
LoopDone(c, ok) == c = NotifierCount

\* The Send of the current channel returns; the loop goes on with the next.
NextChannel(w, ok) ==
    LET c == job[w].next
    IN  /\ tried' = [tried EXCEPT ![c] = @ + 1]
        /\ IF LoopDone(c, ok)
           THEN Finish(w, "notified")
           ELSE /\ job' = [job EXCEPT ![w].next = c + 1, ![w].called = now]
                /\ UNCHANGED <<sem, fate>>
        /\ UNCHANGED <<now, cooldown, lastSent, dropped, calls, admitted, suppressed>>

\* The channel accepts or refuses the message before the deadline.
SendReturns(w) ==
    /\ job[w].pc = "send"
    /\ now < job[w].start + Timeout
    /\ \E ok \in BOOLEAN : NextChannel(w, ok)

\* ctx expired while the channel was still silent, or before its turn.
SendCutOff(w) ==
    /\ job[w].pc = "send"
    /\ now = job[w].start + Timeout
    /\ NextChannel(w, FALSE)

\* Time does not pass a deadline that has not been acted on.
Tick ==
    /\ now < MaxTime
    /\ \A w \in Workers : job[w].pc = "send" => now < job[w].start + Timeout
    /\ now' = now + 1
    /\ UNCHANGED <<cooldown, sem, job, lastSent, dropped, history>>

Step(w) == Gate(w) \/ Decide(w) \/ SendReturns(w) \/ SendCutOff(w)

Next ==
    \/ \E k \in Keys, severity \in {"below", "passes"} : DispatchAsync(k, severity)
    \/ \E w \in Workers : Step(w)
    \/ Tick

Spec == Init /\ [][Next]_vars
-----------------------------------------------------------------------------
Live == {w \in Workers : job[w].pc # "idle"}

(***************************************************************************)
(* The semaphore counts exactly the goroutines that run, never more than   *)
(* maxConcurrentDispatch, so no path through Dispatch (filtered,           *)
(* suppressed, failed, delivered) leaks a slot, and every call of          *)
(* DispatchAsync is accounted for as dropped, running or ended.            *)
(***************************************************************************)
EveryCallAccounted ==
    /\ sem = Cardinality(Live) /\ sem <= MaxConcurrent
    /\ calls = dropped + sem + fate.below + fate.suppressed + fate.notified

\* The dispatches that are still sending and are done with channel c.
Past(c) == {w \in Workers : job[w].pc = "send" /\ job[w].next > c}

(***************************************************************************)
(* A channel that fails or times out does not keep the alert from the      *)
(* others: every dispatch that passed shouldSend tries every channel.      *)
(***************************************************************************)
EveryChannelTried ==
    \A c \in Channels : tried[c] = fate.notified + Cardinality(Past(c))

(***************************************************************************)
(* Two admissions of one (rule, node) are always a cooldown apart by the   *)
(* clock they read, although goroutines may pass the mutex in another      *)
(* order than they read the clock (shouldSend).                            *)
(***************************************************************************)
AdmissionsSpaced ==
    \A k \in Keys : \A i \in 1 .. Len(admitted[k]), j \in 1 .. Len(admitted[k]) :
        i < j => admitted[k][j] - admitted[k][i] >= cooldown

(***************************************************************************)
(* The cooldown only silences duplicates: an alert is suppressed only if   *)
(* one of the same (rule, node) was admitted less than a cooldown before   *)
(* it, or after it.  Dropped and filtered alerts never start a cooldown.   *)
(***************************************************************************)
SuppressedHasCover ==
    \A k \in Keys : \A at \in suppressed[k] :
        \E i \in 1 .. Len(admitted[k]) : at - admitted[k][i] < cooldown

(***************************************************************************)
(* What the comment on Options.SendTimeout says ("per-notifier send        *)
(* timeout"): a Send that is cut off has had Timeout to itself.            *)
(***************************************************************************)
PerNotifierTimeout ==
    [][\A w \in Workers : SendCutOff(w) => now >= job[w].called + Timeout]_vars
=============================================================================
