---------------------------- MODULE TokenBucket ----------------------------
(***************************************************************************)
(* The rate limiter of one StreamEvents stream (internal/receiver): a      *)
(* token bucket refilled lazily, each time an event arrives.  Only the     *)
(* stream's own goroutine uses it, so allow() is one action.               *)
(*                                                                         *)
(* The code keeps a float64 number of tokens and takes one per event.      *)
(* Here tokens are counted in fixed-point units: one event costs Unit of   *)
(* them and each clock tick refills Rate, so a tick may well refill a      *)
(* fraction of an event.  Rounding of the float is not modelled.           *)
(***************************************************************************)
EXTENDS Integers

CONSTANTS
    Rate,       \* units refilled per clock tick
    Burst,      \* capacity of the bucket, in units
    Unit,       \* units one event costs
    MaxClock     \* bound on the clock

ASSUME BucketAssumption ==
    /\ Rate \in Nat
    /\ Burst \in Nat
    /\ Unit \in Nat \ {0}
    /\ MaxClock \in Nat

VARIABLES
    clock,        \* the (monotonic) clock
    tokens,     \* tokenBucket.tokens
    last,       \* tokenBucket.last
    verdict,    \* what the last call of allow() decided
    start,      \* history: the start of an arbitrary window of time
    admitted,   \* history: events admitted since start
    fullAt,     \* history: when the bucket was last full after a refill
    spent       \* history: events admitted since fullAt

bvars == <<clock, tokens, last, verdict, start, admitted, fullAt, spent>>

\* newTokenBucket: the bucket starts full.
BInit ==
    /\ clock = 0
    /\ tokens = Burst
    /\ last = 0
    /\ verdict = "admit"
    /\ start = 0 /\ admitted = 0
    /\ fullAt = 0 /\ spent = 0
-----------------------------------------------------------------------------
\* Mutated form: only whole tokens are refilled, the fraction is lost.
RefillWhole ==
    LET t == tokens + Unit * ((Rate * (clock - last)) \div Unit)
    IN  IF t > Burst THEN Burst ELSE t

\* tokens after "b.tokens += now.Sub(b.last).Seconds() * b.rate" and its cap.
Refilled ==
    LET t == tokens + Rate * (clock - last)
    IN  IF t > Burst THEN Burst ELSE t

\* The history of an arrival: was the bucket full, and was it admitted?
Remember(ok) ==
    LET full == Refilled = Burst
        one  == IF ok THEN 1 ELSE 0
    IN  /\ admitted' = admitted + one
        /\ fullAt' = IF full THEN clock ELSE fullAt
        /\ spent' = (IF full THEN 0 ELSE spent) + one
        /\ UNCHANGED start

\* allow() = true: the event goes on to validation.
Admit ==
    /\ Refilled >= Unit
    /\ tokens' = Refilled - Unit
    /\ last' = clock
    /\ verdict' = "admit"
    /\ Remember(TRUE)
    /\ UNCHANGED clock

\* Mutated form: a refused event leaves b.last as it was, so the same time
\* is refilled again.
ThrottleKeepsLast ==
    /\ Refilled < Unit
    /\ tokens' = Refilled
    /\ verdict' = "drop"
    /\ Remember(FALSE)
    /\ UNCHANGED <<clock, last>>

\* allow() = false: the event is dropped with a negative acknowledgement.
Throttle ==
    /\ Refilled < Unit
    /\ tokens' = Refilled
    /\ last' = clock
    /\ verdict' = "drop"
    /\ Remember(FALSE)
    /\ UNCHANGED clock

Elapse ==
    /\ clock < MaxClock
    /\ clock' = clock + 1
    /\ UNCHANGED <<tokens, last, verdict, start, admitted, fullAt, spent>>

\* A new window to observe begins; the program does nothing.
Observe ==
    /\ start' = clock
    /\ admitted' = 0
    /\ UNCHANGED <<clock, tokens, last, verdict, fullAt, spent>>

BNext == Admit \/ Throttle \/ Elapse \/ Observe

BSpec == BInit /\ [][BNext]_bvars
-----------------------------------------------------------------------------
BTypeOK ==
    /\ clock \in 0 .. MaxClock
    /\ tokens \in 0 .. Burst
    /\ last \in 0 .. clock
    /\ verdict \in {"admit", "drop"}
    /\ start \in 0 .. clock
    /\ admitted \in Nat
    /\ fullAt \in 0 .. last
    /\ spent \in Nat

(***************************************************************************)
(* In EVERY window of time, wherever it starts, the stream gets at most    *)
(* the burst plus the refill of that window through to the store           *)
(* (streamEventsRateLimit, streamEventsRateBurst, #75).                    *)
(***************************************************************************)
RateBound == Unit * admitted <= Burst + Rate * (clock - start)

(***************************************************************************)
(* The limiter throttles no earlier than that: when it drops an event,     *)
(* admitting it would have exceeded the bound on the window that starts    *)
(* when the bucket was last full.  Nothing of the allowance is lost to     *)
(* refused events or to fractions of a token.                              *)
(***************************************************************************)
NeverThrottlesEarly ==
    verdict = "drop" => Unit * (spent + 1) > Burst + Rate * (last - fullAt)
=============================================================================
