------------------------------ MODULE EventLog ------------------------------
(***************************************************************************)
(* The event store as its readers see it (internal/store): SaveEvent gives *)
(* each event a key that starts with the time of receipt as text, the      *)
(* transaction that writes it commits later and in any order, and          *)
(* ListEvents walks the keys backwards on a snapshot of the database.      *)
(*                                                                         *)
(* time.RFC3339Nano drops the trailing zeros of the fraction, and the      *)
(* whole fraction if it is zero, so keys do not all have one length and    *)
(* their order as text is not quite the order of time.                     *)
(*                                                                         *)
(* ListAlerts is the same loop over the alerts' keys.  The retention (7    *)
(* days by default) is left out here; Ingest has it.                       *)
(***************************************************************************)
EXTENDS Integers, Sequences, FiniteSets, FiniteSetsExt

CONSTANTS
    Received,  \* the events, in the order of receipt
    AnyNode,   \* no node filter
    MaxScan    \* maxNodeFilterScan

\* A time is its second and the digits of its fraction.
Time == [sec: Int, frac: Seq(0 .. 9)]

ASSUME EventLogAssumption ==
    /\ Received \in Seq([node: STRING, id: Int, at: Time, claimed: Time])
    /\ \A i \in DOMAIN Received : Received[i].node # AnyNode
    /\ MaxScan \in Nat \ {0}

VARIABLES
    saving,    \* how many events have been given a key
    visible    \* the events a transaction that starts now would see

logVars == <<saving, visible>>

Ids == DOMAIN Received

LogInit == saving = 0 /\ visible = {}
-----------------------------------------------------------------------------
(* Text, as a sequence of characters in the order of their codes. *)

Dot == -1
Zed == 10

Trimmed(digits) ==
    SubSeq(digits, 1, Max({0} \cup {i \in DOMAIN digits : digits[i] # 0}))

\* received.Format(time.RFC3339Nano), the part down to the second being equal
\* in length and therefore one number.
Format(at) ==
    <<at.sec>> \o (IF Trimmed(at.frac) = <<>> THEN <<>> ELSE <<Dot>> \o Trimmed(at.frac))
               \o <<Zed>>

TextLess(a, b) ==
    \E i \in DOMAIN a \cap DOMAIN b :
        a[i] < b[i] /\ \A j \in 1 .. i - 1 : a[j] = b[j]

\* Mutated form: the key starts with the agent's own timestamp.
ClaimedKey == [i \in Ids |-> Append(Format(Received[i].claimed), Received[i].id)]

\* The EventID is unlike the rest never compared in part: it too is a number.
KeyOf == [i \in Ids |-> Append(Format(Received[i].at), Received[i].id)]

\* A second event with the EventID and the nanosecond of another one would
\* overwrite it.
ASSUME KeysDiffer == \A i, j \in Ids : KeyOf[i] = KeyOf[j] => i = j

\* SaveEvent takes the time and starts the transaction.
SaveEvent == saving < Len(Received) /\ saving' = saving + 1 /\ UNCHANGED visible

\* The transaction of an event commits, at the latest long after SaveEvent
\* has given up on it.
Commit(i) ==
    /\ i <= saving /\ i \notin visible
    /\ visible' = visible \cup {i}
    /\ UNCHANGED saving
-----------------------------------------------------------------------------
\* The iterator of a snapshot in reverse order: the events whose keys it
\* passes before that of i, and the n-th event it comes to.
Before(snapshot, i) == {j \in snapshot : TextLess(KeyOf[i], KeyOf[j])}
Nth(snapshot, n) == CHOOSE i \in snapshot : Cardinality(Before(snapshot, i)) = n - 1

\* One turn of the loop, or none once it has ended.
Visit(view, acc, i) ==
    IF Len(acc.events) = view.limit \/ (view.node # AnyNode /\ acc.scanned = MaxScan)
    THEN acc
    ELSE [scanned |-> acc.scanned + 1,
          events  |-> IF view.node \in {AnyNode, Received[i].node}
                      THEN Append(acc.events, i) ELSE acc.events]

ListEvents(snapshot, view) ==
    LET acc[n \in 0 .. Cardinality(snapshot)] ==
            IF n = 0 THEN [scanned |-> 0, events |-> <<>>]
                     ELSE Visit(view, acc[n - 1], Nth(snapshot, n))
    IN  acc[Cardinality(snapshot)].events
-----------------------------------------------------------------------------
Sec(i) == Received[i].at.sec

(***************************************************************************)
(* What ListEvents promises of an answer, said without its loop: the       *)
(* events match and are there, newest first TO THE SECOND; one that        *)
(* matches and was left out is no newer, to the second, than all that were *)
(* listed if the limit was reached, and otherwise lies behind MaxScan      *)
(* other records.                                                          *)
(***************************************************************************)
NewestFirst(snapshot, view, events) ==
    LET listed == Range(events)
        matching == {i \in snapshot : view.node \in {AnyNode, Received[i].node}}
    IN  /\ IsInjective(events) /\ listed \subseteq matching
        /\ Len(events) <= view.limit
        /\ \A m, n \in DOMAIN events : m < n => Sec(events[m]) >= Sec(events[n])
        /\ \A f \in matching \ listed :
              \/ Len(events) = view.limit /\ \A e \in listed : Sec(f) <= Sec(e)
              \/ /\ view.node # AnyNode
                 /\ Cardinality({g \in snapshot \ {f} : Sec(g) >= Sec(f)}) >= MaxScan
=============================================================================
