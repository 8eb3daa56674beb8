---------------------------- MODULE CounterProofs ---------------------------
(* How far the counters of /api/stats drift from the store, for any number  *)
(* of streams, events, alerts and crashes.                                  *)
EXTENDS IngestProofs, FiniteSetTheorems

(***************************************************************************)
(* CountersWithinDrift is not inductive.  The count of an event that is    *)
(* reported as stored must be its first, so it cannot have been abandoned  *)
(* before; and a commit must not add to what the counters owe, so a write  *)
(* that is still running belongs to an event that is not reported.         *)
(***************************************************************************)
CountInv ==
    /\ counters \in [Types -> Nat]
    /\ abandoned \subseteq {id \in EventIds : id[2] <= Len(received[id[1]])}
    /\ \A s \in Streams : pc[s] = "event" => CurrentId(s) \notin abandoned
    /\ \A id \in EventIds : write[<<id[1], id[2], 0>>] = "running" => id \in Unreported
    /\ CountersWithinDrift

\* What the counters must not miss, and what they may count.
Owed(t) == StoredOn(disk, t, {"live"}) \ Unreported
Countable(t) == StoredOn(disk, t, {"live", "expired"}) \ Unreported

(***************************************************************************)
(* Sets of events are finite, so they have a size.                         *)
(***************************************************************************)
LEMMA FiniteIds == \A S \in SUBSET EventIds : IsFiniteSet(S) /\ Cardinality(S) \in Nat
<1>1. IsFiniteSet(1 .. MaxEvents)
  BY IngestAssumption, FS_Interval
<1>2. IsFiniteSet(EventIds)
  BY <1>1, FinitelyMany, FS_Product, Zenon DEF EventIds
<1> QED
  BY <1>2, FS_Subset, FS_CardinalityType

(***************************************************************************)
(* A count between the sizes of two sets stays between them when the lower *)
(* one shrinks and the upper one grows.                                    *)
(***************************************************************************)
LEMMA Between ==
    ASSUME NEW A \in SUBSET EventIds, NEW B \in SUBSET EventIds, NEW A2 \in SUBSET A,
           NEW B2 \in SUBSET EventIds, B \subseteq B2,
           NEW c \in Nat, Cardinality(A) <= c, c <= Cardinality(B)
    PROVE  Cardinality(A2) <= c /\ c <= Cardinality(B2)
<1>1. Cardinality(A2) <= Cardinality(A) /\ Cardinality(B) <= Cardinality(B2)
  BY FiniteIds, FS_Subset
<1>2. /\ Cardinality(A2) \in Nat /\ Cardinality(A) \in Nat
      /\ Cardinality(B) \in Nat /\ Cardinality(B2) \in Nat
  BY FiniteIds
<1> QED
  BY <1>1, <1>2

(***************************************************************************)
(* And one more is between them when both gain the same event.             *)
(***************************************************************************)
LEMMA BetweenOneMore ==
    ASSUME NEW A \in SUBSET EventIds, NEW B \in SUBSET EventIds, NEW x \in EventIds,
           x \notin B, A \subseteq B,
           NEW c \in Nat, Cardinality(A) <= c, c <= Cardinality(B)
    PROVE  Cardinality(A \cup {x}) <= c + 1 /\ c + 1 <= Cardinality(B \cup {x})
<1>1. /\ Cardinality(A \cup {x}) = Cardinality(A) + 1
      /\ Cardinality(B \cup {x}) = Cardinality(B) + 1
  BY FiniteIds, FS_AddElement
<1>2. Cardinality(A) \in Nat /\ Cardinality(B) \in Nat
  BY FiniteIds
<1> QED
  BY <1>1, <1>2

(***************************************************************************)
(* The bounds as sizes of sets of events, now and after a step.            *)
(***************************************************************************)
LEMMA Bounds ==
    /\ CountersWithinDrift <=>
          \A t \in Types : /\ Cardinality(Owed(t)) <= counters[t]
                           /\ counters[t] <= Cardinality(Countable(t))
    /\ \A t \in Types : Owed(t) \subseteq Countable(t) /\ Countable(t) \subseteq EventIds
  BY DEF CountersWithinDrift, Owed, Countable, StoredOn

(***************************************************************************)
(* A step that counts nothing keeps the bounds if what is owed shrinks and *)
(* what may be counted grows.                                              *)
(***************************************************************************)
LEMMA NothingCounted ==
    ASSUME CountInv, counters' = counters,
           \A t \in Types : Owed(t)' \subseteq Owed(t) /\ Countable(t) \subseteq Countable(t)'
    PROVE  CountersWithinDrift'
<1> SUFFICES ASSUME NEW t \in Types
             PROVE  Cardinality(Owed(t)') <= counters[t] /\ counters[t] <= Cardinality(Countable(t)')
  BY DEF CountersWithinDrift, Owed, Countable
<1>1. /\ Cardinality(Owed(t)) <= counters[t] /\ counters[t] <= Cardinality(Countable(t))
      /\ counters[t] \in Nat
  BY Bounds DEF CountInv
<1>2. /\ Owed(t) \in SUBSET EventIds /\ Countable(t) \in SUBSET EventIds
      /\ Countable(t)' \in SUBSET EventIds
  BY DEF Owed, Countable, StoredOn
<1> QED
  BY <1>1, <1>2, Between

(***************************************************************************)
(* Steps that neither receive, save, count nor begin to write an event.    *)
(***************************************************************************)
LEMMA NoEventMoves ==
    ASSUME CountInv, UNCHANGED <<received, disk, counters, abandoned>>,
           \A s \in Streams : pc'[s] = "event" <=> pc[s] = "event",
           \A id \in EventIds : write'[<<id[1], id[2], 0>>] = "running" =>
                                write[<<id[1], id[2], 0>>] = "running"
    PROVE  CountInv'
<1>1. Unreported' = Unreported
  BY DEF Unreported, CurrentId
<1>2. \A t \in Types : Owed(t)' = Owed(t) /\ Countable(t)' = Countable(t)
  BY <1>1 DEF Owed, Countable, StoredOn, TypeOf
<1>3. CountersWithinDrift'
  BY <1>2, NothingCounted
<1> QED
  BY <1>1, <1>3 DEF CountInv, CurrentId

(***************************************************************************)
(* A commit concerns an event that is not reported, and an expired event   *)
(* may stay counted.                                                       *)
(***************************************************************************)
LEMMA StoreMoves ==
    ASSUME IInv, CountInv, NEW r \in Records, Commit(r) \/ Expire(r)
    PROVE  CountInv'
<1>1. /\ UNCHANGED <<received, pc, counters, abandoned>>
      /\ \A q \in Records : q # r => disk'[q] = disk[q] /\ write'[q] = write[q]
      /\ write'[r] # "running" \/ write' = write
      /\ \/ disk'[r] = "live" /\ write[r] = "running"
         \/ disk'[r] = "expired" /\ disk[r] = "live"
  BY DEF Commit, Expire, local, IInv, Types0
<1>2. Unreported' = Unreported
  BY <1>1 DEF Unreported, CurrentId
<1>3. \A id \in EventIds : <<id[1], id[2], 0>> \in Records
  BY IngestAssumption DEF EventIds, Records
<1>4. ASSUME NEW t \in Types, NEW id \in EventIds
      PROVE  /\ id \in Owed(t)' => id \in Owed(t)
             /\ id \in Countable(t) => id \in Countable(t)'
  <2>1. CASE <<id[1], id[2], 0>> = r
    BY <1>1, <1>2, <2>1 DEF Owed, Countable, StoredOn, TypeOf, CountInv
  <2>2. CASE <<id[1], id[2], 0>> # r
    BY <1>1, <1>2, <1>3, <2>2 DEF Owed, Countable, StoredOn, TypeOf
  <2> QED
    BY <2>1, <2>2
<1>5. \A t \in Types : Owed(t)' \subseteq Owed(t) /\ Countable(t) \subseteq Countable(t)'
  BY <1>4 DEF Owed, Countable, StoredOn
<1>6. CountersWithinDrift'
  BY <1>1, <1>5, NothingCounted
<1>7. \A id \in EventIds : write'[<<id[1], id[2], 0>>] = "running" =>
                           write[<<id[1], id[2], 0>>] = "running"
  BY <1>1, <1>3
<1> QED
  BY <1>1, <1>2, <1>6, <1>7 DEF CountInv, CurrentId

(***************************************************************************)
(* A new event is neither stored nor abandoned yet.                        *)
(***************************************************************************)
LEMMA ReceiveCounts ==
    ASSUME IInv, CountInv, NEW s \in Streams, NEW e \in Event, NEW allowed \in BOOLEAN,
           Receive(s, e, allowed)
    PROVE  CountInv'
<1> USE IngestAssumption
<1>n. PICK m \in Nat : m = Len(received[s]) + 1
  BY DEF IInv, Types0
<1>1. /\ m \in 1 .. MaxEvents /\ NoTrace(s, m) /\ pc[s] = "recv" /\ <<s, m>> \in EventIds
  <2>1. m \in 1 .. MaxEvents /\ m > Len(received[s])
    BY <1>n DEF Receive, IInv, Types0
  <2>2. Absence(s, m)
    BY <2>1 DEF IInv, StreamInv
  <2> QED
    BY <2>1, <2>2, Indices, Zenon DEF Absence, Receive
<1>2. /\ UNCHANGED <<disk, counters, abandoned>>
      /\ \A t \in Streams : t # s => received'[t] = received[t] /\ pc'[t] = pc[t]
      /\ Len(received'[s]) = m /\ \A i \in 1 .. m - 1 : received'[s][i] = received[s][i]
      /\ \/ write' = write /\ pc'[s] = "ack"
         \/ write' = [write EXCEPT ![<<s, m, 0>>] = "running"] /\ pc'[s] = "event"
  <2>1. received' = [received EXCEPT ![s] = Append(@, e)] /\ received[s] \in Seq(Event)
    BY DEF Receive, IInv, Types0
  <2>2. Len(received'[s]) = m /\ \A i \in 1 .. m - 1 : received'[s][i] = received[s][i]
    BY <1>n, <2>1 DEF IInv, Types0
  <2>3. \A t \in Streams : t # s => received'[t] = received[t] /\ pc'[t] = pc[t]
    BY <2>1 DEF Receive, IInv, Types0
  <2>4. \/ write' = write /\ pc'[s] = "ack"
        \/ write' = [write EXCEPT ![<<s, m, 0>>] = "running"] /\ pc'[s] = "event"
    BY <2>2, Zenon DEF Receive, Spawn, IInv, Types0
  <2> QED
    BY <2>2, <2>3, <2>4 DEF Receive
<1>3. Unreported' = IF pc'[s] = "event" THEN Unreported \cup {<<s, m>>} ELSE Unreported
  <2>1. \A t \in Streams : t # s => CurrentId(t)' = CurrentId(t)
    BY <1>2, Zenon DEF CurrentId
  <2>2. CurrentId(s)' = <<s, m>>
    BY <1>2 DEF CurrentId
  <2>3. \A id : id \in Unreported <=> \/ id \in abandoned
                                       \/ \E t \in Streams : pc[t] = "event" /\ id = CurrentId(t)
    BY DEF Unreported
  <2>4. \A id : id \in Unreported' <=> \/ id \in abandoned
                                        \/ \E t \in Streams : pc'[t] = "event" /\ id = CurrentId(t)'
    BY <1>2 DEF Unreported
  <2>5. \A id : id \in Unreported' <=> id \in Unreported \/ (pc'[s] = "event" /\ id = <<s, m>>)
    BY <1>1, <1>2, <2>1, <2>2, <2>3, <2>4
  <2> QED
    BY <2>5
<1>4. ASSUME NEW id \in EventIds, id # <<s, m>>
      PROVE  /\ id[2] <= Len(received'[id[1]]) <=> id[2] <= Len(received[id[1]])
             /\ id[2] <= Len(received[id[1]]) => TypeOf(id)' = TypeOf(id)
  <2>1. id[1] \in Streams /\ id[2] \in 1 .. MaxEvents /\ (id[1] # s \/ id[2] # m)
    BY <1>4 DEF EventIds
  <2>2. CASE id[1] # s
    BY <1>2, <2>1, <2>2 DEF TypeOf
  <2>3. CASE id[1] = s /\ id[2] # m
    <3>1. id[2] <= m <=> id[2] <= m - 1
      BY <2>1, <2>3
    <3>2. m - 1 = Len(received[s])
      BY <1>n DEF IInv, Types0
    <3> QED
      BY <1>2, <2>1, <2>3, <3>1, <3>2 DEF TypeOf
  <2> QED
    BY <2>1, <2>2, <2>3
<1>5. disk[<<s, m, 0>>] = "none"
  BY <1>1 DEF NoTrace
<1>6. ASSUME NEW t \in Types, NEW id \in EventIds
      PROVE  /\ id \in Owed(t)' => id \in Owed(t)
             /\ id \in Countable(t) => id \in Countable(t)'
  <2>1. CASE id = <<s, m>>
    BY <1>2, <1>5, <2>1 DEF Owed, Countable, StoredOn
  <2>2. CASE id # <<s, m>>
    BY <1>2, <1>3, <1>4, <2>2 DEF Owed, Countable, StoredOn
  <2> QED
    BY <2>1, <2>2
<1>7. CountersWithinDrift'
  <2>1. \A t \in Types : Owed(t)' \subseteq Owed(t) /\ Countable(t) \subseteq Countable(t)'
    BY <1>6 DEF Owed, Countable, StoredOn
  <2> QED
    BY <1>2, <2>1, NothingCounted
<1>8. <<s, m>> \notin abandoned
  BY <1>n, <1>1 DEF CountInv
<1>9. ASSUME NEW t \in Streams, pc'[t] = "event" PROVE CurrentId(t)' \notin abandoned'
  BY <1>2, <1>8, <1>9, Zenon DEF CurrentId, CountInv
<1>10. ASSUME NEW id \in EventIds, write'[<<id[1], id[2], 0>>] = "running" PROVE id \in Unreported'
  <2>1. CASE id = <<s, m>>
    <3>1. write[<<s, m, 0>>] = "none"
      BY <1>1 DEF NoTrace
    <3> QED
      BY <1>2, <1>3, <1>10, <2>1, <3>1
  <2>2. CASE id # <<s, m>>
    <3>1. <<id[1], id[2], 0>> # <<s, m, 0>> /\ <<id[1], id[2], 0>> \in Records
      BY <2>2 DEF EventIds, Records
    <3>2. write[<<id[1], id[2], 0>>] = "running"
      BY <1>2, <1>10, <3>1 DEF IInv, Types0
    <3> QED
      BY <1>3, <3>2 DEF CountInv
  <2> QED
    BY <2>1, <2>2
<1>11. abandoned' \subseteq {id \in EventIds : id[2] <= Len(received'[id[1]])}
  BY <1>2, <1>4, <1>8, Zenon DEF CountInv
<1> QED
  BY <1>2, <1>7, <1>9, <1>10, <1>11 DEF CountInv

(***************************************************************************)
(* SaveEvent returns.  If it reports the event as stored the event is      *)
(* counted, and is from then on owed; if not it stays unreported.          *)
(***************************************************************************)
LEMMA EventSavedCounts ==
    ASSUME IInv, CountInv, NEW s \in Streams, NEW stored \in BOOLEAN, EventSaved(s, stored),
           stored => write[Awaited(s)] = "committed"
    PROVE  CountInv'
<1> USE IngestAssumption
<1>n. PICK x \in EventIds : x = CurrentId(s)
  <2>1. /\ pc[s] = "event" /\ Working(s) /\ Position(s)
        /\ Len(received[s]) \in Nat /\ Len(acks[s]) \in Nat
    BY DEF EventSaved, IInv, StreamInv, Types0, Working
  <2>2. Len(received[s]) \in 1 .. MaxEvents
    <3>1. Len(received[s]) = Len(acks[s]) + 1 /\ Len(received[s]) <= MaxEvents
      BY <2>1 DEF Position, Answered, IInv, StreamInv
    <3> QED
      BY <2>1, <3>1
  <2> QED
    BY <2>2, Indices, Zenon DEF CurrentId
<1>1. /\ x = <<s, Len(received[s])>> /\ x[1] = s /\ x[2] = Len(received[s])
      /\ pc[s] = "event" /\ x \in Unreported /\ x \notin abandoned
  BY <1>n DEF CurrentId, EventSaved, Unreported, CountInv
<1>2. /\ UNCHANGED <<received, disk>> /\ pc'[s] # "event"
      /\ \A t \in Streams : t # s => pc'[t] = pc[t]
      /\ abandoned' = IF stored THEN abandoned ELSE abandoned \cup {x}
      /\ counters' = Count(s, stored)
  BY <1>n DEF EventSaved, SaveAlertFrom, IInv, Types0
<1>3. \A t \in Streams : CurrentId(t)' = CurrentId(t) /\ (t # s => CurrentId(t) # x)
  BY <1>1, <1>2, Zenon DEF CurrentId
<1>4. Unreported' = IF stored THEN Unreported \ {x} ELSE Unreported
  <2>1. \A id : id \in Unreported <=> \/ id \in abandoned
                                       \/ \E t \in Streams : pc[t] = "event" /\ id = CurrentId(t)
    BY DEF Unreported
  <2>2. \A id : id \in Unreported' <=> \/ id \in abandoned'
                                        \/ \E t \in Streams : pc'[t] = "event" /\ id = CurrentId(t)
    BY <1>3 DEF Unreported
  <2>3. \A id : (\E t \in Streams : pc[t] = "event" /\ id = CurrentId(t)) <=>
                 id = x \/ \E t \in Streams : pc'[t] = "event" /\ id = CurrentId(t)
    BY <1>n, <1>1, <1>2, Zenon
  <2>4. ~\E t \in Streams : pc'[t] = "event" /\ x = CurrentId(t)
    BY <1>2, <1>3
  <2>5. \A id : id \in Unreported' <=> id \in Unreported /\ (stored => id # x)
    BY <1>1, <1>2, <2>1, <2>2, <2>3, <2>4, Zenon
  <2> QED
    BY <2>5
<1>5. ASSUME NEW id \in EventIds, write'[<<id[1], id[2], 0>>] = "running"
      PROVE  write[<<id[1], id[2], 0>>] = "running"
  <2>1. PICK i \in Int : i # 0 /\ (write' = write \/ write' = [write EXCEPT ![Current(s, i)] = "running"])
    BY DEF EventSaved, SaveAlertFrom, Spawn
  <2>2. <<id[1], id[2], 0>> # Current(s, i) /\ <<id[1], id[2], 0>> \in Records
    BY <2>1 DEF Current, EventIds, Records
  <2> QED
    BY <1>5, <2>1, <2>2, Zenon DEF IInv, Types0
<1>6. CASE ~stored
  <2>1. counters' = counters /\ Unreported' = Unreported
    BY <1>2, <1>4, <1>6 DEF Count
  <2>2. \A t \in Types : Owed(t)' = Owed(t) /\ Countable(t)' = Countable(t)
    BY <1>2, <2>1, Zenon DEF Owed, Countable, StoredOn, TypeOf
  <2>3. CountersWithinDrift'
    BY <2>1, <2>2, NothingCounted
  <2>4. abandoned' \subseteq {id \in EventIds : id[2] <= Len(received'[id[1]])}
    <3>1. abandoned' = abandoned \cup {x}
      BY <1>2, <1>6
    <3>2. Len(received[x[1]]) \in Int /\ x[2] <= Len(received[x[1]])
      BY <1>1 DEF IInv, Types0
    <3> QED
      BY <1>2, <3>1, <3>2 DEF CountInv
  <2>5. ASSUME NEW t \in Streams, pc'[t] = "event" PROVE CurrentId(t)' \notin abandoned'
    BY <1>2, <1>3, <2>5 DEF CountInv
  <2> QED
    BY <1>5, <2>1, <2>3, <2>4, <2>5 DEF CountInv
<1>7. CASE stored
  <2>1. disk[<<x[1], x[2], 0>>] \in {"live", "expired"}
    <3>1. write[<<s, x[2], 0>>] = "committed" /\ x[2] \in 1 .. MaxEvents
      BY <1>1, <1>7 DEF Awaited, Current, EventIds
    <3>2. OnDisk(s, x[2]) /\ 0 \in 0 .. MaxAlerts
      BY <3>1 DEF IInv, StreamInv
    <3>3. <<s, x[2], 0>> \in Records
      BY <3>1, <3>2, Indices
    <3> QED
      BY <1>1, <3>1, <3>2, <3>3 DEF OnDisk, IInv, Types0
  <2>2. /\ TypeOf(x) = TypeOf(Current(s, 0)) /\ TypeOf(x) \in Types
    <3>1. received[s][x[2]] \in Event
      BY <1>1 DEF IInv, Types0, EventIds
    <3> QED
      BY <1>1, <3>1 DEF TypeOf, Current, Event
  <2>3. /\ counters' = [counters EXCEPT ![TypeOf(x)] = @ + 1] /\ counters' \in [Types -> Nat]
    <3>1. counters' = [counters EXCEPT ![TypeOf(x)] = @ + 1]
      BY <1>2, <1>7, <2>2 DEF Count
    <3>2. counters \in [Types -> Nat]
      BY DEF CountInv
    <3> QED
      BY <2>2, <3>1, <3>2
  <2>4. ASSUME NEW t \in Types
        PROVE  Cardinality(Owed(t)') <= counters'[t] /\ counters'[t] <= Cardinality(Countable(t)')
    <3>0. /\ Owed(t) \in SUBSET EventIds /\ Countable(t) \in SUBSET EventIds
          /\ Owed(t) \subseteq Countable(t) /\ x \notin Countable(t)
          /\ Countable(t)' \in SUBSET EventIds
      BY <1>1 DEF Owed, Countable, StoredOn
    <3>1. /\ Cardinality(Owed(t)) <= counters[t] /\ counters[t] <= Cardinality(Countable(t))
          /\ counters[t] \in Nat
      BY Bounds DEF CountInv
    <3>2. CASE t = TypeOf(x)
      <4>1. Owed(t)' \subseteq Owed(t) \cup {x}
        BY <1>2, <1>4, <1>7 DEF Owed, StoredOn, TypeOf
      <4>2. Countable(t) \cup {x} \subseteq Countable(t)'
        <5>1. x[2] <= Len(received[x[1]])
          BY <1>1 DEF IInv, Types0
        <5>2. x \in Countable(t)'
          BY <1>2, <1>4, <1>7, <2>1, <3>2, <5>1 DEF Countable, StoredOn, TypeOf
        <5>3. Countable(t) \subseteq Countable(t)'
          BY <1>2, <1>4, <1>7 DEF Countable, StoredOn, TypeOf
        <5> QED
          BY <5>2, <5>3
      <4>3. /\ Cardinality(Owed(t) \cup {x}) <= counters[t] + 1
            /\ counters[t] + 1 <= Cardinality(Countable(t) \cup {x})
        BY <3>0, <3>1, BetweenOneMore, Zenon
      <4>4. counters'[t] = counters[t] + 1 /\ counters[t] + 1 \in Nat
        BY <2>3, <3>1, <3>2 DEF CountInv
      <4>5. /\ Owed(t) \cup {x} \in SUBSET EventIds /\ Countable(t) \cup {x} \in SUBSET EventIds
            /\ Owed(t)' \in SUBSET (Owed(t) \cup {x})
        BY <3>0, <4>1
      <4>6. /\ Cardinality(Owed(t)') <= counters[t] + 1
            /\ counters[t] + 1 <= Cardinality(Countable(t)')
        BY <3>0, <4>2, <4>3, <4>4, <4>5, Between
      <4> QED
        BY <4>4, <4>6
    <3>3. CASE t # TypeOf(x)
      <4>1. Owed(t)' \subseteq Owed(t) /\ Countable(t) \subseteq Countable(t)'
        BY <1>2, <1>4, <1>7, <3>3 DEF Owed, Countable, StoredOn, TypeOf
      <4>2. counters'[t] = counters[t]
        BY <2>3, <3>3 DEF CountInv
      <4> QED
        BY <3>0, <3>1, <4>1, <4>2, Between, Zenon
    <3> QED
      BY <3>2, <3>3
  <2>5. CountersWithinDrift'
    BY <2>4 DEF CountersWithinDrift, Owed, Countable
  <2>6. abandoned' = abandoned
    BY <1>2, <1>7
  <2>7. \A id \in EventIds : write'[<<id[1], id[2], 0>>] = "running" => id \in Unreported'
    <3>1. write'[<<x[1], x[2], 0>>] # "running"
      BY <1>1, <1>5, <1>7 DEF Awaited, Current
    <3> QED
      BY <1>4, <1>5, <3>1 DEF CountInv
  <2> QED
    BY <1>2, <1>3, <2>3, <2>5, <2>6, <2>7, Zenon DEF CountInv
<1> QED
  BY <1>6, <1>7

(***************************************************************************)
(* A restart counts what it finds.                                         *)
(***************************************************************************)
LEMMA CrashCounts == ASSUME IInv, CountInv, Crash PROVE CountInv'
<1>0. \A s \in Streams : pc'[s] # "event"
  <2> SUFFICES ASSUME NEW s \in Streams, pc'[s] = "event" PROVE FALSE
    OBVIOUS
  <2>1. received[s] = <<>> /\ pc[s] = "event"
    BY DEF Crash
  <2>2. Len(received[s]) = 0 /\ Len(acks[s]) \in Nat
    BY <2>1 DEF IInv, Types0
  <2>3. Len(acks[s]) = Len(received[s]) - 1
    BY <2>1 DEF IInv, StreamInv, Position, Working, Answered
  <2> QED
    BY <2>2, <2>3
<1>1. /\ received' = received /\ abandoned' = {} /\ counters' = loadCounters(disk')
      /\ \A r \in Records : write'[r] # "running"
  BY DEF Crash
<1>2. Unreported' = {}
  BY <1>0, <1>1 DEF Unreported
<1>3. \A id \in EventIds : <<id[1], id[2], 0>> \in Records
  BY IngestAssumption DEF EventIds, Records
<1>4. ASSUME NEW t \in Types
      PROVE  /\ counters'[t] = Cardinality(Owed(t)')
             /\ Owed(t)' \in SUBSET EventIds /\ Countable(t)' \in SUBSET EventIds
             /\ Owed(t)' \subseteq Countable(t)'
  BY <1>1, <1>2 DEF loadCounters, Owed, Countable, StoredOn, TypeOf
<1>5. counters' \in [Types -> Nat]
  BY <1>1, <1>4, FiniteIds DEF loadCounters
<1>6. ASSUME NEW t \in Types
      PROVE  Cardinality(Owed(t)') <= counters'[t] /\ counters'[t] <= Cardinality(Countable(t)')
  <2>1. Cardinality(Owed(t)') \in Nat /\ Cardinality(Owed(t)') <= Cardinality(Countable(t)')
    BY <1>4, FiniteIds, FS_Subset
  <2> QED
    BY <1>4, <2>1
<1>7. CountersWithinDrift'
  BY <1>6 DEF CountersWithinDrift, Owed, Countable
<1> QED
  BY <1>0, <1>1, <1>3, <1>5, <1>7, Zenon DEF CountInv

(***************************************************************************)
(* Every step keeps the account of the counters.                           *)
(***************************************************************************)
LEMMA NextCountInv == IInv /\ CountInv /\ [Next]_vars => CountInv'
<1> SUFFICES ASSUME IInv, CountInv, [Next]_vars PROVE CountInv'
  OBVIOUS
<1>r. \A id \in EventIds : <<id[1], id[2], 0>> \in Records
  BY IngestAssumption DEF EventIds, Records
<1>1. ASSUME NEW s \in Streams, NEW stored \in BOOLEAN, AlertSaved(s, stored) PROVE CountInv'
  <2>1. /\ UNCHANGED <<received, disk, counters, abandoned>>
        /\ \A t \in Streams : pc'[t] = "event" <=> pc[t] = "event"
    BY <1>1 DEF AlertSaved, SaveAlertFrom, IInv, Types0
  <2>2. alert[s] + 1 \in Int /\ alert[s] + 1 # 0
    BY <1>1 DEF AlertSaved, IInv, Types0, StreamInv, Position
  <2>3. write' = write \/ write' = [write EXCEPT ![Current(s, alert[s] + 1)] = "running"]
    BY <1>1 DEF AlertSaved, SaveAlertFrom, Spawn
  <2>4. \A id \in EventIds : <<id[1], id[2], 0>> # Current(s, alert[s] + 1)
    BY <2>2 DEF Current
  <2>5. \A id \in EventIds : write'[<<id[1], id[2], 0>>] = write[<<id[1], id[2], 0>>]
    BY <1>r, <2>3, <2>4, Zenon DEF IInv, Types0
  <2> QED
    BY <2>1, <2>5, NoEventMoves
<1>2. ASSUME NEW s \in Streams, SendAck(s) \/ StreamEnds(s) \/ Disconnect(s) PROVE CountInv'
  <2>1. /\ UNCHANGED <<received, disk, counters, abandoned, write>>
        /\ \A t \in Streams : pc'[t] = "event" <=> pc[t] = "event"
    BY <1>2 DEF SendAck, StreamEnds, Disconnect, store, IInv, Types0
  <2> QED
    BY <2>1, NoEventMoves
<1>3. ASSUME NEW r \in Records, UpdateFails(r) PROVE CountInv'
  <2>1. UNCHANGED <<received, disk, counters, abandoned, pc>>
    BY <1>3 DEF UpdateFails, local
  <2>2. \A id \in EventIds : write'[<<id[1], id[2], 0>>] = "running" =>
                             write[<<id[1], id[2], 0>>] = "running"
    BY <1>3, <1>r DEF UpdateFails, IInv, Types0
  <2> QED
    BY <2>1, <2>2, NoEventMoves
<1>4. CASE UNCHANGED vars
  <2>1. UNCHANGED <<received, disk, counters, abandoned, pc, write>>
    BY <1>4 DEF vars, local, store
  <2> QED
    BY <2>1, NoEventMoves
<1>5. ASSUME NEW s \in Streams, Handler(s) PROVE CountInv'
  <2>1. ASSUME NEW e \in Sent[s], NEW allowed \in BOOLEAN, Receive(s, e, allowed) PROVE CountInv'
    <3>1. e \in Event
      BY SentAssumption
    <3> QED
      BY <2>1, <3>1, ReceiveCounts
  <2>2. CASE WriteReturns(s)
    <3>1. PICK stored \in BOOLEAN :
             /\ write[Awaited(s)] = IF stored THEN "committed" ELSE "failed"
             /\ EventSaved(s, stored) \/ AlertSaved(s, stored)
      BY <2>2 DEF WriteReturns
    <3> QED
      BY <1>1, <3>1, EventSavedCounts
  <2>3. CASE WriteTimesOut(s)
    BY <1>1, <2>3, EventSavedCounts, Zenon DEF WriteTimesOut
  <2> QED
    BY <1>2, <1>5, <2>1, <2>2, <2>3 DEF Handler
<1> QED
  BY <1>2, <1>3, <1>4, <1>5, StoreMoves, CrashCounts DEF Next

(***************************************************************************)
(* The counters of /api/stats agree with the store up to the writes nobody *)
(* has reported and the events expired since start-up, for any number of   *)
(* streams, slow or failing writes and restarts.                           *)
(***************************************************************************)
THEOREM CountersWithinDriftHolds == Spec => []CountersWithinDrift
<1>1. Init => CountInv
  <2> SUFFICES ASSUME Init PROVE CountInv
    OBVIOUS
  <2>1. /\ \A id \in EventIds : /\ <<id[1], id[2], 0>> \in Records
                                /\ disk[<<id[1], id[2], 0>>] = "none"
                                /\ write[<<id[1], id[2], 0>>] = "none"
        /\ counters = [t \in Types |-> 0] /\ abandoned = {}
        /\ \A s \in Streams : pc[s] # "event"
    BY IngestAssumption DEF Init, EventIds, Records
  <2>2. \A t \in Types : Owed(t) = {} /\ Countable(t) = {}
    BY <2>1 DEF Owed, Countable, StoredOn
  <2>3. CountersWithinDrift
    <3>1. Cardinality({}) = 0
      BY FS_EmptySet
    <3>2. \A t \in Types : counters[t] = 0
      BY <2>1
    <3>3. \A t \in Types : /\ Cardinality(Owed(t)) <= counters[t]
                           /\ counters[t] <= Cardinality(Countable(t))
      BY <2>2, <3>1, <3>2
    <3> QED
      BY <3>3, Bounds
  <2> QED
    BY <2>1, <2>3 DEF CountInv
<1>2. CountInv => CountersWithinDrift
  BY DEF CountInv
<1> QED
  BY <1>1, <1>2, InitIInv, NextIInv, NextCountInv, PTL DEF Spec
=============================================================================
