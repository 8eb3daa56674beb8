---------------------------- MODULE IngestProofs ----------------------------
(* What an acknowledgement of the collector means, for any number of        *)
(* streams, events, alerts and crashes.                                     *)
EXTENDS Ingest, TLAPS

\* How many alerts of its event a working handler has saved and dispatched.
Handled(s) == CASE pc[s] = "alert" -> alert[s] - 1
                [] pc[s] = "ack" -> raised[CurrentId(s)]
                [] OTHER -> 0

Answered(s) == Len(acks[s])

\* Where the handler of a stream is.
Position(s) ==
    /\ Len(received[s]) <= MaxEvents
    /\ Answered(s) = Len(received[s])
          \/ (Answered(s) = Len(received[s]) - 1 /\ pc[s] # "recv")
    /\ Working(s) => Answered(s) = Len(received[s]) - 1
    /\ pc[s] = "alert" => alert[s] \in 1 .. raised[CurrentId(s)]

\* An event not yet received has left no trace, and a refused one is not
\* worked on.
Absence(s, i) ==
    /\ i > Len(received[s]) => NoTrace(s, i) /\ raised[<<s, i>>] = 0
    /\ i <= Len(received[s]) /\ Foreign(s, received[s][i]) =>
          NoTrace(s, i) /\ (i = Len(received[s]) => pc[s] \notin {"event", "alert"})

\* What an answer says of its event is true.
Settled(s, i) ==
    i <= Answered(s) =>
        /\ acks[s][i] => \A k \in 0 .. raised[<<s, i>>] : disk[<<s, i, k>>] # "none"
        /\ \A k \in 1 .. MaxAlerts :
              <<s, i, k>> \in dispatched <=> k <= raised[<<s, i>>]

\* The event at work is as far as its handler has come.
AtWork(s, i) ==
    i = Len(received[s]) /\ Working(s) =>
        /\ saveOk[s] /\ pc[s] # "event" =>
              \A k \in 0 .. Handled(s) : disk[<<s, i, k>>] # "none"
        /\ \A k \in 1 .. MaxAlerts : <<s, i, k>> \in dispatched <=> k <= Handled(s)

OnDisk(s, i) ==
    \A k \in 0 .. MaxAlerts :
        write[<<s, i, k>>] = "committed" => disk[<<s, i, k>>] # "none"

(***************************************************************************)
(* The inductive strengthening, for one stream.                            *)
(***************************************************************************)
StreamInv(s) ==
    /\ Position(s)
    /\ \A i \in 1 .. MaxEvents :
          Absence(s, i) /\ Settled(s, i) /\ AtWork(s, i) /\ OnDisk(s, i)

(***************************************************************************)
(* The types the proofs need.                                              *)
(***************************************************************************)
Types0 ==
    /\ received \in [Streams -> Seq(Event)] /\ acks \in [Streams -> Seq(BOOLEAN)]
    /\ pc \in [Streams -> {"recv", "event", "alert", "ack", "done"}]
    /\ saveOk \in [Streams -> BOOLEAN] /\ alert \in [Streams -> Int]
    /\ raised \in [EventIds -> 0 .. MaxAlerts]
    /\ write \in [Records -> {"none", "running", "committed", "failed"}]
    /\ disk \in [Records -> {"none", "live", "expired"}]

IInv == Types0 /\ \A s \in Streams : StreamInv(s)

(***************************************************************************)
(* Ids and records of streams are what they look like.                     *)
(***************************************************************************)
LEMMA Indices ==
    /\ \A s \in Streams, i \in 1 .. MaxEvents : <<s, i>> \in EventIds
    /\ \A s \in Streams, i \in 1 .. MaxEvents, k \in 0 .. MaxAlerts : <<s, i, k>> \in Records
  BY DEF EventIds, Records

(***************************************************************************)
(* The strengthening holds when the collector starts.                      *)
(***************************************************************************)
LEMMA InitIInv == Init => IInv
<1> SUFFICES ASSUME Init PROVE IInv
  OBVIOUS
<1> USE IngestAssumption
<1>1. Types0
  BY DEF Init, Types0
<1>2. ASSUME NEW s \in Streams PROVE StreamInv(s)
  <2>1. Len(received[s]) = 0 /\ Len(acks[s]) = 0 /\ pc[s] = "recv"
    BY DEF Init
  <2>2. ASSUME NEW i \in 1 .. MaxEvents
        PROVE  /\ NoTrace(s, i) /\ raised[<<s, i>>] = 0
               /\ \A k \in 0 .. MaxAlerts : write[<<s, i, k>>] # "committed"
    BY Indices DEF Init, NoTrace
  <2> QED
    BY <2>1, <2>2 DEF StreamInv, Position, Absence, Settled, AtWork, OnDisk, Answered, Working
<1> QED
  BY <1>1, <1>2 DEF IInv

(***************************************************************************)
(* A stream whose part of the state does not change keeps its invariant.   *)
(***************************************************************************)
LEMMA Untouched ==
    ASSUME Types0, NEW t \in Streams, StreamInv(t), authed' = authed,
           received'[t] = received[t], acks'[t] = acks[t], pc'[t] = pc[t],
           saveOk'[t] = saveOk[t], alert'[t] = alert[t],
           \A i \in 1 .. MaxEvents :
              /\ raised'[<<t, i>>] = raised[<<t, i>>]
              /\ <<t, i>> \in heartbeats' <=> <<t, i>> \in heartbeats
              /\ \A k \in 0 .. MaxAlerts :
                    /\ write'[<<t, i, k>>] = write[<<t, i, k>>]
                    /\ disk'[<<t, i, k>>] = disk[<<t, i, k>>]
                    /\ <<t, i, k>> \in dispatched' <=> <<t, i, k>> \in dispatched
    PROVE  StreamInv(t)'
<1> USE IngestAssumption
<1> DEFINE n == Len(received[t])
<1>1. /\ (Working(t)' <=> Working(t)) /\ Answered(t)' = Answered(t)
      /\ n \in Nat /\ Answered(t) \in Nat
  BY DEF Working, Answered, Types0
<1>2. \A i \in 1 .. MaxEvents : NoTrace(t, i)' <=> NoTrace(t, i)
  BY DEF NoTrace
<1>3. \A e : Foreign(t, e)' <=> Foreign(t, e)
  BY DEF Foreign
<1>4. n <= MaxEvents /\ (Working(t) => n \in 1 .. MaxEvents)
  BY <1>1 DEF StreamInv, Position
<1>5. Working(t) => /\ Handled(t)' = Handled(t) /\ Handled(t) <= MaxAlerts /\ Handled(t) \in Int
                    /\ raised'[CurrentId(t)'] = raised[CurrentId(t)]
  <2> HAVE Working(t)
  <2>1. raised'[<<t, n>>] = raised[<<t, n>>] /\ raised[<<t, n>>] \in 0 .. MaxAlerts
    BY <1>4, Indices DEF Types0
  <2> QED
    BY <1>4, <2>1 DEF Handled, CurrentId, Working, StreamInv, Position
<1>6. Position(t)'
  BY <1>1, <1>4, <1>5 DEF StreamInv, Position, Working
<1>7. ASSUME NEW i \in 1 .. MaxEvents PROVE Absence(t, i)'
  BY <1>2, <1>3 DEF StreamInv, Absence
<1>8. ASSUME NEW i \in 1 .. MaxEvents PROVE Settled(t, i)' /\ AtWork(t, i)'
  <2>1. \A k \in 0 .. raised[<<t, i>>] : k \in 0 .. MaxAlerts
    BY Indices DEF Types0
  <2>2. Settled(t, i)'
    BY <1>1, <2>1, SMTT(40) DEF StreamInv, Settled
  <2>3. Working(t) => \A k \in 0 .. Handled(t) : k \in 0 .. MaxAlerts
    BY <1>5
  <2>4. ASSUME i = n, Working(t)
        PROVE  /\ saveOk'[t] /\ pc'[t] # "event" =>
                     \A k \in 0 .. Handled(t)' : disk'[<<t, i, k>>] # "none"
               /\ \A k \in 1 .. MaxAlerts : <<t, i, k>> \in dispatched' <=> k <= Handled(t)'
    <3>1. /\ saveOk[t] /\ pc[t] # "event" =>
                \A k \in 0 .. Handled(t) : disk[<<t, i, k>>] # "none"
          /\ \A k \in 1 .. MaxAlerts : <<t, i, k>> \in dispatched <=> k <= Handled(t)
      BY <2>4 DEF StreamInv, AtWork
    <3>2. Handled(t)' = Handled(t) /\ \A k \in 0 .. Handled(t) : k \in 0 .. MaxAlerts
      BY <1>5, <2>3, <2>4
    <3>3. \A k \in 1 .. MaxAlerts : k \in 0 .. MaxAlerts
      OBVIOUS
    <3> QED
      BY <3>1, <3>2, <3>3, Zenon
  <2>5. AtWork(t, i)'
    BY <1>1, <2>4 DEF AtWork
  <2> QED
    BY <2>2, <2>5
<1>9. ASSUME NEW i \in 1 .. MaxEvents PROVE OnDisk(t, i)'
  BY Zenon DEF StreamInv, OnDisk
<1> QED
  BY <1>6, <1>7, <1>8, <1>9 DEF StreamInv

(***************************************************************************)
(* Steps of the store's goroutines, disconnections and a crash: handlers   *)
(* stay where they are or end, nothing is written without having been      *)
(* started, and nothing stored is taken back.                              *)
(***************************************************************************)
LEMMA QuietStep ==
    ASSUME IInv, Types0',
           UNCHANGED <<authed, received, acks, saveOk, alert, raised, heartbeats, dispatched>>,
           \A s \in Streams : pc'[s] = pc[s] \/ pc'[s] = "done",
           \A r \in Records :
              /\ write[r] = "none" /\ disk[r] = "none" => write'[r] = "none" /\ disk'[r] = "none"
              /\ disk[r] # "none" => disk'[r] # "none"
              /\ write'[r] = "committed" => disk'[r] # "none"
    PROVE  IInv'
<1> USE IngestAssumption
<1> SUFFICES ASSUME NEW t \in Streams PROVE StreamInv(t)'
  BY DEF IInv
<1> DEFINE n == Len(received[t])
<1>0. StreamInv(t)
  BY DEF IInv
<1>1. /\ (Working(t)' => Working(t) /\ pc'[t] = pc[t]) /\ Answered(t)' = Answered(t)
      /\ n \in Nat /\ Answered(t) \in Nat
  BY DEF Working, Answered, Types0, IInv
<1>2. \A i \in 1 .. MaxEvents : NoTrace(t, i) => NoTrace(t, i)'
  BY Indices DEF NoTrace
<1>3. \A e : Foreign(t, e)' <=> Foreign(t, e)
  BY DEF Foreign
<1>4. n <= MaxEvents /\ (Working(t) => n \in 1 .. MaxEvents)
  BY <1>0, <1>1 DEF StreamInv, Position
<1>5. Working(t)' => /\ Handled(t)' = Handled(t) /\ Handled(t) <= MaxAlerts /\ Handled(t) \in Int
                     /\ raised'[CurrentId(t)'] = raised[CurrentId(t)]
  <2> HAVE Working(t)'
  <2>1. raised[<<t, n>>] \in 0 .. MaxAlerts
    BY <1>1, <1>4, Indices DEF Types0, IInv
  <2> QED
    BY <1>0, <1>1, <1>4, <2>1 DEF Handled, CurrentId, Working, StreamInv, Position
<1>6. Position(t)'
  BY <1>0, <1>1, <1>4, <1>5 DEF StreamInv, Position, Working
<1>7. ASSUME NEW i \in 1 .. MaxEvents PROVE Absence(t, i)'
  BY <1>0, <1>2, <1>3 DEF StreamInv, Absence
<1>8. ASSUME NEW i \in 1 .. MaxEvents PROVE Settled(t, i)'
  <2>1. \A k \in 0 .. raised[<<t, i>>] : k \in 0 .. MaxAlerts
    BY Indices DEF Types0, IInv
  <2>2. \A k \in 0 .. raised[<<t, i>>] : disk[<<t, i, k>>] # "none" => disk'[<<t, i, k>>] # "none"
    BY <2>1, Indices
  <2> QED
    BY <1>0, <1>1, <2>2 DEF StreamInv, Settled
<1>9. ASSUME NEW i \in 1 .. MaxEvents PROVE AtWork(t, i)'
  <2>1. ASSUME i = n, Working(t)'
        PROVE  /\ saveOk'[t] /\ pc'[t] # "event" =>
                     \A k \in 0 .. Handled(t)' : disk'[<<t, i, k>>] # "none"
               /\ \A k \in 1 .. MaxAlerts : <<t, i, k>> \in dispatched' <=> k <= Handled(t)'
    <3>1. /\ saveOk[t] /\ pc[t] # "event" =>
                \A k \in 0 .. Handled(t) : disk[<<t, i, k>>] # "none"
          /\ \A k \in 1 .. MaxAlerts : <<t, i, k>> \in dispatched <=> k <= Handled(t)
      BY <1>0, <1>1, <2>1 DEF StreamInv, AtWork
    <3>2. Handled(t)' = Handled(t) /\ \A k \in 0 .. Handled(t) : k \in 0 .. MaxAlerts
      BY <1>5, <2>1
    <3>3. \A k \in 0 .. Handled(t) : disk[<<t, i, k>>] # "none" => disk'[<<t, i, k>>] # "none"
      BY <3>2, Indices
    <3> QED
      BY <1>1, <2>1, <3>1, <3>2, <3>3
  <2> QED
    BY <2>1 DEF AtWork
<1>10. ASSUME NEW i \in 1 .. MaxEvents PROVE OnDisk(t, i)'
  BY Indices DEF OnDisk
<1> QED
  BY <1>6, <1>7, <1>8, <1>9, <1>10 DEF StreamInv

(***************************************************************************)
(* The store and the world.                                                *)
(***************************************************************************)
LEMMA WorldIInv ==
    ASSUME IInv,
           \/ \E r \in Records : Commit(r) \/ UpdateFails(r) \/ Expire(r)
           \/ \E s \in Streams : StreamEnds(s) \/ Disconnect(s)
           \/ Crash \/ UNCHANGED vars
    PROVE  IInv'
<1> USE DEF IInv, Types0
<1>d. \A s \in Streams, i \in 1 .. MaxEvents, k \in 0 .. MaxAlerts :
         write[<<s, i, k>>] = "committed" => disk[<<s, i, k>>] # "none"
  BY DEF StreamInv, OnDisk
<1>c. \A r \in Records : write[r] = "committed" => disk[r] # "none"
  BY <1>d DEF Records
<1>1. ASSUME NEW r \in Records, Commit(r) \/ UpdateFails(r) \/ Expire(r) PROVE IInv'
  <2>1. Types0' /\ pc' = pc
    BY <1>1, Zenon DEF Commit, UpdateFails, Expire, local
  <2>2. UNCHANGED <<authed, received, acks, saveOk, alert, raised, heartbeats, dispatched>>
    BY <1>1 DEF Commit, UpdateFails, Expire, local
  <2>3. \A q \in Records :
              /\ write[q] = "none" /\ disk[q] = "none" => write'[q] = "none" /\ disk'[q] = "none"
              /\ disk[q] # "none" => disk'[q] # "none"
              /\ write'[q] = "committed" => disk'[q] # "none"
    BY <1>1, <1>c DEF Commit, UpdateFails, Expire
  <2> QED
    BY <2>1, <2>2, <2>3, QuietStep
<1>2. ASSUME NEW s \in Streams, StreamEnds(s) \/ Disconnect(s) PROVE IInv'
  <2>1. Types0' /\ \A t \in Streams : pc'[t] = pc[t] \/ pc'[t] = "done"
    BY <1>2, Zenon DEF StreamEnds, Disconnect, store
  <2>2. UNCHANGED <<authed, received, acks, saveOk, alert, raised, heartbeats, dispatched,
                    write, disk>>
    BY <1>2 DEF StreamEnds, Disconnect, store
  <2> QED
    BY <1>c, <2>1, <2>2, QuietStep
<1>3. CASE Crash
  <2>1. PICK done \in SUBSET {r \in Records : write[r] = "running"} :
              disk' = [r \in Records |-> IF r \in done THEN "live" ELSE disk[r]]
    BY <1>3, Zenon DEF Crash
  <2>2. write' = [r \in Records |-> IF write[r] = "running" THEN "none" ELSE write[r]]
    BY <1>3 DEF Crash
  <2>3. /\ pc' = [s \in Streams |-> IF received[s] = <<>> THEN pc[s] ELSE "done"]
        /\ UNCHANGED <<authed, received, acks, saveOk, alert, raised, heartbeats, dispatched>>
    BY <1>3 DEF Crash
  <2>4. Types0'
    BY <2>1, <2>2, <2>3
  <2>5. \A q \in Records :
              /\ write[q] = "none" /\ disk[q] = "none" => write'[q] = "none" /\ disk'[q] = "none"
              /\ disk[q] # "none" => disk'[q] # "none"
              /\ write'[q] = "committed" => disk'[q] # "none"
    BY <1>c, <2>1, <2>2
  <2>6. \A s \in Streams : pc'[s] = pc[s] \/ pc'[s] = "done"
    BY <2>3
  <2> QED
    BY <2>3, <2>4, <2>5, <2>6, QuietStep
<1>4. CASE UNCHANGED vars
  <2>1. Types0' /\ UNCHANGED <<authed, received, acks, saveOk, alert, raised, heartbeats,
                               dispatched, pc, write, disk>>
    BY <1>4 DEF vars, local, store
  <2> QED
    BY <1>c, <2>1, QuietStep
<1> QED
  BY <1>1, <1>2, <1>3, <1>4

(***************************************************************************)
(* Taking an event off the stream, whether or not the gates refuse it.     *)
(***************************************************************************)
LEMMA ReceiveIInv ==
    ASSUME IInv, NEW s \in Streams, NEW e \in Event, NEW allowed \in BOOLEAN,
           Receive(s, e, allowed)
    PROVE  IInv'
<1> USE IngestAssumption
<1> DEFINE n == Len(received[s])
           m == n + 1
<1>0. StreamInv(s) /\ Types0
  BY DEF IInv
<1>1. n \in Nat /\ m \in 1 .. MaxEvents /\ Answered(s) = n
  BY <1>0 DEF Receive, StreamInv, Position, Types0, Answered
<1>2. /\ received'[s] = Append(received[s], e) /\ Len(received'[s]) = m
      /\ received'[s][m] = e /\ \A i \in 1 .. n : received'[s][i] = received[s][i]
  BY <1>0, <1>1 DEF Receive, Types0
<1>3. /\ UNCHANGED <<authed, acks, raised, disk, dispatched>>
      /\ pc'[s] \in {"event", "ack"} /\ (pc'[s] = "ack" => ~saveOk'[s])
  BY <1>0 DEF Receive, Types0
<1>4. Types0'
  <2>1. received' \in [Streams -> Seq(Event)]
    <3>1. Append(received[s], e) \in Seq(Event)
      BY <1>0 DEF Types0
    <3> QED
      BY <1>0, <3>1 DEF Receive, Types0
  <2>2. write' = write \/ write' = [write EXCEPT ![<<s, m, 0>>] = "running"]
    BY <1>2, Zenon DEF Receive, Spawn
  <2>3. /\ pc' \in [Streams -> {"recv", "event", "alert", "ack", "done"}]
        /\ saveOk' \in [Streams -> BOOLEAN] /\ alert' \in [Streams -> Int]
    <3>1. /\ pc' = [pc EXCEPT ![s] = "ack"] \/ pc' = [pc EXCEPT ![s] = "event"]
          /\ saveOk' = [saveOk EXCEPT ![s] = FALSE] \/ saveOk' = [saveOk EXCEPT ![s] = TRUE]
          /\ alert' = [alert EXCEPT ![s] = 0]
      BY DEF Receive
    <3>2. pc' \in [Streams -> {"recv", "event", "alert", "ack", "done"}]
      BY <1>0, <3>1, Zenon DEF Types0
    <3>3. saveOk' \in [Streams -> BOOLEAN]
      BY <1>0, <3>1, Zenon DEF Types0
    <3>4. alert' \in [Streams -> Int]
      BY <1>0, <3>1 DEF Types0
    <3> QED
      BY <3>2, <3>3, <3>4
  <2> QED
    BY <1>0, <1>3, <2>1, <2>2, <2>3, Zenon DEF Types0
<1>5. ASSUME NEW t \in Streams, NEW i \in 1 .. MaxEvents, <<t, i>> # <<s, m>>
      PROVE  /\ <<t, i>> \in heartbeats' <=> <<t, i>> \in heartbeats
             /\ \A k \in 0 .. MaxAlerts : write'[<<t, i, k>>] = write[<<t, i, k>>]
  <2>1. \A k \in 0 .. MaxAlerts : <<t, i, k>> # <<s, m, 0>> /\ <<t, i, k>> \in Records
    BY <1>5, Indices
  <2> QED
    BY <1>0, <1>2, <1>5, <2>1 DEF Receive, Spawn, Types0
<1>6. ASSUME NEW t \in Streams, t # s PROVE StreamInv(t)'
  <2>1. /\ received'[t] = received[t] /\ pc'[t] = pc[t] /\ saveOk'[t] = saveOk[t]
        /\ alert'[t] = alert[t] /\ StreamInv(t)
    BY <1>0, <1>6 DEF Receive, Types0, IInv
  <2> QED
    BY <1>0, <1>3, <1>5, <1>6, <2>1, Untouched
<1>7. StreamInv(s)'
  <2>1. NoTrace(s, m) /\ raised[<<s, m>>] = 0
    <3>1. Absence(s, m) /\ m > Len(received[s])
      BY <1>0, <1>1 DEF StreamInv
    <3> HIDE DEF m, n
    <3> QED
      BY <3>1 DEF Absence
  <2>2. \A i \in 1 .. MaxEvents : i # m => (NoTrace(s, i)' <=> NoTrace(s, i))
    BY <1>3, <1>5 DEF NoTrace
  <2>3. \A x : Foreign(s, x)' <=> Foreign(s, x)
    BY <1>3 DEF Foreign
  <2>4. Working(s)' /\ Answered(s)' = n
    BY <1>1, <1>3 DEF Working, Answered
  <2>5. pc'[s] = "event" \/ pc'[s] = "ack" => Handled(s)' = 0
    BY <1>2, <1>3, <2>1 DEF Handled, CurrentId
  <2>6. Position(s)'
    BY <1>1, <1>2, <1>3, <2>4 DEF Position
  <2>7. ASSUME NEW i \in 1 .. MaxEvents PROVE Absence(s, i)'
    <3>1. CASE i # m
      <4>1. /\ i > n => NoTrace(s, i) /\ raised[<<s, i>>] = 0
            /\ i <= n /\ Foreign(s, received[s][i]) => NoTrace(s, i)
        BY <1>0, <1>1 DEF StreamInv, Absence
      <4> QED
        BY <1>1, <1>2, <1>3, <2>2, <2>3, <3>1, <4>1, SMTT(40) DEF Absence
    <3>2. CASE i = m
      <4>1. Foreign(s, e) => Rejected(s, e, allowed)
        BY DEF Foreign, Rejected
      <4>2. Rejected(s, e, allowed) => UNCHANGED <<write, heartbeats>> /\ pc'[s] = "ack"
        BY <1>0 DEF Receive, Types0
      <4>3. Foreign(s, e) => NoTrace(s, i)'
        BY <1>3, <2>1, <3>2, <4>1, <4>2 DEF NoTrace
      <4> QED
        <5>1. i = Len(received'[s]) /\ received'[s][i] = e
          BY <1>1, <1>2, <3>2
        <5>2. ~(i > Len(received'[s]))
          BY <1>1, <3>2, <5>1
        <5>3. Foreign(s, received[s][i])' => NoTrace(s, i)' /\ pc'[s] = "ack"
          BY <2>3, <4>1, <4>2, <4>3, <5>1
        <5> HIDE DEF m, n
        <5> QED
          BY <5>2, <5>3 DEF Absence
    <3> QED
      BY <3>1, <3>2
  <2>8. ASSUME NEW i \in 1 .. MaxEvents PROVE Settled(s, i)'
    BY <1>0, <1>1, <1>3, <2>4 DEF StreamInv, Settled
  <2>9. ASSUME NEW i \in 1 .. MaxEvents PROVE AtWork(s, i)'
    <3>1. ASSUME i = m
          PROVE  /\ saveOk'[s] => pc'[s] = "event"
                 /\ \A k \in 1 .. MaxAlerts : <<s, i, k>> \in dispatched' <=> k <= Handled(s)'
      BY <1>3, <2>1, <2>5, <3>1, SMTT(40) DEF NoTrace
    <3> QED
      BY <1>2, <3>1 DEF AtWork
  <2>10. ASSUME NEW i \in 1 .. MaxEvents PROVE OnDisk(s, i)'
    <3>1. \A k \in 0 .. MaxAlerts : write'[<<s, i, k>>] \in {write[<<s, i, k>>], "running"}
      BY <1>0, Indices, Zenon DEF Receive, Spawn, Types0
    <3> QED
      BY <1>0, <1>3, <3>1 DEF StreamInv, OnDisk
  <2> QED
    BY <2>6, <2>7, <2>8, <2>9, <2>10 DEF StreamInv
<1> QED
  BY <1>4, <1>6, <1>7 DEF IInv

(***************************************************************************)
(* After the step, of the event at work the first h alerts are dispatched, *)
(* and nothing has changed for the others.                                 *)
(***************************************************************************)
DispatchedTo(s, h) ==
    /\ \A j \in 1 .. MaxAlerts : Current(s, j) \in dispatched' <=> j <= h
    /\ \A t \in Streams, i \in 1 .. MaxEvents, j \in 0 .. MaxAlerts :
          <<t, i>> # CurrentId(s) =>
             (<<t, i, j>> \in dispatched' <=> <<t, i, j>> \in dispatched)

\* What is known to be stored of it if its save went well.
StoredTo(s, h, ok) == ok => \A j \in 0 .. h : disk[Current(s, j)] # "none"

(***************************************************************************)
(* A save returns with h alerts handled and the handler goes on with the   *)
(* next of k: what it knows of the event is the truth about the store.     *)
(***************************************************************************)
LEMMA Advance ==
    ASSUME IInv, NEW s \in Streams, pc[s] \in {"event", "alert"},
           NEW k \in 0 .. MaxAlerts, NEW h \in 0 .. k, NEW ok \in BOOLEAN,
           SaveAlertFrom(s, h + 1, k),
           saveOk' = [saveOk EXCEPT ![s] = ok],
           UNCHANGED <<authed, received, acks, disk, heartbeats>>,
           StoredTo(s, h, ok), DispatchedTo(s, h)
    PROVE  IInv'
<1> USE IngestAssumption
<1> DEFINE n == Len(received[s])
<1>0. StreamInv(s) /\ Types0
  BY DEF IInv
<1>1. n \in 1 .. MaxEvents /\ Answered(s) = n - 1 /\ Working(s)
  BY <1>0 DEF StreamInv, Position, Types0, Answered, Working
<1>2. /\ <<s, n>> \in EventIds
      /\ raised' = [raised EXCEPT ![<<s, n>>] = k] /\ raised'[<<s, n>>] = k
      /\ \/ /\ h + 1 <= k /\ pc'[s] = "alert" /\ alert'[s] = h + 1
         \/ /\ h = k /\ pc'[s] = "ack"
  BY <1>0, <1>1, Indices DEF SaveAlertFrom, MoreAlerts, CurrentId, Types0
<1>3. write' = [write EXCEPT ![<<s, n, h + 1>>] = "running"] \/ write' = write
  BY DEF SaveAlertFrom, Spawn, Current
<1>4. Types0'
  <2>1. /\ pc' \in [Streams -> {"recv", "event", "alert", "ack", "done"}]
        /\ alert' \in [Streams -> Int]
    <3>1. /\ \/ pc' = [pc EXCEPT ![s] = "alert"] \/ pc' = [pc EXCEPT ![s] = "ack"]
          /\ \/ alert' = [alert EXCEPT ![s] = h + 1] \/ alert' = alert
      BY DEF SaveAlertFrom
    <3>2. h + 1 \in Int
      OBVIOUS
    <3>3. pc' \in [Streams -> {"recv", "event", "alert", "ack", "done"}]
      BY <1>0, <3>1, Zenon DEF Types0
    <3>4. alert' \in [Streams -> Int]
      BY <1>0, <3>1, <3>2 DEF Types0
    <3> QED
      BY <3>3, <3>4
  <2> QED
    BY <1>0, <1>2, <1>3, <2>1, Zenon DEF Types0
<1>5. ASSUME NEW t \in Streams, NEW i \in 1 .. MaxEvents, <<t, i>> # <<s, n>>
      PROVE  /\ raised'[<<t, i>>] = raised[<<t, i>>]
             /\ \A j \in 0 .. MaxAlerts : write'[<<t, i, j>>] = write[<<t, i, j>>]
             /\ \A j \in 0 .. MaxAlerts : <<t, i, j>> \in dispatched' <=> <<t, i, j>> \in dispatched
  <2>1. \A j \in 0 .. MaxAlerts : <<t, i, j>> # <<s, n, h + 1>> /\ <<t, i, j>> \in Records
    BY <1>5, Indices
  <2>2. <<t, i>> \in EventIds
    BY Indices
  <2> QED
    BY <1>0, <1>2, <1>3, <1>5, <2>1, <2>2, Zenon DEF CurrentId, Types0, DispatchedTo
<1>6. ASSUME NEW t \in Streams, t # s PROVE StreamInv(t)'
  <2>1. /\ pc'[t] = pc[t] /\ saveOk'[t] = saveOk[t] /\ alert'[t] = alert[t] /\ StreamInv(t)
    BY <1>0, <1>6 DEF SaveAlertFrom, Types0, IInv
  <2> QED
    BY <1>0, <1>5, <1>6, <2>1, Untouched
<1>7. StreamInv(s)'
  <2>1. Handled(s)' = h /\ Working(s)' /\ Answered(s)' = n - 1 /\ saveOk'[s] = ok
    <3>1. raised'[CurrentId(s)'] = k
      BY <1>2 DEF CurrentId
    <3>2. Handled(s)' = h
      <4>1. CASE pc'[s] = "alert" /\ alert'[s] = h + 1
        BY <4>1 DEF Handled
      <4>2. CASE h = k /\ pc'[s] = "ack"
        BY <3>1, <4>2 DEF Handled
      <4> QED
        BY <1>2, <4>1, <4>2
    <3>3. Working(s)'
      BY <1>2 DEF Working
    <3>4. Answered(s)' = n - 1
      BY <1>1 DEF Answered
    <3>5. saveOk'[s] = ok
      BY <1>0 DEF Types0
    <3> QED
      BY <3>2, <3>3, <3>4, <3>5
  <2>2. \A i \in 1 .. MaxEvents : i # n => (NoTrace(s, i)' <=> NoTrace(s, i))
    BY <1>5 DEF NoTrace
  <2>3. \A x : Foreign(s, x)' <=> Foreign(s, x)
    BY DEF Foreign
  <2>4. Position(s)'
    BY <1>1, <1>2, <2>1 DEF Position, CurrentId
  <2>5. ASSUME NEW i \in 1 .. MaxEvents PROVE Absence(s, i)'
    <3>1. CASE i # n
      BY <1>0, <1>1, <1>5, <2>2, <2>3, <3>1 DEF StreamInv, Absence
    <3>2. CASE i = n
      <4>0. Absence(s, i)
        BY <1>0 DEF StreamInv
      <4>1. ~Foreign(s, received[s][i])
        <5>1. i = Len(received[s]) /\ i <= Len(received[s]) /\ pc[s] \in {"event", "alert"}
          BY <1>1, <3>2
        <5> HIDE DEF n
        <5> QED
          BY <4>0, <5>1 DEF Absence
      <4> QED
        <5>1. received' = received /\ ~(i > Len(received[s]))
          BY <1>1, <3>2
        <5>2. ~Foreign(s, received[s][i])'
          BY <2>3, <4>1, <5>1
        <5> HIDE DEF n
        <5> QED
          BY <5>1, <5>2 DEF Absence
    <3> QED
      BY <3>1, <3>2
  <2>6. ASSUME NEW i \in 1 .. MaxEvents PROVE Settled(s, i)'
    <3>1. CASE i <= n - 1
      <4>1. Settled(s, i) /\ i <= Answered(s)
        BY <1>0, <1>1, <3>1 DEF StreamInv
      <4>2. i # n /\ <<s, i>> # <<s, n>>
        BY <1>1, <3>1
      <4>3. /\ raised'[<<s, i>>] = raised[<<s, i>>]
            /\ \A j \in 0 .. MaxAlerts : <<s, i, j>> \in dispatched' <=> <<s, i, j>> \in dispatched
        BY <1>5, <4>2, Zenon
      <4>4. acks' = acks /\ disk' = disk
        OBVIOUS
      <4> HIDE DEF n
      <4> QED
        BY <4>1, <4>3, <4>4, SMTT(40) DEF Settled
    <3>2. CASE i > n - 1
      BY <1>1, <2>1, <3>2, SMTT(40) DEF Settled
    <3> QED
      BY <1>1, <3>1, <3>2
  <2>7. ASSUME NEW i \in 1 .. MaxEvents PROVE AtWork(s, i)'
    BY <2>1 DEF AtWork, Current, StoredTo, DispatchedTo
  <2>8. ASSUME NEW i \in 1 .. MaxEvents PROVE OnDisk(s, i)'
    <3>1. \A j \in 0 .. MaxAlerts : write'[<<s, i, j>>] \in {write[<<s, i, j>>], "running"}
      BY <1>0, <1>3, Indices, Zenon DEF Types0
    <3> QED
      BY <1>0, <3>1 DEF StreamInv, OnDisk
  <2> QED
    BY <2>4, <2>5, <2>6, <2>7, <2>8 DEF StreamInv
<1> QED
  BY <1>4, <1>6, <1>7 DEF IInv

(***************************************************************************)
(* SaveEvent or SaveAlert returns, with a result or by its timeout.        *)
(***************************************************************************)
LEMMA SavedIInv ==
    ASSUME IInv, NEW s \in Streams, NEW stored \in BOOLEAN,
           EventSaved(s, stored) \/ AlertSaved(s, stored),
           stored => write[Awaited(s)] = "committed"
    PROVE  IInv'
<1> USE IngestAssumption
<1> DEFINE n == Len(received[s])
<1>0. StreamInv(s) /\ Types0
  BY DEF IInv
<1>1. pc[s] \in {"event", "alert"}
  BY DEF EventSaved, AlertSaved
<1>2. n \in 1 .. MaxEvents
  BY <1>0, <1>1 DEF StreamInv, Position, Types0, Answered, Working
<1>3. AtWork(s, n) /\ OnDisk(s, n) /\ Position(s) /\ Working(s)
  BY <1>0, <1>1, <1>2 DEF StreamInv, Working
<1>4. CASE EventSaved(s, stored)
  <2>1. pc[s] = "event" /\ Handled(s) = 0 /\ Awaited(s) = <<s, n, 0>>
    BY <1>4 DEF EventSaved, Handled, Awaited, Current
  <2>2. PICK k \in 0 .. MaxAlerts : SaveAlertFrom(s, 0 + 1, k)
    BY <1>4 DEF EventSaved
  <2>3. StoredTo(s, 0, stored)
    <3>0. stored => write[<<s, n, 0>>] = "committed"
      BY <2>1
    <3>1. stored => disk[<<s, n, 0>>] # "none"
      <4>1. 0 \in 0 .. MaxAlerts
        OBVIOUS
      <4> QED
        BY <1>3, <3>0, <4>1, Zenon DEF OnDisk
    <3>2. \A j \in 0 .. 0 : j = 0
      OBVIOUS
    <3> QED
      BY <3>1, <3>2 DEF Current, StoredTo
  <2>4. \A j \in 1 .. MaxAlerts : Current(s, j) \in dispatched <=> j <= 0
    BY <1>3, <2>1 DEF AtWork, Current
  <2>5. /\ saveOk' = [saveOk EXCEPT ![s] = stored] /\ dispatched' = dispatched
        /\ UNCHANGED <<authed, received, acks, disk, heartbeats>> /\ 0 \in 0 .. k
    BY <1>4, SMTT(40) DEF EventSaved
  <2>6. DispatchedTo(s, 0)
    BY <2>4, <2>5 DEF DispatchedTo
  <2> QED
    BY <1>1, <2>2, <2>3, <2>5, <2>6, Advance, Zenon
<1>5. CASE AlertSaved(s, stored)
  <2> DEFINE h == alert[s]
             k == raised[<<s, n>>]
             ok == saveOk[s] /\ stored
  <2>1. /\ pc[s] = "alert" /\ k \in 0 .. MaxAlerts /\ h \in 1 .. k
        /\ Handled(s) = h - 1 /\ Awaited(s) = <<s, n, h>> /\ ok \in BOOLEAN
    BY <1>0, <1>2, <1>3, <1>5, Indices
       DEF AlertSaved, Handled, Awaited, Current, CurrentId, Position, Types0
  <2>2. SaveAlertFrom(s, h + 1, k)
    BY <1>5 DEF AlertSaved, CurrentId
  <2>3. StoredTo(s, h, ok)
    <3>1. ok => \A j \in 0 .. h - 1 : disk[<<s, n, j>>] # "none"
      BY <1>3, <2>1 DEF AtWork
    <3>2. ok => disk[<<s, n, h>>] # "none"
      BY <1>3, <2>1 DEF OnDisk
    <3>3. \A j \in 0 .. h : j \in 0 .. h - 1 \/ j = h
      BY <2>1
    <3> QED
      BY <3>1, <3>2, <3>3 DEF Current, StoredTo
  <2>4. dispatched' = dispatched \cup {<<s, n, h>>}
    BY <1>5 DEF AlertSaved, Dispatch, Current
  <2>5. \A j \in 1 .. MaxAlerts : Current(s, j) \in dispatched' <=> j <= h
    <3>1. \A j \in 1 .. MaxAlerts : <<s, n, j>> \in dispatched <=> j <= h - 1
      BY <1>3, <2>1 DEF AtWork
    <3>2. \A j \in 1 .. MaxAlerts : j <= h <=> (j <= h - 1 \/ j = h)
      BY <2>1
    <3> QED
      BY <2>4, <3>1, <3>2 DEF Current
  <2>6. \A t \in Streams, i \in 1 .. MaxEvents, j \in 0 .. MaxAlerts :
              <<t, i>> # CurrentId(s) =>
                 (<<t, i, j>> \in dispatched' <=> <<t, i, j>> \in dispatched)
    BY <2>4 DEF CurrentId
  <2>7. DispatchedTo(s, h)
    BY <2>5, <2>6 DEF DispatchedTo
  <2>8. /\ saveOk' = [saveOk EXCEPT ![s] = ok]
        /\ UNCHANGED <<authed, received, acks, disk, heartbeats>> /\ h \in 0 .. k
    <3>1. h \in 0 .. k
      BY <2>1
    <3>2. UNCHANGED <<authed, received, acks, disk, heartbeats>>
      BY <1>5 DEF AlertSaved
    <3>3. saveOk' = [saveOk EXCEPT ![s] = ok]
      BY <1>5, Zenon DEF AlertSaved, Outcome
    <3> QED
      BY <3>1, <3>2, <3>3
  <2> HIDE DEF h, k, ok
  <2> QED
    BY <1>1, <2>1, <2>2, <2>3, <2>7, <2>8, Advance, Zenon
<1> QED
  BY <1>4, <1>5

(***************************************************************************)
(* The answer to the event at work settles it.                             *)
(***************************************************************************)
LEMMA SendAckIInv ==
    ASSUME IInv, NEW s \in Streams, SendAck(s)
    PROVE  IInv'
<1> USE IngestAssumption
<1> DEFINE n == Len(received[s])
<1>0. StreamInv(s) /\ Types0
  BY DEF IInv
<1>1. pc[s] = "ack" /\ n \in 1 .. MaxEvents /\ Len(acks[s]) = n - 1 /\ Working(s)
  BY <1>0 DEF SendAck, StreamInv, Position, Types0, Answered, Working
<1>2. UNCHANGED <<authed, received, saveOk, alert, raised, heartbeats, dispatched, write, disk>>
  BY DEF SendAck, store
<1>3. CASE gone[s]
  <2>1. acks' = acks /\ Types0' /\ \A t \in Streams : pc'[t] = pc[t] \/ pc'[t] = "done"
    BY <1>0, <1>2, <1>3, Zenon DEF SendAck, Types0
  <2>2. \A r \in Records : write[r] = "committed" => disk[r] # "none"
    <3>1. \A t \in Streams, i \in 1 .. MaxEvents, j \in 0 .. MaxAlerts :
             write[<<t, i, j>>] = "committed" => disk[<<t, i, j>>] # "none"
      BY DEF IInv, StreamInv, OnDisk
    <3> QED
      BY <3>1 DEF Records
  <2> QED
    BY <1>2, <2>1, <2>2, QuietStep, Zenon
<1>4. CASE ~gone[s]
  <2>1. pc' = [pc EXCEPT ![s] = "recv"] /\ acks' = [acks EXCEPT ![s] = Append(acks[s], saveOk[s])]
    BY <1>4 DEF SendAck, Answer
  <2>2. /\ acks'[s] = Append(acks[s], saveOk[s]) /\ Len(acks'[s]) = n /\ pc'[s] = "recv"
        /\ acks'[s][n] = saveOk[s] /\ \A i \in 1 .. n - 1 : acks'[s][i] = acks[s][i]
    BY <1>0, <1>1, <2>1 DEF Types0
  <2>3. Types0'
    <3>1. Append(acks[s], saveOk[s]) \in Seq(BOOLEAN)
      BY <1>0 DEF Types0
    <3> QED
      BY <1>0, <1>2, <2>1, <3>1 DEF Types0
  <2>4. ASSUME NEW t \in Streams, t # s PROVE StreamInv(t)'
    <3>1. pc'[t] = pc[t] /\ acks'[t] = acks[t] /\ StreamInv(t)
      BY <1>0, <2>1, <2>4 DEF Types0, IInv
    <3> QED
      BY <1>0, <1>2, <3>1, Untouched
  <2>5. StreamInv(s)'
    <3>1. ~Working(s)' /\ Answered(s)' = n
      BY <2>2 DEF Working, Answered
    <3>2. \A i \in 1 .. MaxEvents : NoTrace(s, i)' <=> NoTrace(s, i)
      BY <1>2 DEF NoTrace
    <3>3. \A x : Foreign(s, x)' <=> Foreign(s, x)
      BY <1>2 DEF Foreign
    <3>4. Position(s)'
      BY <1>1, <1>2, <2>2, <3>1 DEF Position
    <3>5. ASSUME NEW i \in 1 .. MaxEvents PROVE Absence(s, i)'
      BY <1>0, <1>2, <2>2, <3>2, <3>3 DEF StreamInv, Absence
    <3>6. ASSUME NEW i \in 1 .. MaxEvents PROVE Settled(s, i)'
      <4>1. CASE i <= n - 1
        <5>1. Settled(s, i) /\ i <= Answered(s) /\ acks'[s][i] = acks[s][i]
          BY <1>0, <1>1, <2>2, <4>1 DEF StreamInv, Answered
        <5> QED
          BY <1>2, <5>1 DEF Settled
      <4>2. CASE i = n
        <5>1. AtWork(s, i) /\ Handled(s) = raised[<<s, i>>]
          BY <1>0, <1>1, <4>2 DEF StreamInv, Handled, CurrentId
        <5> QED
          BY <1>1, <1>2, <2>2, <4>2, <5>1, Zenon DEF AtWork, Settled
      <4>3. CASE i > n
        BY <1>1, <3>1, <4>3 DEF Settled
      <4> QED
        BY <1>1, <4>1, <4>2, <4>3
    <3>7. ASSUME NEW i \in 1 .. MaxEvents PROVE AtWork(s, i)' /\ OnDisk(s, i)'
      BY <1>0, <1>2, <3>1 DEF StreamInv, AtWork, OnDisk
    <3> QED
      BY <3>4, <3>5, <3>6, <3>7 DEF StreamInv
  <2> QED
    BY <2>3, <2>4, <2>5 DEF IInv
<1> QED
  BY <1>3, <1>4

(***************************************************************************)
(* Every step of a handler, of the store or of the world keeps the         *)
(* strengthening.                                                          *)
(***************************************************************************)
LEMMA NextIInv == IInv /\ [Next]_vars => IInv'
<1> SUFFICES ASSUME IInv, [Next]_vars PROVE IInv'
  OBVIOUS
<1>1. ASSUME NEW s \in Streams, Handler(s) PROVE IInv'
  <2>1. ASSUME NEW e \in Sent[s], NEW allowed \in BOOLEAN, Receive(s, e, allowed) PROVE IInv'
    <3>1. e \in Event
      BY SentAssumption
    <3> QED
      BY <2>1, <3>1, ReceiveIInv
  <2>2. CASE WriteReturns(s)
    <3>1. PICK stored \in BOOLEAN :
             /\ write[Awaited(s)] = IF stored THEN "committed" ELSE "failed"
             /\ EventSaved(s, stored) \/ AlertSaved(s, stored)
      BY <2>2 DEF WriteReturns
    <3> QED
      BY <3>1, SavedIInv
  <2>3. CASE WriteTimesOut(s)
    BY <2>3, SavedIInv, Zenon DEF WriteTimesOut
  <2>4. CASE SendAck(s)
    BY <2>4, SendAckIInv
  <2>5. CASE StreamEnds(s)
    BY <2>5, WorldIInv
  <2> QED
    BY <1>1, <2>1, <2>2, <2>3, <2>4, <2>5 DEF Handler
<1>2. CASE \/ \E r \in Records : Commit(r) \/ UpdateFails(r) \/ Expire(r)
           \/ \E s \in Streams : Disconnect(s)
           \/ Crash \/ UNCHANGED vars
  BY <1>2, WorldIInv
<1> QED
  BY <1>1, <1>2 DEF Next

(***************************************************************************)
(* The strengthening implies the properties of every answer.               *)
(***************************************************************************)
LEMMA Consequences ==
    IInv => AckedIsDurable /\ OneAckPerEvent /\ AlertsDispatched /\ RejectedLeavesNoTrace
<1> USE IngestAssumption
<1> SUFFICES ASSUME IInv
             PROVE  AckedIsDurable /\ OneAckPerEvent /\ AlertsDispatched /\ RejectedLeavesNoTrace
  OBVIOUS
<1>1. ASSUME NEW s \in Streams
      PROVE  /\ Len(received[s]) \in 0 .. MaxEvents /\ Len(acks[s]) \in 0 .. MaxEvents
             /\ Position(s) /\ \A i \in 1 .. MaxEvents : Settled(s, i) /\ Absence(s, i)
  BY DEF IInv, Types0, StreamInv, Position, Answered
<1>2. AckedIsDurable /\ AlertsDispatched
  BY <1>1 DEF AckedIsDurable, AlertsDispatched, Settled, Answered
<1>3. OneAckPerEvent
  <2>1. \A s \in Streams : pc[s] \in {"recv", "event", "alert", "ack", "done"}
    BY DEF IInv, Types0
  <2> QED
    <3> SUFFICES ASSUME NEW s \in Streams
                 PROVE  Len(received[s]) - Len(acks[s]) \in
                           IF Working(s) THEN {1} ELSE IF pc[s] = "done" THEN {0, 1} ELSE {0}
      BY Zenon DEF OneAckPerEvent
    <3>1. /\ Working(s) => Len(received[s]) - Len(acks[s]) = 1
          /\ Len(received[s]) - Len(acks[s]) \in {0, 1}
          /\ pc[s] = "recv" => Len(received[s]) - Len(acks[s]) = 0
      BY <1>1 DEF Position, Answered
    <3> QED
      BY <2>1, <3>1, Zenon DEF Working
<1>4. RejectedLeavesNoTrace
  <2> SUFFICES ASSUME NEW s \in Streams, NEW i \in 1 .. Len(received[s]),
                      Foreign(s, received[s][i])
               PROVE  NoTrace(s, i)
    BY DEF RejectedLeavesNoTrace
  <2>1. Absence(s, i) /\ i <= Len(received[s])
    BY <1>1
  <2> QED
    BY <2>1 DEF Absence
<1> QED
  BY <1>2, <1>3, <1>4

(***************************************************************************)
(* A positive answer of StreamEvents means that the event and its alerts   *)
(* are stored, for any number of streams, events, alerts and crashes.      *)
(***************************************************************************)
THEOREM AckedIsDurableHolds == Spec => []AckedIsDurable
  BY InitIInv, NextIInv, Consequences, PTL DEF Spec

(***************************************************************************)
(* StreamEvents answers every event once, before it takes the next.        *)
(***************************************************************************)
THEOREM OneAckPerEventHolds == Spec => []OneAckPerEvent
  BY InitIInv, NextIInv, Consequences, PTL DEF Spec

(***************************************************************************)
(* An answered event has had exactly its own alerts dispatched.            *)
(***************************************************************************)
THEOREM AlertsDispatchedHolds == Spec => []AlertsDispatched
  BY InitIInv, NextIInv, Consequences, PTL DEF Spec

(***************************************************************************)
(* An event the gates of StreamEvents refuse never reaches the registry,   *)
(* the store or the notifier.                                              *)
(***************************************************************************)
THEOREM RejectedLeavesNoTraceHolds == Spec => []RejectedLeavesNoTrace
  BY InitIInv, NextIInv, Consequences, PTL DEF Spec
=============================================================================
