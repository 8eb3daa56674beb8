-------------------------- MODULE DispatcherProofs --------------------------
(* The cooldown and the slots of the dispatcher, for any number of          *)
(* goroutines, keys, channels and any cooldown.                             *)
EXTENDS Dispatcher, FiniteSetTheorems, TLAPS

(***************************************************************************)
(* The inductive strengthening: lastSent is the last admission recorded,   *)
(* and a goroutine that decides has read the clock.                        *)
(***************************************************************************)
CooldownInv ==
    /\ cooldown \in Nat
    /\ lastSent \in [Keys -> Time \cup {Never}]
    /\ admitted \in [Keys -> Seq(Time)] /\ suppressed \in [Keys -> SUBSET Time]
    /\ \A k \in Keys :
          lastSent[k] = IF admitted[k] = <<>> THEN Never
                        ELSE admitted[k][Len(admitted[k])]
    /\ AdmissionsSpaced /\ SuppressedHasCover

JobInv ==
    /\ now \in Time /\ job \in [Workers -> Job]
    /\ \A w \in Workers :
          job[w].pc = "decide" => job[w].sample # Never

(***************************************************************************)
(* Initially nothing runs and nothing was admitted.                        *)
(***************************************************************************)
LEMMA InitInv == Init => JobInv /\ CooldownInv /\ EveryCallAccounted
<1> SUFFICES ASSUME Init PROVE JobInv /\ CooldownInv /\ EveryCallAccounted
  OBVIOUS
<1> USE DispatcherAssumption DEF Init
<1>1. Idle \in Job /\ Idle.pc = "idle"
  BY DEF Idle, Job, Never, Channels
<1>2. JobInv
  BY <1>1 DEF JobInv, Time
<1>3. CooldownInv
  BY DEF CooldownInv, AdmissionsSpaced, SuppressedHasCover, Never
<1>4. Live = {}
  BY <1>1 DEF Live
<1>5. EveryCallAccounted
  BY <1>4, FS_EmptySet DEF EveryCallAccounted
<1> QED
  BY <1>2, <1>3, <1>5

(***************************************************************************)
(* What the steps of a goroutine do to its record.                         *)
(***************************************************************************)
LEMMA IdleInJob == Idle \in Job /\ Idle.pc = "idle"
  BY DispatcherAssumption DEF Idle, Job, Never, Channels

(***************************************************************************)
(* Replacing the job of one worker by a well-formed one keeps every job    *)
(* well-formed.                                                            *)
(***************************************************************************)
LEMMA OneJob ==
    ASSUME JobInv, now' = now, NEW w \in Workers, NEW j \in Job,
           job' = [job EXCEPT ![w] = j],
           j.pc = "decide" => j.sample # Never
    PROVE  JobInv'
<1>1. job' \in [Workers -> Job]
  BY DEF JobInv
<1>2. \A v \in Workers : job'[v] = IF v = w THEN j ELSE job[v]
  BY DEF JobInv
<1> QED
  BY <1>1, <1>2 DEF JobInv

(***************************************************************************)
(* Every step keeps what is known of the goroutines.                       *)
(***************************************************************************)
LEMMA NextJobInv == JobInv /\ [Next]_vars => JobInv'
<1> SUFFICES ASSUME JobInv, [Next]_vars PROVE JobInv'
  OBVIOUS
<1> USE DispatcherAssumption
<1>t. /\ now \in Time /\ now \in Int /\ now # Never
      /\ \A w \in Workers : job[w] \in Job
  BY DEF JobInv, Time, Never
<1>f. ASSUME NEW w \in Workers, NEW how, Finish(w, how), now' = now PROVE JobInv'
  BY <1>f, IdleInJob, OneJob DEF Finish
<1>b. ASSUME NEW w \in Workers, BeginSends(w), now' = now PROVE JobInv'
  <2> DEFINE j == [job[w] EXCEPT !.pc = "send", !.start = now, !.called = now]
  <2>1. job' = [job EXCEPT ![w] = j]
    BY <1>b DEF BeginSends, JobInv
  <2>2. j \in Job /\ j.pc = "send"
    BY <1>t DEF Job
  <2> HIDE DEF j
  <2> QED
    BY <1>b, <1>t, <2>1, <2>2, OneJob
<1>1. ASSUME NEW k \in Keys, NEW severity \in {"below", "passes"}, DispatchAsync(k, severity)
      PROVE  JobInv'
  <2>1. CASE UNCHANGED job
    BY <1>1, <2>1 DEF DispatchAsync, JobInv
  <2>2. ASSUME NEW w \in Workers,
               job' = [job EXCEPT ![w] = [Idle EXCEPT !.pc = "gate", !.key = k,
                                                      !.severity = severity]]
        PROVE  JobInv'
    <3> DEFINE j == [Idle EXCEPT !.pc = "gate", !.key = k, !.severity = severity]
    <3>1. j \in Job /\ j.pc = "gate"
      BY IdleInJob DEF Job, Idle
    <3>2. now' = now
      BY <1>1 DEF DispatchAsync
    <3>3. job' = [job EXCEPT ![w] = j]
      BY <2>2
    <3> HIDE DEF j
    <3> QED
      BY <3>1, <3>2, <3>3, OneJob
  <2> QED
    BY <1>1, <2>1, <2>2 DEF DispatchAsync
<1>2. ASSUME NEW w \in Workers, Gate(w) PROVE JobInv'
  <2>1. now' = now
    BY <1>2 DEF Gate
  <2>2. CASE job' = [job EXCEPT ![w].pc = "decide", ![w].sample = now]
    <3> DEFINE j == [job[w] EXCEPT !.pc = "decide", !.sample = now]
    <3>1. job' = [job EXCEPT ![w] = j]
      BY <2>2 DEF JobInv
    <3>2. j \in Job /\ j.pc = "decide" /\ j.sample = now
      BY <1>t DEF Job
    <3> HIDE DEF j
    <3> QED
      BY <1>t, <2>1, <3>1, <3>2, OneJob
  <2> QED
    BY <1>2, <1>f, <1>b, <2>1, <2>2 DEF Gate
<1>3. ASSUME NEW w \in Workers, Decide(w) PROVE JobInv'
  BY <1>3, <1>f, <1>b DEF Decide
<1>4. ASSUME NEW w \in Workers, NEW ok, NextChannel(w, ok), job[w].pc = "send" PROVE JobInv'
  <2>1. now' = now
    BY <1>4 DEF NextChannel
  <2>2. CASE LoopDone(job[w].next, ok)
    BY <1>4, <1>f, <2>1, <2>2 DEF NextChannel
  <2>3. CASE ~LoopDone(job[w].next, ok)
    <3> DEFINE j == [job[w] EXCEPT !.next = job[w].next + 1, !.called = now]
    <3>1. job' = [job EXCEPT ![w] = j]
      BY <1>4, <2>3 DEF NextChannel, JobInv
    <3>2. job[w].next \in 1 .. NotifierCount /\ job[w].next # NotifierCount
      BY <1>t, <2>3 DEF LoopDone, Job, Channels
    <3>3. job[w].next + 1 \in Channels
      BY <3>2 DEF Channels
    <3>4. j \in Job /\ j.pc = "send"
      BY <1>t, <1>4, <3>3 DEF Job
    <3> HIDE DEF j
    <3> QED
      BY <2>1, <3>1, <3>4, OneJob
  <2> QED
    BY <2>2, <2>3
<1>5. CASE Tick
  <2>1. now' \in Time /\ job' = job
    BY <1>5, <1>t DEF Tick, Time
  <2> QED
    BY <2>1 DEF JobInv
<1>6. CASE UNCHANGED vars
  BY <1>6 DEF vars, JobInv
<1> QED
  BY <1>1, <1>2, <1>3, <1>4, <1>5, <1>6 DEF Next, Step, SendReturns, SendCutOff

(***************************************************************************)
(* Only Decide touches the cooldown's state.  An admission is appended     *)
(* after all others and a cooldown after the last of them.                 *)
(***************************************************************************)
LEMMA AdmitKeeps ==
    ASSUME CooldownInv, cooldown' = cooldown, suppressed' = suppressed,
           NEW k \in Keys, NEW at \in Time, ~InCooldown(k, at),
           lastSent' = [lastSent EXCEPT ![k] = at],
           admitted' = [admitted EXCEPT ![k] = Append(@, at)]
    PROVE  CooldownInv'
<1> DEFINE a == admitted[k]
           b == admitted'[k]
<1>t. /\ \A n \in Time : n \in Int
      /\ a \in Seq(Time) /\ Len(a) \in Nat
      /\ \A i \in 1 .. Len(a) : a[i] \in Int
      /\ cooldown \in Nat
  BY DispatcherAssumption DEF CooldownInv, Time
<1>1. /\ b = Append(a, at)
      /\ \A q \in Keys : q # k => admitted'[q] = admitted[q] /\ lastSent'[q] = lastSent[q]
      /\ lastSent'[k] = at
  BY DEF CooldownInv
<1>2. /\ b \in Seq(Time) /\ Len(b) = Len(a) + 1 /\ b[Len(a) + 1] = at /\ b # <<>>
      /\ \A i \in 1 .. Len(a) : b[i] = a[i]
  BY <1>1, <1>t
<1>3. /\ lastSent' \in [Keys -> Time \cup {Never}]
      /\ admitted' \in [Keys -> Seq(Time)] /\ suppressed' \in [Keys -> SUBSET Time]
  BY <1>1, <1>2 DEF CooldownInv
<1>4. \A q \in Keys : lastSent'[q] = IF admitted'[q] = <<>> THEN Never
                                     ELSE admitted'[q][Len(admitted'[q])]
  BY <1>1, <1>2 DEF CooldownInv
<1>5. ASSUME NEW i \in 1 .. Len(a) PROVE at - a[i] >= cooldown
  <2>1. Len(a) \in 1 .. Len(a) /\ a # <<>> /\ Len(a) # 0
    BY <1>t, <1>5
  <2>2. lastSent[k] = a[Len(a)] /\ a[Len(a)] \in Time
    BY <1>t, <2>1 DEF CooldownInv
  <2>3. at - a[Len(a)] >= cooldown
    BY <1>t, <2>2 DEF InCooldown, Never, Time
  <2>4. a[Len(a)] >= a[i]
    <3>1. CASE i = Len(a)
      BY <1>t, <2>1, <3>1
    <3>2. CASE i < Len(a)
      <4>1. a[Len(a)] - a[i] >= cooldown
        BY <2>1, <3>2 DEF CooldownInv, AdmissionsSpaced
      <4> QED
        BY <1>t, <2>1, <4>1
    <3> QED
      BY <1>t, <3>1, <3>2
  <2> QED
    BY <1>t, <2>1, <2>3, <2>4
<1>6. ASSUME NEW i \in 1 .. Len(b), NEW j \in 1 .. Len(b), i < j
      PROVE  b[j] - b[i] >= cooldown
  <2>1. i \in 1 .. Len(a) /\ b[i] = a[i]
    BY <1>t, <1>2, <1>6
  <2>2. CASE j = Len(a) + 1
    BY <1>2, <1>5, <2>1, <2>2
  <2>3. CASE j \in 1 .. Len(a)
    <3>1. b[j] = a[j]
      BY <1>2, <2>3
    <3>2. a[j] - a[i] >= cooldown
      BY <1>6, <2>1, <2>3 DEF CooldownInv, AdmissionsSpaced
    <3> QED
      BY <2>1, <3>1, <3>2
  <2> QED
    BY <1>t, <1>2, <2>2, <2>3
<1>7. AdmissionsSpaced'
  <2>1. ASSUME NEW q \in Keys, NEW i \in 1 .. Len(admitted'[q]),
               NEW j \in 1 .. Len(admitted'[q]), i < j
        PROVE  admitted'[q][j] - admitted'[q][i] >= cooldown
    <3>1. CASE q = k
      BY <1>6, <2>1, <3>1
    <3>2. CASE q # k
      BY <1>1, <2>1, <3>2 DEF CooldownInv, AdmissionsSpaced
    <3> QED
      BY <3>1, <3>2
  <2> QED
    BY <2>1 DEF AdmissionsSpaced
<1>8. SuppressedHasCover'
  <2>1. ASSUME NEW q \in Keys, NEW t \in suppressed[q]
        PROVE  \E i \in 1 .. Len(admitted'[q]) : t - admitted'[q][i] < cooldown
    <3>1. PICK i \in 1 .. Len(admitted[q]) : t - admitted[q][i] < cooldown
      BY DEF CooldownInv, SuppressedHasCover
    <3>2. i \in 1 .. Len(admitted'[q]) /\ admitted'[q][i] = admitted[q][i]
      BY <1>t, <1>1, <1>2, <3>1
    <3> QED
      BY <3>1, <3>2
  <2> QED
    BY <2>1 DEF SuppressedHasCover
<1> QED
  BY <1>t, <1>3, <1>4, <1>7, <1>8 DEF CooldownInv

(***************************************************************************)
(* A suppression is covered by the last admission.                         *)
(***************************************************************************)
LEMMA SuppressKeeps ==
    ASSUME CooldownInv, UNCHANGED <<cooldown, lastSent, admitted>>,
           NEW k \in Keys, NEW at \in Time, InCooldown(k, at),
           suppressed' = [suppressed EXCEPT ![k] = @ \cup {at}]
    PROVE  CooldownInv'
<1>1. suppressed' \in [Keys -> SUBSET Time]
  BY DEF CooldownInv
<1>2. admitted[k] # <<>> /\ lastSent[k] = admitted[k][Len(admitted[k])]
  BY DEF CooldownInv, InCooldown
<1>3. admitted[k] \in Seq(Time) /\ Len(admitted[k]) \in 1 .. Len(admitted[k])
  BY <1>2 DEF CooldownInv
<1>4. \E i \in 1 .. Len(admitted[k]) : at - admitted[k][i] < cooldown
  BY <1>2, <1>3 DEF InCooldown
<1>5. ASSUME NEW q \in Keys, NEW t \in suppressed'[q]
      PROVE  \E i \in 1 .. Len(admitted[q]) : t - admitted[q][i] < cooldown
  <2>1. t \in suppressed[q] \/ (q = k /\ t = at)
    BY DEF CooldownInv
  <2> QED
    BY <1>4, <2>1 DEF CooldownInv, SuppressedHasCover
<1> QED
  BY <1>1, <1>5 DEF CooldownInv, AdmissionsSpaced, SuppressedHasCover

(***************************************************************************)
(* Every step keeps the history of admissions consistent with the cooldown *)
(* table: only Admit writes it, only Suppress reads it.                    *)
(***************************************************************************)
LEMMA NextCooldownInv == JobInv /\ CooldownInv /\ [Next]_vars => CooldownInv'
<1> SUFFICES ASSUME JobInv, CooldownInv, [Next]_vars PROVE CooldownInv'
  OBVIOUS
<1>1. ASSUME NEW w \in Workers, Decide(w) PROVE CooldownInv'
  <2>1. job[w].key \in Keys /\ job[w].sample \in Time
    <3>1. job[w] \in Job /\ job[w].sample # Never
      BY <1>1 DEF Decide, JobInv
    <3> QED
      BY <3>1 DEF Job
  <2>2. cooldown' = cooldown
    BY <1>1 DEF Decide
  <2>3. CASE InCooldown(job[w].key, job[w].sample)
    BY <1>1, <2>1, <2>2, <2>3, SuppressKeeps DEF Decide
  <2>4. CASE ~InCooldown(job[w].key, job[w].sample)
    BY <1>1, <2>1, <2>2, <2>4, AdmitKeeps DEF Decide
  <2> QED
    BY <2>3, <2>4
<1>2. CASE UNCHANGED <<cooldown, lastSent, admitted, suppressed>>
  BY <1>2 DEF CooldownInv, AdmissionsSpaced, SuppressedHasCover
<1>3. \/ UNCHANGED <<cooldown, lastSent, admitted, suppressed>>
      \/ \E w \in Workers : Decide(w)
  BY DEF Next, Step, DispatchAsync, Gate, SendReturns, SendCutOff, NextChannel, Tick, vars, history
<1> QED
  BY <1>1, <1>2, <1>3

(***************************************************************************)
(* Three goroutines or three thousand: no two admissions of one rule and   *)
(* node are closer than the cooldown, by the clocks they read.             *)
(***************************************************************************)
THEOREM AdmissionsSpacedHolds == Spec => []AdmissionsSpaced
<1>1. CooldownInv => AdmissionsSpaced
  BY DEF CooldownInv
<1> QED
  BY <1>1, InitInv, NextJobInv, NextCooldownInv, PTL DEF Spec

(***************************************************************************)
(* Nothing is suppressed but for an admission less than a cooldown before  *)
(* it, or after it.                                                        *)
(***************************************************************************)
THEOREM SuppressedHasCoverHolds == Spec => []SuppressedHasCover
<1>1. CooldownInv => SuppressedHasCover
  BY DEF CooldownInv
<1> QED
  BY <1>1, InitInv, NextJobInv, NextCooldownInv, PTL DEF Spec

(***************************************************************************)
(* The accounting needs its numbers to be numbers.                         *)
(***************************************************************************)
AccountInv ==
    /\ calls \in Nat /\ dropped \in Nat /\ sem \in Nat
    /\ fate \in [{"below", "suppressed", "notified"} -> Nat]
    /\ EveryCallAccounted

(***************************************************************************)
(* A goroutine that ends gives back the one slot it was counted for.       *)
(***************************************************************************)
LEMMA FinishAccounts ==
    ASSUME JobInv, AccountInv, NEW w \in Live,
           NEW how \in {"below", "suppressed", "notified"}, Finish(w, how),
           UNCHANGED <<calls, dropped>>
    PROVE  AccountInv'
<1>1. w \in Workers /\ IsFiniteSet(Live)
  BY DispatcherAssumption, FS_Subset DEF Live
<1>2. Live' = Live \ {w}
  <2>1. \A v \in Workers : job'[v] = IF v = w THEN Idle ELSE job[v]
    BY <1>1 DEF Finish, JobInv
  <2> QED
    BY <1>1, <2>1, IdleInJob DEF Live
<1>3. Cardinality(Live') = Cardinality(Live) - 1 /\ Cardinality(Live) \in Nat
  BY <1>1, <1>2, FS_RemoveElement, FS_CardinalityType
<1>4. Cardinality(Live') \in Nat
  BY <1>1, <1>2, FS_RemoveElement, FS_CardinalityType
<1>5. sem' = sem - 1 /\ sem' <= MaxConcurrent /\ sem = Cardinality(Live)
  BY DispatcherAssumption DEF Finish, Release, AccountInv, EveryCallAccounted
<1>6. /\ fate' = [fate EXCEPT ![how] = @ + 1]
      /\ fate' \in [{"below", "suppressed", "notified"} -> Nat]
  BY DEF Finish, AccountInv
<1>7. fate'.below + fate'.suppressed + fate'.notified
         = fate.below + fate.suppressed + fate.notified + 1
  BY <1>6 DEF AccountInv
<1>8. calls = dropped + sem + fate.below + fate.suppressed + fate.notified
  BY DEF AccountInv, EveryCallAccounted
<1>9. calls' = dropped' + sem' + fate'.below + fate'.suppressed + fate'.notified
  BY <1>5, <1>6, <1>7, <1>8 DEF AccountInv
<1> QED
  BY <1>3, <1>4, <1>5, <1>6, <1>9 DEF AccountInv, EveryCallAccounted

(***************************************************************************)
(* A goroutine that goes on keeps its slot.                                *)
(***************************************************************************)
LEMMA GoesOnAccounts ==
    ASSUME JobInv, AccountInv, NEW w \in Live, NEW j \in Job, j.pc # "idle",
           job' = [job EXCEPT ![w] = j], UNCHANGED <<sem, calls, dropped, fate>>
    PROVE  AccountInv'
<1>1. Live' = Live
  <2>1. \A v \in Workers : job'[v] = IF v = w THEN j ELSE job[v]
    BY DEF Live, JobInv
  <2> QED
    BY <2>1 DEF Live
<1> QED
  BY <1>1 DEF AccountInv, EveryCallAccounted

(***************************************************************************)
(* Every step keeps the account of DispatchAsync calls: a call is counted  *)
(* where it waits, runs, or ended.                                         *)
(***************************************************************************)
LEMMA NextAccountInv == JobInv /\ AccountInv /\ [Next]_vars => AccountInv'
<1> SUFFICES ASSUME JobInv, AccountInv, [Next]_vars PROVE AccountInv'
  OBVIOUS
<1>t. now \in Time /\ \A w \in Workers : job[w] \in Job
  BY DEF JobInv
<1>b. ASSUME NEW w \in Live, BeginSends(w), UNCHANGED <<calls, dropped>> PROVE AccountInv'
  <2> DEFINE j == [job[w] EXCEPT !.pc = "send", !.start = now, !.called = now]
  <2>0. w \in Workers
    BY DEF Live
  <2>1. job' = [job EXCEPT ![w] = j] /\ UNCHANGED <<sem, fate>>
    BY <1>b, <2>0 DEF BeginSends, JobInv
  <2>2. j \in Job /\ j.pc = "send"
    BY <1>t, <2>0 DEF Job
  <2> HIDE DEF j
  <2> QED
    BY <1>b, <2>1, <2>2, GoesOnAccounts
<1>1. ASSUME NEW k \in Keys, NEW severity \in {"below", "passes"}, DispatchAsync(k, severity)
      PROVE  AccountInv'
  <2>1. CASE ~Room
    <3>1. /\ UNCHANGED <<sem, job, fate>> /\ dropped' = dropped + 1 /\ calls' = calls + 1
      BY <1>1, <2>1 DEF DispatchAsync
    <3>2. Live' = Live
      BY <3>1 DEF Live
    <3> QED
      BY <3>1, <3>2 DEF AccountInv, EveryCallAccounted
  <2>2. CASE Room
    <3> DEFINE j == [Idle EXCEPT !.pc = "gate", !.key = k, !.severity = severity]
    <3>1. PICK w \in Workers : job[w].pc = "idle" /\ job' = [job EXCEPT ![w] = j]
      BY <1>1, <2>2 DEF DispatchAsync
    <3>2. /\ sem' = sem + 1 /\ dropped' = dropped /\ calls' = calls + 1 /\ fate' = fate
      BY <1>1, <2>2 DEF DispatchAsync
    <3>3. j.pc = "gate"
      BY DEF Idle
    <3> HIDE DEF j
    <3>4. Live' = Live \cup {w} /\ w \notin Live
      <4>1. \A v \in Workers : job'[v] = IF v = w THEN j ELSE job[v]
        BY <3>1 DEF JobInv
      <4> QED
        BY <3>1, <3>3, <4>1 DEF Live
    <3>5. IsFiniteSet(Live)
      BY DispatcherAssumption, FS_Subset DEF Live
    <3>6. Cardinality(Live') = Cardinality(Live) + 1
      BY <3>4, <3>5, FS_AddElement
    <3>7. sem' <= MaxConcurrent
      BY <2>2, <3>2, DispatcherAssumption DEF Room, AccountInv
    <3> QED
      BY <3>2, <3>6, <3>7 DEF AccountInv, EveryCallAccounted
  <2> QED
    BY <2>1, <2>2
<1>2. ASSUME NEW w \in Workers, Gate(w) PROVE AccountInv'
  <2>1. w \in Live /\ UNCHANGED <<calls, dropped>>
    BY <1>2 DEF Gate, Live
  <2>2. CASE Finish(w, "below")
    BY <2>1, <2>2, FinishAccounts
  <2>3. CASE BeginSends(w)
    BY <1>b, <2>1, <2>3
  <2>4. CASE /\ job' = [job EXCEPT ![w].pc = "decide", ![w].sample = now]
             /\ UNCHANGED <<sem, fate>>
    <3> DEFINE j == [job[w] EXCEPT !.pc = "decide", !.sample = now]
    <3>1. job' = [job EXCEPT ![w] = j]
      BY <2>4 DEF JobInv
    <3>2. j \in Job /\ j.pc = "decide"
      BY <1>t DEF Job
    <3> HIDE DEF j
    <3> QED
      BY <2>1, <2>4, <3>1, <3>2, GoesOnAccounts
  <2> QED
    BY <1>2, <2>2, <2>3, <2>4 DEF Gate
<1>3. ASSUME NEW w \in Workers, Decide(w) PROVE AccountInv'
  <2>1. w \in Live /\ UNCHANGED <<calls, dropped>>
    BY <1>3 DEF Decide, Live
  <2>2. Finish(w, "suppressed") \/ BeginSends(w)
    BY <1>3 DEF Decide
  <2> QED
    BY <1>b, <2>1, <2>2, FinishAccounts
<1>4. ASSUME NEW w \in Workers, NEW ok, NextChannel(w, ok), job[w].pc = "send" PROVE AccountInv'
  <2>1. w \in Live /\ UNCHANGED <<calls, dropped>>
    BY <1>4 DEF NextChannel, Live
  <2>2. CASE LoopDone(job[w].next, ok)
    BY <1>4, <2>1, <2>2, FinishAccounts DEF NextChannel
  <2>3. CASE ~LoopDone(job[w].next, ok)
    <3>1. /\ job' = [job EXCEPT ![w].next = job[w].next + 1, ![w].called = now]
          /\ UNCHANGED <<sem, fate>>
      BY <1>4, <2>3 DEF NextChannel
    <3>2. Live' = Live
      <4>1. \A v \in Workers : job'[v].pc = job[v].pc
        BY <1>t, <3>1 DEF JobInv, Job
      <4> QED
        BY <4>1 DEF Live
    <3> QED
      BY <2>1, <3>1, <3>2 DEF AccountInv, EveryCallAccounted
  <2> QED
    BY <2>2, <2>3
<1>5. CASE Tick \/ UNCHANGED vars
  <2>1. UNCHANGED <<job, sem, calls, dropped, fate>>
    BY <1>5 DEF Tick, vars, history
  <2> QED
    BY <2>1 DEF AccountInv, EveryCallAccounted, Live
<1> QED
  BY <1>1, <1>2, <1>3, <1>4, <1>5 DEF Next, Step, SendReturns, SendCutOff

(***************************************************************************)
(* No path through Dispatch leaks a slot or loses count of a call, for any *)
(* number of goroutines and any limit on them.                             *)
(***************************************************************************)
THEOREM EveryCallAccountedHolds == Spec => []EveryCallAccounted
<1>1. Init => AccountInv
  BY InitInv DEF Init, AccountInv
<1>2. AccountInv => EveryCallAccounted
  BY DEF AccountInv
<1> QED
  BY <1>1, <1>2, InitInv, NextJobInv, NextAccountInv, PTL DEF Spec

(***************************************************************************)
(* EveryChannelTried alone is not inductive: a dispatch must begin with    *)
(* the first channel, so the loop's variable must stand there until the    *)
(* dispatch is past shouldSend.                                            *)
(***************************************************************************)
TriedInv ==
    /\ tried \in [Channels -> Nat]
    /\ \A w \in Workers : job[w].pc # "send" => job[w].next = 1
    /\ EveryChannelTried

(***************************************************************************)
(* A step before the first Send: no dispatch gets past any channel.        *)
(***************************************************************************)
LEMMA NotYetSending ==
    ASSUME JobInv, TriedInv, NEW w \in Workers, job[w].pc # "send", NEW j \in Job,
           j.next = 1, job' = [job EXCEPT ![w] = j],
           tried' = tried, fate'.notified = fate.notified
    PROVE  TriedInv'
<1>1. \A v \in Workers : job'[v] = IF v = w THEN j ELSE job[v]
  BY DEF JobInv
<1>2. ASSUME NEW c \in Channels PROVE Past(c)' = Past(c)
  <2>1. ~(1 > c)
    BY DispatcherAssumption DEF Channels
  <2> QED
    BY <1>1, <2>1 DEF Past
<1> QED
  BY <1>1, <1>2 DEF TriedInv, EveryChannelTried

(***************************************************************************)
(* One turn of the loop: the dispatch gets past the channel it has just    *)
(* tried, and after the last one it counts as notified.                    *)
(***************************************************************************)
LEMMA TurnOfLoop ==
    ASSUME JobInv, AccountInv, TriedInv, NEW w \in Workers, job[w].pc = "send",
           NEW ok, NextChannel(w, ok)
    PROVE  TriedInv'
<1> USE DispatcherAssumption
<1>n. PICK n \in Channels : n = job[w].next
  BY DEF JobInv, Job
<1>t. /\ n \in Nat /\ fate.notified \in Nat
      /\ \A c \in Channels : c \in Nat /\ c <= NotifierCount
  BY DEF AccountInv, Channels
<1>1. /\ tried' \in [Channels -> Nat] /\ tried'[n] = tried[n] + 1
      /\ \A c \in Channels : c # n => tried'[c] = tried[c]
  BY <1>n, <1>t DEF NextChannel, TriedInv
<1>2. \A c \in Channels : IsFiniteSet(Past(c)) /\ Cardinality(Past(c)) \in Nat
  BY FS_Subset, FS_CardinalityType DEF Past
<1>3. CASE n = NotifierCount
  <2>1. /\ \A v \in Workers : job'[v] = IF v = w THEN Idle ELSE job[v]
        /\ fate'.notified = fate.notified + 1
    BY <1>n, <1>3 DEF NextChannel, LoopDone, Finish, JobInv, AccountInv
  <2>2. Idle.pc = "idle" /\ Idle.next = 1
    BY DEF Idle
  <2>3. ASSUME NEW c \in Channels, c # n
        PROVE  tried'[c] = fate'.notified + Cardinality(Past(c)')
    <3>0. n > c
      BY <1>t, <1>3, <2>3
    <3>1. w \in Past(c)
      BY <1>n, <3>0 DEF Past
    <3>2. Past(c)' = Past(c) \ {w}
      BY <2>1, <2>2 DEF Past
    <3>3. Cardinality(Past(c)') = Cardinality(Past(c)) - 1
      <4>1. IsFiniteSet(Past(c))
        BY <1>2
      <4>2. Cardinality(Past(c) \ {w}) = Cardinality(Past(c)) - 1
        BY <3>1, <4>1, FS_RemoveElement
      <4> QED
        BY <3>2, <4>2, Zenon
    <3>4. tried'[c] = fate.notified + Cardinality(Past(c))
      BY <1>1, <2>3 DEF TriedInv, EveryChannelTried
    <3> QED
      BY <1>t, <1>2, <2>1, <3>3, <3>4
  <2>4. Past(n)' = Past(n)
    BY <1>n, <1>t, <2>1, <2>2 DEF Past
  <2>5. tried'[n] = fate'.notified + Cardinality(Past(n)')
    BY <1>n, <1>t, <1>1, <1>2, <2>1, <2>4 DEF TriedInv, EveryChannelTried
  <2>6. \A v \in Workers : job'[v].pc # "send" => job'[v].next = 1
    BY <2>1, <2>2 DEF TriedInv
  <2> QED
    BY <1>1, <2>3, <2>5, <2>6 DEF TriedInv, EveryChannelTried
<1>4. CASE n # NotifierCount
  <2>1. /\ \A v \in Workers : v # w => job'[v] = job[v]
        /\ job'[w].pc = "send" /\ job'[w].next = n + 1 /\ fate' = fate
    BY <1>n, <1>4 DEF NextChannel, LoopDone, JobInv, Job
  <2>2. ASSUME NEW c \in Channels, c # n
        PROVE  tried'[c] = fate'.notified + Cardinality(Past(c)')
    <3>1. n > c <=> n + 1 > c
      BY <1>n, <1>t, <2>2
    <3>2. Past(c)' = Past(c)
      BY <1>n, <2>1, <3>1 DEF Past
    <3> QED
      BY <1>1, <2>1, <2>2, <3>2 DEF TriedInv, EveryChannelTried
  <2>3. tried'[n] = fate'.notified + Cardinality(Past(n)')
    <3>1. Past(n)' = Past(n) \cup {w} /\ w \notin Past(n)
      BY <1>n, <1>t, <2>1 DEF Past
    <3>2. Cardinality(Past(n)') = Cardinality(Past(n)) + 1
      BY <1>n, <1>t, <1>2, <3>1, FS_AddElement
    <3> QED
      BY <1>n, <1>t, <1>1, <1>2, <2>1, <3>2 DEF TriedInv, EveryChannelTried
  <2>4. \A v \in Workers : job'[v].pc # "send" => job'[v].next = 1
    BY <2>1 DEF TriedInv
  <2> QED
    BY <1>1, <2>2, <2>3, <2>4 DEF TriedInv, EveryChannelTried
<1> QED
  BY <1>3, <1>4

(***************************************************************************)
(* Every step keeps the count of Sends per channel.                        *)
(***************************************************************************)
LEMMA NextTriedInv == JobInv /\ AccountInv /\ TriedInv /\ [Next]_vars => TriedInv'
<1> SUFFICES ASSUME JobInv, AccountInv, TriedInv, [Next]_vars PROVE TriedInv'
  OBVIOUS
<1>t. now \in Time /\ \A w \in Workers : job[w] \in Job
  BY DEF JobInv
<1>i. Idle \in Job /\ Idle.next = 1
  BY IdleInJob DEF Idle
<1>f. ASSUME NEW w \in Workers, job[w].pc # "send", NEW how \in {"below", "suppressed"},
             Finish(w, how), tried' = tried
      PROVE  TriedInv'
  <2>1. fate'.notified = fate.notified
    BY <1>f DEF Finish, AccountInv
  <2> QED
    BY <1>f, <1>i, <2>1, NotYetSending DEF Finish
<1>b. ASSUME NEW w \in Workers, job[w].pc # "send", BeginSends(w), tried' = tried
      PROVE  TriedInv'
  <2> DEFINE j == [job[w] EXCEPT !.pc = "send", !.start = now, !.called = now]
  <2>1. job' = [job EXCEPT ![w] = j] /\ fate' = fate
    BY <1>b DEF BeginSends, JobInv
  <2>2. j \in Job /\ j.next = 1
    BY <1>t, <1>b DEF Job, TriedInv
  <2> HIDE DEF j
  <2> QED
    BY <1>b, <2>1, <2>2, NotYetSending
<1>1. ASSUME NEW k \in Keys, NEW severity \in {"below", "passes"}, DispatchAsync(k, severity)
      PROVE  TriedInv'
  <2>0. tried' = tried /\ fate' = fate
    BY <1>1 DEF DispatchAsync
  <2>1. CASE UNCHANGED job
    BY <2>0, <2>1 DEF TriedInv, EveryChannelTried, Past
  <2>2. ASSUME NEW w \in Workers, job[w].pc = "idle",
               job' = [job EXCEPT ![w] = [Idle EXCEPT !.pc = "gate", !.key = k,
                                                      !.severity = severity]]
        PROVE  TriedInv'
    <3> DEFINE j == [Idle EXCEPT !.pc = "gate", !.key = k, !.severity = severity]
    <3>1. j \in Job /\ j.next = 1
      BY IdleInJob DEF Job, Idle
    <3>2. job' = [job EXCEPT ![w] = j]
      BY <2>2
    <3> HIDE DEF j
    <3> QED
      BY <2>0, <2>2, <3>1, <3>2, NotYetSending
  <2> QED
    BY <1>1, <2>1, <2>2 DEF DispatchAsync
<1>2. ASSUME NEW w \in Workers, Gate(w) PROVE TriedInv'
  <2>1. job[w].pc # "send" /\ tried' = tried
    BY <1>2 DEF Gate
  <2>2. CASE /\ job' = [job EXCEPT ![w].pc = "decide", ![w].sample = now]
             /\ UNCHANGED <<sem, fate>>
    <3> DEFINE j == [job[w] EXCEPT !.pc = "decide", !.sample = now]
    <3>1. job' = [job EXCEPT ![w] = j]
      BY <2>2 DEF JobInv
    <3>2. j \in Job /\ j.next = 1
      BY <1>t, <2>1 DEF Job, TriedInv
    <3> HIDE DEF j
    <3> QED
      BY <2>1, <2>2, <3>1, <3>2, NotYetSending
  <2> QED
    BY <1>2, <1>f, <1>b, <2>1, <2>2 DEF Gate
<1>3. ASSUME NEW w \in Workers, Decide(w) PROVE TriedInv'
  <2>1. job[w].pc # "send" /\ tried' = tried
    BY <1>3 DEF Decide
  <2>2. Finish(w, "suppressed") \/ BeginSends(w)
    BY <1>3 DEF Decide
  <2> QED
    BY <1>f, <1>b, <2>1, <2>2
<1>4. CASE Tick \/ UNCHANGED vars
  <2>1. UNCHANGED <<job, tried, fate>>
    BY <1>4 DEF Tick, vars, history
  <2> QED
    BY <2>1 DEF TriedInv, EveryChannelTried, Past
<1> QED
  BY <1>1, <1>2, <1>3, <1>4, TurnOfLoop DEF Next, Step, SendReturns, SendCutOff

(***************************************************************************)
(* Every dispatch that passed shouldSend tries every configured channel,   *)
(* however many there are and whichever of them fail or hang: a channel    *)
(* has been given one Send per dispatch that ended as notified and one per *)
(* dispatch whose loop is past it.                                         *)
(***************************************************************************)
THEOREM EveryChannelTriedHolds == Spec => []EveryChannelTried
<1>1. Init => TriedInv
  <2> SUFFICES ASSUME Init PROVE TriedInv
    OBVIOUS
  <2>1. \A w \in Workers : job[w].pc = "idle" /\ job[w].next = 1
    BY DEF Init, Idle
  <2>2. \A c \in Channels : Past(c) = {}
    BY <2>1 DEF Past
  <2>3. fate.notified = 0 /\ tried = [c \in Channels |-> 0] /\ Cardinality({}) = 0
    BY FS_EmptySet DEF Init
  <2>4. EveryChannelTried
    BY <2>2, <2>3 DEF EveryChannelTried
  <2> QED
    BY <2>1, <2>3, <2>4 DEF TriedInv
<1>2. Init => AccountInv
  BY InitInv DEF Init, AccountInv
<1>3. TriedInv => EveryChannelTried
  BY DEF TriedInv
<1> QED
  BY <1>1, <1>2, <1>3, InitInv, NextJobInv, NextAccountInv, NextTriedInv, PTL DEF Spec
=============================================================================
