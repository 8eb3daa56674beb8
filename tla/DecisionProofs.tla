--------------------------- MODULE DecisionProofs ---------------------------
(***************************************************************************)
(* What the collector decides about one event, for every setting: is it    *)
(* admitted (TokenBucket), which rules fire on it (Alerting), and which    *)
(* window does it overflow (Detector).  Screening, the three in the order  *)
(* of StreamEvents, implements each of them.                               *)
(***************************************************************************)
EXTENDS Screening, FiniteSetTheorems, WellFoundedInduction, TLAPS

-----------------------------------------------------------------------------
(* The rate limiter of a stream. *)

(***************************************************************************)
(* The inductive strengthening: the bucket's contents account exactly for  *)
(* what was admitted since it was full, and bound what a window admits.    *)
(***************************************************************************)
BInv ==
    /\ BTypeOK
    /\ tokens = Burst + Rate * (last - fullAt) - Unit * spent
    /\ verdict = "drop" => tokens < Unit
    /\ IF last < start
       THEN admitted = 0
       ELSE Unit * admitted + tokens <= Burst + Rate * (last - start)

(***************************************************************************)
(* Multiplication by a constant, as the steps below use it.                *)
(***************************************************************************)
LEMMA Distribute ==
  ASSUME NEW c \in Nat, NEW a \in Int, NEW b \in Int, NEW d \in Int
  PROVE  /\ c * (a - d) = c * (a - b) + c * (b - d)
         /\ c * (a + 1) = c * a + c
         /\ c * (a - b) \in Int
         /\ a >= b => c * (a - b) >= 0
         /\ c * 0 = 0
  BY Z3

(***************************************************************************)
(* A full bucket that has admitted nothing (newTokenBucket) satisfies BInv.*)
(***************************************************************************)
LEMMA InitBInv == BInit => BInv
  BY BucketAssumption DEF BInit, BInv, BTypeOK

(***************************************************************************)
(* A refill keeps the bucket within its capacity, and exactly accounts for *)
(* the time that has passed unless it fills the bucket.                    *)
(***************************************************************************)
LEMMA RefilledBounds ==
  ASSUME BInv
  PROVE  /\ Refilled \in 0 .. Burst
         /\ Refilled <= tokens + Rate * (clock - last)
         /\ Refilled # Burst => Refilled = tokens + Rate * (clock - last)
<1>1. Rate * (clock - last) \in Nat
  BY BucketAssumption, Distribute DEF BInv, BTypeOK
<1> QED
  BY <1>1, BucketAssumption DEF BInv, BTypeOK, Refilled

(***************************************************************************)
(* Both outcomes of allow() preserve BInv: k is the number of events, one  *)
(* or none, that the call admits.                                          *)
(***************************************************************************)
LEMMA ArrivalBInv ==
  ASSUME BInv, NEW k \in {0, 1},
         Refilled >= Unit * k,
         tokens' = Refilled - Unit * k, last' = clock, clock' = clock,
         verdict' \in {"admit", "drop"},
         verdict' = "drop" => Refilled - Unit * k < Unit,
         admitted' = admitted + k,
         fullAt' = IF Refilled = Burst THEN clock ELSE fullAt,
         spent' = (IF Refilled = Burst THEN 0 ELSE spent) + k,
         start' = start
  PROVE  BInv'
<1> USE BucketAssumption
<1>1. BTypeOK'
  BY RefilledBounds DEF BInv, BTypeOK
<1>2. /\ Unit * k \in Nat
      /\ Unit * (admitted + k) = Unit * admitted + Unit * k
      /\ Unit * (spent + k) = Unit * spent + Unit * k
      /\ Unit * admitted \in Nat
      /\ Unit * spent \in Nat
  BY Z3 DEF BInv, BTypeOK
<1>3. tokens' = Burst + Rate * (last' - fullAt') - Unit * spent'
  <2>1. CASE Refilled = Burst
    BY <1>2, <2>1, RefilledBounds, Distribute DEF BInv, BTypeOK
  <2>2. CASE Refilled # Burst
    <3>1. Rate * (clock - fullAt) = Rate * (clock - last) + Rate * (last - fullAt)
      BY Distribute DEF BInv, BTypeOK
    <3>2. Rate * (clock - last) \in Int /\ Rate * (last - fullAt) \in Int
      BY Distribute DEF BInv, BTypeOK
    <3> QED
      BY <1>2, <2>2, <3>1, <3>2, RefilledBounds DEF BInv, BTypeOK
  <2> QED
    BY <2>1, <2>2
<1>4. Unit * admitted' + tokens' <= Burst + Rate * (last' - start')
  <2>1. CASE last < start
    <3>1. admitted = 0 /\ Unit * 0 = 0
      BY <2>1 DEF BInv
    <3>2. Rate * (clock - start) \in Int /\ Rate * (clock - start) >= 0
      BY Distribute DEF BInv, BTypeOK
    <3> QED
      BY <1>2, <3>1, <3>2, RefilledBounds DEF BInv, BTypeOK
  <2>2. CASE ~(last < start)
    <3>1. Rate * (clock - start) = Rate * (clock - last) + Rate * (last - start)
      BY Distribute DEF BInv, BTypeOK
    <3>2. Rate * (clock - last) \in Int /\ Rate * (last - start) \in Int
      BY Distribute DEF BInv, BTypeOK
    <3>3. Unit * admitted + tokens <= Burst + Rate * (last - start)
      BY <2>2 DEF BInv
    <3> QED
      BY <1>2, <3>1, <3>2, <3>3, RefilledBounds DEF BInv, BTypeOK
  <2> QED
    BY <2>1, <2>2
<1>5. ~(last' < start')
  BY DEF BInv, BTypeOK
<1>6. verdict' = "drop" => tokens' < Unit
  OBVIOUS
<1> QED
  BY <1>1, <1>3, <1>4, <1>5, <1>6 DEF BInv

(***************************************************************************)
(* Both outcomes of allow(), the clock and the observer preserve BInv.     *)
(***************************************************************************)
LEMMA NextBInv == BInv /\ [BNext]_bvars => BInv'
<1> SUFFICES ASSUME BInv, [BNext]_bvars PROVE BInv'
  OBVIOUS
<1> USE BucketAssumption
<1>1. CASE Admit
  <2>1. Unit * 1 = Unit
    OBVIOUS
  <2> QED
    BY <1>1, <2>1, ArrivalBInv, RefilledBounds DEF Admit, Remember
<1>2. CASE Throttle
  <2>1. Unit * 0 = 0 /\ Refilled \in 0 .. Burst
    BY RefilledBounds
  <2> QED
    BY <1>2, <2>1, ArrivalBInv DEF Throttle, Remember
<1>3. CASE Elapse
  BY <1>3 DEF Elapse, BInv, BTypeOK
<1>4. CASE Observe
  <2>1. Unit * 0 = 0 /\ Rate * (clock - clock) = 0
    BY DEF BInv, BTypeOK
  <2> QED
    BY <1>4, <2>1 DEF Observe, BInv, BTypeOK
<1>5. CASE UNCHANGED bvars
  BY <1>5 DEF bvars, BInv, BTypeOK
<1> QED
  BY <1>1, <1>2, <1>3, <1>4, <1>5 DEF BNext

(***************************************************************************)
(* The bucket's contents account exactly for what it admitted.             *)
(***************************************************************************)
THEOREM BucketInvariant == BSpec => []BInv
  BY InitBInv, NextBInv, PTL DEF BSpec

(***************************************************************************)
(* No window of time admits more than the burst plus its own refill.       *)
(***************************************************************************)
THEOREM RateBoundHolds == BSpec => []RateBound
<1>1. BInv => RateBound
  <2> SUFFICES ASSUME BInv PROVE RateBound
    OBVIOUS
  <2> USE BucketAssumption
  <2>1. CASE last < start
    <3>1. admitted = 0 /\ Unit * 0 = 0
      BY <2>1 DEF BInv
    <3>2. Rate * (clock - start) \in Int /\ Rate * (clock - start) >= 0
      BY Distribute DEF BInv, BTypeOK
    <3> QED
      BY <3>1, <3>2 DEF RateBound
  <2>2. CASE ~(last < start)
    <3>1. Rate * (clock - start) = Rate * (clock - last) + Rate * (last - start)
      BY Distribute DEF BInv, BTypeOK
    <3>2. /\ Rate * (clock - last) \in Int /\ Rate * (last - start) \in Int
          /\ Rate * (clock - last) >= 0
      BY Distribute DEF BInv, BTypeOK
    <3>3. Unit * admitted \in Int
      BY DEF BInv, BTypeOK
    <3>4. Unit * admitted + tokens <= Burst + Rate * (last - start)
      BY <2>2 DEF BInv
    <3> QED
      BY <3>1, <3>2, <3>3, <3>4 DEF RateBound, BInv, BTypeOK
  <2> QED
    BY <2>1, <2>2
<1> QED
  BY <1>1, BucketInvariant, PTL

(***************************************************************************)
(* An event is dropped only when admitting it would break that bound.      *)
(***************************************************************************)
THEOREM NeverThrottlesEarlyHolds == BSpec => []NeverThrottlesEarly
<1>1. BInv => NeverThrottlesEarly
  <2> SUFFICES ASSUME BInv, verdict = "drop"
               PROVE  Unit * (spent + 1) > Burst + Rate * (last - fullAt)
    BY DEF NeverThrottlesEarly
  <2>1. /\ Unit * (spent + 1) = Unit * spent + Unit
        /\ Unit * spent \in Int
        /\ Rate * (last - fullAt) \in Int
    BY BucketAssumption, Distribute DEF BInv, BTypeOK
  <2> QED
    BY <2>1, BucketAssumption DEF BInv, BTypeOK
<1> QED
  BY <1>1, BucketInvariant, PTL

-----------------------------------------------------------------------------
(* The rules engine. *)

\* f holds the values that getFieldValue's loop passes on its way down.
Steps(payload, path, f) ==
    f = [i \in 0 .. Len(path) |-> IF i = 0 THEN payload ELSE Descend(f[i - 1], path[i])]

(***************************************************************************)
(* getFieldValue's loop is defined for every path: a walk along its first  *)
(* parts extends by one more.                                              *)
(***************************************************************************)
LEMMA WalkExists ==
    ASSUME NEW payload, NEW path \in Seq(STRING)
    PROVE  \E f : Steps(payload, path, f)
<1> DEFINE Walk(n, f) == f = [i \in 0 .. n |-> IF i = 0 THEN payload ELSE Descend(f[i - 1], path[i])]
           Bad == {n \in Nat : ~\E f : Walk(n, f)}
<1>1. SUFFICES ASSUME Bad # {} PROVE FALSE
  <2>1. Len(path) \in Nat
    OBVIOUS
  <2> QED
    BY <2>1, Zenon DEF Steps
<1>2. PICK n \in Bad : \A m \in Bad : ~(<<m, n>> \in OpToRel(<, Nat))
  <2>1. Bad \subseteq Nat
    BY Zenon
  <2> HIDE DEF Bad
  <2> QED
    BY <1>1, <2>1, WFMin, NatLessThanWellFounded, Zenon
<1>3. n \in Nat /\ ~\E f : Walk(n, f)
  BY Zenon
<1>4. CASE n = 0
  <2>1. Walk(0, [i \in 0 .. 0 |-> payload])
    OBVIOUS
  <2> HIDE DEF Walk
  <2> QED
    BY <1>3, <1>4, <2>1, Zenon
<1>5. CASE n # 0
  <2>1. n - 1 \in Nat /\ n - 1 < n
    BY <1>3, <1>5
  <2>2. <<n - 1, n>> \in OpToRel(<, Nat)
    BY <1>3, <2>1 DEF OpToRel
  <2>3. n - 1 \notin Bad
    BY <1>2, <2>2, Zenon
  <2>4. PICK f : Walk(n - 1, f)
    BY <2>1, <2>3, Zenon
  <2> DEFINE g == [i \in 0 .. n |-> IF i = n THEN Descend(f[n - 1], path[n]) ELSE f[i]]
  <2>5. DOMAIN f = 0 .. n - 1
    BY <2>4
  <2>6. \A i \in 0 .. n - 1 : f[i] = IF i = 0 THEN payload ELSE Descend(f[i - 1], path[i])
    BY <2>4
  <2>7. \A i \in 0 .. n : g[i] = IF i = 0 THEN payload ELSE Descend(g[i - 1], path[i])
    <3> SUFFICES ASSUME NEW i \in 0 .. n
                 PROVE  g[i] = IF i = 0 THEN payload ELSE Descend(g[i - 1], path[i])
      OBVIOUS
    <3>1. CASE i = n
      <4>1. g[i - 1] = f[n - 1] /\ i # 0
        BY <1>3, <1>5, <3>1
      <4> QED
        BY <3>1, <4>1
    <3>2. CASE i # n
      <4>1. i \in 0 .. n - 1 /\ (i # 0 => i - 1 \in 0 .. n /\ i - 1 # n)
        BY <1>3, <3>2
      <4>2. g[i] = f[i] /\ (i # 0 => g[i - 1] = f[i - 1])
        BY <3>2, <4>1
      <4> HIDE DEF g
      <4> QED
        BY <2>6, <4>1, <4>2
    <3> QED
      BY <3>1, <3>2
  <2>8. Walk(n, g)
    <3>1. g = [i \in 0 .. n |-> g[i]]
      OBVIOUS
    <3> HIDE DEF g
    <3> QED
      BY <2>7, <3>1
  <2> HIDE DEF Walk, g
  <2> QED
    BY <1>3, <2>8, Zenon
<1> QED
  BY <1>4, <1>5

(***************************************************************************)
(* getFieldValue answers what the walk along the whole path ends at.       *)
(***************************************************************************)
LEMMA FieldValue ==
    ASSUME NEW payload, NEW path \in Seq(STRING)
    PROVE  \E f : Steps(payload, path, f) /\ getFieldValue(payload, path) = f[Len(path)]
<1> DEFINE f == CHOOSE g : Steps(payload, path, g)
<1>1. Steps(payload, path, f)
  BY WalkExists
<1>2. getFieldValue(payload, path) = f[Len(path)]
  BY DEF getFieldValue, Steps
<1> QED
  BY <1>1, <1>2, Zenon

(***************************************************************************)
(* In a payload of numbers and strings only paths of one part lead to a    *)
(* value: nothing can be looked up in a number or a string.                *)
(***************************************************************************)
LEMMA FlatField ==
    ASSUME NEW F, \A p \in DOMAIN F : F[p] \in Scalars, NEW path \in Seq(STRING), path # <<>>
    PROVE  getFieldValue(<<"object", F>>, path) =
               IF Len(path) = 1 /\ path[1] \in DOMAIN F THEN F[path[1]] ELSE Missing
<1>1. PICK f : /\ Steps(<<"object", F>>, path, f)
               /\ getFieldValue(<<"object", F>>, path) = f[Len(path)]
  BY FieldValue
<1>2. Len(path) \in Nat \ {0}
  OBVIOUS
<1>3. /\ f[0] = <<"object", F>>
      /\ \A i \in 1 .. Len(path) : f[i] = Descend(f[i - 1], path[i])
  <2>1. \A i \in 0 .. Len(path) :
           f[i] = IF i = 0 THEN <<"object", F>> ELSE Descend(f[i - 1], path[i])
    BY <1>1, Zenon DEF Steps
  <2>2. 0 \in 0 .. Len(path) /\ \A i \in 1 .. Len(path) : i \in 0 .. Len(path) /\ i # 0
    BY <1>2
  <2> QED
    BY <2>1, <2>2
<1>4. f[1] = IF path[1] \in DOMAIN F THEN F[path[1]] ELSE Missing
  <2>1. f[1] = Descend(f[0], path[1])
    BY <1>2, <1>3
  <2> QED
    BY <1>3, <2>1 DEF Descend
<1>5. f[1][1] # "object" /\ Missing[1] # "object"
  <2>1. \A v \in Scalars : v[1] # "object"
    BY DEF Scalars
  <2>2. Missing[1] # "object"
    BY DEF Missing
  <2> QED
    BY <1>4, <2>1, <2>2
<1> DEFINE Bad == {i \in Nat : i \in 1 .. Len(path) /\ f[i][1] = "object"}
<1>6. Bad = {}
  <2>1. SUFFICES ASSUME Bad # {} PROVE FALSE
    OBVIOUS
  <2>2. PICK n \in Bad : \A m \in Bad : ~(<<m, n>> \in OpToRel(<, Nat))
    <3>1. Bad \subseteq Nat
      BY Zenon
    <3> HIDE DEF Bad
    <3> QED
      BY <2>1, <3>1, WFMin, NatLessThanWellFounded, Zenon
  <2>3. n \in 1 .. Len(path) /\ f[n][1] = "object"
    BY Zenon
  <2>4. n - 1 \in 1 .. Len(path) /\ n - 1 \in Nat /\ n - 1 < n /\ n \in Nat
    BY <1>2, <1>5, <2>3
  <2>5. <<n - 1, n>> \in OpToRel(<, Nat)
    BY <2>4 DEF OpToRel
  <2>6. f[n - 1][1] # "object"
    BY <2>2, <2>4, <2>5, Zenon
  <2>7. f[n] = Missing
    BY <1>3, <2>3, <2>6 DEF Descend
  <2> QED
    BY <1>5, <2>3, <2>7
<1>7. CASE Len(path) = 1
  BY <1>1, <1>4, <1>7
<1>8. CASE Len(path) # 1
  <2>0. \A n \in Nat : n # 0 /\ n # 1 => n - 1 \in 1 .. n /\ n \in 1 .. n /\ n - 1 \in Nat
    OBVIOUS
  <2>1. Len(path) - 1 \in 1 .. Len(path) /\ Len(path) \in 1 .. Len(path) /\ Len(path) - 1 \in Nat
    BY <1>2, <1>8, <2>0, Zenon
  <2>2. f[Len(path) - 1][1] # "object"
    BY <1>6, <2>1
  <2>3. f[Len(path)] = Missing
    BY <1>3, <2>1, <2>2 DEF Descend
  <2> QED
    BY <1>1, <1>8, <2>3
<1> QED
  BY <1>7, <1>8

(***************************************************************************)
(* The engine's operators on a value that reaches it as it was sent mean   *)
(* what the condition says of it.                                          *)
(***************************************************************************)
LEMMA HoldsAsSaid ==
    ASSUME NEW v \in Scalars, NEW c \in Condition, ValidCondition(c),
           c.operator \in {"gt", "lt"} \/ Small(v)
    PROVE  Holds(v, c) <=> Says(v, c)
<1>1. c.value \in Texts /\ c.operator \in {"eq", "contains", "regex", "gt", "lt"}
  BY DEF Condition, ValidCondition, validOperators
<1>2. \/ v[1] = "number" /\ v[2] \in Int
      \/ v[1] = "string" /\ v[2] \in Texts
  BY DEF Scalars
<1>3. CASE c.operator \in {"eq", "contains", "regex"}
  <2>1. Sprint(v) = Written(v)
    BY <1>2, <1>3 DEF Sprint, Written, Small
  <2>2. c.operator = "regex" => Compiles(c.value)
    BY DEF ValidCondition
  <2> QED
    BY <1>3, <2>1, <2>2 DEF Holds, Says
<1>4. CASE c.operator \in {"gt", "lt"}
  <2>1. \A p \in compareNumeric(v, c.value) : p[1] \in toFloat64(v) /\ p[2] \in ParseFloat(c.value)
    BY DEF compareNumeric
  <2>2. \A a \in toFloat64(v), b \in ParseFloat(c.value) : <<a, b>> \in compareNumeric(v, c.value)
    BY DEF compareNumeric
  <2> QED
    BY <1>4, <2>1, <2>2, Zenon DEF Holds, Says
<1> QED
  BY <1>1, <1>3, <1>4

\* The fields of a message that its payload has.
Kept(e) == IF e.type \in {"exec", "tcp", "file"}
           THEN {f \in DOMAIN e.fields : ~IsZero(e.fields[f])} ELSE {}

(***************************************************************************)
(* What a condition's path finds in the payload of a message: the field it *)
(* names, if the message has it and it is not zero.                        *)
(***************************************************************************)
LEMMA PayloadField ==
    ASSUME NEW e \in Events, NEW c \in Condition
    PROVE  getFieldValue(eventPayload(e), c.field) =
               IF Len(c.field) = 1 /\ c.field[1] \in Kept(e) THEN e.fields[c.field[1]] ELSE Missing
<1> DEFINE F == [f \in Kept(e) |-> e.fields[f]]
<1>1. eventPayload(e) = <<"object", F>>
  BY DEF eventPayload, Kept
<1>2. \A f \in Kept(e) : f \in DOMAIN e.fields
  BY DEF Kept
<1>3. /\ DOMAIN F = Kept(e) /\ \A f \in Kept(e) : F[f] = e.fields[f]
      /\ \A f \in DOMAIN e.fields : e.fields[f] \in Scalars
      /\ c.field \in Seq(STRING) /\ c.field # <<>>
  BY AlertingAssumption DEF Condition
<1>4. \A f \in DOMAIN F : F[f] \in Scalars
  BY <1>2, <1>3
<1> HIDE DEF F
<1>5. getFieldValue(eventPayload(e), c.field) =
         IF Len(c.field) = 1 /\ c.field[1] \in DOMAIN F THEN F[c.field[1]] ELSE Missing
  BY <1>1, <1>3, <1>4, FlatField
<1> QED
  BY <1>3, <1>5

(***************************************************************************)
(* A condition whose field reaches the engine as it was sent is found true *)
(* exactly when it is true of the message.                                 *)
(***************************************************************************)
LEMMA MatchesAsSaid ==
    ASSUME NEW e \in Events, NEW c \in Condition, ValidCondition(c), InSight(e, c)
    PROVE  matchCondition(eventPayload(e), c) <=>
               e.type \in {"exec", "tcp", "file"} /\ TrueOf(e, c)
<1> DEFINE p == c.field[1]
<1>1. \A f \in DOMAIN e.fields : e.fields[f] \in Scalars
  BY AlertingAssumption
<1>2. getFieldValue(eventPayload(e), c.field) =
         IF Len(c.field) = 1 /\ p \in Kept(e) THEN e.fields[p] ELSE Missing
  BY PayloadField
<1>3. \A v \in Scalars : v # Missing
  BY DEF Scalars, Missing
<1>4. CASE Len(c.field) = 1 /\ p \in Kept(e)
  <2>1. /\ e.fields[p] \in Scalars /\ p \in DOMAIN e.fields
        /\ e.type \in {"exec", "tcp", "file"}
    BY <1>1, <1>4 DEF Kept
  <2>2. c.operator \in {"gt", "lt"} \/ Small(e.fields[p])
    BY <2>1 DEF InSight
  <2>3. Holds(e.fields[p], c) <=> Says(e.fields[p], c)
    BY <2>1, <2>2, HoldsAsSaid
  <2>4. matchCondition(eventPayload(e), c) <=> Holds(e.fields[p], c)
    BY <1>2, <1>3, <1>4, <2>1 DEF matchCondition
  <2> QED
    BY <1>4, <2>1, <2>3, <2>4 DEF TrueOf
<1>5. CASE ~(Len(c.field) = 1 /\ p \in Kept(e))
  <2>1. ~matchCondition(eventPayload(e), c)
    BY <1>2, <1>5 DEF matchCondition
  <2> QED
    BY <1>5, <2>1 DEF TrueOf, InSight, Kept
<1> QED
  BY <1>4, <1>5

(***************************************************************************)
(* The rules of a running engine are those of a file that is valid, and    *)
(* its alerts are those of the event evaluated last.                       *)
(***************************************************************************)
EInv ==
    /\ rules \in RuleSet /\ Validate(rules)
    /\ phase = "start" => event = NoEvent
    /\ event # NoEvent =>
          /\ event \in Events
          /\ alerts = {rules[i].id : i \in {j \in DOMAIN rules : Fires(rules[j], event)}}

(***************************************************************************)
(* Rules are validated before they are used and never change afterwards.   *)
(***************************************************************************)
LEMMA NextEInv == EInv /\ [Next]_vars => EInv'
<1> SUFFICES ASSUME EInv, [Next]_vars PROVE EInv'
  OBVIOUS
<1>0. <<>> \in RuleSet /\ Validate(<<>>)
  BY DEF RuleSet, Validate
<1>1. CASE StartWithoutRules \/ LoadFails
  BY <1>1 DEF EInv, StartWithoutRules, LoadFails
<1>2. ASSUME NEW rs \in Files, StartWithRules(rs) PROVE EInv'
  BY <1>0, <1>2, AlertingAssumption DEF EInv, StartWithRules
<1>3. ASSUME NEW e \in Events, Evaluate(e) PROVE EInv'
  BY <1>3 DEF EInv, Evaluate
<1>4. CASE UNCHANGED vars
  BY <1>4 DEF EInv, vars
<1> QED
  BY <1>1, <1>2, <1>3, <1>4 DEF Next

(***************************************************************************)
(* The engine's invariant holds from start-up on.                          *)
(***************************************************************************)
LEMMA EngineInvariant == Spec => []EInv
<1>1. Init => EInv
  <2>1. <<>> \in RuleSet /\ Validate(<<>>)
    BY DEF RuleSet, Validate
  <2> QED
    BY <2>1 DEF Init, EInv
<1> QED
  BY <1>1, NextEInv, PTL DEF Spec

(***************************************************************************)
(* Where the compared fields survive the conversions, a rule fires exactly *)
(* when its type and every condition are true of the message, for every    *)
(* rule file that validates and every event, whatever text search and      *)
(* regular expressions do (Evaluate).                                      *)
(***************************************************************************)
THEOREM FiresAsWrittenHolds == Spec => []FiresAsWritten
<1>2. EInv => FiresAsWritten
  <2> SUFFICES ASSUME EInv, event # NoEvent, NEW i \in DOMAIN rules,
                      \A j \in DOMAIN rules[i].conditions : InSight(event, rules[i].conditions[j])
               PROVE  rules[i].id \in alerts <=>
                         /\ event.type \in {"exec", "tcp", "file"}
                         /\ rules[i].type \in {"*", event.type}
                         /\ \A j \in DOMAIN rules[i].conditions :
                               TrueOf(event, rules[i].conditions[j])
    BY DEF FiresAsWritten
  <2>1. /\ DOMAIN rules = 1 .. Len(rules) /\ Len(rules) \in Nat
        /\ rules[i].conditions \in Seq(Condition) /\ rules[i].conditions # <<>>
        /\ event \in Events
        /\ \A j \in DOMAIN rules[i].conditions : ValidCondition(rules[i].conditions[j])
    <3>1. rules \in RuleSet /\ Validate(rules) /\ event \in Events
      BY DEF EInv
    <3>2. DOMAIN rules = 1 .. Len(rules) /\ Len(rules) \in Nat
      BY <3>1 DEF RuleSet
    <3>3. rules[i].conditions \in Seq(Condition)
      <4>1. \A R : \A s \in Seq(R) : \A k \in 1 .. Len(s) : s[k] \in R
        OBVIOUS
      <4>2. rules[i] \in [id: STRING, type: STRING, conditions: Seq(Condition)]
        BY <3>1, <3>2, <4>1, Zenon DEF RuleSet
      <4> QED
        BY <4>2
    <3>4. /\ rules[i].conditions # <<>>
          /\ \A j \in DOMAIN rules[i].conditions : ValidCondition(rules[i].conditions[j])
      BY <3>1, Zenon DEF Validate
    <3> QED
      BY <3>1, <3>2, <3>3, <3>4
  <2>2. \A j, k \in DOMAIN rules : rules[j].id = rules[k].id => j = k
    <3>1. \A k \in DOMAIN rules : \A j \in 1 .. k - 1 : rules[j].id # rules[k].id
      BY Zenon DEF EInv, Validate
    <3>2. \A j, k \in DOMAIN rules : j = k \/ j \in 1 .. k - 1 \/ k \in 1 .. j - 1
      BY <2>1
    <3> QED
      BY <3>1, <3>2
  <2>3. rules[i].id \in alerts <=> Fires(rules[i], event)
    BY <2>2 DEF EInv
  <2>4. \A j \in DOMAIN rules[i].conditions : rules[i].conditions[j] \in Condition
    BY <2>1
  <2>5. \A j \in DOMAIN rules[i].conditions :
           LET c == rules[i].conditions[j]
           IN  matchCondition(eventPayload(event), c) <=>
                  event.type \in {"exec", "tcp", "file"} /\ TrueOf(event, c)
    BY <2>1, <2>4, MatchesAsSaid
  <2>6. 1 \in DOMAIN rules[i].conditions
    BY <2>1
  <2>7. Fires(rules[i], event) <=>
           /\ rules[i].type = "*" \/ rules[i].type = event.type
           /\ \A j \in DOMAIN rules[i].conditions :
                 matchCondition(eventPayload(event), rules[i].conditions[j])
    BY <2>1 DEF Fires, matchConditions
  <2> QED
    BY <2>3, <2>5, <2>6, <2>7
<1> QED
  BY <1>2, EngineInvariant, PTL

\* A condition looks inside a field, or at one that no message of the rule's
\* type has.
LooksAside(r) ==
    \E j \in DOMAIN r.conditions :
        LET path == r.conditions[j].field
        IN  \/ Len(path) > 1
            \/ \A e \in Events : r.type \in {"*", e.type} => path[1] \notin DOMAIN e.fields

AsideIsSilent ==
    event # NoEvent =>
        \A i \in DOMAIN rules : LooksAside(rules[i]) => rules[i].id \notin alerts

(***************************************************************************)
(* A rule with a condition on a field that the messages do not have never  *)
(* alerts, whatever its other conditions are; Validate accepts it.  The    *)
(* shipped rule on dport is one (rules.yaml, matchCondition).              *)
(***************************************************************************)
THEOREM AsideIsSilentHolds == Spec => []AsideIsSilent
<1>1. ASSUME EInv, event # NoEvent, NEW i \in DOMAIN rules, LooksAside(rules[i])
      PROVE  rules[i].id \notin alerts
  <2>1. rules \in RuleSet /\ Validate(rules) /\ event \in Events
    BY <1>1 DEF EInv
  <2>2. \A k \in DOMAIN rules : rules[k].id = rules[i].id => k = i
    <3>1. \A k \in DOMAIN rules : \A j \in 1 .. k - 1 : rules[j].id # rules[k].id
      BY <2>1, Zenon DEF Validate
    <3>2. \A k \in DOMAIN rules : k = i \/ k \in 1 .. i - 1 \/ i \in 1 .. k - 1
      BY <2>1 DEF RuleSet
    <3> QED
      BY <3>1, <3>2, Zenon
  <2>3. rules[i].id \in alerts => Fires(rules[i], event)
    BY <1>1, <2>2 DEF EInv
  <2>4. PICK j \in DOMAIN rules[i].conditions :
           \/ Len(rules[i].conditions[j].field) > 1
           \/ \A e \in Events : rules[i].type \in {"*", e.type} =>
                 rules[i].conditions[j].field[1] \notin DOMAIN e.fields
    BY <1>1, Zenon DEF LooksAside
  <2> DEFINE c == rules[i].conditions[j]
  <2>5. c \in Condition
    <3>1. \A R : \A s \in Seq(R) : \A k \in DOMAIN s : s[k] \in R
      OBVIOUS
    <3>2. rules[i] \in [id: STRING, type: STRING, conditions: Seq(Condition)]
      BY <2>1, <3>1, Zenon DEF RuleSet
    <3>3. rules[i].conditions \in Seq(Condition)
      BY <3>2
    <3> QED
      BY <3>1, <3>3, Zenon
  <2>6. SUFFICES ASSUME Fires(rules[i], event) PROVE FALSE
    BY <2>3
  <2>7. /\ rules[i].type \in {"*", event.type}
        /\ matchCondition(eventPayload(event), c)
    BY <2>6, Zenon DEF Fires, matchConditions
  <2> HIDE DEF c
  <2>8. getFieldValue(eventPayload(event), c.field) # Missing
    BY <2>7 DEF matchCondition
  <2>9. Len(c.field) = 1 /\ c.field[1] \in DOMAIN event.fields
    <3>1. Len(c.field) = 1 /\ c.field[1] \in Kept(event)
      BY <2>1, <2>5, <2>8, PayloadField
    <3> QED
      BY <3>1 DEF Kept
  <2> QED
    BY <2>1, <2>4, <2>7, <2>9 DEF c
<1>2. EInv => AsideIsSilent
  BY <1>1 DEF AsideIsSilent
<1> QED
  BY <1>2, EngineInvariant, PTL

-----------------------------------------------------------------------------
(* The anomaly detector. *)

(***************************************************************************)
(* What is kept of a key is the end of its log, and what is missing is     *)
(* older than every window.                                                *)
(***************************************************************************)
Covers(ts, lg) ==
    /\ Len(ts) <= Len(lg)
    /\ \A i \in 1 .. Len(lg) - Len(ts) : lg[i] < now - maxDuration
    /\ \A i \in 1 .. Len(ts) : ts[i] = lg[i + (Len(lg) - Len(ts))]

\* The clock is monotonic, so a log is in order and lies in the past.
InOrder(lg) ==
    \A i \in 1 .. Len(lg) : lg[i] <= now /\ \A j \in i .. Len(lg) : lg[i] <= lg[j]

DInv ==
    /\ now \in Nat
    /\ timestamps \in [Keys -> Seq(Nat)] /\ log \in [Keys -> Seq(Nat)]
    /\ \A k \in Keys : /\ Len(log[k]) <= MaxEvents
                       /\ InOrder(log[k])
                       /\ Covers(timestamps[k], log[k])

(***************************************************************************)
(* Finitely many numbers have a greatest one.                              *)
(***************************************************************************)
LEMMA Greatest ==
    ASSUME NEW l \in Nat \ {0}, NEW f \in [1 .. l -> Nat]
    PROVE  \E m \in 1 .. l : \A w \in 1 .. l : f[w] <= f[m]
<1> DEFINE Bad == {n \in 1 .. l : ~\E m \in 1 .. n : \A w \in 1 .. n : f[w] <= f[m]}
<1>1. SUFFICES ASSUME Bad # {} PROVE FALSE
  <2>1. l \in 1 .. l
    OBVIOUS
  <2> QED
    BY <2>1, Zenon
<1>2. PICK n \in Bad : \A m \in Bad : ~(<<m, n>> \in OpToRel(<, Nat))
  <2>1. Bad \subseteq Nat
    OBVIOUS
  <2> QED
    BY <1>1, <2>1, WFMin, NatLessThanWellFounded, Zenon
<1>3. n \in 1 .. l /\ \A m \in 1 .. l : m < n => m \notin Bad
  <2>1. n \in 1 .. l
    OBVIOUS
  <2>2. ASSUME NEW m \in 1 .. l, m < n, m \in Bad PROVE FALSE
    <3>1. m \in Nat /\ n \in Nat
      BY <2>1
    <3>2. <<m, n>> \in OpToRel(<, Nat)
      BY <2>2, <3>1 DEF OpToRel
    <3> HIDE DEF Bad
    <3> QED
      BY <1>2, <2>2, <3>2, Zenon
  <2> QED
    BY <2>1, <2>2
<1>4. ~\E m \in 1 .. n : \A w \in 1 .. n : f[w] <= f[m]
  OBVIOUS
<1> HIDE DEF Bad
<1>5. CASE n = 1
  BY <1>4, <1>5
<1>6. CASE n # 1
  <2>1. n - 1 \in 1 .. l /\ n - 1 < n
    BY <1>3, <1>6
  <2>2. PICK m \in 1 .. n - 1 : \A w \in 1 .. n - 1 : f[w] <= f[m]
    BY <1>3, <2>1, Zenon DEF Bad
  <2>3. m \in 1 .. n /\ n \in 1 .. n /\ \A w \in 1 .. n : w \in 1 .. n - 1 \/ w = n
    BY <1>3, <2>1
  <2>4. \A w \in 1 .. n : f[w] \in Nat
    BY <1>3
  <2>5. CASE f[n] <= f[m]
    BY <1>4, <2>2, <2>3, <2>5, Zenon
  <2>6. CASE ~(f[n] <= f[m])
    <3>1. \A w \in 1 .. n : f[w] <= f[n]
      BY <2>2, <2>3, <2>4, <2>6
    <3> QED
      BY <1>4, <2>3, <3>1, Zenon
  <2> QED
    BY <2>5, <2>6
<1> QED
  BY <1>5, <1>6

(***************************************************************************)
(* maxDuration is the longest of the windows.                              *)
(***************************************************************************)
LEMMA LongestWindow ==
    /\ maxDuration \in Nat
    /\ \A w \in DOMAIN Windows : Windows[w].dur \in Nat /\ Windows[w].dur <= maxDuration
<1>1. DOMAIN Windows = 1 .. Len(Windows) /\ Len(Windows) \in Nat \ {0}
  BY DetectorAssumption
<1>2. \A w \in DOMAIN Windows : Windows[w] \in [dur: Nat \ {0}, threshold: Nat]
  <2> DEFINE R == [dur: Nat \ {0}, threshold: Nat]
  <2>1. Windows \in Seq(R)
    BY DetectorAssumption
  <2> HIDE DEF R
  <2>2. \A w \in DOMAIN Windows : Windows[w] \in R
    BY <1>1, <2>1
  <2> QED
    BY <2>2 DEF R
<1>3. \A w \in DOMAIN Windows : Windows[w].dur \in Nat
  BY <1>2
<1> DEFINE f == [w \in 1 .. Len(Windows) |-> Windows[w].dur]
<1>4. f \in [1 .. Len(Windows) -> Nat]
  BY <1>1, <1>3
<1>5. \E m \in 1 .. Len(Windows) : \A w \in 1 .. Len(Windows) : f[w] <= f[m]
  <2> HIDE DEF f
  <2> QED
    BY <1>1, <1>4, Greatest, Zenon
<1>6. \E d \in {Windows[w].dur : w \in DOMAIN Windows} :
         \A e \in {Windows[w].dur : w \in DOMAIN Windows} : d >= e
  <2>1. PICK m \in 1 .. Len(Windows) : \A w \in 1 .. Len(Windows) : Windows[w].dur <= Windows[m].dur
    BY <1>5
  <2> QED
    BY <1>1, <1>3, <2>1, Zenon
<1>7. /\ maxDuration \in {Windows[w].dur : w \in DOMAIN Windows}
      /\ \A e \in {Windows[w].dur : w \in DOMAIN Windows} : maxDuration >= e
  BY <1>6 DEF maxDuration, Max
<1> QED
  BY <1>3, <1>7

(***************************************************************************)
(* FullHistory's sizes of sets are those of this module.                   *)
(***************************************************************************)
LEMMA SameCardinality == ASSUME NEW S PROVE History!Cardinality(S) = Cardinality(S)
  BY DEF Cardinality, History!Cardinality, IsFiniteSet, History!IsFiniteSet

(***************************************************************************)
(* So are its minima, by which it chooses the window of an alert.          *)
(***************************************************************************)
LEMMA SameMin == ASSUME NEW S PROVE History!Min(S) = Min(S)
  BY DEF Min, History!Min

(***************************************************************************)
(* A window sees the same events in what is kept as in the log, only at    *)
(* other positions.                                                        *)
(***************************************************************************)
LEMMA SameEvents ==
    ASSUME NEW ts \in Seq(Nat), NEW lg \in Seq(Nat), now \in Nat, Covers(ts, lg),
           NEW w \in DOMAIN Windows, NEW off \in Nat, off = Len(lg) - Len(ts)
    PROVE  /\ \A i \in Within(ts, Windows[w].dur) : i + off \in History!Inside(lg, Windows[w].dur)
           /\ \A j \in History!Inside(lg, Windows[w].dur) : j - off \in Within(ts, Windows[w].dur)
<1>0. /\ Windows[w].dur \in Nat /\ maxDuration \in Nat /\ Windows[w].dur <= maxDuration
      /\ Len(lg) \in Nat /\ Len(ts) \in Nat /\ DOMAIN lg = 1 .. Len(lg) /\ DOMAIN ts = 1 .. Len(ts)
  BY LongestWindow
<1> DEFINE d == Windows[w].dur
<1>1. ASSUME NEW i \in Within(ts, d) PROVE i + off \in History!Inside(lg, d)
  <2>1. i \in 1 .. Len(ts) /\ ts[i] >= now - d
    BY <1>0 DEF Within
  <2>2. i + off \in 1 .. Len(lg) /\ lg[i + off] = ts[i]
    <3>1. PICK m \in Nat, n \in Nat : m = Len(ts) /\ n = Len(lg)
      BY <1>0, Zenon
    <3>2. i \in 1 .. m /\ off = n - m
      BY <2>1, <3>1, Zenon
    <3>3. i + off \in 1 .. n
      BY <3>2
    <3> QED
      BY <2>1, <3>1, <3>3 DEF Covers
  <2> QED
    BY <1>0, <2>1, <2>2 DEF History!Inside
<1>2. ASSUME NEW j \in History!Inside(lg, d) PROVE j - off \in Within(ts, d)
  <2>1. j \in 1 .. Len(lg) /\ lg[j] >= now - d /\ lg[j] \in Nat
    BY <1>0 DEF History!Inside
  <2>2. ~(lg[j] < now - maxDuration)
    BY <1>0, <2>1
  <2>3. j > off
    <3>1. j \notin 1 .. off
      BY <2>2, Zenon DEF Covers
    <3>2. j \in Nat \ {0}
      BY <1>0, <2>1
    <3> QED
      BY <3>1, <3>2
  <2>4. j - off \in 1 .. Len(ts) /\ (j - off) + off = j
    <3>1. j \in Int /\ off \in Int /\ Len(ts) \in Int /\ j - off >= 1 /\ j - off <= Len(ts)
      BY <1>0, <2>1, <2>3
    <3> QED
      BY <3>1
  <2>5. ts[j - off] = lg[j]
    BY <2>4, Zenon DEF Covers
  <2> QED
    BY <1>0, <2>1, <2>4, <2>5 DEF Within
<1> QED
  BY <1>1, <1>2

(***************************************************************************)
(* So it counts as many of them.                                           *)
(***************************************************************************)
LEMMA CountsAgree ==
    ASSUME NEW ts \in Seq(Nat), NEW lg \in Seq(Nat), now \in Nat, Covers(ts, lg),
           NEW w \in DOMAIN Windows
    PROVE  countWithin(ts, Windows[w].dur) = History!InWindow(lg, Windows[w].dur)
<1>1. PICK off \in Nat : off = Len(lg) - Len(ts)
  <2>1. Len(lg) \in Nat /\ Len(ts) \in Nat /\ Len(ts) <= Len(lg)
    BY DEF Covers
  <2>2. Len(lg) - Len(ts) \in Nat
    BY <2>1
  <2> QED
    BY <2>2, Zenon
<1> DEFINE A == Within(ts, Windows[w].dur)
           B == History!Inside(lg, Windows[w].dur)
           f == [i \in A |-> i + off]
<1>2. A \subseteq 1 .. Len(ts) /\ B \subseteq 1 .. Len(lg) /\ Len(ts) \in Nat /\ Len(lg) \in Nat
  BY DEF Within, History!Inside
<1>3. IsFiniteSet(A)
  <2>1. IsFiniteSet(1 .. Len(ts))
    BY <1>2, FS_Interval
  <2> QED
    BY <1>2, <2>1, FS_Subset
<1>4. (\A i \in A : i + off \in B) /\ (\A j \in B : j - off \in A)
  BY <1>1, SameEvents
<1> HIDE DEF A, B
<1>5. f \in Bijection(A, B)
  <2>1. f \in [A -> B]
    BY <1>4
  <2>2. \A i, j \in A : f[i] = f[j] => i = j
    BY <1>2
  <2>3. \A j \in B : \E i \in A : f[i] = j
    <3> SUFFICES ASSUME NEW j \in B PROVE \E i \in A : f[i] = j
      OBVIOUS
    <3>1. j - off \in A /\ (j - off) + off = j
      BY <1>2, <1>4
    <3>2. f[j - off] = (j - off) + off
      BY <3>1
    <3> QED
      BY <3>1, <3>2
  <2> HIDE DEF f
  <2> QED
    BY <2>1, <2>2, <2>3 DEF Bijection, Injection, Surjection, IsInjective
<1>6. ExistsBijection(A, B)
  BY <1>5 DEF ExistsBijection
<1>7. Cardinality(B) = Cardinality(A)
  BY <1>3, <1>6, FS_Bijection
<1> QED
  BY <1>7, SameCardinality DEF countWithin, History!InWindow, A, B

(***************************************************************************)
(* The same for the keys of all nodes together.                            *)
(***************************************************************************)
LEMMA StatsAgree ==
    ASSUME DInv, NEW t \in Types, NEW w \in DOMAIN Windows
    PROVE  Cardinality(UNION {{n} \X Within(timestamps[<<n, t>>], Windows[w].dur) : n \in Nodes})
           = Cardinality(UNION {{n} \X History!Inside(log[<<n, t>>], Windows[w].dur) : n \in Nodes})
<1> DEFINE off(n) == Len(log[<<n, t>>]) - Len(timestamps[<<n, t>>])
           I(n) == Within(timestamps[<<n, t>>], Windows[w].dur)
           J(n) == History!Inside(log[<<n, t>>], Windows[w].dur)
           A == UNION {{n} \X I(n) : n \in Nodes}
           B == UNION {{n} \X J(n) : n \in Nodes}
           f == [p \in A |-> <<p[1], p[2] + off(p[1])>>]
<1>0. MaxEvents \in Nat /\ IsFiniteSet(Nodes)
  BY DetectorAssumption
<1>1. ASSUME NEW n \in Nodes
      PROVE  /\ off(n) \in Nat /\ I(n) \subseteq 1 .. MaxEvents /\ J(n) \subseteq Nat
             /\ \A i \in I(n) : i + off(n) \in J(n)
             /\ \A j \in J(n) : j - off(n) \in I(n)
  <2>1. <<n, t>> \in Keys
    BY DEF Keys
  <2>2. /\ timestamps[<<n, t>>] \in Seq(Nat) /\ log[<<n, t>>] \in Seq(Nat) /\ now \in Nat
        /\ Covers(timestamps[<<n, t>>], log[<<n, t>>]) /\ Len(log[<<n, t>>]) <= MaxEvents
    BY <2>1 DEF DInv
  <2>3. off(n) \in Nat /\ Len(timestamps[<<n, t>>]) <= MaxEvents
    BY <1>0, <2>2 DEF Covers
  <2>4. I(n) \subseteq 1 .. MaxEvents /\ J(n) \subseteq Nat
    <3>1. I(n) \subseteq 1 .. Len(timestamps[<<n, t>>]) /\ J(n) \subseteq 1 .. Len(log[<<n, t>>])
      BY <2>2 DEF Within, History!Inside
    <3>2. Len(timestamps[<<n, t>>]) \in Nat /\ Len(log[<<n, t>>]) \in Nat
      BY <2>2
    <3> HIDE DEF I, J
    <3> QED
      BY <1>0, <2>3, <3>1, <3>2
  <2>5. (\A i \in I(n) : i + off(n) \in J(n)) /\ (\A j \in J(n) : j - off(n) \in I(n))
    <3> HIDE DEF I, J
    <3> QED
      BY <2>2, <2>3, SameEvents, Zenon DEF I, J
  <2> QED
    BY <2>3, <2>4, <2>5, Zenon
<1> HIDE DEF off, I, J
<1>2. /\ \A p \in A : p[1] \in Nodes /\ p[2] \in I(p[1]) /\ p = <<p[1], p[2]>>
      /\ \A n \in Nodes : \A i \in I(n) : <<n, i>> \in A
      /\ \A p \in B : p[1] \in Nodes /\ p[2] \in J(p[1]) /\ p = <<p[1], p[2]>>
      /\ \A n \in Nodes : \A j \in J(n) : <<n, j>> \in B
  OBVIOUS
<1> HIDE DEF A, B
<1>3. IsFiniteSet(A)
  <2>1. IsFiniteSet(Nodes \X (1 .. MaxEvents))
    <3>1. IsFiniteSet(1 .. MaxEvents)
      BY <1>0, FS_Interval
    <3> QED
      BY <1>0, <3>1, FS_Product
  <2>2. A \subseteq Nodes \X (1 .. MaxEvents)
    BY <1>1, <1>2
  <2> QED
    BY <2>1, <2>2, FS_Subset
<1>4. f \in Bijection(A, B)
  <2>1. f \in [A -> B]
    BY <1>1, <1>2
  <2>2. ASSUME NEW p \in A, NEW q \in A, f[p] = f[q] PROVE p = q
    <3>1. p[1] = q[1] /\ p[2] + off(p[1]) = q[2] + off(p[1])
      BY <2>2
    <3>2. p[2] \in Nat /\ q[2] \in Nat /\ off(p[1]) \in Nat
      BY <1>0, <1>1, <1>2
    <3>3. p[2] = q[2]
      BY <3>1, <3>2
    <3> QED
      BY <1>2, <3>1, <3>3
  <2>3. ASSUME NEW q \in B PROVE \E p \in A : f[p] = q
    <3>1. q[1] \in Nodes /\ q[2] \in J(q[1]) /\ q = <<q[1], q[2]>>
      BY <1>2
    <3>2. q[2] - off(q[1]) \in I(q[1]) /\ q[2] \in Nat /\ off(q[1]) \in Nat
      BY <1>1, <3>1
    <3>3. <<q[1], q[2] - off(q[1])>> \in A /\ (q[2] - off(q[1])) + off(q[1]) = q[2]
      BY <1>2, <3>1, <3>2
    <3>4. f[<<q[1], q[2] - off(q[1])>>] = q
      BY <3>1, <3>3
    <3> QED
      BY <3>3, <3>4
  <2> HIDE DEF f
  <2> QED
    BY <2>1, <2>2, <2>3 DEF Bijection, Injection, Surjection, IsInjective
<1>5. ExistsBijection(A, B)
  BY <1>4 DEF ExistsBijection
<1>6. Cardinality(A) = Cardinality(B)
  BY <1>3, <1>5, FS_Bijection
<1> QED
  BY <1>6 DEF A, B, I, J

(***************************************************************************)
(* What prune's slice leaves of a sequence.                                *)
(***************************************************************************)
LEMMA DropFirst ==
    ASSUME NEW a \in Seq(Nat), NEW i \in 0 .. Len(a)
    PROVE  /\ SubSeq(a, i + 1, Len(a)) \in Seq(Nat)
           /\ Len(SubSeq(a, i + 1, Len(a))) = Len(a) - i
           /\ \A j \in 1 .. Len(a) - i : SubSeq(a, i + 1, Len(a))[j] = a[i + j]
<1>1. i + 1 \in 1 .. Len(a) + 1 /\ Len(a) \in 0 .. Len(a) /\ Len(a) \in Nat
  OBVIOUS
<1>2. SubSeq(a, i + 1, Len(a)) \in Seq(Nat)
  BY <1>1
<1>3. Len(SubSeq(a, i + 1, Len(a))) = Len(a) - i
  BY <1>1
<1>4. \A j \in 1 .. Len(a) - i : SubSeq(a, i + 1, Len(a))[j] = a[i + j]
  BY <1>1
<1> QED
  BY <1>2, <1>3, <1>4

(***************************************************************************)
(* Appending to both and pruning one keeps the cover.                      *)
(***************************************************************************)
LEMMA PruneCovers ==
    ASSUME NEW ts \in Seq(Nat), NEW lg \in Seq(Nat), now \in Nat, Covers(ts, lg),
           NEW i \in 0 .. Len(ts) + 1, PruneStopsAt(Append(ts, now), i)
    PROVE  /\ SubSeq(Append(ts, now), i + 1, Len(Append(ts, now))) \in Seq(Nat)
           /\ Covers(SubSeq(Append(ts, now), i + 1, Len(Append(ts, now))), Append(lg, now))
<1>1. PICK off \in Nat : off = Len(lg) - Len(ts)
  <2>1. Len(lg) \in Nat /\ Len(ts) \in Nat /\ Len(ts) <= Len(lg)
    BY DEF Covers
  <2>2. Len(lg) - Len(ts) \in Nat
    BY <2>1
  <2> QED
    BY <2>2, Zenon
<1>2. PICK a \in Seq(Nat) : a = Append(ts, now)
  <2>1. Append(ts, now) \in Seq(Nat)
    OBVIOUS
  <2> QED
    BY <2>1, Zenon
<1>3. PICK b \in Seq(Nat) : b = Append(lg, now)
  <2>1. Append(lg, now) \in Seq(Nat)
    OBVIOUS
  <2> QED
    BY <2>1, Zenon
<1>4. /\ Len(a) = Len(ts) + 1 /\ Len(b) = Len(lg) + 1 /\ Len(b) = Len(a) + off
      /\ Len(ts) \in Nat /\ Len(lg) \in Nat /\ Len(a) \in Nat /\ Len(b) \in Nat
  BY <1>1, <1>2, <1>3
<1>5. ASSUME NEW j \in 1 .. Len(a) PROVE b[j + off] = a[j]
  <2>1. CASE j \in 1 .. Len(ts)
    <3>1. ts[j] = lg[j + off] /\ j + off \in 1 .. Len(lg)
      <4>1. j + off \in 1 .. Len(lg)
        BY <1>1, <1>4, <2>1
      <4> QED
        BY <1>1, <2>1, <4>1, Zenon DEF Covers
    <3>2. a[j] = ts[j] /\ b[j + off] = lg[j + off]
      BY <1>2, <1>3, <2>1, <3>1
    <3> QED
      BY <3>1, <3>2
  <2>2. CASE j = Len(ts) + 1
    <3>1. j + off = Len(lg) + 1
      BY <1>1, <1>4, <2>2
    <3> QED
      BY <1>2, <1>3, <2>2, <3>1
  <2> QED
    BY <1>4, <2>1, <2>2
<1>6. ASSUME NEW j \in 1 .. off PROVE b[j] < now - maxDuration
  <2>1. j \in 1 .. Len(lg) /\ lg[j] < now - maxDuration
    <3>1. j \in 1 .. Len(lg)
      BY <1>1, <1>4
    <3> QED
      BY <1>1, <3>1 DEF Covers
  <2>2. b[j] = lg[j]
    BY <1>3, <2>1
  <2> QED
    BY <2>1, <2>2
<1>7. PICK c \in Seq(Nat) : /\ c = SubSeq(a, i + 1, Len(a)) /\ Len(c) = Len(a) - i
                            /\ \A j \in 1 .. Len(a) - i : c[j] = a[i + j]
  <2>1. i \in 0 .. Len(a)
    BY <1>4
  <2> QED
    BY <2>1, DropFirst
<1>8. \A j \in 1 .. i : a[j] < now - maxDuration
  BY <1>2 DEF PruneStopsAt
<1>9. Len(c) <= Len(b) /\ Len(b) - Len(c) = off + i
  <2>1. Len(c) = Len(a) - i /\ Len(b) = Len(a) + off /\ Len(a) \in Nat
    BY <1>4, <1>7, Zenon
  <2>2. i \in Nat
    BY <1>4
  <2> QED
    BY <2>1, <2>2
<1>10. ASSUME NEW j \in 1 .. off + i PROVE b[j] < now - maxDuration
  <2>1. CASE j \in 1 .. off
    BY <1>6, <2>1
  <2>2. CASE j \notin 1 .. off
    <3>1. i \in Nat /\ i <= Len(a) /\ Len(a) \in Nat
      BY <1>4
    <3>2. j - off \in 1 .. i /\ (j - off) + off = j
      BY <1>1, <2>2, <3>1
    <3>3. j - off \in 1 .. Len(a)
      BY <3>1, <3>2
    <3> QED
      BY <1>5, <1>8, <3>2, <3>3, Zenon
  <2> QED
    BY <2>1, <2>2
<1>11. ASSUME NEW j \in 1 .. Len(c) PROVE c[j] = b[j + (off + i)]
  <2>1. j \in 1 .. Len(a) - i /\ i \in Nat /\ Len(a) \in Nat
    <3>1. j \in 1 .. Len(a) - i
      BY <1>7, Zenon
    <3>2. i \in Nat /\ Len(a) \in Nat
      BY <1>4
    <3> QED
      BY <3>1, <3>2
  <2>2. i + j \in 1 .. Len(a) /\ (i + j) + off = j + (off + i)
    BY <1>1, <2>1
  <2> QED
    BY <1>5, <1>7, <2>1, <2>2
<1>12. Covers(c, b)
  BY <1>9, <1>10, <1>11, Zenon DEF Covers
<1> QED
  BY <1>2, <1>3, <1>7, <1>12, Zenon

(***************************************************************************)
(* An event is appended to the log of its key, which stays in order.       *)
(***************************************************************************)
LEMMA AppendInOrder ==
    ASSUME NEW lg \in Seq(Nat), now \in Nat, InOrder(lg) PROVE InOrder(Append(lg, now))
<1>1. PICK b \in Seq(Nat) : b = Append(lg, now)
  <2>1. Append(lg, now) \in Seq(Nat)
    OBVIOUS
  <2> QED
    BY <2>1, Zenon
<1>2. /\ Len(b) = Len(lg) + 1 /\ b[Len(lg) + 1] = now /\ Len(lg) \in Nat
      /\ \A i \in 1 .. Len(lg) : b[i] = lg[i]
  BY <1>1
<1>3. ASSUME NEW i \in 1 .. Len(b) PROVE b[i] <= now
  <2>1. CASE i \in 1 .. Len(lg)
    <3>1. lg[i] <= now
      BY <2>1 DEF InOrder
    <3> QED
      BY <1>2, <2>1, <3>1
  <2>2. CASE i = Len(lg) + 1
    <3>1. now <= now
      OBVIOUS
    <3> QED
      BY <1>2, <2>2, <3>1
  <2> QED
    BY <1>2, <2>1, <2>2
<1>4. ASSUME NEW i \in 1 .. Len(b), NEW j \in i .. Len(b) PROVE b[i] <= b[j]
  <2>1. CASE j = Len(lg) + 1
    BY <1>2, <1>3, <2>1
  <2>2. CASE j \in i .. Len(lg)
    <3>1. i \in 1 .. Len(lg) /\ j \in 1 .. Len(lg)
      BY <1>2, <2>2
    <3> QED
      BY <1>2, <2>2, <3>1 DEF InOrder
  <2> QED
    BY <1>2, <2>1, <2>2
<1>5. InOrder(b)
  BY <1>3, <1>4 DEF InOrder
<1> QED
  BY <1>1, <1>5, Zenon

(***************************************************************************)
(* Record appends to the log and keeps its end.                            *)
(***************************************************************************)
LEMMA RecordDInv == ASSUME DInv, NEW k \in Keys, Record(k) PROVE DInv'
<1> DEFINE ts == Append(timestamps[k], now)
<1>0. /\ timestamps[k] \in Seq(Nat) /\ log[k] \in Seq(Nat) /\ now \in Nat /\ now' = now
      /\ Covers(timestamps[k], log[k]) /\ InOrder(log[k])
      /\ log' = [log EXCEPT ![k] = Append(log[k], now)]
  BY DEF DInv, Record
<1>1. PICK i \in 0 .. Len(timestamps[k]) + 1 :
         PruneStopsAt(ts, i) /\ timestamps' = [timestamps EXCEPT ![k] = SubSeq(ts, i + 1, Len(ts))]
  BY Zenon DEF Record
<1>2. SubSeq(ts, i + 1, Len(ts)) \in Seq(Nat) /\ Covers(SubSeq(ts, i + 1, Len(ts)), Append(log[k], now))
  BY <1>0, <1>1, PruneCovers, Zenon
<1> HIDE DEF ts
<1>3. Append(log[k], now) \in Seq(Nat) /\ Len(Append(log[k], now)) = Len(log[k]) + 1
  BY <1>0
<1>4. Len(Append(log[k], now)) <= MaxEvents
  <2>1. Len(log[k]) < MaxEvents /\ Len(log[k]) \in Nat /\ MaxEvents \in Nat
    BY <1>0, DetectorAssumption DEF Record
  <2> QED
    BY <1>3, <2>1
<1>5. InOrder(Append(log[k], now))
  BY <1>0, AppendInOrder
<1>6. /\ timestamps' \in [Keys -> Seq(Nat)] /\ log' \in [Keys -> Seq(Nat)]
      /\ timestamps'[k] = SubSeq(ts, i + 1, Len(ts)) /\ log'[k] = Append(log[k], now)
      /\ \A q \in Keys : q # k => timestamps'[q] = timestamps[q] /\ log'[q] = log[q]
  BY <1>0, <1>1, <1>2, <1>3 DEF DInv
<1>7. ASSUME NEW q \in Keys
      PROVE  Len(log'[q]) <= MaxEvents /\ InOrder(log'[q]) /\ Covers(timestamps'[q], log'[q])
  <2>1. CASE q = k
    BY <1>2, <1>4, <1>5, <1>6, <2>1, Zenon
  <2>2. CASE q # k
    BY <1>6, <2>2 DEF DInv
  <2> QED
    BY <2>1, <2>2
<1>8. ASSUME NEW q \in Keys PROVE InOrder(log[q])' /\ Covers(timestamps[q], log[q])'
  <2>1. InOrder(log[q])'
    BY <1>0, <1>7, Zenon DEF InOrder
  <2>2. Covers(timestamps[q], log[q])'
    BY <1>0, <1>7, Zenon DEF Covers
  <2> QED
    BY <2>1, <2>2
<1> QED
  BY <1>0, <1>6, <1>7, <1>8 DEF DInv

(***************************************************************************)
(* gc drops a key only when its last event, and so every event, is older   *)
(* than all windows.                                                       *)
(***************************************************************************)
LEMMA gcDInv == ASSUME DInv, gc PROVE DInv'
<1>0. now \in Nat /\ now' = now /\ log' = log
  BY DEF DInv, gc
<1>1. ASSUME NEW k \in Keys PROVE Covers(timestamps'[k], log[k]) /\ timestamps'[k] \in Seq(Nat)
  <2>0. /\ timestamps[k] \in Seq(Nat) /\ log[k] \in Seq(Nat) /\ Covers(timestamps[k], log[k])
        /\ InOrder(log[k])
    BY DEF DInv
  <2>1. CASE ~Idle(timestamps[k])
    <3>1. timestamps'[k] = timestamps[k]
      BY <2>1 DEF gc
    <3> QED
      BY <2>0, <3>1
  <2>2. CASE Idle(timestamps[k])
    <3>1. timestamps'[k] = <<>>
      BY <2>2 DEF gc
    <3>2. PICK n \in Nat : n = Len(log[k])
      BY <2>0
    <3>3. PICK m \in Nat : m = Len(timestamps[k])
      BY <2>0
    <3>4. m \in 1 .. n /\ log[k][n] = timestamps[k][m]
      <4>1. m # 0
        BY <2>0, <2>2, <3>3 DEF Idle
      <4>2. m \in 1 .. n /\ m + (n - m) = n
        BY <2>0, <3>2, <3>3, <4>1 DEF Covers
      <4>3. timestamps[k][m] = log[k][m + (n - m)]
        <5>1. m \in 1 .. Len(timestamps[k])
          BY <3>3, <4>2
        <5> QED
          BY <2>0, <3>2, <3>3, <5>1, Zenon DEF Covers
      <4> QED
        BY <4>2, <4>3
    <3>5. log[k][n] < now - maxDuration
      BY <2>2, <3>3, <3>4 DEF Idle
    <3>6. ASSUME NEW i \in 1 .. n PROVE log[k][i] < now - maxDuration
      <4>1. log[k][i] <= log[k][n] /\ log[k][i] \in Nat /\ log[k][n] \in Nat
        <5>1. i \in 1 .. Len(log[k]) /\ n \in i .. Len(log[k]) /\ n \in 1 .. Len(log[k])
          BY <3>2
        <5>2. log[k][i] \in Nat /\ log[k][n] \in Nat
          BY <2>0, <5>1
        <5> QED
          BY <2>0, <5>1, <5>2 DEF InOrder
      <4> QED
        BY <1>0, <3>5, <4>1, LongestWindow
    <3>7. Covers(<<>>, log[k])
      BY <3>2, <3>6 DEF Covers
    <3> QED
      BY <3>1, <3>7
  <2> QED
    BY <2>1, <2>2
<1>2. timestamps' \in [Keys -> Seq(Nat)]
  BY <1>1 DEF gc
<1>3. ASSUME NEW k \in Keys PROVE InOrder(log[k])' /\ Covers(timestamps[k], log[k])'
  BY <1>0, <1>1, Zenon DEF InOrder, Covers, DInv
<1> QED
  BY <1>0, <1>2, <1>3 DEF DInv

(***************************************************************************)
(* Every step keeps DInv; time only makes what is missing older.           *)
(***************************************************************************)
LEMMA NextDInv == DInv /\ [DNext]_dvars => DInv'
<1> SUFFICES ASSUME DInv, [DNext]_dvars PROVE DInv'
  OBVIOUS
<1>1. CASE WindowStats \/ UNCHANGED dvars
  BY <1>1, Zenon DEF WindowStats, dvars, DInv, Covers, InOrder
<1>2. CASE Tick
  <2>1. now \in Nat /\ now' = now + 1 /\ timestamps' = timestamps /\ log' = log
    BY <1>2 DEF Tick, DInv
  <2>2. ASSUME NEW k \in Keys PROVE InOrder(log[k])' /\ Covers(timestamps[k], log[k])'
    <3>0. log[k] \in Seq(Nat) /\ timestamps[k] \in Seq(Nat) /\ InOrder(log[k]) /\ Covers(timestamps[k], log[k])
      BY DEF DInv
    <3>1. InOrder(log[k])'
      BY <2>1, <3>0 DEF InOrder
    <3>2. Covers(timestamps[k], log[k])'
      <4>1. ASSUME NEW i \in 1 .. Len(log[k]) - Len(timestamps[k])
            PROVE  log[k][i] < (now + 1) - maxDuration
        <5>1. log[k][i] < now - maxDuration
          BY <3>0 DEF Covers
        <5>2. i \in 1 .. Len(log[k])
          BY <3>0
        <5>3. log[k][i] \in Nat
          BY <3>0, <5>2
        <5> QED
          BY <2>1, <5>1, <5>3, LongestWindow
      <4> QED
        BY <2>1, <3>0, <4>1, Zenon DEF Covers
    <3> QED
      BY <3>1, <3>2
  <2> QED
    BY <2>1, <2>2 DEF DInv
<1> QED
  BY <1>1, <1>2, RecordDInv, gcDInv DEF DNext

(***************************************************************************)
(* Initially nothing is logged and nothing is kept.                        *)
(***************************************************************************)
LEMMA InitDInv == DInit => DInv
<1> SUFFICES ASSUME DInit PROVE DInv
  OBVIOUS
<1>1. /\ now = 0 /\ \A k \in Keys : timestamps[k] = <<>> /\ log[k] = <<>>
      /\ timestamps \in [Keys -> Seq(Nat)] /\ log \in [Keys -> Seq(Nat)]
  BY DEF DInit
<1>2. MaxEvents \in Nat
  BY DetectorAssumption
<1>3. Len(<<>>) = 0 /\ InOrder(<<>>) /\ Covers(<<>>, <<>>)
  BY DEF InOrder, Covers
<1> QED
  BY <1>1, <1>2, <1>3 DEF DInv

(***************************************************************************)
(* Record raises the alert that the full history calls for.                *)
(***************************************************************************)
LEMMA RecordRefines == ASSUME DInv, DInv', NEW k \in Keys, Record(k) PROVE History!Record(k)
<1>0. now' = now /\ now \in Nat
  BY DEF Record, DInv
<1>1. /\ timestamps'[k] \in Seq(Nat) /\ log'[k] \in Seq(Nat)
      /\ Covers(timestamps'[k], log'[k])
  BY <1>0 DEF DInv, Covers
<1>2. \A w \in DOMAIN Windows :
         countWithin(timestamps'[k], Windows[w].dur) = History!InWindow(log'[k], Windows[w].dur)
  BY <1>0, <1>1, CountsAgree
<1>3. ExceededWindows(timestamps'[k]) = History!Breached(log'[k])
  BY <1>2 DEF ExceededWindows, History!Breached
<1>4. alarm' = History!First(History!Breached(log'[k]))
  <2>1. alarm' = IF ExceededWindows(timestamps'[k]) = {} THEN 0
                 ELSE Min(ExceededWindows(timestamps'[k]))
    BY DEF Record
  <2> QED
    BY <1>3, <2>1, SameMin DEF History!First
<1> QED
  BY <1>4 DEF Record, History!Record

(***************************************************************************)
(* Pruning and garbage collection are invisible: every alert of Record and *)
(* every answer of WindowStats is the one a detector that forgets nothing  *)
(* would give, for any windows, nodes and types.                           *)
(***************************************************************************)
THEOREM DetectorRemembersEverything == DSpec => RemembersEverything
<1>1. DInit => History!Init
  BY DEF DInit, History!Init, Keys, History!Keys
<1>2. DInv /\ DInv' /\ [DNext]_dvars => [History!Next]_(History!vars)
  <2> SUFFICES ASSUME DInv, DInv', [DNext]_dvars PROVE [History!Next]_(History!vars)
    OBVIOUS
  <2>1. ASSUME NEW k \in Keys, Record(k) PROVE History!Next
    BY <2>1, RecordRefines DEF History!Next, Keys, History!Keys
  <2>2. CASE WindowStats
    <3>1. report' = [t \in Types |-> [w \in DOMAIN Windows |->
             History!Cardinality(UNION {{n} \X History!Inside(log[<<n, t>>], Windows[w].dur) : n \in Nodes})]]
      BY <2>2, StatsAgree, SameCardinality, Zenon DEF WindowStats
    <3> QED
      BY <2>2, <3>1, Zenon DEF WindowStats, History!WindowStats, History!Next
  <2>3. CASE gc \/ UNCHANGED dvars
    BY <2>3 DEF gc, dvars, History!vars
  <2>4. CASE Tick
    BY <2>4 DEF Tick, History!Tick, History!Next
  <2> QED
    BY <2>1, <2>2, <2>3, <2>4 DEF DNext
<1> QED
  BY <1>1, <1>2, InitDInv, NextDInv, PTL DEF DSpec, RemembersEverything, History!Spec

\* All times kept of a key are within the longest window before its last one.
Recent(ts) == ts # <<>> => ts[1] >= ts[Len(ts)] - maxDuration

KeepsOneWindow == \A k \in Keys : Recent(timestamps[k])

(***************************************************************************)
(* The memory of the detector is bounded by the rate of events, not by the *)
(* uptime: however long a key has been in use, and whether or not gc has   *)
(* run, it holds no time that was outside the longest window when its last *)
(* event came (Record prunes the key it touches).                          *)
(***************************************************************************)
THEOREM KeepsOneWindowHolds == DSpec => []KeepsOneWindow
<1>1. DInit => KeepsOneWindow
  BY DEF DInit, KeepsOneWindow, Recent
<1>2. ASSUME DInv, KeepsOneWindow, [DNext]_dvars PROVE KeepsOneWindow'
  <2>1. ASSUME NEW k \in Keys, Record(k) PROVE KeepsOneWindow'
    <3> DEFINE a == Append(timestamps[k], now)
    <3>1. PICK i \in 0 .. Len(timestamps[k]) + 1 :
             PruneStopsAt(a, i) /\ timestamps' = [timestamps EXCEPT ![k] = SubSeq(a, i + 1, Len(a))]
      BY <2>1, Zenon DEF Record
    <3>2. /\ timestamps \in [Keys -> Seq(Nat)] /\ timestamps[k] \in Seq(Nat) /\ now \in Nat
      BY <1>2 DEF DInv
    <3>3. /\ a \in Seq(Nat) /\ Len(a) = Len(timestamps[k]) + 1 /\ Len(a) \in Nat /\ a[Len(a)] = now
      BY <3>2
    <3>4. i = Len(a) \/ a[i + 1] >= now - maxDuration
      BY <3>1, Zenon DEF PruneStopsAt
    <3> HIDE DEF a
    <3>5. i \in 0 .. Len(a)
      BY <3>3
    <3>6. PICK c \in Seq(Nat) : /\ c = SubSeq(a, i + 1, Len(a)) /\ Len(c) = Len(a) - i
                                /\ \A j \in 1 .. Len(a) - i : c[j] = a[i + j]
      BY <3>3, <3>5, DropFirst
    <3>7. Recent(c)
      <4>1. SUFFICES ASSUME c # <<>> PROVE c[1] >= c[Len(c)] - maxDuration
        BY DEF Recent
      <4>2. Len(c) \in Nat \ {0}
        BY <4>1
      <4>3. /\ i # Len(a) /\ 1 \in 1 .. Len(a) - i /\ Len(c) \in 1 .. Len(a) - i
            /\ i + Len(c) = Len(a)
        BY <3>3, <3>5, <3>6, <4>2
      <4>4. c[1] = a[i + 1] /\ c[Len(c)] = now
        BY <3>3, <3>6, <4>3
      <4> QED
        BY <3>4, <4>3, <4>4
    <3>8. ASSUME NEW q \in Keys PROVE Recent(timestamps'[q])
      <4>1. CASE q = k
        <5>1. timestamps'[q] = c
          BY <3>1, <3>2, <3>6, <4>1
        <5> QED
          BY <3>7, <5>1
      <4>2. CASE q # k
        <5>1. timestamps'[q] = timestamps[q]
          BY <3>1, <3>2, <4>2
        <5> QED
          BY <1>2, <5>1 DEF KeepsOneWindow
      <4> QED
        BY <4>1, <4>2
    <3> QED
      BY <3>8 DEF KeepsOneWindow, Recent
  <2>2. CASE gc
    <3>1. ASSUME NEW k \in Keys PROVE Recent(timestamps'[k])
      <4>1. timestamps'[k] \in {<<>>, timestamps[k]}
        BY <2>2 DEF gc
      <4> QED
        BY <1>2, <4>1 DEF KeepsOneWindow, Recent
    <3> QED
      BY <3>1 DEF KeepsOneWindow, Recent
  <2>3. CASE WindowStats \/ Tick \/ UNCHANGED dvars
    BY <1>2, <2>3 DEF WindowStats, Tick, dvars, KeepsOneWindow, Recent
  <2> QED
    BY <1>2, <2>1, <2>2, <2>3 DEF DNext
<1> QED
  BY <1>1, <1>2, InitDInv, NextDInv, PTL DEF DSpec

-----------------------------------------------------------------------------
(* The three in the order of StreamEvents. *)

(***************************************************************************)
(* A step of the handler, or of a goroutine beside it, is a step or a      *)
(* stutter of the limiter, of the engine and of the detector.              *)
(***************************************************************************)
LEMMA ScreeningSteps == [SNext]_svars => [BNext]_bvars /\ [Next]_vars /\ [DNext]_dvars
<1> SUFFICES ASSUME [SNext]_svars PROVE [BNext]_bvars /\ [Next]_vars /\ [DNext]_dvars
  OBVIOUS
<1>1. CASE StartUp
  BY <1>1 DEF StartUp, Next
<1>2. CASE DropEvent \/ RejectEvent
  BY <1>2 DEF DropEvent, RejectEvent, BNext
<1>3. ASSUME NEW n \in Nodes, NEW e \in Events, ScreenEvent(n, e)
      PROVE  [BNext]_bvars /\ [Next]_vars /\ [DNext]_dvars
  <2>1. <<n, e.type>> \in Keys
    BY ScreeningAssumption DEF Keys
  <2> QED
    BY <1>3, <2>1 DEF ScreenEvent, BNext, Next, DNext
<1>4. CASE Others \/ Pass \/ Watch
  BY <1>4 DEF Others, Pass, Watch, BNext, DNext
<1>5. CASE UNCHANGED svars
  BY <1>5 DEF svars
<1> QED
  BY <1>1, <1>2, <1>3, <1>4, <1>5 DEF SNext

(***************************************************************************)
(* The limiter keeps its bounds, the rules fire as they are written and    *)
(* the detector remembers everything when StreamEvents uses the three one  *)
(* after the other and stops at the first that refuses an event.           *)
(***************************************************************************)
THEOREM ScreeningKeepsAll ==
    SSpec => [](RateBound /\ NeverThrottlesEarly /\ FiresAsWritten) /\ RemembersEverything
<1>1. SSpec => BSpec /\ Spec /\ DSpec
  BY ScreeningSteps, PTL DEF SSpec, SInit, BSpec, Spec, DSpec
<1> QED
  BY <1>1, RateBoundHolds, NeverThrottlesEarlyHolds, FiresAsWrittenHolds,
     DetectorRemembersEverything, PTL
=============================================================================
