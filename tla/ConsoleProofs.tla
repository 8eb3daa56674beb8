---------------------------- MODULE ConsoleProofs ----------------------------
(* What ListEvents answers, and what a page of the console shows, for any   *)
(* events, views, faults and number of mounts.                              *)
EXTENDS Console, FiniteSetTheorems, WellFoundedInduction, TLAPS

(***************************************************************************)
(* A set of numbers that has an upper bound has a greatest element.        *)
(***************************************************************************)
LEMMA GreatestOf ==
    ASSUME NEW S \in SUBSET Nat, S # {}, NEW b \in Nat, \A x \in S : x <= b
    PROVE  Max(S) \in S /\ \A y \in S : Max(S) >= y
<1> DEFINE U == {u \in Nat : \A x \in S : x <= u}
<1>1. U # {} /\ U \subseteq Nat
  <2>1. b \in U
    OBVIOUS
  <2> QED
    BY <2>1
<1>2. PICK u \in U : \A m \in U : ~(<<m, u>> \in OpToRel(<, Nat))
  <2> HIDE DEF U
  <2> QED
    BY <1>1, WFMin, NatLessThanWellFounded, Zenon
<1>3. u \in Nat /\ \A x \in S : x <= u
  OBVIOUS
<1>4. u \in S
  <2> SUFFICES ASSUME u \notin S PROVE FALSE
    OBVIOUS
  <2>1. \A x \in S : x \in Nat /\ x < u
    BY <1>3
  <2>2. u - 1 \in Nat /\ u - 1 < u /\ \A x \in S : x <= u - 1
    <3>1. PICK x \in S : x \in Nat /\ x < u
      BY <2>1, Zenon
    <3>2. u - 1 \in Nat /\ u - 1 < u
      BY <1>3, <3>1
    <3>3. \A y \in Nat : y < u => y <= u - 1
      BY <1>3
    <3> QED
      BY <2>1, <3>2, <3>3
  <2>3. <<u - 1, u>> \in OpToRel(<, Nat)
    BY <1>3, <2>2 DEF OpToRel
  <2>4. u - 1 \in U
    BY <2>2
  <2> QED
    BY <1>2, <2>3, <2>4, Zenon
<1>5. \E x \in S : \A y \in S : x >= y
  BY <1>3, <1>4
<1> QED
  BY <1>5, Zenon DEF Max

(***************************************************************************)
(* RFC3339Nano leaves only digits of the fraction.                         *)
(***************************************************************************)
LEMMA TrimmedType == ASSUME NEW d \in Seq(0 .. 9) PROVE Trimmed(d) \in Seq(0 .. 9)
<1> DEFINE S == {0} \cup {i \in DOMAIN d : d[i] # 0}
<1>1. S \in SUBSET Nat /\ S # {} /\ Len(d) \in Nat /\ \A x \in S : x <= Len(d)
  OBVIOUS
<1>2. Max(S) \in S
  <2> HIDE DEF S
  <2> QED
    BY <1>1, GreatestOf, Zenon
<1>3. PICK m \in 0 .. Len(d) : m = Max(S)
  <2>1. S \subseteq 0 .. Len(d)
    BY <1>1
  <2> HIDE DEF S
  <2> QED
    BY <1>2, <2>1, Zenon
<1>4. SubSeq(d, 1, m) \in Seq(0 .. 9)
  OBVIOUS
<1> QED
  BY <1>3, <1>4 DEF Trimmed

\* The first part of a key is the second, the last but one a Z, and no part
\* between them is one: no key is the beginning of another.
IsKey(k) ==
    /\ k \in Seq(Int) /\ Len(k) >= 3
    /\ k[Len(k) - 1] = Zed
    /\ \A p \in 2 .. Len(k) - 2 : k[p] # Zed

(***************************************************************************)
(* SaveEvent's keys have that shape, and start with the second of receipt. *)
(***************************************************************************)
LEMMA KeyShape ==
    ASSUME NEW i \in Ids
    PROVE  IsKey(KeyOf[i]) /\ KeyOf[i][1] = Sec(i) /\ Sec(i) \in Int
<1>1. /\ Received[i].id \in Int /\ Received[i].at.sec \in Int
      /\ Received[i].at.frac \in Seq(0 .. 9)
  <2> DEFINE R == [node: STRING, id: Int, at: Time, claimed: Time]
  <2>1. Received \in Seq(R) /\ i \in 1 .. Len(Received)
    BY EventLogAssumption DEF Ids
  <2> HIDE DEF R
  <2>2. Received[i] \in R
    BY <2>1
  <2> QED
    BY <2>2 DEF R, Time
<1>2. PICK mid \in Seq(-1 .. 9) :
         mid = IF Trimmed(Received[i].at.frac) = <<>> THEN <<>>
               ELSE <<Dot>> \o Trimmed(Received[i].at.frac)
  <2>1. PICK t \in Seq(0 .. 9) : t = Trimmed(Received[i].at.frac)
    BY <1>1, TrimmedType
  <2>2. <<-1>> \o t \in Seq(-1 .. 9)
    OBVIOUS
  <2>3. <<>> \in Seq(-1 .. 9)
    OBVIOUS
  <2> QED
    BY <2>1, <2>2, <2>3, Zenon DEF Dot
<1>3. PICK s \in Int, d \in Int : s = Sec(i) /\ d = Received[i].id
  BY <1>1 DEF Sec
<1>4. KeyOf[i] = Append(<<s>> \o mid \o <<10>>, d)
  BY <1>2, <1>3 DEF KeyOf, Format, Zed, Sec
<1>5. PICK k : k = Append(<<s>> \o mid \o <<10>>, d)
  BY Zenon
<1>6. /\ k \in Seq(Int) /\ Len(k) = Len(mid) + 3 /\ Len(mid) \in Nat
      /\ k[1] = s /\ k[Len(mid) + 2] = 10
      /\ \A p \in 1 .. Len(mid) : k[p + 1] = mid[p]
  <2>1. mid \in Seq(Int)
    OBVIOUS
  <2>2. <<s>> \o mid \in Seq(Int) /\ Len(<<s>> \o mid) = Len(mid) + 1
    BY <2>1
  <2> QED
    BY <1>5, <2>1, <2>2
<1>7. \A p \in 2 .. Len(k) - 2 : k[p] # 10
  <2> SUFFICES ASSUME NEW p \in 2 .. Len(k) - 2 PROVE k[p] # 10
    OBVIOUS
  <2>1. p - 1 \in 1 .. Len(mid) /\ (p - 1) + 1 = p
    BY <1>6
  <2>2. mid[p - 1] \in -1 .. 9
    BY <2>1
  <2>3. k[p] = mid[p - 1]
    BY <1>6, <2>1
  <2>4. \A z \in -1 .. 9 : z # 10
    OBVIOUS
  <2> QED
    BY <2>2, <2>3, <2>4, Zenon
<1>8. IsKey(k)
  BY <1>6, <1>7 DEF IsKey, Zed
<1> QED
  BY <1>3, <1>4, <1>5, <1>6, <1>8

(***************************************************************************)
(* Of two different keys one comes first.                                  *)
(***************************************************************************)
LEMMA TextTotal ==
    ASSUME NEW a, NEW b, IsKey(a), IsKey(b), a # b
    PROVE  TextLess(a, b) \/ TextLess(b, a)
<1> DEFINE D == {p \in Nat : p \in DOMAIN a /\ p \in DOMAIN b /\ a[p] # b[p]}
<1>0. PICK m \in Nat, n \in Nat :
         /\ m = Len(a) /\ n = Len(b) /\ m >= 3 /\ n >= 3
         /\ a \in Seq(Int) /\ b \in Seq(Int) /\ DOMAIN a = 1 .. m /\ DOMAIN b = 1 .. n
  BY DEF IsKey
<1>1. CASE D = {}
  <2>1. \A p \in 1 .. m : p \in 1 .. n => a[p] = b[p]
    <3> SUFFICES ASSUME NEW p \in 1 .. m, p \in 1 .. n PROVE a[p] = b[p]
      OBVIOUS
    <3>1. p \in Nat /\ p \in DOMAIN a /\ p \in DOMAIN b
      BY <1>0
    <3> QED
      BY <1>1, <3>1, Zenon
  <2>2. CASE m = n
    BY <1>0, <2>1, <2>2
  <2>3. CASE m < n
    <3>1. m - 1 \in 1 .. m /\ m - 1 \in 1 .. n /\ m - 1 \in 2 .. n - 2
      BY <1>0, <2>3
    <3>2. a[m - 1] = Zed /\ b[m - 1] # Zed
      BY <1>0, <3>1 DEF IsKey
    <3> QED
      BY <2>1, <3>1, <3>2
  <2>4. CASE n < m
    <3>1. n - 1 \in 1 .. m /\ n - 1 \in 1 .. n /\ n - 1 \in 2 .. m - 2
      BY <1>0, <2>4
    <3>2. b[n - 1] = Zed /\ a[n - 1] # Zed
      BY <1>0, <3>1 DEF IsKey
    <3> QED
      BY <2>1, <3>1, <3>2
  <2> QED
    BY <1>0, <2>2, <2>3, <2>4
<1>2. CASE D # {}
  <2>1. PICK p \in D : \A q \in D : ~(<<q, p>> \in OpToRel(<, Nat))
    <3>1. D \subseteq Nat
      OBVIOUS
    <3> HIDE DEF D
    <3> QED
      BY <1>2, <3>1, WFMin, NatLessThanWellFounded, Zenon
  <2>2. p \in Nat /\ p \in 1 .. m /\ p \in 1 .. n /\ a[p] # b[p] /\ a[p] \in Int /\ b[p] \in Int
    BY <1>0
  <2>3. ASSUME NEW j \in 1 .. p - 1 PROVE a[j] = b[j]
    <3>1. j \in Nat /\ j < p /\ j \in 1 .. m /\ j \in 1 .. n
      BY <1>0, <2>2
    <3>2. <<j, p>> \in OpToRel(<, Nat)
      BY <2>2, <3>1 DEF OpToRel
    <3>3. j \notin D
      BY <2>1, <3>2, Zenon
    <3> QED
      BY <1>0, <3>1, <3>3
  <2>4. p \in DOMAIN a \cap DOMAIN b /\ (a[p] < b[p] \/ b[p] < a[p])
    BY <1>0, <2>2
  <2> QED
    BY <2>3, <2>4 DEF TextLess
<1> QED
  BY <1>1, <1>2

(***************************************************************************)
(* The order of texts is transitive.                                       *)
(***************************************************************************)
LEMMA TextTransitive ==
    ASSUME NEW a \in Seq(Int), NEW b \in Seq(Int), NEW c \in Seq(Int),
           TextLess(a, b), TextLess(b, c)
    PROVE  TextLess(a, c)
<1>0. ASSUME NEW s \in Seq(Int)
      PROVE  Len(s) \in Nat /\ DOMAIN s = 1 .. Len(s) /\ \A j \in 1 .. Len(s) : s[j] \in Int
  OBVIOUS
<1>1. PICK i \in DOMAIN a \cap DOMAIN b : a[i] < b[i] /\ \A j \in 1 .. i - 1 : a[j] = b[j]
  BY DEF TextLess
<1>2. PICK k \in DOMAIN b \cap DOMAIN c : b[k] < c[k] /\ \A j \in 1 .. k - 1 : b[j] = c[j]
  BY DEF TextLess
<1>3. /\ i \in 1 .. Len(a) /\ i \in 1 .. Len(b) /\ k \in 1 .. Len(b) /\ k \in 1 .. Len(c)
      /\ Len(a) \in Nat /\ Len(b) \in Nat /\ Len(c) \in Nat
      /\ DOMAIN a = 1 .. Len(a) /\ DOMAIN c = 1 .. Len(c)
  <2>1. DOMAIN a = 1 .. Len(a) /\ DOMAIN b = 1 .. Len(b) /\ DOMAIN c = 1 .. Len(c)
    BY <1>0, Zenon
  <2>2. i \in DOMAIN a /\ i \in DOMAIN b /\ k \in DOMAIN b /\ k \in DOMAIN c
    BY Zenon
  <2> QED
    BY <1>0, <2>1, <2>2, Zenon
<1>4. i \in Nat /\ k \in Nat
  BY <1>3
<1>5. /\ \A j \in 1 .. Len(a) : a[j] \in Int
      /\ \A j \in 1 .. Len(b) : b[j] \in Int
      /\ \A j \in 1 .. Len(c) : c[j] \in Int
  BY <1>0, Zenon
<1>6. CASE i < k
  <2>1. i \in 1 .. k - 1 /\ i \in 1 .. Len(c) /\ \A j \in 1 .. i - 1 : j \in 1 .. k - 1
    <3>1. i \in 1 .. Len(c)
      BY <1>3, <1>6
    <3>2. i >= 1
      BY <1>3
    <3> QED
      BY <1>4, <1>6, <3>1, <3>2
  <2>2. a[i] < c[i] /\ \A j \in 1 .. i - 1 : a[j] = c[j]
    BY <1>1, <1>2, <2>1, Zenon
  <2> QED
    BY <1>3, <2>1, <2>2, Zenon DEF TextLess
<1>7. CASE k < i
  <2>1. k \in 1 .. i - 1 /\ k \in 1 .. Len(a) /\ \A j \in 1 .. k - 1 : j \in 1 .. i - 1
    <3>1. k \in 1 .. Len(a)
      BY <1>3, <1>7
    <3>2. k >= 1
      BY <1>3
    <3> QED
      BY <1>4, <1>7, <3>1, <3>2
  <2>2. a[k] < c[k] /\ \A j \in 1 .. k - 1 : a[j] = c[j]
    BY <1>1, <1>2, <2>1, Zenon
  <2> QED
    BY <1>3, <2>1, <2>2, Zenon DEF TextLess
<1>8. CASE i = k
  <2>1. a[i] < c[i]
    BY <1>1, <1>2, <1>3, <1>5, <1>8
  <2> QED
    BY <1>1, <1>2, <1>3, <1>8, <2>1, Zenon DEF TextLess
<1> QED
  BY <1>3, <1>6, <1>7, <1>8

(***************************************************************************)
(* So keys put the events in one order, that of their seconds.             *)
(***************************************************************************)
LEMMA KeyOrder ==
    /\ \A i \in Ids : ~TextLess(KeyOf[i], KeyOf[i])
    /\ \A i, j \in Ids : i # j => TextLess(KeyOf[i], KeyOf[j]) \/ TextLess(KeyOf[j], KeyOf[i])
    /\ \A i, j, k \in Ids : TextLess(KeyOf[i], KeyOf[j]) /\ TextLess(KeyOf[j], KeyOf[k])
                               => TextLess(KeyOf[i], KeyOf[k])
    /\ \A i, j \in Ids : TextLess(KeyOf[i], KeyOf[j]) => Sec(i) <= Sec(j)
<1>1. \A i \in Ids : IsKey(KeyOf[i]) /\ KeyOf[i][1] = Sec(i) /\ Sec(i) \in Int
  BY KeyShape
<1>2. \A i \in Ids : KeyOf[i] \in Seq(Int)
  BY <1>1 DEF IsKey
<1>3. ASSUME NEW a \in Seq(Int) PROVE ~TextLess(a, a)
  <2>1. \A i \in DOMAIN a : a[i] \in Int
    OBVIOUS
  <2> QED
    BY <2>1 DEF TextLess
<1>4. \A i, j \in Ids : i # j => TextLess(KeyOf[i], KeyOf[j]) \/ TextLess(KeyOf[j], KeyOf[i])
  BY <1>1, TextTotal, KeysDiffer
<1>5. \A i, j, k \in Ids : TextLess(KeyOf[i], KeyOf[j]) /\ TextLess(KeyOf[j], KeyOf[k])
                              => TextLess(KeyOf[i], KeyOf[k])
  BY <1>2, TextTransitive
<1>6. ASSUME NEW a \in Seq(Int), NEW b \in Seq(Int), TextLess(a, b) PROVE a[1] <= b[1]
  <2>1. PICK i \in DOMAIN a \cap DOMAIN b : a[i] < b[i] /\ \A j \in 1 .. i - 1 : a[j] = b[j]
    BY <1>6 DEF TextLess
  <2>2. i \in Nat \ {0} /\ a[i] \in Int /\ b[i] \in Int /\ a[1] \in Int /\ b[1] \in Int
    OBVIOUS
  <2>3. i = 1 \/ 1 \in 1 .. i - 1
    BY <2>2
  <2> QED
    BY <2>1, <2>2, <2>3
<1>7. \A i, j \in Ids : TextLess(KeyOf[i], KeyOf[j]) => Sec(i) <= Sec(j)
  BY <1>1, <1>2, <1>6
<1> QED
  BY <1>2, <1>3, <1>4, <1>5, <1>7

\* How many events the iterator passes before it comes to i.
Rank(S, i) == Cardinality(Before(S, i))

(***************************************************************************)
(* The iterator comes to the events in the reverse order of their keys,    *)
(* each of them at a place of its own.                                     *)
(***************************************************************************)
LEMMA Ranks ==
    ASSUME NEW S \in SUBSET Ids
    PROVE  /\ IsFiniteSet(S) /\ Cardinality(S) \in Nat
           /\ \A i \in S : Rank(S, i) \in 0 .. Cardinality(S) - 1
           /\ \A i, j \in S : Rank(S, i) < Rank(S, j) => TextLess(KeyOf[j], KeyOf[i])
           /\ \A i, j \in S : Rank(S, i) = Rank(S, j) => i = j
<1>1. IsFiniteSet(S) /\ Cardinality(S) \in Nat
  <2>1. Len(Received) \in Nat /\ Ids = 1 .. Len(Received)
    BY EventLogAssumption DEF Ids
  <2>2. IsFiniteSet(Ids)
    BY <2>1, FS_Interval
  <2> QED
    BY <2>2, FS_Subset, FS_CardinalityType
<1>2. ASSUME NEW A, NEW B, A \subseteq B, A # B, B \subseteq S
      PROVE  Cardinality(A) < Cardinality(B) /\ Cardinality(A) \in Nat /\ Cardinality(B) \in Nat
  <2>1. IsFiniteSet(B)
    BY <1>1, <1>2, FS_Subset
  <2>2. IsFiniteSet(A) /\ Cardinality(A) <= Cardinality(B) /\ (Cardinality(A) = Cardinality(B) => A = B)
    BY <1>2, <2>1, FS_Subset
  <2> QED
    BY <1>2, <2>1, <2>2, FS_CardinalityType
<1>3. ASSUME NEW i \in S PROVE Rank(S, i) \in 0 .. Cardinality(S) - 1
  <2>1. Before(S, i) \subseteq S /\ i \notin Before(S, i)
    BY KeyOrder DEF Before
  <2>2. Rank(S, i) < Cardinality(S) /\ Rank(S, i) \in Nat
    BY <1>2, <2>1 DEF Rank
  <2> QED
    BY <1>1, <2>2
<1>4. ASSUME NEW i \in S, NEW j \in S, TextLess(KeyOf[i], KeyOf[j]) PROVE Rank(S, j) < Rank(S, i)
  <2>1. j \in Before(S, i) /\ j \notin Before(S, j) /\ Before(S, i) \subseteq S
    BY <1>4, KeyOrder DEF Before
  <2>2. Before(S, j) \subseteq Before(S, i)
    BY <1>4, KeyOrder DEF Before
  <2> QED
    BY <1>2, <2>1, <2>2 DEF Rank
<1>5. \A i \in S : Rank(S, i) \in Int
  BY <1>1, <1>3
<1>6. ASSUME NEW i \in S, NEW j \in S, ~TextLess(KeyOf[j], KeyOf[i])
      PROVE  ~(Rank(S, i) < Rank(S, j))
  <2>1. i = j \/ TextLess(KeyOf[i], KeyOf[j])
    BY <1>6, KeyOrder
  <2> QED
    BY <1>4, <1>5, <2>1
<1>7. ASSUME NEW i \in S, NEW j \in S, i # j PROVE Rank(S, i) # Rank(S, j)
  <2>1. TextLess(KeyOf[i], KeyOf[j]) \/ TextLess(KeyOf[j], KeyOf[i])
    BY <1>7, KeyOrder
  <2> QED
    BY <1>4, <1>5, <2>1
<1> QED
  BY <1>1, <1>3, <1>6, <1>7

(***************************************************************************)
(* Every place up to the number of events is taken.                        *)
(***************************************************************************)
LEMMA NthRank ==
    ASSUME NEW S \in SUBSET Ids, NEW n \in 1 .. Cardinality(S)
    PROVE  Nth(S, n) \in S /\ Rank(S, Nth(S, n)) = n - 1
<1> DEFINE f == [i \in S |-> Rank(S, i)]
<1>1. PICK c \in Nat : c = Cardinality(S)
  BY Ranks
<1>2. IsFiniteSet(0 .. c - 1) /\ Cardinality(0 .. c - 1) = c
  <2>1. c - 1 \in Int /\ 0 \in Int
    OBVIOUS
  <2>2. /\ IsFiniteSet(0 .. c - 1)
        /\ Cardinality(0 .. c - 1) = IF 0 > c - 1 THEN 0 ELSE (c - 1) - 0 + 1
    BY <2>1, FS_Interval
  <2> QED
    BY <2>2
<1>3. f \in Injection(S, 0 .. c - 1)
  <2>1. f \in [S -> 0 .. c - 1]
    BY <1>1, Ranks
  <2>2. \A i, j \in S : f[i] = f[j] => i = j
    BY Ranks
  <2> HIDE DEF f
  <2> QED
    BY <2>1, <2>2 DEF Injection, IsInjective
<1>4. f \in Surjection(S, 0 .. c - 1)
  <2> HIDE DEF f
  <2> QED
    BY <1>1, <1>2, <1>3, FS_Injection
<1>5. \E i \in S : Rank(S, i) = n - 1
  <2>1. n - 1 \in 0 .. c - 1
    BY <1>1
  <2>2. \E i \in S : f[i] = n - 1
    <3> HIDE DEF f
    <3> QED
      BY <1>4, <2>1 DEF Surjection
  <2> QED
    BY <2>2
<1> QED
  BY <1>5 DEF Nth, Rank

\* f holds the state of ListEvents' loop after each turn.
Turns(S, v, f) ==
    f = [n \in 0 .. Cardinality(S) |->
            IF n = 0 THEN [scanned |-> 0, events |-> <<>>] ELSE Visit(v, f[n - 1], Nth(S, n))]

(***************************************************************************)
(* The loop takes its turns one after the other.                           *)
(***************************************************************************)
LEMMA TurnsExist ==
    ASSUME NEW S \in SUBSET Ids, NEW v
    PROVE  \E f : Turns(S, v, f)
<1> DEFINE none == [scanned |-> 0, events |-> <<>>]
           Upto(n, f) == f = [i \in 0 .. n |-> IF i = 0 THEN none ELSE Visit(v, f[i - 1], Nth(S, i))]
           Bad == {n \in Nat : ~\E f : Upto(n, f)}
<1>1. SUFFICES ASSUME Bad # {} PROVE FALSE
  <2>1. Cardinality(S) \in Nat
    BY Ranks
  <2> QED
    BY <2>1, Zenon DEF Turns
<1> HIDE DEF none
<1>2. PICK n \in Bad : \A m \in Bad : ~(<<m, n>> \in OpToRel(<, Nat))
  <2>1. Bad \subseteq Nat
    BY Zenon
  <2> HIDE DEF Bad
  <2> QED
    BY <1>1, <2>1, WFMin, NatLessThanWellFounded, Zenon
<1>3. n \in Nat /\ ~\E f : Upto(n, f)
  BY Zenon
<1>4. CASE n = 0
  <2>1. Upto(0, [i \in 0 .. 0 |-> none])
    OBVIOUS
  <2> HIDE DEF Upto
  <2> QED
    BY <1>3, <1>4, <2>1, Zenon
<1>5. CASE n # 0
  <2>1. n - 1 \in Nat /\ n - 1 < n
    BY <1>3, <1>5
  <2>2. <<n - 1, n>> \in OpToRel(<, Nat)
    BY <1>3, <2>1 DEF OpToRel
  <2>3. n - 1 \notin Bad
    BY <1>2, <2>2, Zenon
  <2>4. PICK f : Upto(n - 1, f)
    BY <2>1, <2>3, Zenon
  <2> DEFINE g == [i \in 0 .. n |-> IF i = n THEN Visit(v, f[n - 1], Nth(S, n)) ELSE f[i]]
  <2>5. \A i \in 0 .. n - 1 : f[i] = IF i = 0 THEN none ELSE Visit(v, f[i - 1], Nth(S, i))
    BY <2>4
  <2>6. \A i \in 0 .. n : g[i] = IF i = 0 THEN none ELSE Visit(v, g[i - 1], Nth(S, i))
    <3> SUFFICES ASSUME NEW i \in 0 .. n
                 PROVE  g[i] = IF i = 0 THEN none ELSE Visit(v, g[i - 1], Nth(S, i))
      BY Zenon
    <3>1. CASE i = n
      <4>1. g[i - 1] = f[n - 1] /\ i # 0
        BY <1>3, <1>5, <3>1
      <4> QED
        BY <3>1, <4>1
    <3>2. CASE i # n
      <4>1. i \in 0 .. n - 1 /\ (i # 0 => i - 1 \in 0 .. n /\ i - 1 # n)
        BY <1>3, <3>2
      <4>2. g[i] = f[i] /\ (i # 0 => g[i - 1] = f[i - 1])
        BY <3>2, <4>1
      <4> HIDE DEF g
      <4> QED
        BY <2>5, <4>1, <4>2
    <3> QED
      BY <3>1, <3>2
  <2>7. Upto(n, g)
    <3>1. g = [i \in 0 .. n |-> g[i]]
      OBVIOUS
    <3> HIDE DEF g
    <3> QED
      BY <2>6, <3>1, Zenon
  <2> HIDE DEF Upto, g
  <2> QED
    BY <1>3, <2>7, Zenon
<1> QED
  BY <1>4, <1>5

\* The view's filter.
Wanted(v, i) == v.node \in {AnyNode, Received[i].node}

(***************************************************************************)
(* The loop's invariant after n turns: what has been listed is what is     *)
(* wanted of the records scanned, in the order of the iterator, and every  *)
(* turn has scanned a record unless the loop had ended.                    *)
(***************************************************************************)
LoopInv(S, v, n, a) ==
    /\ a.scanned \in 0 .. n
    /\ a.events \in Seq(S) /\ Len(a.events) <= v.limit
    /\ \/ a.scanned = n \/ Len(a.events) = v.limit
       \/ v.node # AnyNode /\ a.scanned = MaxScan
    /\ Range(a.events) = {i \in S : Wanted(v, i) /\ Rank(S, i) < a.scanned}
    /\ \A x, y \in 1 .. Len(a.events) : x < y => Rank(S, a.events[x]) < Rank(S, a.events[y])

(***************************************************************************)
(* One turn keeps the invariant.                                           *)
(***************************************************************************)
LEMMA VisitLoopInv ==
    ASSUME NEW S \in SUBSET Ids, NEW v, v.limit \in Nat \ {0},
           NEW n \in 1 .. Cardinality(S), NEW a, LoopInv(S, v, n - 1, a)
    PROVE  LoopInv(S, v, n, Visit(v, a, Nth(S, n)))
<1>0. n \in Nat \ {0} /\ Cardinality(S) \in Nat
  BY Ranks
<1>1. CASE Len(a.events) = v.limit \/ (v.node # AnyNode /\ a.scanned = MaxScan)
  <2>1. Visit(v, a, Nth(S, n)) = a
    BY <1>1 DEF Visit
  <2>2. a.scanned \in 0 .. n
    BY <1>0 DEF LoopInv
  <2> QED
    BY <1>1, <2>1, <2>2 DEF LoopInv
<1>2. CASE ~(Len(a.events) = v.limit \/ (v.node # AnyNode /\ a.scanned = MaxScan))
  <2>1. PICK r \in S : r = Nth(S, n) /\ Rank(S, r) = n - 1
    BY NthRank
  <2>2. PICK e \in Seq(S) : e = a.events
    BY DEF LoopInv
  <2>3. a.scanned = n - 1 /\ n - 1 \in Int
    BY <1>0, <1>2 DEF LoopInv
  <2> DEFINE d == IF Wanted(v, r) THEN Append(e, r) ELSE e
  <2>4. Visit(v, a, r) = [scanned |-> n, events |-> d]
    <3>1. a.scanned + 1 = n
      BY <1>0, <2>3
    <3> QED
      BY <1>2, <2>2, <3>1, Zenon DEF Visit, Wanted
  <2>5. Range(e) = {i \in S : Wanted(v, i) /\ Rank(S, i) < n - 1}
    BY <2>2, <2>3 DEF LoopInv
  <2>6. Len(e) \in Nat /\ Len(e) < v.limit
    BY <1>2, <2>2 DEF LoopInv
  <2>7. \A i \in S : Rank(S, i) \in Int /\ (Rank(S, i) < n <=> Rank(S, i) < n - 1 \/ i = r)
    <3>1. \A i \in S : Rank(S, i) \in Int /\ (Rank(S, i) = n - 1 => i = r)
      BY <1>0, <2>1, Ranks
    <3> QED
      BY <1>0, <2>1, <3>1
  <2>8. d \in Seq(S) /\ Len(d) <= v.limit
    BY <2>6
  <2>9. Range(d) = {i \in S : Wanted(v, i) /\ Rank(S, i) < n}
    <3>1. CASE Wanted(v, r)
      <4>1. Range(Append(e, r)) = Range(e) \cup {r}
        <5>1. DOMAIN Append(e, r) = 1 .. Len(e) + 1 /\ DOMAIN e = 1 .. Len(e)
          OBVIOUS
        <5>2. Append(e, r)[Len(e) + 1] = r /\ \A x \in 1 .. Len(e) : Append(e, r)[x] = e[x]
          OBVIOUS
        <5>3. \A x : x \in 1 .. Len(e) + 1 <=> x \in 1 .. Len(e) \/ x = Len(e) + 1
          BY <2>6
        <5> QED
          BY <5>1, <5>2, <5>3 DEF Range
      <4> QED
        BY <2>5, <2>7, <3>1, <4>1
    <3>2. CASE ~Wanted(v, r)
      BY <2>5, <2>7, <3>2
    <3> QED
      BY <3>1, <3>2
  <2>10. ASSUME NEW x \in 1 .. Len(d), NEW y \in 1 .. Len(d), x < y
         PROVE  Rank(S, d[x]) < Rank(S, d[y])
    <3>0. \A p \in 1 .. Len(e) : e[p] \in Range(e) /\ Rank(S, e[p]) < n - 1
      <4>1. \A p \in 1 .. Len(e) : e[p] \in Range(e)
        BY DEF Range
      <4> QED
        BY <2>5, <4>1
    <3>1. CASE x \in 1 .. Len(e) /\ y \in 1 .. Len(e)
      <4>1. d[x] = e[x] /\ d[y] = e[y]
        BY <3>1
      <4> QED
        BY <2>2, <2>10, <3>1, <4>1 DEF LoopInv
    <3>2. CASE y = Len(e) + 1 /\ Wanted(v, r)
      <4>1. x \in 1 .. Len(e)
        BY <2>6, <2>10, <3>2
      <4>2. d[x] = e[x] /\ d[y] = r
        BY <3>2, <4>1
      <4> QED
        BY <2>1, <3>0, <4>1, <4>2
    <3> QED
      BY <2>6, <2>10, <3>1, <3>2
  <2>11. n \in 0 .. n
    BY <1>0
  <2> HIDE DEF d
  <2> QED
    BY <2>1, <2>4, <2>8, <2>9, <2>10, <2>11 DEF LoopInv
<1> QED
  BY <1>1, <1>2

(***************************************************************************)
(* So it holds at the end.                                                 *)
(***************************************************************************)
LEMMA ListLoopInv ==
    ASSUME NEW S \in SUBSET Ids, NEW v, v.limit \in Nat \ {0}
    PROVE  \E a : LoopInv(S, v, Cardinality(S), a) /\ ListEvents(S, v) = a.events
<1> DEFINE f == CHOOSE g : Turns(S, v, g)
<1>1. Turns(S, v, f)
  BY TurnsExist
<1>2. ListEvents(S, v) = f[Cardinality(S)].events
  BY DEF ListEvents, Turns
<1>3. PICK c \in Nat : c = Cardinality(S)
  BY Ranks
<1> HIDE DEF f
<1>4. \A n \in 0 .. c : f[n] = IF n = 0 THEN [scanned |-> 0, events |-> <<>>]
                               ELSE Visit(v, f[n - 1], Nth(S, n))
  BY <1>1, <1>3 DEF Turns
<1> DEFINE Bad == {n \in Nat : n <= c /\ ~LoopInv(S, v, n, f[n])}
<1>5. SUFFICES Bad = {}
  <2>1. c <= c
    OBVIOUS
  <2> QED
    BY <1>2, <1>3, <2>1, Zenon
<1>6. SUFFICES ASSUME Bad # {} PROVE FALSE
  OBVIOUS
<1>7. PICK n \in Bad : \A m \in Bad : ~(<<m, n>> \in OpToRel(<, Nat))
  <2>1. Bad \subseteq Nat
    BY Zenon
  <2> HIDE DEF Bad
  <2> QED
    BY <1>6, <2>1, WFMin, NatLessThanWellFounded, Zenon
<1>8. n \in Nat /\ n <= c /\ ~LoopInv(S, v, n, f[n])
  BY Zenon
<1>9. CASE n = 0
  <2>1. f[0] = [scanned |-> 0, events |-> <<>>]
    BY <1>4
  <2>2. Range(<<>>) = {}
    BY DEF Range
  <2>3. \A i \in S : ~(Rank(S, i) < 0)
    BY <1>3, Ranks
  <2>4. <<>> \in Seq(S) /\ Len(<<>>) = 0 /\ 0 <= v.limit /\ 0 \in 0 .. 0
    OBVIOUS
  <2>5. LoopInv(S, v, 0, f[0])
    BY <2>1, <2>2, <2>3, <2>4 DEF LoopInv
  <2> QED
    BY <1>8, <1>9, <2>5
<1>10. CASE n # 0
  <2>1. n \in 1 .. c /\ n - 1 \in Nat /\ n - 1 < n /\ n - 1 <= c
    BY <1>8, <1>10
  <2>2. <<n - 1, n>> \in OpToRel(<, Nat)
    BY <1>8, <2>1 DEF OpToRel
  <2>3. n - 1 \notin Bad
    BY <1>7, <2>2, Zenon
  <2>4. LoopInv(S, v, n - 1, f[n - 1])
    BY <2>1, <2>3, Zenon
  <2>5. LoopInv(S, v, n, Visit(v, f[n - 1], Nth(S, n)))
    BY <1>3, <2>1, <2>4, VisitLoopInv
  <2>6. f[n] = Visit(v, f[n - 1], Nth(S, n))
    BY <1>4, <1>8, <1>10
  <2> QED
    BY <1>8, <2>5, <2>6
<1> QED
  BY <1>9, <1>10

(***************************************************************************)
(* ListEvents answers every view on every snapshot as it promises.         *)
(***************************************************************************)
LEMMA ListsNewestFirst ==
    ASSUME NEW S \in SUBSET Ids, NEW v, v.limit \in Nat \ {0}
    PROVE  NewestFirst(S, v, ListEvents(S, v))
<1>1. PICK a : LoopInv(S, v, Cardinality(S), a) /\ ListEvents(S, v) = a.events
  BY ListLoopInv
<1>2. PICK e \in Seq(S) : e = a.events
  BY <1>1 DEF LoopInv
<1>3. PICK k \in Nat : k = a.scanned
  BY <1>1 DEF LoopInv
<1> DEFINE matching == {i \in S : v.node \in {AnyNode, Received[i].node}}
<1>4. \A i \in S : Rank(S, i) \in Nat /\ Rank(S, i) < Cardinality(S) /\ Cardinality(S) \in Nat
  BY Ranks
<1>5. Range(e) = {i \in matching : Rank(S, i) < k}
  BY <1>1, <1>2, <1>3 DEF LoopInv, Wanted
<1>6. Len(e) \in Nat /\ DOMAIN e = 1 .. Len(e) /\ Len(e) <= v.limit
  BY <1>1, <1>2 DEF LoopInv
<1>7. \A x, y \in 1 .. Len(e) : x < y => Rank(S, e[x]) < Rank(S, e[y])
  BY <1>1, <1>2 DEF LoopInv
<1>8. \A x \in 1 .. Len(e) : e[x] \in S
  OBVIOUS
<1>9. \A i, j \in S : Rank(S, i) < Rank(S, j) => Sec(i) >= Sec(j)
  <2>1. \A i, j \in S : Rank(S, i) < Rank(S, j) => TextLess(KeyOf[j], KeyOf[i])
    BY Ranks, Zenon
  <2>2. \A i, j \in S : TextLess(KeyOf[j], KeyOf[i]) => Sec(j) <= Sec(i)
    BY KeyOrder
  <2>3. \A i \in S : Sec(i) \in Int
    BY KeyShape
  <2> QED
    BY <2>1, <2>2, <2>3
<1>10. IsInjective(e)
  <2> SUFFICES ASSUME NEW x \in 1 .. Len(e), NEW y \in 1 .. Len(e), e[x] = e[y] PROVE x = y
    BY <1>6 DEF IsInjective
  <2>1. ~(x < y) /\ ~(y < x)
    BY <1>4, <1>7, <1>8
  <2> QED
    BY <1>6, <2>1
<1>11. \A m, n \in DOMAIN e : m < n => Sec(e[m]) >= Sec(e[n])
  BY <1>6, <1>7, <1>8, <1>9
<1>12. ASSUME NEW f \in matching \ Range(e)
       PROVE  \/ Len(e) = v.limit /\ \A x \in Range(e) : Sec(f) <= Sec(x)
              \/ /\ v.node # AnyNode
                 /\ Cardinality({g \in S \ {f} : Sec(g) >= Sec(f)}) >= MaxScan
  <2>1. f \in S /\ Rank(S, f) \in Nat /\ ~(Rank(S, f) < k) /\ k # Cardinality(S)
    BY <1>4, <1>5
  <2>2. Len(e) = v.limit \/ (v.node # AnyNode /\ k = MaxScan)
    BY <1>1, <1>2, <1>3, <2>1 DEF LoopInv
  <2>3. CASE Len(e) = v.limit
    <3>1. ASSUME NEW x \in Range(e) PROVE Sec(f) <= Sec(x)
      <4>1. x \in S /\ Rank(S, x) < Rank(S, f)
        BY <1>3, <1>4, <1>5, <2>1
      <4>2. Sec(x) >= Sec(f) /\ Sec(x) \in Int /\ Sec(f) \in Int
        BY <1>9, <2>1, <4>1, KeyShape
      <4> QED
        BY <4>2
    <3> QED
      BY <2>3, <3>1
  <2>4. CASE v.node # AnyNode /\ k = MaxScan
    <3> DEFINE G == {g \in S \ {f} : Sec(g) >= Sec(f)}
    <3>1. Before(S, f) \subseteq G
      <4>1. \A g \in Before(S, f) : g \in S /\ TextLess(KeyOf[f], KeyOf[g])
        BY DEF Before
      <4>2. \A g \in Before(S, f) : g # f /\ Sec(f) <= Sec(g) /\ Sec(f) \in Int /\ Sec(g) \in Int
        BY <2>1, <4>1, KeyOrder, KeyShape
      <4> QED
        BY <4>1, <4>2
    <3>2. IsFiniteSet(G)
      <4>1. G \subseteq S
        OBVIOUS
      <4> QED
        BY <4>1, Ranks, FS_Subset
    <3>3. Rank(S, f) <= Cardinality(G) /\ Cardinality(G) \in Nat
      BY <3>1, <3>2, FS_Subset, FS_CardinalityType DEF Rank
    <3>4. Cardinality(G) >= MaxScan
      BY <1>3, <2>1, <2>4, <3>3
    <3> QED
      BY <2>4, <3>4
  <2> QED
    BY <2>2, <2>3, <2>4
<1>13. NewestFirst(S, v, e)
  BY <1>5, <1>6, <1>10, <1>11, <1>12 DEF NewestFirst
<1> QED
  BY <1>1, <1>2, <1>13
-----------------------------------------------------------------------------
\* The requests of the current effect.
Current == {q \in requests : q.effect = effect}

Types ==
    /\ saving \in 0 .. Len(Received) /\ visible \subseteq 1 .. saving
    /\ mounted \in BOOLEAN /\ running \in BOOLEAN /\ error \in BOOLEAN /\ loading \in BOOLEAN
    /\ effect \in IF mounted THEN {1, 2} ELSE {0}
    /\ view \in Views /\ fetcher \in Views
    /\ requests \subseteq [effect: {1, 2}, answer: Answers]
    /\ data \in Answers

(***************************************************************************)
(* The effect's guard says whether a request of that effect is in flight,  *)
(* and there is never more than one; an earlier effect has a lower number; *)
(* a page that is not mounted has none.                                    *)
(***************************************************************************)
GuardInv ==
    /\ running => \E q : Current = {q}
    /\ ~running => Current = {}
    /\ \A q \in requests : mounted /\ q.effect <= effect

(***************************************************************************)
(* Snapshots are of the past, and the one that may still be shown is no    *)
(* older than the one that is.                                             *)
(***************************************************************************)
FreshInv ==
    /\ data.snapshot \subseteq visible
    /\ \A q \in requests : q.answer.snapshot \subseteq visible
    /\ \A q \in Current : q.answer.answered => data.snapshot \subseteq q.answer.snapshot

VInv == Types /\ GuardInv /\ FreshInv

(***************************************************************************)
(* The fields of a fetch and of its answer.                                *)
(***************************************************************************)
LEMMA AnswerFields ==
    /\ \A v : /\ Waiting(v).view = v /\ Waiting(v).snapshot = {}
              /\ Waiting(v).answered = FALSE
    /\ \A v, S : /\ Answered(v, S).view = v /\ Answered(v, S).snapshot = S
                 /\ Answered(v, S).answered = TRUE
    /\ \A v \in Views : Waiting(v) \in Answers
    /\ \A v \in Views, S \in SUBSET Ids : Answered(v, S) \in Answers
    /\ \A a \in Answers : a.view \in Views
<1>1. \A v : /\ Waiting(v).view = v /\ Waiting(v).snapshot = {}
             /\ Waiting(v).answered = FALSE
  BY DEF Waiting
<1>2. \A v, S : /\ Answered(v, S).view = v /\ Answered(v, S).snapshot = S
                /\ Answered(v, S).answered = TRUE
  BY DEF Answered
<1> QED
  BY <1>1, <1>2 DEF Answers

(***************************************************************************)
(* A request of the current effect that is added, changed or settled.      *)
(***************************************************************************)
LEMMA AskCurrent ==
    ASSUME Types, NEW e \in {1, 2}, NEW v \in Views,
           requests' = Ask(e, v), effect' = e, \A q \in requests : q.effect # e
    PROVE  /\ requests' \subseteq [effect: {1, 2}, answer: Answers]
           /\ Current' = {[effect |-> e, answer |-> Waiting(v)]}
<1> DEFINE r == [effect |-> e, answer |-> Waiting(v)]
<1>1. r \in [effect: {1, 2}, answer: Answers] /\ r.effect = e
  BY AnswerFields
<1>2. requests' = requests \cup {r}
  BY DEF Ask
<1> HIDE DEF r
<1>3. Current' = {r}
  BY <1>1, <1>2 DEF Current
<1>4. requests' \subseteq [effect: {1, 2}, answer: Answers]
  BY <1>1, <1>2 DEF Types
<1> QED
  BY <1>3, <1>4 DEF r

\* What a page shows gives way only to a later snapshot.
Shown == data.answered /\ data'.answered => data.snapshot \subseteq data'.snapshot

(***************************************************************************)
(* Every step keeps the types, the effect's guard and the order of the     *)
(* snapshots, so what is shown gives way only to what is newer.            *)
(***************************************************************************)
LEMMA StepKeepsVInv == VInv /\ [CNext]_cvars => VInv' /\ Shown
<1> SUFFICES ASSUME VInv, [CNext]_cvars PROVE VInv' /\ Shown
  OBVIOUS
<1> USE DEF VInv
<1>0. Types /\ GuardInv /\ FreshInv /\ FirstView \in Views /\ Len(Received) \in Nat
      /\ Ids = 1 .. Len(Received)
  BY ConsoleAssumption, EventLogAssumption DEF Ids
<1>1. CASE Mount
  <2>1. requests = {} /\ effect' = 1 /\ requests' = Ask(1, FirstView)
    BY <1>0, <1>1 DEF Mount, GuardInv
  <2>2. /\ requests' \subseteq [effect: {1, 2}, answer: Answers]
        /\ Current' = {[effect |-> 1, answer |-> Waiting(FirstView)]}
    BY <1>0, <2>1, AskCurrent
  <2>3. requests' = {[effect |-> 1, answer |-> Waiting(FirstView)]}
    BY <2>1 DEF Ask
  <2>4. Types'
    BY <1>0, <1>1, <2>2 DEF Mount, Types, logVars
  <2>5. GuardInv'
    <3>1. mounted' /\ running' /\ \A q \in requests' : q.effect <= effect'
      BY <1>1, <2>1, <2>3 DEF Mount
    <3> QED
      BY <2>2, <3>1, Zenon DEF GuardInv
  <2>6. data' = data /\ visible' = visible
    BY <1>1 DEF Mount, logVars
  <2> QED
    BY <1>0, <2>1, <2>2, <2>3, <2>4, <2>5, <2>6, AnswerFields DEF FreshInv, Shown
<1>2. CASE RunEffectAgain
  <2>1. /\ effect = 1 /\ effect' = 2 /\ requests' = Ask(2, fetcher) /\ fetcher \in Views
        /\ mounted /\ mounted' = mounted /\ running' = TRUE
    BY <1>0, <1>2 DEF RunEffectAgain, Types
  <2>2. \A q \in requests : q.effect \in {1, 2} /\ q.effect <= 1
    BY <1>0, <2>1 DEF GuardInv, Types
  <2>3. \A q \in requests : q.effect # 2
    BY <2>2
  <2>4. /\ requests' \subseteq [effect: {1, 2}, answer: Answers]
        /\ Current' = {[effect |-> 2, answer |-> Waiting(fetcher)]}
    BY <1>0, <2>1, <2>3, AskCurrent
  <2>5. Types'
    BY <1>0, <1>2, <2>4 DEF RunEffectAgain, Types, logVars
  <2>6. \A q \in requests' : q.effect <= 2
    BY <2>4
  <2>7. GuardInv'
    BY <2>1, <2>4, <2>6, Zenon DEF GuardInv
  <2>8. data' = data /\ visible' = visible
    BY <1>2 DEF RunEffectAgain, logVars
  <2> QED
    BY <1>0, <2>1, <2>4, <2>5, <2>7, <2>8, AnswerFields DEF FreshInv, Shown, Ask
<1>3. CASE Unmount
  <2>1. Nothing \in Answers
    BY <1>0, AnswerFields DEF Nothing
  <2>2. requests' = {} /\ Current' = {} /\ ~running'
    BY <1>3 DEF Unmount, Current
  <2>3. Types'
    BY <1>0, <1>3, <2>1, Zenon DEF Unmount, Types, logVars
  <2>4. data'.snapshot = {} /\ data'.answered = FALSE
    BY <1>3, AnswerFields DEF Unmount, Nothing
  <2> QED
    BY <2>2, <2>3, <2>4 DEF GuardInv, FreshInv, Shown
<1>4. ASSUME NEW v \in Views, ChangeFilter(v) PROVE VInv' /\ Shown
  BY <1>0, <1>4, Zenon DEF ChangeFilter, Types, GuardInv, FreshInv, Shown, Current, logVars
<1>5. CASE UpdateRef
  BY <1>0, <1>5, Zenon DEF UpdateRef, LatestFetcher, Types, GuardInv, FreshInv, Shown, Current, logVars
<1>6. CASE Tick
  <2>1. /\ effect' = effect /\ effect \in {1, 2} /\ requests' = Ask(effect, fetcher)
        /\ fetcher \in Views /\ mounted /\ mounted' = mounted /\ running' = TRUE /\ ~running
    BY <1>0, <1>6 DEF Tick, MayRun, Types
  <2>2. \A q \in requests : q.effect # effect
    BY <1>0, <2>1 DEF GuardInv, Current
  <2>3. /\ requests' \subseteq [effect: {1, 2}, answer: Answers]
        /\ Current' = {[effect |-> effect, answer |-> Waiting(fetcher)]}
    BY <1>0, <2>1, <2>2, AskCurrent
  <2>4. Types'
    BY <1>0, <1>6, <2>3 DEF Tick, Types, logVars
  <2>5. \A q \in requests' : q.effect <= effect
    BY <1>0, <2>1 DEF GuardInv, Ask
  <2>6. GuardInv'
    BY <2>1, <2>3, <2>5, Zenon DEF GuardInv
  <2>7. data' = data /\ visible' = visible
    BY <1>6 DEF Tick, logVars
  <2> QED
    BY <1>0, <2>1, <2>3, <2>4, <2>6, <2>7, AnswerFields DEF FreshInv, Shown, Ask
<1>7. ASSUME NEW q \in requests, Serve(q) PROVE VInv' /\ Shown
  <2> DEFINE r == [q EXCEPT !.answer = Answered(q.answer.view, visible)]
  <2>1. q \in [effect: {1, 2}, answer: Answers] /\ visible \subseteq Ids
    BY <1>0, <1>7 DEF Types
  <2>2. /\ r \in [effect: {1, 2}, answer: Answers] /\ r.effect = q.effect
        /\ r.answer.snapshot = visible
    BY <2>1, AnswerFields
  <2>3. /\ requests' = (requests \ {q}) \cup {r}
        /\ UNCHANGED <<saving, visible, mounted, effect, view, fetcher, running, data, error, loading>>
    BY <1>7 DEF Serve, logVars
  <2> HIDE DEF r
  <2>4. Types'
    BY <1>0, <2>2, <2>3 DEF Types
  <2>5. Current' \subseteq Current \cup {r}
    BY <2>3 DEF Current
  <2>6. FreshInv' /\ Shown
    BY <1>0, <2>2, <2>3, <2>5 DEF FreshInv, Shown
  <2>7. GuardInv'
    <3>1. CASE q.effect = effect
      <4>1. Current = {q} /\ running
        BY <1>0, <1>7, <3>1 DEF GuardInv, Current
      <4>2. Current' = {r}
        BY <2>2, <2>3, <3>1, <4>1 DEF Current
      <4> QED
        BY <1>0, <2>2, <2>3, <4>1, <4>2, Zenon DEF GuardInv
    <3>2. CASE q.effect # effect
      <4>1. Current' = Current
        BY <2>2, <2>3, <3>2 DEF Current
      <4> QED
        BY <1>0, <2>2, <2>3, <4>1 DEF GuardInv
    <3> QED
      BY <3>1, <3>2
  <2> QED
    BY <2>4, <2>6, <2>7
<1>8. ASSUME NEW q \in requests, NEW ok \in BOOLEAN, Settle(q, ok), ok => q.answer.answered
      PROVE  VInv' /\ Shown
  <2>1. /\ requests' = requests \ {q} /\ running' = (running /\ q.effect # effect)
        /\ UNCHANGED <<saving, visible, mounted, effect, view, fetcher>>
    BY <1>8 DEF Settle, RunningAfter, logVars
  <2>2. data' \in Answers /\ error' \in BOOLEAN /\ loading' \in BOOLEAN
    BY <1>0, <1>8, Zenon DEF Settle, Types, Cancelled
  <2>3. Types'
    BY <1>0, <2>1, <2>2 DEF Types
  <2>4. data' = IF q.effect = effect /\ ok THEN q.answer ELSE data
    BY <1>8 DEF Settle, Cancelled
  <2>5. CASE q.effect = effect
    <3>1. Current = {q} /\ running
      BY <1>0, <2>5 DEF GuardInv, Current
    <3>2. Current' = {} /\ ~running'
      BY <2>1, <2>5, <3>1, Zenon DEF Current
    <3>3. GuardInv'
      BY <1>0, <2>1, <3>2 DEF GuardInv
    <3>4. FreshInv' /\ Shown
      BY <1>0, <1>8, <2>1, <2>4, <3>1, <3>2 DEF FreshInv, Shown
    <3> QED
      BY <2>3, <3>3, <3>4
  <2>6. CASE q.effect # effect
    <3>1. Current' = Current /\ running' = running /\ data' = data
      BY <1>0, <2>1, <2>4, <2>6 DEF Current, Types
    <3>2. GuardInv'
      <4>1. \A x \in requests' : x \in requests /\ mounted' = mounted /\ effect' = effect
        BY <2>1
      <4>2. (running' => \E x : Current' = {x}) /\ (~running' => Current' = {})
        BY <1>0, <3>1, Zenon DEF GuardInv
      <4>3. \A x \in requests' : mounted' /\ x.effect <= effect'
        BY <1>0, <4>1 DEF GuardInv
      <4> QED
        BY <4>2, <4>3 DEF GuardInv
    <3>3. FreshInv' /\ Shown
      BY <1>0, <2>1, <3>1 DEF FreshInv, Shown
    <3> QED
      BY <2>3, <3>2, <3>3
  <2> QED
    BY <2>5, <2>6
<1>9. CASE Store
  <2>1. UNCHANGED page
    BY <1>9 DEF Store
  <2>2. /\ saving' \in 0 .. Len(Received) /\ visible' \subseteq 1 .. saving'
        /\ visible \subseteq visible'
    <3>1. CASE SaveEvent
      BY <1>0, <3>1 DEF SaveEvent, Types
    <3>2. ASSUME NEW i \in Ids, Commit(i)
          PROVE  /\ saving' \in 0 .. Len(Received) /\ visible' \subseteq 1 .. saving'
                 /\ visible \subseteq visible'
      BY <1>0, <3>2 DEF Commit, Types
    <3> QED
      BY <1>9, <3>1, <3>2 DEF Store
  <2>3. Types' /\ GuardInv'
    BY <1>0, <2>1, <2>2, Zenon DEF page, Types, GuardInv, Current
  <2>4. FreshInv' /\ Shown
    BY <1>0, <2>1, <2>2, Zenon DEF page, FreshInv, Shown, Current
  <2> QED
    BY <2>3, <2>4
<1>10. CASE UNCHANGED cvars
  BY <1>0, <1>10, Zenon DEF cvars, logVars, page, Types, GuardInv, FreshInv, Shown, Current
<1> QED
  BY <1>1, <1>2, <1>3, <1>4, <1>5, <1>6, <1>7, <1>8, <1>9, <1>10, Zenon
  DEF CNext, User, Resolve, Reject

(***************************************************************************)
(* The invariant holds of every page.                                      *)
(***************************************************************************)
LEMMA VInvHolds == CSpec => []VInv
<1>1. CInit => VInv
  <2> SUFFICES ASSUME CInit PROVE VInv
    OBVIOUS
  <2>1. FirstView \in Views /\ Len(Received) \in Nat /\ Nothing \in Answers
        /\ Nothing.snapshot = {}
    BY ConsoleAssumption, EventLogAssumption, AnswerFields DEF Nothing
  <2>2. Types
    <3>1. saving \in 0 .. Len(Received) /\ visible \subseteq 1 .. saving
      BY <2>1 DEF CInit, LogInit
    <3>2. requests \subseteq [effect: {1, 2}, answer: Answers]
      BY DEF CInit
    <3> QED
      BY <2>1, <3>1, <3>2, Zenon DEF CInit, Types
  <2>3. GuardInv /\ FreshInv
    BY <2>1 DEF CInit, LogInit, GuardInv, FreshInv, Current
  <2> QED
    BY <2>2, <2>3 DEF VInv
<1> QED
  BY <1>1, StepKeepsVInv, PTL DEF CSpec

(***************************************************************************)
(* Everything a page holds is a view's fetch or all of its answer on one   *)
(* snapshot of the store, and exactly one request of the current effect is *)
(* in flight while its guard is up (usePolling's running).                 *)
(***************************************************************************)
THEOREM TypeCorrect == CSpec => []TypeOK
<1>1. VInv => TypeOK
  <2> SUFFICES ASSUME VInv PROVE TypeOK
    OBVIOUS
  <2>1. {q \in requests : ~Cancelled(q)} = Current
    BY DEF Cancelled, Current
  <2>2. \A q : Cardinality({q}) = 1
    <3> TAKE q
    <3>1. IsFiniteSet({}) /\ Cardinality({}) = 0
      BY FS_EmptySet
    <3>2. Cardinality({} \cup {q}) = 1
      BY <3>1, FS_AddElement
    <3> QED
      BY <3>2
  <2>3. Cardinality(Current) = IF running THEN 1 ELSE 0
    BY <2>2, FS_EmptySet, Zenon DEF VInv, GuardInv
  <2> QED
    BY <2>1, <2>3, Zenon DEF VInv, Types, TypeOK
<1> QED
  BY <1>1, VInvHolds, PTL

(***************************************************************************)
(* No answer overtakes a later one: whatever is slow, fails or is torn     *)
(* down and run again, a mounted page never goes back to an older state of *)
(* the store.                                                              *)
(***************************************************************************)
THEOREM ViewNeverGoesBackHolds == CSpec => ViewNeverGoesBack
<1>1. VInv /\ [CNext]_cvars => [Shown]_cvars
  BY StepKeepsVInv
<1> QED
  BY <1>1, VInvHolds, PTL DEF CSpec, ViewNeverGoesBack, Shown

(***************************************************************************)
(* Every list a page shows is all of ListEvents' answer about one view and *)
(* one snapshot of the store, and so newest first to the second with       *)
(* nothing skipped but by the limit or the scan cap: no page mixes two     *)
(* states of the store or two views, and no fraction, however formatted,   *)
(* puts an event more than its second out of place.                        *)
(***************************************************************************)
THEOREM ShownIsNewestHolds == CSpec => []ShownIsNewest
<1>1. VInv => ShownIsNewest
  <2> SUFFICES ASSUME VInv, data.answered PROVE NewestFirst(data.snapshot, data.view, data.events)
    BY DEF ShownIsNewest
  <2>1. data \in Answers
    BY DEF VInv, Types
  <2>2. PICK v \in Views, S \in SUBSET Ids : data = Answered(v, S)
    BY <2>1, AnswerFields DEF Answers
  <2>3. data.snapshot = S /\ data.view = v /\ data.events = ListEvents(S, v)
    BY <2>2 DEF Answered
  <2>4. v.limit \in Nat \ {0}
    BY ConsoleAssumption
  <2> QED
    BY <2>3, <2>4, ListsNewestFirst
<1> QED
  BY <1>1, VInvHolds, PTL
=============================================================================
