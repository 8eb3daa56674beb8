----------------------------- MODULE AgentProofs -----------------------------
(* The agent's event stream, for any capacities, windows, numbers of events *)
(* and failures: that it is a LossyStreams, what that promises of the       *)
(* order of events, what a clean exit means, which steps lose events, what  *)
(* a lazy transport delivers, and that agent and collector never both wait. *)
EXTENDS Agent, SequenceTheorems, TLAPS

-----------------------------------------------------------------------------
(* Sequences: how the parts of a concatenation are taken apart. *)

(***************************************************************************)
(* Moving the head of one queue to the end of the queue before it leaves   *)
(* the two together as they were.                                          *)
(***************************************************************************)
LEMMA MoveHead ==
    ASSUME NEW S, NEW a \in Seq(S), NEW b \in Seq(S), b # <<>>
    PROVE  Append(a, Head(b)) \o Tail(b) = a \o b
<1> DEFINE l == Append(a, Head(b)) \o Tail(b)
           r == a \o b
<1>1. /\ Len(a) \in Nat /\ Len(b) \in Nat \ {0} /\ Head(b) \in S /\ Head(b) = b[1]
      /\ Tail(b) \in Seq(S) /\ Len(Tail(b)) = Len(b) - 1
      /\ \A i \in 1 .. Len(b) - 1 : Tail(b)[i] = b[i + 1]
  BY EmptySeq, LenProperties, HeadTailProperties
<1>2. /\ Append(a, Head(b)) \in Seq(S) /\ Len(Append(a, Head(b))) = Len(a) + 1
      /\ \A i \in 1 .. Len(a) : Append(a, Head(b))[i] = a[i]
      /\ Append(a, Head(b))[Len(a) + 1] = b[1]
  BY <1>1, AppendProperties
<1>3. /\ l \in Seq(S) /\ Len(l) = Len(a) + Len(b)
      /\ \A i \in 1 .. Len(a) + Len(b) :
            l[i] = IF i <= Len(a) + 1 THEN Append(a, Head(b))[i] ELSE Tail(b)[i - (Len(a) + 1)]
  <2>1. Len(a) + 1 + (Len(b) - 1) = Len(a) + Len(b)
    BY <1>1
  <2> QED
    BY <1>1, <1>2, <2>1, ConcatProperties
<1>4. /\ r \in Seq(S) /\ Len(r) = Len(a) + Len(b)
      /\ \A i \in 1 .. Len(a) + Len(b) : r[i] = IF i <= Len(a) THEN a[i] ELSE b[i - Len(a)]
  BY ConcatProperties
<1> HIDE DEF l, r
<1>5. ASSUME NEW i \in 1 .. Len(l) PROVE l[i] = r[i]
  <2>1. CASE i <= Len(a)
    <3>1. i \in 1 .. Len(a) /\ i <= Len(a) + 1 /\ i \in 1 .. Len(a) + Len(b)
      BY <1>1, <1>3, <2>1
    <3> QED
      BY <1>2, <1>3, <1>4, <3>1
  <2>2. CASE i = Len(a) + 1
    BY <1>1, <1>2, <1>3, <1>4, <2>2
  <2>3. CASE i > Len(a) + 1
    <3>1. /\ i - (Len(a) + 1) \in 1 .. Len(b) - 1
          /\ i - (Len(a) + 1) + 1 = i - Len(a) /\ ~(i <= Len(a) + 1) /\ ~(i <= Len(a))
      BY <1>1, <1>3, <2>3
    <3>2. l[i] = Tail(b)[i - (Len(a) + 1)]
      BY <1>3, <3>1
    <3>3. Tail(b)[i - (Len(a) + 1)] = b[i - (Len(a) + 1) + 1]
      BY <1>1, <3>1
    <3>4. r[i] = b[i - Len(a)]
      BY <1>3, <1>4, <3>1
    <3> QED
      BY <3>1, <3>2, <3>3, <3>4
  <2> QED
    BY <1>1, <1>3, <2>1, <2>2, <2>3
<1>6. l = r
  BY <1>3, <1>4, <1>5, SeqEqual
<1> QED
  BY <1>6 DEF l, r

(***************************************************************************)
(* Appending to the last of two queues.                                    *)
(***************************************************************************)
LEMMA AppendLast ==
    ASSUME NEW S, NEW a \in Seq(S), NEW b \in Seq(S), NEW x \in S
    PROVE  a \o Append(b, x) = Append(a \o b, x)
<1>1. Append(b, x) = b \o <<x>> /\ <<x>> \in Seq(S)
  BY AppendIsConcat
<1>2. a \o b \in Seq(S) /\ Append(a \o b, x) = (a \o b) \o <<x>>
  BY AppendIsConcat, ConcatProperties
<1> QED
  BY <1>1, <1>2, ConcatAssociative

(***************************************************************************)
(* The head of a concatenation is that of its first part, if it has one.   *)
(***************************************************************************)
LEMMA HeadOfConcat ==
    ASSUME NEW S, NEW a \in Seq(S), NEW b \in Seq(S), a # <<>>
    PROVE  a \o b # <<>> /\ Head(a \o b) = Head(a) /\ Tail(a \o b) = Tail(a) \o b
<1>1. /\ Head(a) \in S /\ Tail(a) \in Seq(S) /\ a = <<Head(a)>> \o Tail(a)
      /\ <<Head(a)>> \in Seq(S)
  <2>1. Head(a) \in S /\ Tail(a) \in Seq(S)
    BY HeadTailProperties
  <2>2. Append(<<>>, Head(a)) \o Tail(a) = <<>> \o a /\ <<>> \in Seq(S)
    BY MoveHead, EmptySeq
  <2>3. Append(<<>>, Head(a)) = <<>> \o <<Head(a)>> /\ <<Head(a)>> \in Seq(S)
    BY <2>1, <2>2, AppendIsConcat
  <2> QED
    BY <2>1, <2>2, <2>3, ConcatEmptySeq
<1>2. Tail(a) \o b \in Seq(S) /\ a \o b = <<Head(a)>> \o (Tail(a) \o b)
  BY <1>1, ConcatProperties, ConcatAssociative
<1> DEFINE t == Tail(a) \o b
           c == <<Head(a)>> \o t
<1>3. c \in Seq(S) /\ Len(c) = 1 + Len(t) /\ Len(t) \in Nat /\ c[1] = Head(a)
  BY <1>1, <1>2, ConcatProperties
<1>4. c # <<>> /\ Head(c) = Head(a)
  BY <1>3
<1>5. \A i \in 1 .. Len(t) : c[i + 1] = t[i]
  BY <1>1, <1>2, <1>3, ConcatProperties
<1>6. /\ Tail(c) \in Seq(S) /\ Len(Tail(c)) = Len(t)
      /\ \A i \in 1 .. Len(t) : Tail(c)[i] = c[i + 1]
  <2>1. Len(c) - 1 = Len(t)
    BY <1>3
  <2> QED
    BY <1>3, <1>4, <2>1, HeadTailProperties
<1>7. Tail(c) = t
  <2> HIDE DEF c, t
  <2>1. \A i \in 1 .. Len(t) : Tail(c)[i] = t[i]
    BY <1>5, <1>6
  <2> QED
    BY <1>2, <1>6, <2>1, SeqEqual DEF t
<1> QED
  BY <1>2, <1>4, <1>7

(***************************************************************************)
(* The first part of a concatenation.                                      *)
(***************************************************************************)
LEMMA FirstPart ==
    ASSUME NEW S, NEW a \in Seq(S), NEW b \in Seq(S)
    PROVE  SubSeq(a \o b, 1, Len(a)) = a
<1>1. /\ a \o b \in Seq(S) /\ Len(a \o b) = Len(a) + Len(b) /\ Len(a) \in Nat /\ Len(b) \in Nat
      /\ \A i \in 1 .. Len(a) + Len(b) : (a \o b)[i] = IF i <= Len(a) THEN a[i] ELSE b[i - Len(a)]
  BY ConcatProperties, LenProperties
<1> DEFINE c == a \o b
<1>2. \A i \in 1 .. Len(c) : c[i] \in S
  BY <1>1, ElementOfSeq
<1> HIDE DEF c
<1>3. SubSeq(c, 1, Len(a)) = a
  <2>1. \A i \in 1 .. Len(a) : c[i] \in S
    BY <1>1, <1>2 DEF c
  <2>2. /\ SubSeq(c, 1, Len(a)) \in Seq(S)
        /\ Len(SubSeq(c, 1, Len(a))) = IF 1 <= Len(a) THEN Len(a) - 1 + 1 ELSE 0
        /\ \A i \in 1 .. Len(a) - 1 + 1 : SubSeq(c, 1, Len(a))[i] = c[1 + i - 1]
    BY <1>1, <2>1, SubSeqProperties
  <2>3. Len(SubSeq(c, 1, Len(a))) = Len(a)
    BY <1>1, <2>2
  <2>4. \A i \in 1 .. Len(a) : SubSeq(c, 1, Len(a))[i] = a[i]
    BY <1>1, <2>2 DEF c
  <2> QED
    BY <2>2, <2>3, <2>4, SeqEqual
<1> QED
  BY <1>3 DEF c

(***************************************************************************)
(* The second part of a concatenation.                                     *)
(***************************************************************************)
LEMMA SecondPart ==
    ASSUME NEW S, NEW a \in Seq(S), NEW b \in Seq(S)
    PROVE  SubSeq(a \o b, Len(a) + 1, Len(a \o b)) = b
<1>1. /\ a \o b \in Seq(S) /\ Len(a \o b) = Len(a) + Len(b) /\ Len(a) \in Nat /\ Len(b) \in Nat
      /\ \A i \in 1 .. Len(a) + Len(b) : (a \o b)[i] = IF i <= Len(a) THEN a[i] ELSE b[i - Len(a)]
  BY ConcatProperties, LenProperties
<1> DEFINE c == a \o b
<1>2. \A i \in 1 .. Len(c) : c[i] \in S
  BY <1>1, ElementOfSeq
<1> HIDE DEF c
<1>3. SubSeq(c, Len(a) + 1, Len(c)) = b
  <2> DEFINE u == SubSeq(c, Len(a) + 1, Len(c))
  <2>1. \A i \in Len(a) + 1 .. Len(c) : c[i] \in S
    BY <1>1, <1>2 DEF c
  <2>2. /\ u \in Seq(S)
        /\ Len(u) = IF Len(a) + 1 <= Len(c) THEN Len(c) - (Len(a) + 1) + 1 ELSE 0
        /\ \A i \in 1 .. Len(c) - (Len(a) + 1) + 1 : u[i] = c[Len(a) + 1 + i - 1]
    BY <1>1, <2>1, SubSeqProperties DEF c
  <2> HIDE DEF u
  <2>3. Len(u) = Len(b) /\ Len(c) - (Len(a) + 1) + 1 = Len(b)
    BY <1>1, <2>2 DEF c
  <2>4. ASSUME NEW i \in 1 .. Len(b) PROVE u[i] = b[i]
    <3>1. u[i] = c[Len(a) + i]
      <4>1. Len(a) + 1 + i - 1 = Len(a) + i
        BY <1>1
      <4>2. i \in 1 .. Len(c) - (Len(a) + 1) + 1
        BY <2>3
      <4>3. u[i] = c[Len(a) + 1 + i - 1]
        BY <2>2, <4>2
      <4> QED
        BY <4>1, <4>3
    <3>2. /\ Len(a) + i \in 1 .. Len(a) + Len(b) /\ ~(Len(a) + i <= Len(a))
          /\ Len(a) + i - Len(a) = i
      BY <1>1
    <3> QED
      BY <1>1, <3>1, <3>2 DEF c
  <2> QED
    BY <2>2, <2>3, <2>4, SeqEqual DEF u
<1> QED
  BY <1>3 DEF c

(***************************************************************************)
(* The second part of a concatenation without its head.                    *)
(***************************************************************************)
LEMMA SecondPartTail ==
    ASSUME NEW S, NEW a \in Seq(S), NEW b \in Seq(S), b # <<>>
    PROVE  SubSeq(a \o b, Len(a) + 2, Len(a \o b)) = Tail(b)
<1>1. /\ a \o b \in Seq(S) /\ Len(a \o b) = Len(a) + Len(b) /\ Len(a) \in Nat /\ Len(b) \in Nat
      /\ \A i \in 1 .. Len(a) + Len(b) : (a \o b)[i] = IF i <= Len(a) THEN a[i] ELSE b[i - Len(a)]
  BY ConcatProperties, LenProperties
<1> DEFINE c == a \o b
<1>2. \A i \in 1 .. Len(c) : c[i] \in S
  BY <1>1, ElementOfSeq
<1> HIDE DEF c
<1>3. SubSeq(c, Len(a) + 2, Len(c)) = Tail(b)
  <2> DEFINE u == SubSeq(c, Len(a) + 2, Len(c))
  <2>0. /\ Tail(b) \in Seq(S) /\ Len(Tail(b)) = Len(b) - 1 /\ Len(b) \in Nat \ {0}
        /\ \A i \in 1 .. Len(b) - 1 : Tail(b)[i] = b[i + 1]
    BY EmptySeq, HeadTailProperties
  <2>1. \A i \in Len(a) + 2 .. Len(c) : c[i] \in S
    BY <1>1, <1>2 DEF c
  <2>2. /\ u \in Seq(S)
        /\ Len(u) = IF Len(a) + 2 <= Len(c) THEN Len(c) - (Len(a) + 2) + 1 ELSE 0
        /\ \A i \in 1 .. Len(c) - (Len(a) + 2) + 1 : u[i] = c[Len(a) + 2 + i - 1]
    BY <1>1, <2>1, SubSeqProperties DEF c
  <2> HIDE DEF u
  <2>3. Len(u) = Len(b) - 1 /\ Len(c) - (Len(a) + 2) + 1 = Len(b) - 1
    <3>1. Len(c) = Len(a) + Len(b)
      BY <1>1 DEF c
    <3>2. Len(c) - (Len(a) + 2) + 1 = Len(b) - 1
      BY <1>1, <3>1
    <3>3. Len(a) + 2 <= Len(c) \/ Len(b) - 1 = 0
      BY <1>1, <2>0, <3>1
    <3>4. Len(a) + 2 <= Len(c) => Len(u) = Len(b) - 1
      BY <2>2, <3>2
    <3>5. ~(Len(a) + 2 <= Len(c)) => Len(u) = 0
      BY <2>2
    <3> QED
      BY <3>2, <3>3, <3>4, <3>5
  <2>4. ASSUME NEW i \in 1 .. Len(b) - 1 PROVE u[i] = Tail(b)[i]
    <3>1. u[i] = c[Len(a) + i + 1]
      <4>1. Len(a) + 2 + i - 1 = Len(a) + i + 1
        BY <1>1
      <4>2. i \in 1 .. Len(c) - (Len(a) + 2) + 1
        BY <2>3
      <4>3. u[i] = c[Len(a) + 2 + i - 1]
        BY <2>2, <4>2
      <4> QED
        BY <4>1, <4>3
    <3>2. /\ Len(a) + i + 1 \in 1 .. Len(a) + Len(b) /\ ~(Len(a) + i + 1 <= Len(a))
          /\ Len(a) + i + 1 - Len(a) = i + 1
      BY <1>1
    <3> QED
      BY <1>1, <2>0, <3>1, <3>2 DEF c
  <2> QED
    BY <2>0, <2>2, <2>3, <2>4, SeqEqual DEF u
<1> QED
  BY <1>3 DEF c

-----------------------------------------------------------------------------
(* The order of events on one of the LossyStreams. *)

(***************************************************************************)
(* Of n events numbered in the order of the source, d are delivered and q  *)
(* are on their way: both are in order, and d older than q.                *)
(***************************************************************************)
Ordered(n, q, d) ==
    /\ n \in Nat /\ q \in Seq(Nat) /\ d \in Seq(Nat)
    /\ \A i, j \in 1 .. Len(q) : i < j => q[i] < q[j]
    /\ \A i, j \in 1 .. Len(d) : i < j => d[i] < d[j]
    /\ \A i \in 1 .. Len(d), j \in 1 .. Len(q) : d[i] < q[j]
    /\ \A i \in 1 .. Len(q) : q[i] <= n
    /\ \A i \in 1 .. Len(d) : d[i] <= n

(***************************************************************************)
(* An accepted event is newer than everything queued and delivered.        *)
(***************************************************************************)
LEMMA AcceptKeeps ==
    ASSUME NEW n, NEW q, NEW d, Ordered(n, q, d), NEW p, p = Append(q, n + 1)
    PROVE  Ordered(n + 1, p, d)
<1>1. /\ (n + 1) \in Nat /\ p \in Seq(Nat) /\ d \in Seq(Nat)
      /\ Len(p) = Len(q) + 1 /\ p[Len(q) + 1] = n + 1
      /\ \A i \in 1 .. Len(q) : p[i] = q[i]
      /\ Len(q) \in Nat /\ d = d /\ (n + 1) = n + 1
  BY DEF Ordered
<1>2. \A i \in 1 .. Len(q) : q[i] \in Nat
  BY DEF Ordered
<1>3. \A i \in 1 .. Len(d) : d[i] \in Nat
  BY DEF Ordered
<1>n. \A i \in 1 .. Len(p) :
         \/ i \in 1 .. Len(q) /\ p[i] = q[i] /\ q[i] <= n
         \/ i = Len(q) + 1 /\ p[i] = n + 1
  <2> TAKE i \in 1 .. Len(p)
  <2>1. CASE i \in 1 .. Len(q)
    BY <1>1, <2>1 DEF Ordered
  <2>2. CASE i = Len(q) + 1
    BY <1>1, <2>2
  <2> QED
    BY <1>1, <2>1, <2>2
<1>4. ASSUME NEW i \in 1 .. Len(p), NEW j \in 1 .. Len(p), i < j
      PROVE  p[i] < p[j]
  <2>1. i \in 1 .. Len(q) /\ p[i] = q[i] /\ q[i] <= n
    BY <1>1, <1>n, <1>4
  <2>2. CASE j \in 1 .. Len(q)
    BY <1>1, <1>4, <2>1, <2>2 DEF Ordered
  <2>3. CASE j = Len(q) + 1
    BY <1>1, <1>2, <2>1, <2>3 DEF Ordered
  <2> QED
    BY <1>n, <2>2, <2>3
<1>5. ASSUME NEW i \in 1 .. Len(d), NEW j \in 1 .. Len(p)
      PROVE  d[i] < p[j]
  <2>2. CASE j \in 1 .. Len(q)
    BY <1>1, <2>2 DEF Ordered
  <2>3. CASE j = Len(q) + 1
    BY <1>1, <1>3, <2>3 DEF Ordered
  <2> QED
    BY <1>n, <2>2, <2>3
<1>6. \A i \in 1 .. Len(p) : p[i] <= (n + 1)
  <2> TAKE i \in 1 .. Len(p)
  <2>1. CASE i \in 1 .. Len(q)
    <3>1. p[i] = q[i] /\ q[i] \in Nat /\ q[i] <= n /\ n \in Nat
      BY <1>1, <1>2, <2>1 DEF Ordered
    <3> QED
      BY <1>1, <3>1
  <2>2. CASE i = Len(q) + 1
    <3>1. p[i] = (n + 1)
      BY <1>1, <2>2
    <3> QED
      BY <1>1, <3>1
  <2> QED
    BY <1>n, <2>1, <2>2
<1>7. \A i \in 1 .. Len(d) : d[i] <= (n + 1)
  BY <1>1, <1>3 DEF Ordered
<1> QED
  BY <1>1, <1>4, <1>5, <1>6, <1>7 DEF Ordered

(***************************************************************************)
(* The head of the queue is newer than everything delivered before it.     *)
(***************************************************************************)
LEMMA DeliverKeeps ==
    ASSUME NEW n, NEW q, NEW d, Ordered(n, q, d), q # <<>>,
           NEW p, p = Tail(q), NEW e, e = Append(d, Head(q))
    PROVE  Ordered(n, p, e)
<1>0. q \in Seq(Nat) /\ q # <<>> /\ d \in Seq(Nat)
  BY DEF Ordered
<1>1. /\ Len(q) \in Nat \ {0} /\ Head(q) = q[1] /\ q[1] \in Nat
      /\ Tail(q) \in Seq(Nat) /\ Len(Tail(q)) = Len(q) - 1
      /\ \A i \in 1 .. Len(q) - 1 : Tail(q)[i] = q[i + 1]
  BY <1>0
<1>2. /\ e \in Seq(Nat) /\ Len(e) = Len(d) + 1
      /\ e[Len(d) + 1] = q[1] /\ Len(d) \in Nat
      /\ \A i \in 1 .. Len(d) : e[i] = d[i]
  BY <1>0, <1>1
<1>3. p = Tail(q) /\ n = n /\ n \in Nat
  BY DEF Ordered
<1>4. \A i, j \in 1 .. Len(p) : i < j => p[i] < p[j]
  BY <1>1, <1>3 DEF Ordered
<1>n. \A i \in 1 .. Len(e) :
         \/ i \in 1 .. Len(d) /\ e[i] = d[i] /\ d[i] < q[1]
         \/ i = Len(d) + 1 /\ e[i] = q[1]
  <2> TAKE i \in 1 .. Len(e)
  <2>1. CASE i \in 1 .. Len(d)
    <3>1. e[i] = d[i] /\ 1 \in 1 .. Len(q)
      BY <1>1, <1>2, <2>1
    <3>2. d[i] < q[1]
      BY <2>1, <3>1 DEF Ordered
    <3> QED
      BY <2>1, <3>1, <3>2
  <2>2. CASE i = Len(d) + 1
    BY <1>2, <2>2
  <2> QED
    BY <1>2, <2>1, <2>2
<1>5. ASSUME NEW i \in 1 .. Len(e), NEW j \in 1 .. Len(e), i < j
      PROVE  e[i] < e[j]
  <2>1. i \in 1 .. Len(d) /\ e[i] = d[i] /\ d[i] < q[1]
    BY <1>2, <1>n, <1>5
  <2>2. CASE j \in 1 .. Len(d)
    BY <1>2, <1>5, <2>1, <2>2 DEF Ordered
  <2>3. CASE j = Len(d) + 1
    BY <1>2, <2>1, <2>3
  <2> QED
    BY <1>n, <2>2, <2>3
<1>6. ASSUME NEW i \in 1 .. Len(e), NEW j \in 1 .. Len(p)
      PROVE  e[i] < p[j]
  <2>1. j + 1 \in 1 .. Len(q) /\ 1 \in 1 .. Len(q) /\ p[j] = q[j + 1]
    BY <1>1, <1>3
  <2>2. q[1] < q[j + 1]
    BY <1>1, <2>1 DEF Ordered
  <2>3. CASE i \in 1 .. Len(d)
    BY <1>2, <2>1, <2>3 DEF Ordered
  <2>4. CASE i = Len(d) + 1
    BY <1>2, <2>1, <2>2, <2>4
  <2> QED
    BY <1>n, <2>3, <2>4
<1>7. \A i \in 1 .. Len(p) : p[i] <= n
  BY <1>1, <1>3 DEF Ordered
<1>8. \A i \in 1 .. Len(e) : e[i] <= n
  <2> TAKE i \in 1 .. Len(e)
  <2>1. CASE i \in 1 .. Len(d)
    BY <1>2, <1>3, <2>1 DEF Ordered
  <2>2. CASE i = Len(d) + 1
    BY <1>1, <1>2, <1>3, <2>2 DEF Ordered
  <2> QED
    BY <1>n, <2>1, <2>2
<1> QED
  BY <1>1, <1>2, <1>3, <1>4, <1>5, <1>6, <1>7, <1>8 DEF Ordered

(***************************************************************************)
(* p is q with some of its elements taken out: f says where each one that  *)
(* is left was before.                                                     *)
(***************************************************************************)
Thinned(q, p) ==
    /\ p \in Seq(Nat)
    /\ \E f \in [1 .. Len(p) -> 1 .. Len(q)] :
          /\ \A i, j \in 1 .. Len(p) : i < j => f[i] < f[j]
          /\ \A i \in 1 .. Len(p) : p[i] = q[f[i]]

(***************************************************************************)
(* Taking events out of the queue keeps the order of the others.           *)
(***************************************************************************)
LEMMA ThinningKeeps ==
    ASSUME NEW n, NEW q, NEW d, Ordered(n, q, d), NEW p, Thinned(q, p)
    PROVE  Ordered(n, p, d)
<1>0. PICK f \in [1 .. Len(p) -> 1 .. Len(q)] :
         /\ \A i, j \in 1 .. Len(p) : i < j => f[i] < f[j]
         /\ \A i \in 1 .. Len(p) : p[i] = q[f[i]]
  BY DEF Thinned
<1>1. \A i \in 1 .. Len(p) : f[i] \in 1 .. Len(q)
  OBVIOUS
<1>2. ASSUME NEW i \in 1 .. Len(p), NEW j \in 1 .. Len(p), i < j
      PROVE  p[i] < p[j]
  <2>1. q[f[i]] < q[f[j]]
    BY <1>0, <1>1, <1>2 DEF Ordered
  <2> QED
    BY <1>0, <2>1
<1>3. ASSUME NEW i \in 1 .. Len(d), NEW j \in 1 .. Len(p)
      PROVE  d[i] < p[j]
  <2>1. d[i] < q[f[j]]
    BY <1>1 DEF Ordered
  <2> QED
    BY <1>0, <2>1
<1>4. ASSUME NEW i \in 1 .. Len(p) PROVE p[i] <= n
  <2>1. q[f[i]] <= n
    BY <1>1 DEF Ordered
  <2> QED
    BY <1>0, <2>1
<1> QED
  BY <1>2, <1>3, <1>4 DEF Ordered, Thinned

(***************************************************************************)
(* A sequence without its first k elements, as a loss leaves it.           *)
(***************************************************************************)
LEMMA SuffixThins ==
    ASSUME NEW s \in Seq(Nat), NEW k \in 1 .. Len(s)
    PROVE  Thinned(s, SubSeq(s, k + 1, Len(s)))
<1> DEFINE t == SubSeq(s, k + 1, Len(s))
<1>1. t \in Seq(Nat)
  OBVIOUS
<1>2. Len(t) = Len(s) - k /\ Len(s) \in Nat
  OBVIOUS
<1>3. \A i \in 1 .. Len(s) - k : t[i] = s[i + k]
  OBVIOUS
<1> HIDE DEF t
<1> DEFINE f == [i \in 1 .. Len(t) |-> i + k]
<1>4. f \in [1 .. Len(t) -> 1 .. Len(s)]
  <2>1. \A i \in 1 .. Len(t) : i + k \in 1 .. Len(s)
    BY <1>2
  <2> QED
    BY <2>1
<1>5. \A i, j \in 1 .. Len(t) : i < j => f[i] < f[j]
  BY <1>2
<1>6. \A i \in 1 .. Len(t) : t[i] = s[f[i]]
  BY <1>2, <1>3
<1> HIDE DEF f
<1>7. Thinned(s, t)
  BY <1>1, <1>4, <1>5, <1>6 DEF Thinned
<1> QED
  BY <1>7 DEF t

(***************************************************************************)
(* The first k elements of a sequence, which is what Close leaves.         *)
(***************************************************************************)
LEMMA PrefixThins ==
    ASSUME NEW s \in Seq(Nat), NEW k \in 0 .. Len(s)
    PROVE  Thinned(s, SubSeq(s, 1, k))
<1> DEFINE t == SubSeq(s, 1, k)
<1>1. t \in Seq(Nat) /\ Len(t) = k /\ \A i \in 1 .. k : t[i] = s[i]
  OBVIOUS
<1> HIDE DEF t
<1> DEFINE f == [i \in 1 .. Len(t) |-> i]
<1>2. f \in [1 .. Len(t) -> 1 .. Len(s)]
  <2>1. \A i \in 1 .. Len(t) : i \in 1 .. Len(s)
    BY <1>1
  <2> QED
    BY <2>1
<1>3. \A i, j \in 1 .. Len(t) : i < j => f[i] < f[j]
  OBVIOUS
<1>4. \A i \in 1 .. Len(t) : t[i] = s[f[i]]
  BY <1>1
<1> HIDE DEF f
<1>5. Thinned(s, t)
  BY <1>1, <1>2, <1>3, <1>4 DEF Thinned
<1> QED
  BY <1>5 DEF t

(***************************************************************************)
(* A sequence without its k-th element, as a drop leaves it.               *)
(***************************************************************************)
LEMMA RemovalThins ==
    ASSUME NEW s \in Seq(Nat), NEW k \in 1 .. Len(s)
    PROVE  Thinned(s, SubSeq(s, 1, k - 1) \o SubSeq(s, k + 1, Len(s)))
<1> DEFINE a == SubSeq(s, 1, k - 1)
           b == SubSeq(s, k + 1, Len(s))
           t == a \o b
<1>1. a \in Seq(Nat) /\ Len(a) = k - 1 /\ \A i \in 1 .. k - 1 : a[i] = s[i]
  OBVIOUS
<1>2. b \in Seq(Nat)
  OBVIOUS
<1>3. Len(b) = Len(s) - k
  OBVIOUS
<1>4. \A i \in 1 .. Len(s) - k : b[i] = s[i + k]
  OBVIOUS
<1> HIDE DEF a, b
<1>5. /\ t \in Seq(Nat) /\ Len(t) = Len(a) + Len(b)
      /\ \A i \in 1 .. Len(a) + Len(b) : t[i] = IF i <= Len(a) THEN a[i] ELSE b[i - Len(a)]
  BY <1>1, <1>2, ConcatProperties, Zenon
<1> HIDE DEF t
<1>6. Len(s) \in Nat /\ k \in Nat /\ 1 <= k
  OBVIOUS
<1>7. Len(t) = Len(s) - 1
  BY <1>1, <1>3, <1>5, <1>6
<1>8. ASSUME NEW i \in 1 .. Len(s) - 1, i < k PROVE t[i] = s[i]
  <2>1. i \in 1 .. Len(a) + Len(b) /\ i <= Len(a) /\ i \in 1 .. k - 1
    BY <1>1, <1>3, <1>6, <1>8
  <2>2. t[i] = a[i]
    BY <1>5, <2>1
  <2> QED
    BY <1>1, <2>1, <2>2
<1>9. ASSUME NEW i \in 1 .. Len(s) - 1, i >= k PROVE t[i] = s[i + 1]
  <2>1. i - (k - 1) \in 1 .. Len(s) - k /\ i - (k - 1) + k = i + 1
    BY <1>6, <1>9
  <2>2. i \in 1 .. Len(a) + Len(b) /\ ~(i <= Len(a)) /\ i - Len(a) = i - (k - 1)
    BY <1>1, <1>3, <1>6, <1>9
  <2>3. t[i] = b[i - Len(a)]
    BY <1>5, <2>2
  <2>4. b[i - (k - 1)] = s[i - (k - 1) + k]
    BY <1>4, <2>1
  <2> QED
    BY <2>1, <2>2, <2>3, <2>4
<1> DEFINE f == [i \in 1 .. Len(t) |-> IF i < k THEN i ELSE i + 1]
<1>10. f \in [1 .. Len(t) -> 1 .. Len(s)]
  <2>1. \A i \in 1 .. Len(t) : (IF i < k THEN i ELSE i + 1) \in 1 .. Len(s)
    <3> TAKE i \in 1 .. Len(t)
    <3>1. i \in Int /\ 1 <= i /\ i + 1 <= Len(s)
      BY <1>6, <1>7
    <3>2. i \in 1 .. Len(s) /\ i + 1 \in 1 .. Len(s)
      BY <1>6, <3>1
    <3> QED
      BY <3>2
  <2> QED
    BY <2>1
<1>11. \A i, j \in 1 .. Len(t) : i < j => f[i] < f[j]
  <2> TAKE i, j \in 1 .. Len(t)
  <2>1. /\ f[i] = IF i < k THEN i ELSE i + 1
        /\ f[j] = IF j < k THEN j ELSE j + 1
    OBVIOUS
  <2>2. i \in Int /\ j \in Int /\ k \in Int
    BY <1>6
  <2> HIDE DEF f
  <2>3. i < j => (IF i < k THEN i ELSE i + 1) < (IF j < k THEN j ELSE j + 1)
    BY <2>2
  <2> QED
    BY <2>1, <2>3
<1>12. \A i \in 1 .. Len(t) : t[i] = s[f[i]]
  <2> TAKE i \in 1 .. Len(t)
  <2>1. i \in 1 .. Len(s) - 1
    BY <1>6, <1>7
  <2>2. f[i] = IF i < k THEN i ELSE i + 1
    OBVIOUS
  <2> HIDE DEF f
  <2>3. CASE i < k
    BY <1>8, <2>1, <2>2, <2>3
  <2>4. CASE ~(i < k)
    <3>1. i >= k
      BY <1>6, <2>1, <2>4
    <3> QED
      BY <1>9, <2>1, <2>2, <2>4, <3>1
  <2> QED
    BY <2>3, <2>4
<1> HIDE DEF f
<1>13. Thinned(s, t)
  BY <1>5, <1>10, <1>11, <1>12 DEF Thinned
<1> QED
  BY <1>13 DEF t, a, b

-----------------------------------------------------------------------------
(* The order of events across streams. *)

\* The events of a stream, on their way and delivered.
Events(q, d) == Elements(q) \cup Elements(d)

(***************************************************************************)
(* Each stream is in order, and its events are older than those of the     *)
(* streams after it.                                                       *)
(***************************************************************************)
StreamsOrdered(n, Q, D) ==
    /\ Q \in Seq(Seq(Nat)) /\ D \in Seq(Seq(Nat))
    /\ Len(Q) = Len(D) /\ Len(Q) \in Nat \ {0}
    /\ \A s \in 1 .. Len(Q) : Ordered(n, Q[s], D[s])
    /\ \A s, t \in 1 .. Len(Q) : s < t =>
          \A x \in Events(Q[s], D[s]), y \in Events(Q[t], D[t]) : x < y

(***************************************************************************)
(* What a stream holds is at most the number of the newest event.          *)
(***************************************************************************)
LEMMA EventsBounded ==
    ASSUME NEW n, NEW q, NEW d, Ordered(n, q, d)
    PROVE  \A x \in Events(q, d) : x \in Nat /\ x <= n
<1>1. \A x \in Elements(q) : x \in Nat /\ x <= n
  BY DEF Ordered, Elements
<1>2. \A x \in Elements(d) : x \in Nat /\ x <= n
  BY DEF Ordered, Elements
<1> QED
  BY <1>1, <1>2 DEF Events

(***************************************************************************)
(* Delivering an event, or losing some, adds none to the stream.           *)
(***************************************************************************)
LEMMA DeliverAddsNone ==
    ASSUME NEW q \in Seq(Nat), NEW d \in Seq(Nat), q # <<>>
    PROVE  Events(Tail(q), Append(d, Head(q))) \subseteq Events(q, d)
<1>1. \A x \in Elements(Tail(q)) : x \in Elements(q)
  BY DEF Elements
<1>2. \A x \in Elements(Append(d, Head(q))) : x \in Elements(d) \/ x = Head(q)
  BY DEF Elements
<1>3. Head(q) \in Elements(q)
  BY DEF Elements
<1> QED
  BY <1>1, <1>2, <1>3 DEF Events

(***************************************************************************)
(* A queue that only loses events (a drop at a full rx, a connection that  *)
(* breaks) holds none it did not hold before.                              *)
(***************************************************************************)
LEMMA ThinnedElements ==
    ASSUME NEW q \in Seq(Nat), NEW p, Thinned(q, p)
    PROVE  Elements(p) \subseteq Elements(q)
<1>1. PICK f \in [1 .. Len(p) -> 1 .. Len(q)] : \A i \in 1 .. Len(p) : p[i] = q[f[i]]
  BY DEF Thinned
<1>2. DOMAIN p = 1 .. Len(p) /\ DOMAIN q = 1 .. Len(q)
  BY DEF Thinned
<1> QED
  BY <1>1, <1>2 DEF Elements

(***************************************************************************)
(* Nor does a stream that only loses events, with what it has delivered.   *)
(***************************************************************************)
LEMMA ThinningAddsNone ==
    ASSUME NEW q \in Seq(Nat), NEW p, Thinned(q, p), NEW d
    PROVE  Events(p, d) \subseteq Events(q, d)
BY ThinnedElements DEF Events

(***************************************************************************)
(* A step that changes one stream, keeps it in order and adds no event to  *)
(* it leaves the streams in order.                                         *)
(***************************************************************************)
LEMMA StreamKeeps ==
    ASSUME NEW n, NEW Q, NEW D, StreamsOrdered(n, Q, D), NEW s \in 1 .. Len(Q),
           NEW p, NEW e, Ordered(n, p, e), Events(p, e) \subseteq Events(Q[s], D[s])
    PROVE  StreamsOrdered(n, [Q EXCEPT ![s] = p], [D EXCEPT ![s] = e])
<1> DEFINE P == [Q EXCEPT ![s] = p]
           E == [D EXCEPT ![s] = e]
<1>1. p \in Seq(Nat) /\ e \in Seq(Nat)
  BY DEF Ordered
<1>2. /\ P \in Seq(Seq(Nat)) /\ Len(P) = Len(Q) /\ P[s] = p
      /\ \A t \in 1 .. Len(Q) : t # s => P[t] = Q[t]
  BY <1>1 DEF StreamsOrdered
<1>3. /\ E \in Seq(Seq(Nat)) /\ Len(E) = Len(Q) /\ E[s] = e
      /\ \A t \in 1 .. Len(Q) : t # s => E[t] = D[t]
  BY <1>1 DEF StreamsOrdered
<1> HIDE DEF P, E
<1>4. \A t \in 1 .. Len(P) : Ordered(n, P[t], E[t])
  BY <1>2, <1>3 DEF StreamsOrdered
<1>5. \A t \in 1 .. Len(P) : Events(P[t], E[t]) \subseteq Events(Q[t], D[t])
  BY <1>2, <1>3
<1>6. \A t, u \in 1 .. Len(P) : t < u =>
         \A x \in Events(P[t], E[t]), y \in Events(P[u], E[u]) : x < y
  BY <1>2, <1>5 DEF StreamsOrdered
<1>7. StreamsOrdered(n, P, E)
  BY <1>2, <1>3, <1>4, <1>6 DEF StreamsOrdered
<1> QED
  BY <1>7 DEF P, E

(***************************************************************************)
(* So does one that takes events out of a stream.                          *)
(***************************************************************************)
LEMMA LossKeeps ==
    ASSUME NEW n, NEW Q, NEW D, StreamsOrdered(n, Q, D), NEW s \in 1 .. Len(Q),
           NEW p, Thinned(Q[s], p)
    PROVE  StreamsOrdered(n, [Q EXCEPT ![s] = p], D)
<1>1. Ordered(n, Q[s], D[s]) /\ D \in Seq(Seq(Nat)) /\ s \in 1 .. Len(D)
  BY DEF StreamsOrdered
<1>2. Ordered(n, p, D[s])
  BY <1>1, ThinningKeeps
<1>3. Events(p, D[s]) \subseteq Events(Q[s], D[s])
  <2>1. Q[s] \in Seq(Nat)
    BY <1>1 DEF Ordered
  <2> QED
    BY <2>1, ThinningAddsNone
<1>4. StreamsOrdered(n, [Q EXCEPT ![s] = p], [D EXCEPT ![s] = D[s]])
  BY <1>2, <1>3, StreamKeeps
<1>5. [D EXCEPT ![s] = D[s]] = D
  BY <1>1
<1> QED
  BY <1>4, <1>5

(***************************************************************************)
(* A new event, on the last stream or on none, is newer than all others.   *)
(***************************************************************************)
LEMMA NewEventKeeps ==
    ASSUME NEW n, NEW Q, NEW D, StreamsOrdered(n, Q, D)
    PROVE  /\ StreamsOrdered(n + 1, Q, D)
           /\ StreamsOrdered(n + 1, [Q EXCEPT ![Len(Q)] = Append(Q[Len(Q)], n + 1)], D)
<1> DEFINE m == Len(Q)
           p == Append(Q[m], n + 1)
           P == [Q EXCEPT ![m] = p]
<1>1. /\ m \in 1 .. Len(Q) /\ m \in Nat /\ \A s \in 1 .. Len(Q) : s <= m
      /\ Q \in Seq(Seq(Nat)) /\ \A s \in 1 .. Len(Q) : Ordered(n, Q[s], D[s])
  BY DEF StreamsOrdered
<1>2. Ordered(n + 1, p, D[m])
  BY <1>1, AcceptKeeps
<1>3. \A s \in 1 .. Len(Q) : Ordered(n + 1, Q[s], D[s])
  <2> TAKE s \in 1 .. Len(Q)
  <2>1. Ordered(n, Q[s], D[s])
    BY <1>1
  <2> QED
    BY <2>1 DEF Ordered
<1>4. StreamsOrdered(n + 1, Q, D)
  BY <1>3 DEF StreamsOrdered
<1>5. p \in Seq(Nat) /\ n \in Nat
  BY <1>1, <1>2 DEF Ordered
<1>6. Events(p, D[m]) \subseteq Events(Q[m], D[m]) \cup {n + 1}
  <2>1. Q[m] \in Seq(Nat)
    BY <1>1 DEF Ordered
  <2>2. \A x \in Elements(p) : x \in Elements(Q[m]) \/ x = n + 1
    BY <2>1, <1>5 DEF Elements
  <2> QED
    BY <2>2 DEF Events
<1> HIDE DEF p
<1>7. /\ P \in Seq(Seq(Nat)) /\ Len(P) = Len(Q) /\ P[m] = p
      /\ \A t \in 1 .. Len(Q) : t # m => P[t] = Q[t]
  BY <1>1, <1>5
<1> HIDE DEF P, m
<1>8. \A s \in 1 .. Len(P) : Ordered(n + 1, P[s], D[s])
  BY <1>2, <1>3, <1>7
<1>9. ASSUME NEW s \in 1 .. Len(P), NEW t \in 1 .. Len(P), s < t,
             NEW x \in Events(P[s], D[s]), NEW y \in Events(P[t], D[t])
      PROVE  x < y
  <2>1. s # m /\ P[s] = Q[s] /\ x \in Events(Q[s], D[s])
    BY <1>1, <1>7, <1>9
  <2>2. CASE y \in Events(Q[t], D[t])
    BY <1>7, <1>9, <2>1, <2>2 DEF StreamsOrdered
  <2>3. CASE y = n + 1
    <3>1. x \in Nat /\ x <= n
      BY <1>1, <1>7, <2>1, EventsBounded
    <3> QED
      BY <1>5, <2>3, <3>1
  <2>4. y \in Events(Q[t], D[t]) \/ y = n + 1
    BY <1>6, <1>7, <1>9
  <2> QED
    BY <2>2, <2>3, <2>4
<1>10. StreamsOrdered(n + 1, P, D)
  BY <1>7, <1>8, <1>9 DEF StreamsOrdered
<1> QED
  BY <1>4, <1>10 DEF P, p, m

(***************************************************************************)
(* A stream that is given up keeps events older than those that go on.     *)
(***************************************************************************)
LEMMA GiveUpKeeps ==
    ASSUME NEW n, NEW Q, NEW D, StreamsOrdered(n, Q, D), NEW m, m = Len(Q),
           NEW k \in 1 .. Len(Q[m]), NEW i \in 1 .. Len(Q[m]), i <= k,
           NEW a, a = SubSeq(Q[m], 1, i), NEW b, b = SubSeq(Q[m], k + 1, Len(Q[m]))
    PROVE  StreamsOrdered(n, Append([Q EXCEPT ![m] = a], b), Append(D, <<>>))
<1> DEFINE q == Q[m]
           P == [Q EXCEPT ![m] = a]
           R == Append(P, b)
           E == Append(D, <<>>)
<1>0. m \in 1 .. Len(Q) /\ m \in Nat \ {0} /\ D \in Seq(Seq(Nat)) /\ Len(D) = m
  BY DEF StreamsOrdered
<1>1. /\ m \in 1 .. Len(Q) /\ m \in Nat \ {0} /\ Ordered(n, q, D[m]) /\ q \in Seq(Nat) /\ n \in Nat
      /\ D \in Seq(Seq(Nat)) /\ Len(D) = m /\ Len(q) \in Nat /\ D[m] \in Seq(Nat)
  <2>1. Ordered(n, q, D[m])
    BY <1>0 DEF StreamsOrdered
  <2> QED
    BY <1>0, <2>1, LenProperties DEF Ordered
<1>2. Thinned(q, a) /\ Thinned(q, b)
  <2>1. i \in 0 .. Len(q)
    BY <1>1
  <2> QED
    BY <1>1, <2>1, PrefixThins, SuffixThins
<1>3. StreamsOrdered(n, P, D)
  BY <1>1, <1>2, LossKeeps
<1>4. Ordered(n, b, <<>>)
  <2>1. Ordered(n, b, D[m])
    BY <1>1, <1>2, ThinningKeeps
  <2>2. <<>> \in Seq(Nat) /\ Len(<<>>) = 0 /\ 1 .. 0 = {}
    BY EmptySeq
  <2> QED
    BY <2>1, <2>2 DEF Ordered
<1>5. \A x \in Events(a, D[m]), y \in Events(b, <<>>) : x < y
  <2> TAKE x \in Events(a, D[m]), y \in Events(b, <<>>)
  <2>1. PICK v \in k + 1 .. Len(q) : y = q[v]
    <3>1. DOMAIN <<>> = {}
      OBVIOUS
    <3>2. PICK u \in DOMAIN b : y = b[u]
      BY <3>1 DEF Events, Elements
    <3>3. /\ DOMAIN b = 1 .. Len(q) - k /\ k \in Int
          /\ \A v \in 1 .. Len(q) - k : b[v] = q[k + v]
      BY <1>1
    <3>4. u + k \in k + 1 .. Len(q) /\ u \in 1 .. Len(q) - k /\ k + u = u + k
      <4>1. u \in 1 .. Len(q) - k /\ k \in Int /\ Len(q) \in Int
        BY <1>1, <3>2, <3>3
      <4> HIDE DEF q
      <4> QED
        BY <4>1
    <3>5. b[u] = q[u + k]
      BY <3>3, <3>4
    <3> QED
      BY <3>2, <3>4, <3>5
  <2>2. CASE x \in Elements(D[m])
    <3>1. PICK u \in 1 .. Len(D[m]) : x = D[m][u]
      <4>1. DOMAIN D[m] = 1 .. Len(D[m])
        BY <1>1
      <4> QED
        BY <2>2, <4>1 DEF Elements
    <3>2. v \in 1 .. Len(q)
      BY <1>1, <2>1
    <3> QED
      BY <1>1, <2>1, <3>1, <3>2 DEF Ordered
  <2>3. CASE x \in Elements(a)
    <3>1. PICK u \in 1 .. i : x = q[u]
      BY <1>1, <2>3 DEF Elements
    <3>2. u \in 1 .. Len(q) /\ v \in 1 .. Len(q) /\ u < v
      <4>1. Len(q) \in Nat /\ k \in 1 .. Len(q) /\ i \in 1 .. Len(q)
        BY <1>1
      <4> HIDE DEF q
      <4> QED
        BY <2>1, <3>1, <4>1
    <3> QED
      BY <1>1, <2>1, <3>1, <3>2 DEF Ordered
  <2> QED
    BY <2>2, <2>3 DEF Events
<1>6. Elements(b) \subseteq Elements(q)
  BY <1>1, <1>2, ThinnedElements
<1>7. \A s \in 1 .. m - 1 : \A x \in Events(Q[s], D[s]), y \in Events(b, <<>>) : x < y
  <2> TAKE s \in 1 .. m - 1
  <2>1. Events(b, <<>>) \subseteq Events(Q[m], D[m])
    BY <1>6 DEF Events, Elements
  <2>2. s \in 1 .. Len(Q) /\ s < m
    BY <1>1
  <2> QED
    BY <1>1, <2>1, <2>2 DEF StreamsOrdered
<1>8. b \in Seq(Nat) /\ <<>> \in Seq(Nat)
  BY <1>4 DEF Ordered
<1>9. /\ P \in Seq(Seq(Nat)) /\ Len(P) = m /\ P[m] = a
      /\ \A t \in 1 .. m - 1 : P[t] = Q[t]
  <2>1. P \in Seq(Seq(Nat)) /\ Len(P) = m
    <3> HIDE DEF P
    <3> QED
      BY <1>1, <1>3 DEF StreamsOrdered
  <2>2. Q \in Seq(Seq(Nat)) /\ DOMAIN Q = 1 .. m
    BY <1>1 DEF StreamsOrdered
  <2>3. P[m] = a /\ \A t \in DOMAIN Q : t # m => P[t] = Q[t]
    <3>1. m \in DOMAIN Q
      BY <1>0, <2>2
    <3> QED
      BY <3>1, Zenon
  <2>4. \A t \in 1 .. m - 1 : t \in 1 .. m /\ t # m
    BY <1>0
  <2> QED
    BY <2>1, <2>2, <2>3, <2>4, Zenon
<1> HIDE DEF P, q
<1>10. /\ R \in Seq(Seq(Nat)) /\ Len(R) = m + 1 /\ R[m + 1] = b
       /\ \A t \in 1 .. m : R[t] = P[t]
  <2> DEFINE S == Seq(Nat)
  <2>1. P \in Seq(S) /\ b \in S /\ Len(P) = m
    BY <1>8, <1>9
  <2> HIDE DEF S
  <2>2. R \in Seq(S) /\ Len(R) = m + 1 /\ R[m + 1] = b
    BY <2>1, AppendProperties
  <2>3. \A t \in 1 .. m : R[t] = P[t]
    BY <2>1, AppendProperties
  <2> QED
    BY <2>2, <2>3 DEF S
<1>11. /\ E \in Seq(Seq(Nat)) /\ Len(E) = m + 1 /\ E[m + 1] = <<>>
       /\ \A t \in 1 .. m : E[t] = D[t]
  BY <1>1, <1>8
<1> HIDE DEF R, E
<1>12. \A s \in 1 .. Len(R) : s \in 1 .. m \/ s = m + 1
  BY <1>1, <1>10
<1>13. \A s \in 1 .. Len(R) : Ordered(n, R[s], E[s])
  <2>1. \A s \in 1 .. m : Ordered(n, P[s], D[s])
    BY <1>3, <1>9 DEF StreamsOrdered
  <2> QED
    BY <1>4, <1>10, <1>11, <1>12, <2>1
<1>14. ASSUME NEW s \in 1 .. Len(R), NEW t \in 1 .. Len(R), s < t,
              NEW x \in Events(R[s], E[s]), NEW y \in Events(R[t], E[t])
       PROVE  x < y
  <2>1. s \in 1 .. m /\ R[s] = P[s] /\ E[s] = D[s]
    <3>1. s \in Int /\ t \in Int /\ 1 <= s /\ t <= m + 1
      BY <1>10
    <3>2. s \in 1 .. m
      BY <1>1, <1>14, <3>1
    <3> QED
      BY <1>10, <1>11, <3>2
  <2>2. CASE t \in 1 .. m
    BY <1>3, <1>9, <1>10, <1>11, <1>14, <2>1, <2>2 DEF StreamsOrdered
  <2>3. CASE t = m + 1 /\ s = m
    BY <1>5, <1>9, <1>10, <1>11, <1>14, <2>1, <2>3
  <2>4. CASE t = m + 1 /\ s # m
    <3>0. s \in 1 .. m
      BY <2>1
    <3>1. s \in 1 .. m - 1
      BY <1>0, <2>4, <3>0
    <3> QED
      BY <1>7, <1>9, <1>10, <1>11, <1>14, <2>1, <2>4, <3>1
  <2> QED
    BY <1>12, <2>2, <2>3, <2>4
<1>15. Len(R) = Len(E) /\ Len(R) \in Nat \ {0}
  BY <1>1, <1>10, <1>11
<1>16. StreamsOrdered(n, R, E)
  BY <1>10, <1>11, <1>13, <1>14, <1>15 DEF StreamsOrdered
<1> QED
  BY <1>16 DEF R, E, P

(***************************************************************************)
(* Whatever is refused, lost or delivered late, and for every capacity and *)
(* slack, LossyStreams deliver events in the order of the source on each   *)
(* stream, later ones on later streams, and so none twice.                 *)
(***************************************************************************)
THEOREM StreamsDeliverInOrder == Streams!Spec => []Streams!DeliveredInOrder
<1> DEFINE OInv == StreamsOrdered(produced, Pending, received)
<1>1. ASSUME Streams!Init PROVE OInv
  <2>1. /\ produced = 0 /\ Pending = << <<>> >> /\ received = << <<>> >>
    BY <1>1 DEF Streams!Init
  <2>2. /\ Pending \in Seq(Seq(Nat)) /\ received \in Seq(Seq(Nat))
        /\ Len(Pending) = 1 /\ Len(received) = 1 /\ Pending[1] = <<>> /\ received[1] = <<>>
    BY <2>1
  <2>3. Ordered(0, <<>>, <<>>)
    BY DEF Ordered
  <2> QED
    BY <2>1, <2>2, <2>3 DEF StreamsOrdered
<1>2. ASSUME OInv, [Streams!Next]_(Streams!vars) PROVE OInv'
  <2>a. \A s \in 1 .. Len(Pending) : Ordered(produced, Pending[s], received[s])
    BY <1>2 DEF StreamsOrdered
  <2>b. \A s \in 1 .. Len(Pending) : Pending[s] \in Seq(Nat) /\ received[s] \in Seq(Nat)
    BY <2>a DEF Ordered
  <2>c. Len(Pending) \in 1 .. Len(Pending)
    BY <1>2 DEF StreamsOrdered
  <2>0. /\ Len(Pending) \in 1 .. Len(Pending)
        /\ \A s \in 1 .. Len(Pending) : Pending[s] \in Seq(Nat) /\ received[s] \in Seq(Nat)
                                        /\ Ordered(produced, Pending[s], received[s])
    BY <2>a, <2>b, <2>c
  <2>1. CASE Streams!Accept
    BY <1>2, <2>1, NewEventKeeps DEF Streams!Accept, Streams!Live
  <2>2. CASE Streams!Refuse
    BY <1>2, <2>2, NewEventKeeps DEF Streams!Refuse
  <2>3. ASSUME NEW s \in 1 .. Len(Pending), Streams!Deliver(s) PROVE OInv'
    <3> DEFINE p == Tail(Pending[s])
               e == Append(received[s], Head(Pending[s]))
    <3>1. /\ Pending[s] # <<>> /\ produced' = produced
          /\ Pending' = [Pending EXCEPT ![s] = p] /\ received' = [received EXCEPT ![s] = e]
      BY <2>3 DEF Streams!Deliver
    <3>2. Ordered(produced, p, e)
      BY <2>0, <3>1, DeliverKeeps
    <3>3. Events(p, e) \subseteq Events(Pending[s], received[s])
      BY <2>0, <3>1, DeliverAddsNone
    <3> HIDE DEF p, e
    <3> QED
      BY <1>2, <3>1, <3>2, <3>3, StreamKeeps
  <2>4. ASSUME NEW s \in 1 .. Len(Pending), Streams!Lose(s) PROVE OInv'
    <3>1. PICK k \in 1 .. Len(Pending[s]) :
             Pending' = [Pending EXCEPT ![s] = SubSeq(Pending[s], k + 1, Len(Pending[s]))]
      BY <2>4 DEF Streams!Lose
    <3>2. Thinned(Pending[s], SubSeq(Pending[s], k + 1, Len(Pending[s])))
      BY <2>0, SuffixThins
    <3>3. UNCHANGED <<produced, received>>
      BY <2>4 DEF Streams!Lose
    <3> QED
      BY <1>2, <3>1, <3>2, <3>3, LossKeeps
  <2>5. CASE Streams!Drop
    <3> DEFINE m == Len(Pending)
               p(k) == SubSeq(Pending[m], 1, k - 1) \o SubSeq(Pending[m], k + 1, Len(Pending[m]))
    <3>1. PICK k \in 1 .. Len(Pending[m]) : Pending' = [Pending EXCEPT ![m] = p(k)]
      BY <2>5 DEF Streams!Drop, Streams!Live
    <3>2. Thinned(Pending[m], p(k))
      BY <2>0, RemovalThins
    <3>3. UNCHANGED <<produced, received>>
      BY <2>5 DEF Streams!Drop
    <3> HIDE DEF p
    <3> QED
      BY <1>2, <2>0, <3>1, <3>2, <3>3, LossKeeps
  <2>6. CASE Streams!GiveUp
    <3> DEFINE m == Len(Pending)
    <3>1. PICK k \in 1 .. Len(Pending[m]), i \in 1 .. Len(Pending[m]) :
             /\ i <= k
             /\ Pending' = Append([Pending EXCEPT ![m] = SubSeq(Pending[m], 1, i)],
                                  SubSeq(Pending[m], k + 1, Len(Pending[m])))
      BY <2>6 DEF Streams!GiveUp, Streams!Live
    <3>2. produced' = produced /\ received' = Append(received, <<>>)
      BY <2>6 DEF Streams!GiveUp
    <3>3. StreamsOrdered(produced,
              Append([Pending EXCEPT ![m] = SubSeq(Pending[m], 1, i)],
                     SubSeq(Pending[m], k + 1, Len(Pending[m]))),
              Append(received, <<>>))
      BY <1>2, <3>1, GiveUpKeeps
    <3> QED
      BY <3>1, <3>2, <3>3
  <2>7. CASE Streams!Close
    <3> DEFINE m == Len(Pending)
    <3>1. PICK k \in 0 .. Len(Pending[m]) :
             Pending' = [Pending EXCEPT ![m] = SubSeq(Pending[m], 1, k)]
      BY <2>7 DEF Streams!Close, Streams!Live
    <3>2. Thinned(Pending[m], SubSeq(Pending[m], 1, k))
      BY <2>0, PrefixThins
    <3>3. UNCHANGED <<produced, received>>
      BY <2>7 DEF Streams!Close
    <3> QED
      BY <1>2, <2>0, <3>1, <3>2, <3>3, LossKeeps
  <2>8. CASE UNCHANGED Streams!vars
    BY <1>2, <2>8 DEF Streams!vars
  <2> QED
    BY <1>2, <2>1, <2>2, <2>3, <2>4, <2>5, <2>6, <2>7, <2>8 DEF Streams!Next, Streams!Live
<1>3. ASSUME OInv PROVE Streams!DeliveredInOrder
  <2> SUFFICES ASSUME NEW s \in 1 .. Len(received), NEW t \in 1 .. Len(received),
                      NEW i \in 1 .. Len(received[s]), NEW j \in 1 .. Len(received[t]),
                      s < t \/ (s = t /\ i < j)
               PROVE  received[s][i] < received[t][j]
    BY DEF Streams!DeliveredInOrder
  <2>1. /\ s \in 1 .. Len(Pending) /\ t \in 1 .. Len(Pending)
        /\ received[s] \in Seq(Nat) /\ received[t] \in Seq(Nat)
        /\ Ordered(produced, Pending[s], received[s])
    BY <1>3 DEF StreamsOrdered, Ordered
  <2>2. CASE s < t
    <3>0. i \in DOMAIN received[s] /\ j \in DOMAIN received[t]
      BY <2>1, LenProperties, Zenon
    <3>1. /\ received[s][i] \in Events(Pending[s], received[s])
          /\ received[t][j] \in Events(Pending[t], received[t])
      BY <3>0, Zenon DEF Events, Elements
    <3> QED
      BY <1>3, <2>1, <2>2, <3>1 DEF StreamsOrdered
  <2>3. CASE s = t /\ i < j
    BY <2>1, <2>3 DEF Ordered
  <2> QED
    BY <2>2, <2>3
<1> QED
  BY <1>1, <1>2, <1>3, PTL DEF Streams!Spec

-----------------------------------------------------------------------------
(* The agent's inductive invariant. *)

Event == Nat \ {0}

\* What the attempt has offered is on its way, being answered, or answered.
Answering == IF srv = "ack" THEN 1 ELSE 0
Accounted == offered = Len(bridge) + Len(wire) + Answering + acks + ackq + ackRead

SeqInv ==
    /\ produced \in Nat /\ received \in Seq(Seq(Event)) /\ late \in Seq(Seq(Event))
    /\ Len(received) = Len(late) + 1 /\ \A s \in 1 .. Len(late) : Len(late[s]) <= Window
    /\ wire \in Seq(Event) /\ bridge \in Seq(Event) /\ rx \in Seq(Event) /\ ring \in Seq(Event)
    /\ held \in Nat /\ (pc = "handoff" <=> held # 0)
    /\ Len(wire) <= Window /\ Len(bridge) <= BridgeCap
    /\ pc \in {"connect", "open"} => bridge = <<>> /\ wire = <<>>

(***************************************************************************)
(* Every event of an attempt is accounted for while its connection is up.  *)
(* Draining begins only when the source is gone and rx empty, and neither  *)
(* comes back; the handler is done only when nothing is on its way to it.  *)
(***************************************************************************)
ExitInv ==
    /\ acks \in Nat /\ ackq \in Nat /\ ackRead \in Nat /\ offered \in Nat
    /\ conn = "up" => Accounted
    /\ pc \in {"drain", "exit"} => source = "closed" /\ rx = <<>>
    /\ srv = "done" /\ conn = "up" => pc \in {"drain", "exit"} /\ bridge = <<>> /\ wire = <<>>
    /\ pc = "exit" => srv = "done" /\ bridge = <<>> /\ wire = <<>> /\ ackRead = offered

(***************************************************************************)
(* What a given-up stream leaves in the collector only shrinks.            *)
(***************************************************************************)
LEMMA LateKeepsSeqInv ==
    ASSUME SeqInv, NEW s \in 1 .. Len(late), LateRecv(s) \/ LateEnds(s) PROVE SeqInv'
<1>1. /\ late \in Seq(Seq(Event)) /\ received \in Seq(Seq(Event)) /\ late[s] # <<>>
      /\ Len(received) = Len(late) + 1 /\ \A t \in 1 .. Len(late) : Len(late[t]) <= Window
  BY DEF SeqInv, LateRecv, LateEnds
<1>2. Len(late) \in Nat /\ late[s] \in Seq(Event)
  BY <1>1, LenProperties, ElementOfSeq
<1>3. s \in 1 .. Len(received)
  BY <1>1, <1>2
<1>4. received[s] \in Seq(Event)
  BY <1>1, <1>3, ElementOfSeq
<1>5. /\ Head(late[s]) \in Event /\ Tail(late[s]) \in Seq(Event)
      /\ Len(Tail(late[s])) = Len(late[s]) - 1 /\ Len(late[s]) \in Nat
  BY <1>1, <1>2, HeadTailProperties, LenProperties
<1>6. PICK q \in Seq(Event) : late' = [late EXCEPT ![s] = q] /\ Len(q) <= Window
  <2>0. Window \in Nat /\ Len(late[s]) <= Window
    BY <1>1, AgentAssumption
  <2>1. CASE LateRecv(s)
    <3>1. Len(Tail(late[s])) <= Window
      BY <1>5, <2>0
    <3> QED
      BY <1>5, <2>1, <3>1 DEF LateRecv
  <2>2. CASE LateEnds(s)
    <3>1. <<>> \in Seq(Event) /\ Len(<<>>) <= Window
      BY <2>0, EmptySeq
    <3> QED
      BY <2>2, <3>1 DEF LateEnds
  <2> QED
    BY <2>1, <2>2
<1>7. /\ late' \in Seq(Seq(Event)) /\ Len(late') = Len(late)
      /\ \A t \in 1 .. Len(late) : late'[t] = IF t = s THEN q ELSE late[t]
  <2> DEFINE S == Seq(Event)
  <2>1. late \in Seq(S) /\ q \in S /\ late' = [late EXCEPT ![s] = q]
    BY <1>1, <1>6
  <2> HIDE DEF S
  <2>2. late' \in Seq(S) /\ Len(late') = Len(late)
    BY <2>1, ExceptSeq
  <2>3. \A t \in 1 .. Len(late) : late'[t] = IF t = s THEN q ELSE late[t]
    BY <2>1, ExceptSeq
  <2> QED
    BY <2>2, <2>3 DEF S
<1>8. received' \in Seq(Seq(Event)) /\ Len(received') = Len(received)
  <2>1. Append(received[s], Head(late[s])) \in Seq(Event)
    BY <1>4, <1>5, AppendProperties
  <2>2. CASE LateRecv(s)
    BY <1>1, <1>3, <2>1, <2>2, ExceptSeq DEF LateRecv
  <2>3. CASE LateEnds(s)
    BY <1>1, <2>3 DEF LateEnds
  <2> QED
    BY <2>2, <2>3
<1>9. UNCHANGED <<produced, rx, ring, pc, held, bridge, wire>>
  BY DEF LateRecv, LateEnds, queues
<1>10. \A t \in 1 .. Len(late') : Len(late'[t]) <= Window
  BY <1>1, <1>6, <1>7
<1> QED
  BY <1>1, <1>7, <1>8, <1>9, <1>10 DEF SeqInv

(***************************************************************************)
(* Every step keeps the bounds of the queues and what is in them.          *)
(***************************************************************************)
LEMMA StepKeepsSeqInv == SeqInv /\ [Next]_vars => SeqInv'
<1> SUFFICES ASSUME SeqInv, [Next]_vars PROVE SeqInv'
  OBVIOUS
<1> USE AgentAssumption DEF SeqInv, Event
<1>0. /\ Len(wire) \in Nat /\ Len(bridge) \in Nat /\ <<>> \in Seq(Event) /\ Len(<<>>) = 0
      /\ Window \in Nat /\ BridgeCap \in Nat
  BY EmptySeq, LenProperties
<1>1. CASE Probe
  <2>1. produced + 1 \in Event /\ produced' \in Nat
    BY <1>1 DEF Probe
  <2>2. ring' \in Seq(Event)
    BY <1>1, <2>1, AppendProperties DEF Probe
  <2> QED
    BY <1>1, <2>1, <2>2 DEF Probe, queues
<1>2. CASE Drain
  <2>1. Head(ring) \in Event /\ Tail(ring) \in Seq(Event)
    BY <1>2, HeadTailProperties DEF Drain
  <2>2. rx' \in Seq(Event) /\ ring' \in Seq(Event)
    BY <1>2, <2>1, AppendProperties DEF Drain
  <2> QED
    BY <1>2, <2>2 DEF Drain, queues
<1>3. CASE SourceEnds
  BY <1>0, <1>3 DEF SourceEnds, queues
<1>4. CASE Open
  BY <1>0, <1>4 DEF Open
<1>5. CASE HeadersArrive \/ BeginDrain \/ Exit
  BY <1>5 DEF HeadersArrive, BeginDrain, Exit, Drained, queues
<1>6. CASE ReadAck
  BY <1>6 DEF ReadAck
<1>7. CASE TakeEvent
  <2>1. Head(rx) \in Event /\ Tail(rx) \in Seq(Event)
    BY <1>7, HeadTailProperties DEF TakeEvent
  <2> QED
    BY <1>7, <2>1 DEF TakeEvent, queues
<1>8. CASE Handoff
  <2>1. held \in Event
    BY <1>8 DEF Handoff
  <2>2. bridge' \in Seq(Event) /\ Len(bridge') = Len(bridge) + 1
    BY <1>8, <2>1, AppendProperties DEF Handoff
  <2> QED
    BY <1>0, <1>8, <2>2 DEF Handoff
<1>9. CASE OpenTimesOut \/ AttemptFails \/ StreamFails
  <2>1. EndAttempt
    BY <1>9 DEF OpenTimesOut, AttemptFails, StreamFails
  <2>2. /\ late' \in Seq(Seq(Event)) /\ received' \in Seq(Seq(Event))
        /\ Len(received') = Len(late') + 1 /\ \A s \in 1 .. Len(late') : Len(late'[s]) <= Window
    <3>1. CASE wire = <<>>
      BY <2>1, <3>1 DEF EndAttempt
    <3>2. CASE wire # <<>>
      <4>1. late' = Append(late, wire) /\ received' = Append(received, <<>>)
        BY <2>1, <3>2 DEF EndAttempt
      <4>2. /\ late' \in Seq(Seq(Event)) /\ Len(late') = Len(late) + 1
            /\ \A s \in 1 .. Len(late) : late'[s] = late[s]
            /\ late'[Len(late) + 1] = wire /\ Len(late) \in Nat
        BY <4>1, AppendProperties, LenProperties
      <4>3. received' \in Seq(Seq(Event)) /\ Len(received') = Len(received) + 1
        BY <1>0, <4>1, AppendProperties
      <4>4. ASSUME NEW s \in 1 .. Len(late') PROVE Len(late'[s]) <= Window
        <5>1. s \in 1 .. Len(late) \/ s = Len(late) + 1
          BY <4>2
        <5> QED
          BY <4>2, <5>1
      <4> QED
        BY <4>2, <4>3, <4>4
    <3> QED
      BY <3>1, <3>2
  <2>3. /\ pc' = "connect" /\ rx' = rx /\ held' = 0 /\ bridge' = <<>> /\ wire' = <<>>
        /\ UNCHANGED <<produced, ring>>
    BY <2>1 DEF EndAttempt, Survives
  <2> QED
    BY <1>0, <2>2, <2>3
<1>10. CASE Transmit
  <2>1. /\ Head(bridge) \in Event /\ Tail(bridge) \in Seq(Event)
        /\ Len(Tail(bridge)) = Len(bridge) - 1
    BY <1>10, HeadTailProperties DEF Transmit
  <2>2. wire' \in Seq(Event) /\ Len(wire') = Len(wire) + 1
    BY <1>10, <2>1, AppendProperties DEF Transmit
  <2>3. bridge' \in Seq(Event) /\ Len(bridge') <= BridgeCap /\ Len(wire') <= Window
    BY <1>0, <1>10, <2>1, <2>2 DEF Transmit
  <2> QED
    BY <1>10, <2>2, <2>3 DEF Transmit
<1>11. CASE CollectorRecv
  <2>1. /\ Head(wire) \in Event /\ Tail(wire) \in Seq(Event)
        /\ Len(Tail(wire)) = Len(wire) - 1
    BY <1>11, HeadTailProperties DEF CollectorRecv
  <2>2. wire' \in Seq(Event) /\ Len(wire') <= Window
    BY <1>0, <1>11, <2>1 DEF CollectorRecv
  <2>3. received' \in Seq(Seq(Event)) /\ Len(received') = Len(received)
    <3>1. Current \in 1 .. Len(received) /\ received[Current] \in Seq(Event)
      BY DEF Current
    <3>2. Append(received[Current], Head(wire)) \in Seq(Event)
      BY <2>1, <3>1, AppendProperties
    <3> QED
      BY <1>11, <3>1, <3>2 DEF CollectorRecv
  <2> QED
    BY <1>11, <2>2, <2>3 DEF CollectorRecv
<1>12. CASE CollectorSend \/ AckArrives \/ CollectorEOF \/ Break
  BY <1>12 DEF CollectorSend, AckArrives, CollectorEOF, Break, queues
<1>13. CASE CollectorNotices
  BY <1>0, <1>13 DEF CollectorNotices
<1>14. CASE \E s \in 1 .. Len(late) : LateRecv(s) \/ LateEnds(s)
  BY <1>14, LateKeepsSeqInv
<1>15. CASE UNCHANGED vars
  BY <1>15 DEF vars, queues
<1> QED
  BY <1>1, <1>2, <1>3, <1>4, <1>5, <1>6, <1>7, <1>8, <1>9, <1>10, <1>11, <1>12, <1>13,
     <1>14, <1>15
  DEF Next, AgentStep, Network

(***************************************************************************)
(* Every step keeps the attempt's account.                                 *)
(***************************************************************************)
LEMMA StepKeepsExitInv == SeqInv /\ ExitInv /\ [Next]_vars => ExitInv'
<1> SUFFICES ASSUME SeqInv, ExitInv, [Next]_vars PROVE ExitInv'
  OBVIOUS
<1> USE DEF ExitInv, Accounted, Answering
<1>0. /\ Len(wire) \in Nat /\ Len(bridge) \in Nat /\ Len(<<>>) = 0
      /\ \A s \in Seq(Event) : s # <<>> => Len(Tail(s)) = Len(s) - 1
      /\ \A s \in Seq(Event), e \in Event : Len(Append(s, e)) = Len(s) + 1
      /\ \A s \in Seq(Event) : s # <<>> => Head(s) \in Event
  BY LenProperties, HeadTailProperties, AppendProperties DEF SeqInv
<1>1. CASE Probe
  BY <1>1 DEF Probe, queues
<1>2. CASE Drain
  BY <1>2 DEF Drain, queues
<1>3. CASE SourceEnds
  BY <1>3 DEF SourceEnds, queues
<1>4. CASE Open
  BY <1>0, <1>4 DEF Open
<1>5. CASE HeadersArrive \/ BeginDrain \/ Exit
  BY <1>0, <1>5 DEF HeadersArrive, BeginDrain, Exit, Drained, queues
<1>6. CASE ReadAck
  BY <1>0, <1>6 DEF ReadAck
<1>7. CASE TakeEvent
  BY <1>7 DEF TakeEvent, queues
<1>8. CASE Handoff
  <2>1. Len(bridge') = Len(bridge) + 1
    BY <1>0, <1>8 DEF Handoff, SeqInv, Event
  <2> QED
    BY <1>0, <1>8, <2>1 DEF Handoff
<1>9. CASE OpenTimesOut \/ AttemptFails \/ StreamFails
  <2>1. EndAttempt
    BY <1>9 DEF OpenTimesOut, AttemptFails, StreamFails
  <2> QED
    BY <2>1 DEF EndAttempt, Survives
<1>10. CASE Transmit
  <2>1. Len(bridge') = Len(bridge) - 1 /\ Len(wire') = Len(wire) + 1
    BY <1>0, <1>10 DEF Transmit, SeqInv
  <2>2. srv # "done" /\ UNCHANGED <<pc, source, rx, srv, acks, ackq, ackRead, offered>>
    BY <1>10 DEF Transmit
  <2>3. Accounted'
    BY <1>0, <1>10, <2>1, <2>2 DEF Transmit
  <2>4. pc # "exit"
    BY <1>10 DEF Transmit
  <2> QED
    BY <2>2, <2>3, <2>4
<1>11. CASE CollectorRecv
  <2>1. Len(wire') = Len(wire) - 1
    BY <1>0, <1>11 DEF CollectorRecv, SeqInv
  <2> QED
    BY <1>0, <1>11, <2>1 DEF CollectorRecv
<1>12. CASE CollectorSend
  <2>1. CASE conn = "up"
    BY <1>0, <1>12, <2>1 DEF CollectorSend
  <2>2. CASE conn # "up"
    BY <1>0, <1>12, <2>2 DEF CollectorSend
  <2> QED
    BY <2>1, <2>2
<1>13. CASE AckArrives
  BY <1>0, <1>13 DEF AckArrives
<1>14. CASE CollectorEOF
  BY <1>0, <1>14 DEF CollectorEOF, queues
<1>15. CASE Break
  BY <1>15 DEF Break, queues
<1>16. CASE CollectorNotices
  BY <1>16 DEF CollectorNotices
<1>17. CASE \E s \in 1 .. Len(late) : LateRecv(s) \/ LateEnds(s)
  BY <1>17 DEF LateRecv, LateEnds, queues
<1>18. CASE UNCHANGED vars
  BY <1>18 DEF vars, queues
<1> QED
  BY <1>1, <1>2, <1>3, <1>4, <1>5, <1>6, <1>7, <1>8, <1>9, <1>10, <1>11, <1>12, <1>13,
     <1>14, <1>15, <1>16, <1>17, <1>18
  DEF Next, AgentStep, Network

(***************************************************************************)
(* So they hold of every run of the agent.                                 *)
(***************************************************************************)
LEMMA SeqInvHolds == Spec => []SeqInv
<1>1. Init => SeqInv
  BY AgentAssumption, EmptySeq DEF Init, SeqInv, Event
<1> QED
  BY <1>1, StepKeepsSeqInv, PTL DEF Spec

(***************************************************************************)
(* An agent that exits because its source has ended leaves nothing behind, *)
(* and every event of its last attempt has been answered.                  *)
(***************************************************************************)
THEOREM CleanExitHolds == Spec => []CleanExit
<1>1. Init => ExitInv
  BY DEF Init, ExitInv
<1>2. SeqInv /\ ExitInv => CleanExit
  <2>1. Len(<<>>) = 0
    OBVIOUS
  <2> QED
    BY <2>1 DEF SeqInv, ExitInv, Accounted, Answering, CleanExit
<1> QED
  BY <1>1, <1>2, SeqInvHolds, StepKeepsExitInv, PTL DEF Spec

-----------------------------------------------------------------------------
(* The agent is a LossyStreams. *)

\* What an attempt holds of InTransit, and everything that is not in the ring.
Attempt == wire \o bridge \o InHand
OutOfRing == Attempt \o rx

(***************************************************************************)
(* The parts of InTransit are sequences of events.                         *)
(***************************************************************************)
LEMMA Parts ==
    ASSUME SeqInv
    PROVE  /\ InHand \in Seq(Event) /\ wire \o bridge \in Seq(Event)
           /\ Attempt \in Seq(Event) /\ OutOfRing \in Seq(Event)
           /\ InTransit = OutOfRing \o ring /\ InTransit \in Seq(Event)
<1>1. InHand \in Seq(Event)
  <2>1. held # 0 => held \in Event
    BY DEF SeqInv, Event
  <2> QED
    BY <2>1, EmptySeq DEF InHand
<1>2. wire \o bridge \in Seq(Event)
  BY ConcatProperties DEF SeqInv
<1>3. Attempt \in Seq(Event)
  BY <1>1, <1>2, ConcatProperties DEF Attempt
<1>4. OutOfRing \in Seq(Event)
  BY <1>3, ConcatProperties DEF SeqInv, OutOfRing
<1>5. InTransit = OutOfRing \o ring
  BY DEF InTransit, OutOfRing, Attempt
<1>6. InTransit \in Seq(Event)
  BY <1>4, <1>5, ConcatProperties DEF SeqInv
<1> QED
  BY <1>1, <1>2, <1>3, <1>4, <1>5, <1>6

(***************************************************************************)
(* The live stream is the last of those pending, and the others are the    *)
(* ones given up.                                                          *)
(***************************************************************************)
LEMMA LiveStream ==
    ASSUME SeqInv
    PROVE  /\ Pending \in Seq(Seq(Event)) /\ Len(Pending) = Len(late) + 1 /\ Len(late) \in Nat
           /\ Len(received) = Len(Pending)
           /\ Pending[Len(Pending)] = InTransit /\ \A s \in 1 .. Len(late) : Pending[s] = late[s]
<1>1. InTransit \in Seq(Event) /\ late \in Seq(Seq(Event)) /\ Len(received) = Len(late) + 1
  BY Parts DEF SeqInv
<1>2. /\ Append(late, InTransit) \in Seq(Seq(Event))
      /\ Len(Append(late, InTransit)) = Len(late) + 1 /\ Len(late) \in Nat
      /\ Append(late, InTransit)[Len(late) + 1] = InTransit
      /\ \A s \in 1 .. Len(late) : Append(late, InTransit)[s] = late[s]
  BY <1>1, AppendProperties, LenProperties
<1> QED
  BY <1>1, <1>2 DEF Pending

(***************************************************************************)
(* A step that gives up no stream changes the live one only.               *)
(***************************************************************************)
LEMMA LiveStreamMoves ==
    ASSUME SeqInv, late' = late, NEW q \in Seq(Event), InTransit' = q
    PROVE  Pending' = [Pending EXCEPT ![Len(Pending)] = q]
<1> DEFINE P == [Pending EXCEPT ![Len(Pending)] = q]
           R == Append(late, q)
<1>1. /\ R \in Seq(Seq(Event)) /\ Len(R) = Len(late) + 1 /\ R[Len(late) + 1] = q
      /\ \A s \in 1 .. Len(late) : R[s] = late[s]
  BY AppendProperties DEF SeqInv
<1>2. /\ P \in Seq(Seq(Event)) /\ Len(P) = Len(late) + 1 /\ P[Len(late) + 1] = q
      /\ \A s \in 1 .. Len(late) : P[s] = late[s] /\ Len(late) \in Nat
  BY LiveStream
<1>3. Pending' = R
  BY DEF Pending
<1> HIDE DEF P, R
<1>4. P = R
  <2>1. ASSUME NEW t \in 1 .. Len(P) PROVE P[t] = R[t]
    <3>1. t \in 1 .. Len(late) \/ t = Len(late) + 1
      BY <1>2, LiveStream
    <3> QED
      BY <1>1, <1>2, <3>1
  <2>2. Len(P) = Len(R)
    BY <1>1, <1>2
  <2> QED
    BY <1>1, <1>2, <2>1, <2>2, SeqEqual
<1> QED
  BY <1>3, <1>4 DEF P

(***************************************************************************)
(* A probe's record is accepted, or refused by a full ring buffer.         *)
(***************************************************************************)
LEMMA ProbeRefines ==
    ASSUME SeqInv, Probe PROVE Streams!Accept \/ Streams!Refuse
<1>1. /\ source = "open" /\ produced' = produced + 1 /\ source' = source
      /\ received' = received /\ late' = late /\ OutOfRing' = OutOfRing /\ InTransit' = OutOfRing \o ring'
      /\ ring' = IF Len(ring) < RingCap THEN Append(ring, produced + 1) ELSE ring
  BY DEF Probe, queues, OutOfRing, Attempt, InHand, InTransit
<1>2. CASE Len(ring) < RingCap
  <2>1. produced + 1 \in Event /\ ring \in Seq(Event)
    BY DEF SeqInv, Event
  <2>2. OutOfRing \in Seq(Event)
    BY Parts
  <2>3. OutOfRing \o Append(ring, produced + 1) = Append(OutOfRing \o ring, produced + 1)
    BY <2>1, <2>2, AppendLast
  <2>4. InTransit' = Append(InTransit, produced + 1)
    BY <1>1, <1>2, <2>3, Parts
  <2>5. Append(InTransit, produced + 1) \in Seq(Event)
    BY <2>1, Parts, AppendProperties
  <2>6. Pending' = [Pending EXCEPT ![Len(Pending)] = Append(InTransit, produced + 1)]
    BY <1>1, <2>4, <2>5, LiveStreamMoves
  <2> QED
    BY <1>1, <2>6, LiveStream DEF Streams!Accept, Streams!Live
<1>3. CASE ~(Len(ring) < RingCap)
  <2>1. InTransit' = InTransit
    BY <1>1, <1>3, Parts
  <2>2. Len(InTransit) = Len(OutOfRing) + Len(ring) /\ Len(OutOfRing) \in Nat /\ Len(ring) \in Nat
    BY Parts, ConcatProperties, LenProperties DEF SeqInv
  <2>3. Len(InTransit) >= (IF RingCap < RxCap THEN RingCap ELSE RxCap)
    BY <1>3, <2>2, AgentAssumption
  <2> QED
    BY <1>1, <2>1, <2>3, LiveStream DEF Streams!Refuse, Streams!Live, Pending
<1> QED
  BY <1>2, <1>3

(***************************************************************************)
(* The source moves the oldest record of the ring buffer to rx, or drops   *)
(* it when rx is full of older ones.                                       *)
(***************************************************************************)
LEMMA DrainRefines ==
    ASSUME SeqInv, Drain PROVE IF Len(rx) < RxCap THEN UNCHANGED Streams!vars ELSE Streams!Drop
<1>1. /\ ring # <<>> /\ ring' = Tail(ring) /\ Attempt' = Attempt
      /\ rx' = IF Len(rx) < RxCap THEN Append(rx, Head(ring)) ELSE rx
      /\ UNCHANGED <<source, produced, received, late>>
      /\ InTransit' = (Attempt \o rx') \o Tail(ring)
  BY DEF Drain, queues, Attempt, InHand, InTransit
<1>2. /\ rx \in Seq(Event) /\ ring \in Seq(Event) /\ Head(ring) \in Event
      /\ Tail(ring) \in Seq(Event)
  BY <1>1, HeadTailProperties DEF SeqInv
<1>3. CASE Len(rx) < RxCap
  <2>1. Attempt \o rx' = Append(OutOfRing, Head(ring))
    <3>1. rx' = Append(rx, Head(ring)) /\ Attempt \in Seq(Event)
      BY <1>1, <1>3, Parts
    <3>2. Attempt \o Append(rx, Head(ring)) = Append(Attempt \o rx, Head(ring))
      BY <1>2, <3>1, AppendLast
    <3> QED
      BY <3>1, <3>2 DEF OutOfRing
  <2>2. InTransit' = InTransit
    <3>1. OutOfRing \in Seq(Event) /\ ring \in Seq(Event) /\ ring # <<>>
      BY <1>1, <1>2, Parts
    <3>2. Append(OutOfRing, Head(ring)) \o Tail(ring) = OutOfRing \o ring
      BY <3>1, MoveHead
    <3> QED
      BY <1>1, <2>1, <3>2, Parts
  <2> QED
    BY <1>1, <1>3, <2>2 DEF Streams!vars, Pending
<1>4. CASE ~(Len(rx) < RxCap)
  <2> DEFINE k == Len(OutOfRing) + 1
  <2>1. /\ Len(InTransit) = Len(OutOfRing) + Len(ring) /\ Len(OutOfRing) = Len(Attempt) + Len(rx)
        /\ Len(OutOfRing) \in Nat /\ Len(ring) \in Nat \ {0} /\ Len(Attempt) \in Nat /\ Len(rx) \in Nat
    BY <1>1, <1>2, Parts, ConcatProperties, LenProperties, EmptySeq DEF OutOfRing
  <2>2. k \in 1 .. Len(InTransit) /\ k > (IF RingCap < RxCap THEN RingCap ELSE RxCap)
    BY <1>4, <2>1, AgentAssumption
  <2>3. InTransit' = OutOfRing \o Tail(ring)
    BY <1>1, <1>4 DEF OutOfRing
  <2>4. /\ SubSeq(InTransit, 1, Len(OutOfRing)) = OutOfRing
        /\ SubSeq(InTransit, Len(OutOfRing) + 2, Len(InTransit)) = Tail(ring)
    <3>1. /\ InTransit = OutOfRing \o ring /\ OutOfRing \in Seq(Event)
          /\ ring \in Seq(Event) /\ ring # <<>>
      BY <1>1, <1>2, Parts
    <3>2. SubSeq(OutOfRing \o ring, 1, Len(OutOfRing)) = OutOfRing
      BY <3>1, FirstPart, Zenon
    <3>3. SubSeq(OutOfRing \o ring, Len(OutOfRing) + 2, Len(OutOfRing \o ring)) = Tail(ring)
      BY <3>1, SecondPartTail, Zenon
    <3> QED
      BY <3>1, <3>2, <3>3, Zenon
  <2>5. k - 1 = Len(OutOfRing) /\ k + 1 = Len(OutOfRing) + 2
    BY <2>1
  <2>6. InTransit' = SubSeq(InTransit, 1, k - 1) \o SubSeq(InTransit, k + 1, Len(InTransit))
    BY <2>3, <2>4, <2>5
  <2>7. InTransit' \in Seq(Event)
    BY <1>2, <2>3, Parts, ConcatProperties
  <2> HIDE DEF k
  <2>8. Pending' = [Pending EXCEPT ![Len(Pending)] =
                       SubSeq(InTransit, 1, k - 1) \o SubSeq(InTransit, k + 1, Len(InTransit))]
    BY <1>1, <2>6, <2>7, LiveStreamMoves
  <2> QED
    BY <1>1, <1>4, <2>2, <2>8, LiveStream DEF Streams!Drop, Streams!Live
<1> QED
  BY <1>3, <1>4

(***************************************************************************)
(* What is in the ring buffer goes with the source.                        *)
(***************************************************************************)
LEMMA SourceEndsRefines ==
    ASSUME SeqInv, SourceEnds PROVE Streams!Close
<1>1. /\ source = "open" /\ source' = "closed" /\ UNCHANGED <<produced, received, late>>
      /\ InTransit' = OutOfRing \o <<>>
  BY DEF SourceEnds, queues, OutOfRing, Attempt, InHand, InTransit
<1>2. InTransit' = SubSeq(InTransit, 1, Len(OutOfRing))
  BY <1>1, Parts, FirstPart, ConcatEmptySeq DEF SeqInv
<1>3. Len(OutOfRing) \in 0 .. Len(InTransit)
  <2>1. Len(InTransit) = Len(OutOfRing) + Len(ring) /\ Len(OutOfRing) \in Nat /\ Len(ring) \in Nat
    BY Parts, ConcatProperties, LenProperties DEF SeqInv
  <2> QED
    BY <2>1
<1>4. InTransit' \in Seq(Event)
  BY <1>1, Parts, ConcatEmptySeq
<1>5. Pending' = [Pending EXCEPT ![Len(Pending)] = SubSeq(InTransit, 1, Len(OutOfRing))]
  BY <1>1, <1>2, <1>4, LiveStreamMoves
<1> QED
  BY <1>1, <1>3, <1>5, LiveStream DEF Streams!Close, Streams!Live

(***************************************************************************)
(* Taking an event from rx, passing it on, and transmitting it.            *)
(***************************************************************************)
LEMMA MovesRefine ==
    ASSUME SeqInv, TakeEvent \/ Handoff \/ Transmit PROVE UNCHANGED Streams!vars
<1>0. UNCHANGED <<source, produced, received, late, ring>>
  BY DEF TakeEvent, Handoff, Transmit
<1>1. CASE TakeEvent
  <2>1. /\ InHand = <<>> /\ InHand' = <<Head(rx)>> /\ rx # <<>> /\ rx' = Tail(rx)
        /\ wire' = wire /\ bridge' = bridge /\ rx \in Seq(Event) /\ Head(rx) \in Event
    BY <1>1, HeadTailProperties DEF TakeEvent, queues, SeqInv, InHand, Event
  <2>2. Attempt = wire \o bridge /\ Attempt' = Append(wire \o bridge, Head(rx))
    BY <2>1, Parts, ConcatEmptySeq, AppendIsConcat DEF Attempt
  <2>3. OutOfRing' = OutOfRing
    BY <2>1, <2>2, Parts, MoveHead DEF OutOfRing
  <2> QED
    BY <1>0, <2>3 DEF Streams!vars, Pending, InTransit, OutOfRing, Attempt
<1>2. CASE Handoff
  <2>1. /\ InHand = <<held>> /\ InHand' = <<>> /\ bridge' = Append(bridge, held)
        /\ wire' = wire /\ rx' = rx /\ held \in Event
        /\ wire \in Seq(Event) /\ bridge \in Seq(Event)
    BY <1>2 DEF Handoff, SeqInv, InHand, Event
  <2>2. wire' \o bridge' = Append(wire \o bridge, held) /\ Append(wire \o bridge, held) \in Seq(Event)
    BY <2>1, Parts, AppendLast, AppendProperties
  <2>3. Attempt' = Append(wire \o bridge, held)
    BY <2>1, <2>2, ConcatEmptySeq DEF Attempt
  <2>4. Attempt' = Attempt
    BY <2>1, <2>3, Parts, AppendIsConcat DEF Attempt
  <2> QED
    BY <1>0, <2>1, <2>4 DEF Streams!vars, Pending, InTransit, Attempt
<1>3. CASE Transmit
  <2>1. wire' \o bridge' = wire \o bridge
    BY <1>3, MoveHead DEF Transmit, SeqInv
  <2> QED
    BY <1>0, <1>3, <2>1 DEF Transmit, Streams!vars, Pending, InTransit, InHand
<1> QED
  BY <1>1, <1>2, <1>3

(***************************************************************************)
(* The collector receives the oldest event on its way.                     *)
(***************************************************************************)
LEMMA ReceiveRefines ==
    ASSUME SeqInv, CollectorRecv PROVE Streams!Deliver(Len(Pending))
<1>1. /\ wire # <<>> /\ wire' = Tail(wire)
      /\ received' = [received EXCEPT ![Len(Pending)] = Append(received[Len(Pending)], Head(wire))]
      /\ UNCHANGED <<source, produced, late, bridge, rx, ring>> /\ InHand' = InHand
      /\ wire \in Seq(Event) /\ bridge \in Seq(Event) /\ rx \in Seq(Event) /\ ring \in Seq(Event)
  BY LiveStream DEF CollectorRecv, Current, SeqInv, InHand
<1>2. /\ wire \o bridge # <<>> /\ Head(wire \o bridge) = Head(wire)
      /\ Tail(wire \o bridge) = Tail(wire) \o bridge
  BY <1>1, HeadOfConcat
<1>3. Attempt # <<>> /\ Head(Attempt) = Head(wire) /\ Tail(Attempt) = Tail(wire) \o bridge \o InHand
  <2>1. wire \o bridge \in Seq(Event) /\ InHand \in Seq(Event)
    BY Parts
  <2>2. /\ (wire \o bridge) \o InHand # <<>>
        /\ Head((wire \o bridge) \o InHand) = Head(wire \o bridge)
        /\ Tail((wire \o bridge) \o InHand) = Tail(wire \o bridge) \o InHand
    BY <1>2, <2>1, HeadOfConcat
  <2> QED
    BY <1>2, <2>2 DEF Attempt
<1>4. OutOfRing # <<>> /\ Head(OutOfRing) = Head(wire) /\ Tail(OutOfRing) = Tail(Attempt) \o rx
  <2>1. Attempt \in Seq(Event) /\ rx \in Seq(Event) /\ Attempt # <<>>
    BY <1>1, <1>3, Parts
  <2>2. /\ Attempt \o rx # <<>> /\ Head(Attempt \o rx) = Head(Attempt)
        /\ Tail(Attempt \o rx) = Tail(Attempt) \o rx
    BY <2>1, HeadOfConcat
  <2> QED
    BY <1>3, <2>2 DEF OutOfRing
<1>5. InTransit # <<>> /\ Head(InTransit) = Head(wire) /\ Tail(InTransit) = Tail(OutOfRing) \o ring
  <2>1. /\ InTransit = OutOfRing \o ring /\ OutOfRing \in Seq(Event)
        /\ ring \in Seq(Event) /\ OutOfRing # <<>>
    BY <1>1, <1>4, Parts
  <2>2. /\ OutOfRing \o ring # <<>> /\ Head(OutOfRing \o ring) = Head(OutOfRing)
        /\ Tail(OutOfRing \o ring) = Tail(OutOfRing) \o ring
    BY <2>1, HeadOfConcat
  <2> QED
    BY <1>4, <2>1, <2>2
<1>6. InTransit' = Tail(InTransit)
  BY <1>1, <1>3, <1>4, <1>5 DEF InTransit
<1>7. Tail(InTransit) \in Seq(Event)
  BY <1>5, Parts, HeadTailProperties
<1>8. Pending' = [Pending EXCEPT ![Len(Pending)] = Tail(InTransit)]
  BY <1>1, <1>6, <1>7, LiveStreamMoves
<1> QED
  BY <1>1, <1>5, <1>8, LiveStream DEF Streams!Deliver

(***************************************************************************)
(* InTransit is what an attempt holds, followed by what survives it.       *)
(***************************************************************************)
LEMMA AttemptFirst ==
    ASSUME SeqInv
    PROVE  /\ rx \o ring \in Seq(Event) /\ InTransit = Attempt \o (rx \o ring)
           /\ SubSeq(InTransit, Len(Attempt) + 1, Len(InTransit)) = rx \o ring
           /\ Len(InTransit) = Len(Attempt) + Len(rx \o ring) /\ Len(rx \o ring) \in Nat
           /\ Len(Attempt) \in Nat /\ Len(Attempt) <= Window + BridgeCap + 1
           /\ Len(wire) \in Nat /\ Len(wire) <= Len(Attempt)
<1>1. rx \in Seq(Event) /\ ring \in Seq(Event) /\ Attempt \in Seq(Event)
  BY Parts DEF SeqInv
<1>2. rx \o ring \in Seq(Event) /\ InTransit = Attempt \o (rx \o ring)
  <2>1. InTransit = (Attempt \o rx) \o ring
    BY Parts DEF OutOfRing
  <2>2. rx \o ring \in Seq(Event)
    BY <1>1, ConcatProperties
  <2>3. (Attempt \o rx) \o ring = Attempt \o (rx \o ring)
    BY <1>1, ConcatAssociative
  <2> QED
    BY <2>1, <2>2, <2>3
<1>3. SubSeq(InTransit, Len(Attempt) + 1, Len(InTransit)) = rx \o ring
  <2>1. SubSeq(Attempt \o (rx \o ring), Len(Attempt) + 1, Len(Attempt \o (rx \o ring))) = rx \o ring
    BY <1>1, <1>2, SecondPart, Zenon
  <2> QED
    BY <1>2, <2>1, Zenon
<1>4. /\ Len(Attempt) = Len(wire) + Len(bridge) + Len(InHand) /\ Len(InHand) <= 1
      /\ Len(wire) \in Nat /\ Len(bridge) \in Nat /\ Len(InHand) \in Nat
  <2>1. Len(wire \o bridge) = Len(wire) + Len(bridge)
    BY ConcatProperties DEF SeqInv
  <2>2. Len(Attempt) = Len(wire \o bridge) + Len(InHand)
    BY Parts, ConcatProperties DEF Attempt
  <2>3. Len(InHand) <= 1
    BY DEF InHand
  <2> QED
    BY <2>1, <2>2, <2>3, Parts, LenProperties DEF SeqInv
<1>5. Len(Attempt) \in Nat /\ Len(Attempt) <= Window + BridgeCap + 1 /\ Len(wire) <= Len(Attempt)
  BY <1>4, AgentAssumption DEF SeqInv
<1>6. Len(InTransit) = Len(Attempt) + Len(rx \o ring) /\ Len(rx \o ring) \in Nat
  BY <1>1, <1>2, ConcatProperties, LenProperties
<1> QED
  BY <1>2, <1>3, <1>4, <1>5, <1>6

(***************************************************************************)
(* The wire is the first part of what an attempt holds.                    *)
(***************************************************************************)
LEMMA WireFirst ==
    ASSUME SeqInv
    PROVE  /\ SubSeq(InTransit, 1, Len(wire)) = wire
           /\ InTransit = wire \o ((bridge \o InHand) \o (rx \o ring))
           /\ (bridge \o InHand) \o (rx \o ring) \in Seq(Event)
<1> DEFINE rest == (bridge \o InHand) \o (rx \o ring)
<1>1. /\ wire \in Seq(Event) /\ bridge \in Seq(Event) /\ InHand \in Seq(Event)
      /\ rx \o ring \in Seq(Event)
  BY Parts, AttemptFirst DEF SeqInv
<1>2. bridge \o InHand \in Seq(Event)
  BY <1>1, ConcatProperties
<1>3. rest \in Seq(Event)
  BY <1>1, <1>2, ConcatProperties
<1>4. Attempt = wire \o (bridge \o InHand)
  <2>1. (wire \o bridge) \o InHand = wire \o (bridge \o InHand)
    BY <1>1, ConcatAssociative, SMTT(30)
  <2> QED
    BY <2>1 DEF Attempt
<1>5. (wire \o (bridge \o InHand)) \o (rx \o ring) = wire \o rest
  <2> DEFINE b == bridge \o InHand
             c == rx \o ring
  <2>1. wire \in Seq(Event) /\ b \in Seq(Event) /\ c \in Seq(Event)
    BY <1>1, <1>2
  <2> HIDE DEF b, c
  <2>2. (wire \o b) \o c = wire \o (b \o c)
    BY <2>1, ConcatAssociative, SMTT(30)
  <2> QED
    BY <2>2 DEF b, c
<1>6. InTransit = wire \o rest
  BY <1>4, <1>5, AttemptFirst
<1> HIDE DEF rest
<1>7. SubSeq(wire \o rest, 1, Len(wire)) = wire
  BY <1>1, <1>3, FirstPart, Zenon
<1>8. SubSeq(InTransit, 1, Len(wire)) = wire
  BY <1>6, <1>7, Zenon
<1> QED
  BY <1>3, <1>6, <1>8 DEF rest

(***************************************************************************)
(* The end of an attempt loses what the attempt held, but for what the     *)
(* collector may still receive of its stream, and nothing else.            *)
(***************************************************************************)
LEMMA EndAttemptRefines ==
    ASSUME SeqInv, EndAttempt
    PROVE  /\ Attempt = <<>> => UNCHANGED Streams!vars
           /\ UNCHANGED Streams!vars \/ Streams!Lose(Len(Pending)) \/ Streams!GiveUp
<1>1. /\ UNCHANGED <<source, produced, rx, ring>>
      /\ wire' = <<>> /\ bridge' = <<>> /\ InHand' = <<>>
      /\ rx \in Seq(Event) /\ ring \in Seq(Event) /\ wire \in Seq(Event)
  BY DEF EndAttempt, Survives, InHand, SeqInv
<1>2. InTransit' = rx \o ring
  <2>1. <<>> \in Seq(Event) /\ <<>> \o <<>> = <<>> /\ <<>> \o rx = rx
    BY <1>1, EmptySeq, ConcatEmptySeq
  <2> QED
    BY <1>1, <2>1 DEF InTransit
<1>3. InTransit' = SubSeq(InTransit, Len(Attempt) + 1, Len(InTransit)) /\ InTransit' \in Seq(Event)
  BY <1>2, AttemptFirst
<1>4. CASE wire = <<>>
  <2>1. UNCHANGED <<late, received>>
    BY <1>4 DEF EndAttempt
  <2>2. CASE Len(Attempt) = 0
    <3>1. Attempt = <<>>
      BY <2>2, Parts, EmptySeq
    <3>2. InTransit' = InTransit
      BY <1>2, <3>1, AttemptFirst, ConcatEmptySeq
    <3> QED
      BY <1>1, <2>1, <3>2 DEF Streams!vars, Pending
  <2>3. CASE Len(Attempt) # 0
    <3>1. Len(Attempt) \in 1 .. Len(InTransit) /\ Len(Attempt) <= Window + BridgeCap + 1
      BY <2>3, AttemptFirst
    <3>2. Pending' = [Pending EXCEPT ![Len(Pending)] =
                         SubSeq(InTransit, Len(Attempt) + 1, Len(InTransit))]
      BY <1>3, <2>1, LiveStreamMoves
    <3>3. Streams!Lose(Len(Pending))
      BY <1>1, <2>1, <3>1, <3>2, LiveStream DEF Streams!Lose
    <3>4. Attempt # <<>>
      BY <2>3, EmptySeq
    <3> QED
      BY <3>3, <3>4
  <2> QED
    BY <2>2, <2>3
<1>5. CASE wire # <<>>
  <2> DEFINE k == Len(Attempt)
             i == Len(wire)
             old == [Pending EXCEPT ![Len(Pending)] = wire]
  <2>1. late' = Append(late, wire) /\ received' = Append(received, <<>>)
    BY <1>5 DEF EndAttempt
  <2>2. k \in 1 .. Len(InTransit) /\ i \in 1 .. Len(InTransit) /\ i <= k /\ k <= Window + BridgeCap + 1
    <3>1. Len(wire) # 0
      BY <1>1, <1>5, EmptySeq
    <3> QED
      BY <3>1, AttemptFirst
  <2>3. old = Append(late, wire)
    <3> DEFINE R == Append(late, wire)
    <3>1. /\ R \in Seq(Seq(Event)) /\ Len(R) = Len(late) + 1 /\ R[Len(late) + 1] = wire
          /\ \A s \in 1 .. Len(late) : R[s] = late[s]
      BY <1>1, AppendProperties DEF SeqInv
    <3>2. /\ old \in Seq(Seq(Event)) /\ Len(old) = Len(late) + 1 /\ old[Len(late) + 1] = wire
          /\ \A s \in 1 .. Len(late) : old[s] = late[s] /\ Len(late) \in Nat
      BY <1>1, LiveStream
    <3> HIDE DEF R, old
    <3>3. old = R
      <4>1. ASSUME NEW t \in 1 .. Len(old) PROVE old[t] = R[t]
        <5>1. t \in 1 .. Len(late) \/ t = Len(late) + 1
          BY <3>2, LiveStream
        <5> QED
          BY <3>1, <3>2, <5>1
      <4>2. Len(old) = Len(R)
        BY <3>1, <3>2
      <4> QED
        BY <3>1, <3>2, <4>1, <4>2, SeqEqual
    <3> QED
      BY <3>3 DEF R
  <2>4. Pending' = Append(old, SubSeq(InTransit, k + 1, Len(InTransit)))
    BY <1>3, <2>1, <2>3 DEF Pending
  <2>5. wire = SubSeq(InTransit, 1, i)
    BY WireFirst
  <2>6. Pending[Len(Pending)] = InTransit
    BY LiveStream
  <2>7. old = [Pending EXCEPT ![Len(Pending)] = SubSeq(InTransit, 1, i)]
    BY <2>5
  <2>8. Attempt # <<>>
    BY <2>2, AttemptFirst, EmptySeq
  <2> HIDE DEF k, i, old
  <2>9. Streams!GiveUp
    BY <1>1, <2>1, <2>2, <2>4, <2>6, <2>7 DEF Streams!GiveUp, Streams!Live
  <2> QED
    BY <2>8, <2>9
<1> QED
  BY <1>4, <1>5

(***************************************************************************)
(* A collector that notices the break loses what was on the wire.          *)
(***************************************************************************)
LEMMA NoticeRefines ==
    ASSUME SeqInv, CollectorNotices
    PROVE  UNCHANGED Streams!vars \/ Streams!Lose(Len(Pending))
<1> DEFINE rest == (bridge \o InHand) \o (rx \o ring)
<1>1. /\ UNCHANGED <<source, produced, late, received, bridge, rx, ring>> /\ InHand' = InHand
      /\ wire' = <<>> /\ wire \in Seq(Event)
  BY DEF CollectorNotices, InHand, SeqInv
<1>2. rest \in Seq(Event) /\ InTransit = wire \o rest
  BY WireFirst
<1>3. InTransit' = rest
  <2>1. /\ bridge \in Seq(Event) /\ InHand \in Seq(Event) /\ rx \in Seq(Event) /\ ring \in Seq(Event)
        /\ bridge \o InHand \in Seq(Event)
    BY Parts, ConcatProperties DEF SeqInv
  <2>2. <<>> \o bridge = bridge
    BY <2>1, ConcatEmptySeq
  <2>3. ((bridge \o InHand) \o rx) \o ring = rest
    BY <2>1, ConcatAssociative
  <2> QED
    BY <1>1, <2>2, <2>3 DEF InTransit
<1> HIDE DEF rest
<1>4. CASE wire = <<>>
  <2>1. InTransit' = InTransit
    BY <1>2, <1>3, <1>4, ConcatEmptySeq
  <2> QED
    BY <1>1, <2>1 DEF Streams!vars, Pending
<1>5. CASE wire # <<>>
  <2>1. Len(wire) \in 1 .. Len(InTransit) /\ Len(wire) <= Window + BridgeCap + 1
    <3>1. Len(wire) # 0
      BY <1>1, <1>5, EmptySeq
    <3> QED
      BY <3>1, AttemptFirst, AgentAssumption
  <2>2. SubSeq(wire \o rest, Len(wire) + 1, Len(wire \o rest)) = rest
    BY <1>1, <1>2, SecondPart, Zenon
  <2>3. InTransit' = SubSeq(InTransit, Len(wire) + 1, Len(InTransit)) /\ InTransit' \in Seq(Event)
    BY <1>2, <1>3, <2>2, Zenon
  <2>4. Pending' = [Pending EXCEPT ![Len(Pending)] =
                       SubSeq(InTransit, Len(wire) + 1, Len(InTransit))]
    BY <1>1, <2>3, LiveStreamMoves
  <2> QED
    BY <1>1, <2>1, <2>4, LiveStream DEF Streams!Lose
<1> QED
  BY <1>4, <1>5

(***************************************************************************)
(* The handler of a stream that was given up receives its oldest event, or *)
(* returns and loses what is left of it.                                   *)
(***************************************************************************)
LEMMA LateRefines ==
    ASSUME SeqInv, NEW s \in 1 .. Len(late), LateRecv(s) \/ LateEnds(s)
    PROVE  s \in 1 .. Len(Pending) /\ (Streams!Deliver(s) \/ Streams!Lose(s))
<1>1. /\ late \in Seq(Seq(Event)) /\ late[s] \in Seq(Event) /\ late[s] # <<>>
      /\ Tail(late[s]) \in Seq(Event) /\ <<>> \in Seq(Event)
  <2>1. late[s] # <<>>
    BY DEF LateRecv, LateEnds
  <2>2. late \in Seq(Seq(Event))
    BY DEF SeqInv
  <2>3. late[s] \in Seq(Event)
    BY <2>2, ElementOfSeq
  <2> QED
    BY <2>1, <2>2, <2>3, HeadTailProperties, EmptySeq
<1>2. UNCHANGED <<source, produced>> /\ InTransit' = InTransit
  BY DEF LateRecv, LateEnds, queues, InTransit, InHand
<1>3. s \in 1 .. Len(Pending) /\ Pending[s] = late[s] /\ s # Len(late) + 1
  BY LiveStream
<1>4. ASSUME NEW q \in Seq(Event), late' = [late EXCEPT ![s] = q]
      PROVE  Pending' = [Pending EXCEPT ![s] = q]
  <2> DEFINE P == [Pending EXCEPT ![s] = q]
             L == [late EXCEPT ![s] = q]
             R == Append(L, InTransit)
  <2>1. /\ L \in Seq(Seq(Event)) /\ Len(L) = Len(late)
        /\ \A t \in 1 .. Len(late) : L[t] = IF t = s THEN q ELSE late[t]
    BY <1>1
  <2>2. /\ P \in Seq(Seq(Event)) /\ Len(P) = Len(late) + 1 /\ P[Len(late) + 1] = InTransit
        /\ \A t \in 1 .. Len(late) : P[t] = IF t = s THEN q ELSE late[t]
    <3>1. /\ P \in Seq(Seq(Event)) /\ Len(P) = Len(Pending)
          /\ \A t \in 1 .. Len(Pending) : P[t] = IF t = s THEN q ELSE Pending[t]
      BY <1>3, LiveStream, ExceptSeq
    <3>2. Len(late) + 1 \in 1 .. Len(Pending) /\ \A t \in 1 .. Len(late) : t \in 1 .. Len(Pending)
      BY LiveStream
    <3> HIDE DEF P
    <3> QED
      BY <1>3, <3>1, <3>2, LiveStream
  <2>3. Pending' = R
    BY <1>2, <1>4 DEF Pending
  <2> HIDE DEF P, L
  <2>4. /\ R \in Seq(Seq(Event)) /\ Len(R) = Len(late) + 1 /\ R[Len(late) + 1] = InTransit
        /\ \A t \in 1 .. Len(late) : R[t] = L[t]
    <3>1. InTransit \in Seq(Event)
      BY Parts
    <3>2. R \in Seq(Seq(Event)) /\ Len(R) = Len(L) + 1
      BY <2>1, <3>1, AppendProperties
    <3>3. R[Len(L) + 1] = InTransit
      BY <2>1, <3>1, AppendProperties
    <3>4. \A t \in 1 .. Len(L) : R[t] = L[t]
      BY <2>1, <3>1, AppendProperties
    <3> HIDE DEF R
    <3> QED
      BY <2>1, <3>2, <3>3, <3>4
  <2> HIDE DEF R
  <2>5. P = R
    <3>1. ASSUME NEW t \in 1 .. Len(P) PROVE P[t] = R[t]
      <4>0. Len(late) \in Nat /\ t \in 1 .. Len(late) + 1
        BY <2>2, LiveStream
      <4>1. t \in 1 .. Len(late) \/ t = Len(late) + 1
        BY <4>0
      <4> QED
        BY <2>1, <2>2, <2>4, <4>1
    <3> QED
      BY <2>2, <2>4, <3>1, SeqEqual
  <2> QED
    BY <2>3, <2>5 DEF P
<1>5. CASE LateRecv(s)
  <2>1. /\ late' = [late EXCEPT ![s] = Tail(late[s])]
        /\ received' = [received EXCEPT ![s] = Append(received[s], Head(late[s]))]
    BY <1>5 DEF LateRecv
  <2>2. Pending' = [Pending EXCEPT ![s] = Tail(late[s])]
    BY <1>1, <1>4, <2>1
  <2> QED
    BY <1>1, <1>2, <1>3, <2>1, <2>2 DEF Streams!Deliver
<1>6. CASE LateEnds(s)
  <2> DEFINE k == Len(late[s])
  <2>1. late' = [late EXCEPT ![s] = <<>>] /\ received' = received
    BY <1>6 DEF LateEnds
  <2>2. Pending' = [Pending EXCEPT ![s] = <<>>]
    BY <1>1, <1>4, <2>1
  <2>3. k \in 1 .. Len(late[s]) /\ k <= Window + BridgeCap + 1
    <3>1. k \in Nat /\ k # 0 /\ k <= Window
      BY <1>1, EmptySeq, LenProperties DEF SeqInv
    <3>2. Window \in Nat /\ BridgeCap \in Nat
      BY AgentAssumption
    <3> HIDE DEF k
    <3>3. k <= Window + BridgeCap + 1
      BY <3>1, <3>2
    <3> QED
      BY <3>1, <3>3 DEF k
  <2>4. SubSeq(late[s], k + 1, Len(late[s])) = <<>>
    BY <1>1
  <2> HIDE DEF k
  <2> QED
    BY <1>2, <1>3, <2>1, <2>2, <2>3, <2>4 DEF Streams!Lose
<1> QED
  BY <1>3, <1>5, <1>6

(***************************************************************************)
(* Every step of the agent, the network and the collector is a step of the *)
(* LossyStreams or leaves them alone.                                      *)
(***************************************************************************)
LEMMA StepRefines == SeqInv /\ [Next]_vars => [Streams!Next]_(Streams!vars)
<1> SUFFICES ASSUME SeqInv, [Next]_vars PROVE [Streams!Next]_(Streams!vars)
  OBVIOUS
<1>0. Len(Pending) \in 1 .. Len(Pending)
  BY LiveStream
<1>1. CASE Open
  BY <1>1 DEF Open, SeqInv, Streams!vars, Pending, InTransit, InHand
<1>2. CASE HeadersArrive \/ ReadAck \/ BeginDrain \/ Exit
  BY <1>2 DEF HeadersArrive, ReadAck, BeginDrain, Exit, queues, Streams!vars, Pending, InTransit,
              InHand
<1>3. CASE CollectorSend \/ AckArrives \/ CollectorEOF \/ Break
  BY <1>3 DEF CollectorSend, AckArrives, CollectorEOF, Break, queues, Streams!vars, Pending,
              InTransit, InHand
<1>4. CASE OpenTimesOut \/ AttemptFails \/ StreamFails
  BY <1>0, <1>4, EndAttemptRefines
  DEF OpenTimesOut, AttemptFails, StreamFails, Streams!Next, Streams!Live
<1>5. CASE CollectorRecv
  BY <1>0, <1>5, ReceiveRefines DEF Streams!Next, Streams!Live
<1>6. CASE CollectorNotices
  BY <1>0, <1>6, NoticeRefines DEF Streams!Next, Streams!Live
<1>7. CASE \E s \in 1 .. Len(late) : LateRecv(s) \/ LateEnds(s)
  BY <1>7, LateRefines DEF Streams!Next, Streams!Live
<1>8. CASE UNCHANGED vars
  BY <1>8 DEF vars, queues, Streams!vars, Pending, InTransit, InHand
<1>9. CASE Probe
  BY <1>9, ProbeRefines DEF Streams!Next
<1>10. CASE Drain
  BY <1>10, DrainRefines DEF Streams!Next
<1>11. CASE SourceEnds
  BY <1>11, SourceEndsRefines DEF Streams!Next
<1>12. CASE TakeEvent \/ Handoff \/ Transmit
  BY <1>12, MovesRefine
<1> QED
  BY <1>1, <1>2, <1>3, <1>4, <1>5, <1>6, <1>7, <1>8, <1>9, <1>10, <1>11, <1>12
  DEF Next, AgentStep, Network

(***************************************************************************)
(* The refinement: for all capacities and windows, whatever fails and      *)
(* whenever each end notices, the agent's stream is a LossyStreams.        *)
(***************************************************************************)
THEOREM AgentImplementsLossyStreams == Spec => ImplementsLossyStreams
<1>1. Init => Streams!Init
  <2>1. <<>> \o <<>> = <<>> /\ Append(<<>>, <<>>) = << <<>> >>
    BY EmptySeq, ConcatEmptySeq
  <2> QED
    BY <2>1 DEF Init, Streams!Init, Pending, InTransit, InHand
<1> QED
  BY <1>1, SeqInvHolds, StepRefines, PTL DEF Spec, Streams!Spec, ImplementsLossyStreams

(***************************************************************************)
(* The collector therefore receives, on each stream, the agent's events in *)
(* the order of the probes, on a later stream only later ones, and none    *)
(* twice, although the handlers of several streams may be at work at once. *)
(***************************************************************************)
THEOREM ReceivedInOrder == Spec => []Streams!DeliveredInOrder
BY AgentImplementsLossyStreams, StreamsDeliverInOrder, PTL DEF ImplementsLossyStreams

-----------------------------------------------------------------------------
(* Where events can be lost, who waits for whom, and the lazy transport. *)

\* The events of a stream, those the collector has received first.
Journey(s) == received[s] \o Pending[s]

(***************************************************************************)
(* A step keeps every recorded event, on its stream and in order, and may  *)
(* record a new one, unless the source ends, rx is full when the ring      *)
(* buffer is drained, the agent or the collector notices that the          *)
(* connection has broken, or the handler of an old stream returns.         *)
(***************************************************************************)
KeepsEvents ==
    \/ /\ Len(received') = Len(received)
       /\ \A s \in 1 .. Len(received) : Journey(s)' = Journey(s)
    \/ /\ produced' = produced + 1 /\ Len(received') = Len(received)
       /\ Journey(Len(received))' = Append(Journey(Len(received)), produced')
       /\ \A s \in 1 .. Len(received) - 1 : Journey(s)' = Journey(s)
    \/ source = "open" /\ source' = "closed"
    \/ ~(Len(rx) < RxCap) /\ ring' = Tail(ring)
    \/ conn = "broken" /\ (conn' = "none" \/ srv' = "done")
    \/ received' = received /\ \E s \in 1 .. Len(late) : late[s] # <<>> /\ late'[s] = <<>>

(***************************************************************************)
(* Receiving an event moves it along its stream.                           *)
(***************************************************************************)
LEMMA DeliverKeepsEvents ==
    ASSUME SeqInv, NEW s \in 1 .. Len(Pending), Streams!Deliver(s) PROVE KeepsEvents
<1>1. /\ Pending[s] # <<>> /\ Pending' = [Pending EXCEPT ![s] = Tail(Pending[s])]
      /\ received' = [received EXCEPT ![s] = Append(received[s], Head(Pending[s]))]
  BY DEF Streams!Deliver
<1>2. /\ Pending \in Seq(Seq(Event)) /\ received \in Seq(Seq(Event)) /\ Len(received) = Len(Pending)
  BY LiveStream DEF SeqInv
<1>3. Pending[s] \in Seq(Event) /\ received[s] \in Seq(Event)
  BY <1>2
<1>4. Append(received[s], Head(Pending[s])) \o Tail(Pending[s]) = received[s] \o Pending[s]
  BY <1>1, <1>3, MoveHead
<1>5. /\ Len(received') = Len(received)
      /\ received'[s] = Append(received[s], Head(Pending[s])) /\ Pending'[s] = Tail(Pending[s])
      /\ \A t \in 1 .. Len(received) : t # s => received'[t] = received[t] /\ Pending'[t] = Pending[t]
  BY <1>1, <1>2
<1>6. \A t \in 1 .. Len(received) : Journey(t)' = Journey(t)
  BY <1>4, <1>5 DEF Journey
<1> QED
  BY <1>5, <1>6 DEF KeepsEvents

(***************************************************************************)
(* A recorded event is lost in three ways only: with the ring buffer when  *)
(* the source ends, at a full rx, and with a connection that breaks, as    *)
(* either end or an old stream's handler finds out.  No connect, register  *)
(* or stream_events that fails or times out loses one (run_once and the    *)
(* retry loop of stream_to_collector).                                     *)
(***************************************************************************)
THEOREM OnlyBrokenStreamsLose == Spec => [][KeepsEvents]_vars
<1>1. ASSUME SeqInv, [Next]_vars PROVE [KeepsEvents]_vars
  <2>0. /\ received \in Seq(Seq(Event)) /\ Pending \in Seq(Seq(Event)) /\ produced \in Nat
        /\ Len(received) = Len(Pending) /\ Len(Pending) \in Nat \ {0}
        /\ Len(Pending) \in 1 .. Len(Pending)
    BY <1>1, LiveStream DEF SeqInv
  <2>1. CASE UNCHANGED Streams!vars
    BY <2>1 DEF Streams!vars, KeepsEvents, Journey
  <2>2. CASE Probe
    <3>1. CASE Streams!Accept
      <4> DEFINE m == Len(Pending)
                 q == Append(Pending[m], produced + 1)
      <4>1. /\ produced' = produced + 1 /\ received' = received /\ produced + 1 \in Event
            /\ Pending' = [Pending EXCEPT ![m] = q]
        BY <2>0, <3>1 DEF Streams!Accept, Streams!Live, Event
      <4>2. received[m] \in Seq(Event) /\ Pending[m] \in Seq(Event)
        BY <2>0
      <4>3. received[m] \o q = Append(received[m] \o Pending[m], produced + 1)
        <5> DEFINE a == received[m]
                   b == Pending[m]
        <5>1. a \in Seq(Event) /\ b \in Seq(Event) /\ produced + 1 \in Event
          BY <4>1, <4>2
        <5> HIDE DEF a, b
        <5>2. a \o Append(b, produced + 1) = Append(a \o b, produced + 1)
          BY <5>1, AppendLast
        <5> QED
          BY <5>2 DEF a, b
      <4>4. Pending'[m] = q /\ \A s \in 1 .. m - 1 : Pending'[s] = Pending[s]
        BY <2>0, <4>1
      <4> HIDE DEF q
      <4>5. Journey(Len(received))' = Append(Journey(Len(received)), produced')
        <5>1. received[m] \o Pending'[m] = Append(received[m] \o Pending[m], produced + 1)
          BY <4>3, <4>4
        <5>2. Len(received) = m /\ Len(received') = m /\ received'[m] = received[m]
          BY <2>0, <4>1
        <5> HIDE DEF m
        <5> QED
          BY <4>1, <5>1, <5>2 DEF Journey
      <4>6. \A s \in 1 .. Len(received) - 1 : Journey(s)' = Journey(s)
        BY <2>0, <4>1, <4>4 DEF Journey
      <4>7. Len(received') = Len(received)
        BY <4>1
      <4> QED
        BY <4>1, <4>5, <4>6, <4>7 DEF KeepsEvents
    <3>2. CASE Streams!Refuse
      BY <3>2 DEF Streams!Refuse, KeepsEvents, Journey
    <3> QED
      BY <1>1, <2>2, <3>1, <3>2, ProbeRefines
  <2>3. CASE Drain
    <3>1. Len(rx) < RxCap => UNCHANGED Streams!vars
      BY <1>1, <2>3, DrainRefines
    <3>2. ring' = Tail(ring)
      BY <2>3 DEF Drain
    <3> QED
      BY <2>1, <3>1, <3>2 DEF KeepsEvents
  <2>4. CASE SourceEnds
    BY <2>4 DEF SourceEnds, KeepsEvents
  <2>5. CASE CollectorRecv
    BY <1>1, <2>0, <2>5, ReceiveRefines, DeliverKeepsEvents
  <2>6. CASE OpenTimesOut \/ AttemptFails
    <3>1. pc \in {"connect", "open"} /\ EndAttempt
      BY <2>6 DEF OpenTimesOut, AttemptFails
    <3>2. wire = <<>> /\ bridge = <<>> /\ InHand = <<>>
      BY <1>1, <3>1 DEF SeqInv, InHand
    <3>3. Attempt = <<>>
      <4>1. <<>> \o <<>> = <<>>
        BY EmptySeq, ConcatEmptySeq
      <4> QED
        BY <3>2, <4>1 DEF Attempt
    <3> QED
      BY <1>1, <2>1, <3>1, <3>3, EndAttemptRefines
  <2>7. CASE StreamFails
    BY <2>7 DEF StreamFails, EndAttempt, KeepsEvents
  <2>8. CASE Open
    BY <1>1, <2>1, <2>8 DEF Open, SeqInv, Streams!vars, Pending, InTransit, InHand
  <2>9. CASE HeadersArrive \/ ReadAck \/ BeginDrain \/ Exit
    BY <2>1, <2>9 DEF HeadersArrive, ReadAck, BeginDrain, Exit, queues, Streams!vars, Pending,
                      InTransit, InHand
  <2>10. CASE CollectorSend \/ AckArrives \/ CollectorEOF \/ Break
    BY <2>1, <2>10 DEF CollectorSend, AckArrives, CollectorEOF, Break, queues, Streams!vars, Pending,
                       InTransit, InHand
  <2>11. CASE CollectorNotices
    BY <2>11 DEF CollectorNotices, KeepsEvents
  <2>12. ASSUME NEW s \in 1 .. Len(late), LateRecv(s) PROVE KeepsEvents
    <3>1. s \in 1 .. Len(Pending) /\ (Streams!Deliver(s) \/ Streams!Lose(s))
      BY <1>1, <2>12, LateRefines
    <3>2. CASE Streams!Deliver(s)
      BY <1>1, <3>1, <3>2, DeliverKeepsEvents
    <3>3. received' # received
      <4> DEFINE e == Append(received[s], Head(late[s]))
      <4>1. received' = [received EXCEPT ![s] = e] /\ late[s] # <<>> /\ s \in 1 .. Len(received)
        BY <2>0, <2>12, <3>1 DEF LateRecv
      <4>2. received[s] \in Seq(Event) /\ late[s] \in Seq(Event)
        <5>1. received \in Seq(Seq(Event)) /\ late \in Seq(Seq(Event))
          BY <1>1 DEF SeqInv
        <5> QED
          BY <4>1, <5>1, ElementOfSeq
      <4>3. e \in Seq(Event) /\ Len(e) = Len(received[s]) + 1 /\ Len(received[s]) \in Nat
        <5>1. Head(late[s]) \in Event
          BY <4>1, <4>2, HeadTailProperties
        <5> QED
          BY <4>2, <5>1, AppendProperties, LenProperties
      <4> HIDE DEF e
      <4>4. received'[s] = e
        <5>1. s \in DOMAIN received
          BY <2>0, <4>1
        <5> QED
          BY <4>1, <5>1, Zenon
      <4> QED
        BY <4>3, <4>4
    <3> QED
      BY <3>1, <3>2, <3>3 DEF Streams!Lose
  <2>13. ASSUME NEW s \in 1 .. Len(late), LateEnds(s) PROVE KeepsEvents
    <3>1. late[s] # <<>> /\ late'[s] = <<>> /\ received' = received
      <4>1. late \in Seq(Seq(Event)) /\ <<>> \in Seq(Event)
        BY <1>1, EmptySeq DEF SeqInv
      <4>2. [late EXCEPT ![s] = <<>>][s] = <<>>
        BY <4>1, ExceptSeq
      <4> QED
        BY <2>13, <4>2 DEF LateEnds
    <3> QED
      BY <3>1 DEF KeepsEvents
  <2>14. CASE TakeEvent \/ Handoff \/ Transmit
    BY <1>1, <2>1, <2>14, MovesRefine
  <2> QED
    BY <1>1, <2>2, <2>3, <2>4, <2>5, <2>6, <2>7, <2>8, <2>9, <2>10, <2>11, <2>12, <2>13, <2>14
    DEF Next, AgentStep, Network
<1> QED
  BY <1>1, SeqInvHolds, PTL DEF Spec

\* Nothing passes the headers that nothing has made the collector send.
LazyInv ==
    transport = "lazy" =>
        /\ pc \in {"connect", "open"} /\ srv # "ack" /\ headers = "none"
        /\ received = << <<>> >> /\ late = <<>>

(***************************************************************************)
(* Over a transport that delivers the response headers with the first      *)
(* message only, no event ever reaches the collector, however often the    *)
(* agent tries and whether or not anything fails: run_once awaits the      *)
(* headers before it offers its first event, and StreamEvents sends        *)
(* nothing before it has received one.                                     *)
(***************************************************************************)
THEOREM LazyTransportDeliversNothing == Spec => [](transport = "lazy" => received = << <<>> >>)
<1>1. Init => LazyInv
  BY DEF Init, LazyInv
<1>2. ASSUME SeqInv, LazyInv, [Next]_vars PROVE LazyInv'
  <2>1. CASE Probe \/ Drain \/ SourceEnds
    BY <1>2, <2>1 DEF LazyInv, Probe, Drain, SourceEnds
  <2>2. CASE Open \/ HeadersArrive
    BY <1>2, <2>2 DEF LazyInv, Open, HeadersArrive, HeadersReady
  <2>3. CASE ReadAck \/ TakeEvent \/ Handoff \/ BeginDrain \/ Exit
    BY <1>2, <2>3 DEF LazyInv, ReadAck, TakeEvent, Handoff, BeginDrain, Exit, Drained
  <2>4. CASE OpenTimesOut \/ AttemptFails \/ StreamFails
    <3>1. EndAttempt
      BY <2>4 DEF OpenTimesOut, AttemptFails, StreamFails
    <3>2. transport = "lazy" => wire = <<>>
      BY <1>2 DEF SeqInv, LazyInv
    <3> QED
      BY <1>2, <3>1, <3>2 DEF LazyInv, EndAttempt
  <2>5. CASE Transmit \/ AckArrives \/ CollectorEOF \/ Break
    BY <1>2, <2>5 DEF LazyInv, Transmit, AckArrives, CollectorEOF, Break
  <2>6. CASE CollectorRecv \/ CollectorSend
    BY <1>2, <2>6 DEF SeqInv, LazyInv, CollectorRecv, CollectorSend
  <2>7. CASE CollectorNotices \/ UNCHANGED vars
    BY <1>2, <2>7 DEF LazyInv, CollectorNotices, vars
  <2>8. ASSUME NEW s \in 1 .. Len(late), LateRecv(s) \/ LateEnds(s) PROVE LazyInv'
    <3>1. late # <<>> /\ transport' = transport
      BY <2>8 DEF LateRecv, LateEnds
    <3> QED
      BY <1>2, <3>1 DEF LazyInv
  <2> QED
    BY <1>2, <2>1, <2>2, <2>3, <2>4, <2>5, <2>6, <2>7, <2>8 DEF Next, AgentStep, Network
<1>3. LazyInv => (transport = "lazy" => received = << <<>> >>)
  BY DEF LazyInv
<1> QED
  BY <1>1, <1>2, <1>3, SeqInvHolds, PTL DEF Spec

\* The guards of the connection's and the collector's steps, but for conn = "up".
CanTransmit == bridge # <<>> /\ Len(wire) < Window
CanReceive == srv = "recv" /\ wire # <<>>
CanAnswer == srv = "ack" /\ acks + ackq < AckWindow /\ acks < Flight
CanDeliverAck == acks > 0
CanEnd == srv = "recv" /\ bridge = <<>> /\ wire = <<>>

(***************************************************************************)
(* While the connection is up, an agent that waits for room in the bridge, *)
(* or for the last answers, is not waiting for a collector that waits for  *)
(* the agent: its own step, or one of the network or the collector, can    *)
(* be taken.                                                               *)
(***************************************************************************)
NoMutualWait ==
    conn = "up" =>
        /\ pc = "handoff" =>
              \/ Len(bridge) < BridgeCap
              \/ CanTransmit \/ CanReceive \/ CanAnswer \/ CanDeliverAck
        /\ pc = "drain" =>
              \/ ackq > 0 \/ Drained
              \/ CanTransmit \/ CanReceive \/ CanAnswer \/ CanDeliverAck \/ CanEnd

(***************************************************************************)
(* The agent takes an event only when no acknowledgement is waiting, so it *)
(* starts to wait for the bridge with at most Flight of them unread; and   *)
(* as long as bridge and wire stay full, the collector can add one.        *)
(***************************************************************************)
WaitInv ==
    /\ srv \in {"none", "recv", "ack", "done"} /\ (conn = "up" => srv # "none")
    /\ acks <= Flight
    /\ pc = "handoff" /\ Len(bridge) = BridgeCap /\ Len(wire) = Window =>
          acks + ackq <= Flight + (IF srv = "recv" THEN 1 ELSE 0)

(***************************************************************************)
(* Every step keeps WaitInv.  While the agent waits, transmitting or       *)
(* receiving an event leaves the bridge or the wire with room.             *)
(***************************************************************************)
LEMMA StepKeepsWaitInv == SeqInv /\ ExitInv /\ WaitInv /\ [Next]_vars => WaitInv'
<1> SUFFICES ASSUME SeqInv, ExitInv, WaitInv, [Next]_vars PROVE WaitInv'
  OBVIOUS
<1>0. /\ acks \in Nat /\ ackq \in Nat /\ Flight \in Nat \ {0}
      /\ Len(wire) \in Nat /\ Len(bridge) \in Nat
      /\ Len(wire) <= Window /\ Len(bridge) <= BridgeCap
      /\ Window \in Nat /\ BridgeCap \in Nat
  BY AgentAssumption, LenProperties DEF SeqInv, ExitInv
<1>1. CASE Probe \/ Drain \/ SourceEnds \/ Break \/ UNCHANGED vars
  BY <1>1 DEF WaitInv, Probe, Drain, SourceEnds, Break, vars, queues
<1>2. CASE Open
  BY <1>0, <1>2 DEF WaitInv, Open
<1>3. CASE HeadersArrive \/ BeginDrain \/ Exit
  BY <1>3 DEF WaitInv, HeadersArrive, BeginDrain, Exit, Drained, queues
<1>4. CASE ReadAck
  BY <1>4 DEF WaitInv, ReadAck
<1>5. CASE TakeEvent
  <2>1. ackq = 0 /\ UNCHANGED <<queues, srv, conn>>
    BY <1>0, <1>5 DEF TakeEvent, AckFirst
  <2>2. acks' + ackq' <= Flight + (IF srv = "recv" THEN 1 ELSE 0)
    BY <1>0, <2>1 DEF WaitInv, queues
  <2> QED
    BY <2>1, <2>2 DEF WaitInv, queues
<1>6. CASE Handoff
  BY <1>6 DEF WaitInv, Handoff
<1>7. CASE OpenTimesOut \/ AttemptFails \/ StreamFails
  <2>1. EndAttempt
    BY <1>7 DEF OpenTimesOut, AttemptFails, StreamFails
  <2>2. pc' = "connect" /\ srv' = "none" /\ conn' = "none" /\ acks' = 0
    BY <2>1 DEF EndAttempt
  <2> QED
    BY <1>0, <2>2 DEF WaitInv
<1>8. CASE Transmit
  <2>1. Len(Tail(bridge)) = Len(bridge) - 1
    BY <1>8, HeadTailProperties DEF Transmit, SeqInv
  <2>2. Len(bridge') # BridgeCap
    <3>1. Len(bridge') = Len(bridge) - 1
      BY <1>8, <2>1 DEF Transmit
    <3> QED
      BY <1>0, <3>1
  <2> QED
    BY <1>8, <2>2 DEF WaitInv, Transmit
<1>9. CASE CollectorRecv
  <2>1. Len(Tail(wire)) = Len(wire) - 1
    BY <1>9, HeadTailProperties DEF CollectorRecv, SeqInv
  <2>2. Len(wire') # Window
    <3>1. Len(wire') = Len(wire) - 1
      BY <1>9, <2>1 DEF CollectorRecv
    <3> QED
      BY <1>0, <3>1
  <2> QED
    BY <1>9, <2>2 DEF WaitInv, CollectorRecv
<1>10. CASE CollectorSend
  <2>1. /\ srv = "ack" /\ srv' = "recv" /\ acks' \in {acks, acks + 1} /\ acks < Flight
        /\ UNCHANGED <<pc, bridge, wire, ackq, conn>>
    BY <1>10 DEF CollectorSend
  <2>2. acks' \in Nat /\ acks' <= acks + 1 /\ ackq' = ackq
    BY <1>0, <2>1
  <2>3. acks + ackq <= Flight => acks' + ackq' <= Flight + 1
    <3>1. ASSUME NEW a \in Nat, NEW b \in Nat, NEW c \in Nat, c <= a + 1, a + b <= Flight
          PROVE  c + b <= Flight + 1
      BY <1>0, <3>1
    <3> QED
      BY <1>0, <2>2, <3>1
  <2>4. acks' <= Flight
    BY <1>0, <2>1, <2>2
  <2>5. pc = "handoff" /\ Len(bridge) = BridgeCap /\ Len(wire) = Window => acks + ackq <= Flight
    <3>1. pc = "handoff" /\ Len(bridge) = BridgeCap /\ Len(wire) = Window => acks + ackq <= Flight + 0
      BY <2>1 DEF WaitInv
    <3> QED
      BY <1>0, <3>1
  <2> QED
    BY <2>1, <2>3, <2>4, <2>5 DEF WaitInv
<1>11. CASE AckArrives
  <2>1. /\ acks' = acks - 1 /\ ackq' = ackq + 1 /\ UNCHANGED <<pc, bridge, wire, srv, conn>>
    BY <1>11 DEF AckArrives
  <2>2. acks' + ackq' = acks + ackq /\ (acks <= Flight => acks' <= Flight)
    BY <1>0, <2>1
  <2> QED
    BY <2>1, <2>2 DEF WaitInv
<1>12. CASE CollectorEOF
  BY <1>12 DEF WaitInv, CollectorEOF, queues
<1>13. CASE CollectorNotices
  <2>1. Len(wire') # Window
    BY <1>13, AgentAssumption DEF CollectorNotices
  <2> QED
    BY <1>13, <2>1 DEF WaitInv, CollectorNotices
<1>14. CASE \E s \in 1 .. Len(late) : LateRecv(s) \/ LateEnds(s)
  BY <1>14 DEF WaitInv, LateRecv, LateEnds, queues
<1> QED
  BY <1>1, <1>2, <1>3, <1>4, <1>5, <1>6, <1>7, <1>8, <1>9, <1>10, <1>11, <1>12, <1>13, <1>14
  DEF Next, AgentStep, Network

(***************************************************************************)
(* Agent and collector never wait for each other, for any capacity of the  *)
(* bridge and of the connection in both directions, as long as fewer       *)
(* acknowledgements are on the way at once than the connection holds, even *)
(* though run_once reads none while it waits in bridge_tx.send.            *)
(***************************************************************************)
THEOREM NoMutualWaitHolds == Spec => []NoMutualWait
<1>1. Init => ExitInv /\ WaitInv
  BY AgentAssumption DEF Init, ExitInv, WaitInv
<1>2. ASSUME SeqInv, ExitInv, WaitInv PROVE NoMutualWait
  <2>0. /\ acks \in Nat /\ ackq \in Nat /\ Flight \in Nat \ {0} /\ AckWindow \in Nat
        /\ Flight < AckWindow /\ Window \in Nat \ {0} /\ BridgeCap \in Nat \ {0}
        /\ Len(wire) \in Nat /\ Len(bridge) \in Nat
        /\ Len(wire) <= Window /\ Len(bridge) <= BridgeCap
        /\ (wire = <<>> <=> Len(wire) = 0) /\ (bridge = <<>> <=> Len(bridge) = 0)
    BY <1>2, AgentAssumption, LenProperties, EmptySeq DEF SeqInv, ExitInv
  <2>1. ASSUME conn = "up", pc = "handoff", ~(Len(bridge) < BridgeCap), ~CanTransmit, ~CanReceive,
               ~CanDeliverAck
        PROVE  CanAnswer
    <3>1. Len(bridge) = BridgeCap /\ Len(wire) = Window /\ acks = 0
      BY <2>0, <2>1 DEF CanTransmit, CanDeliverAck
    <3>2. srv = "ack"
      <4>1. srv # "recv"
        BY <2>0, <2>1, <3>1 DEF CanReceive
      <4>2. srv # "done" /\ srv # "none"
        BY <1>2, <2>1 DEF ExitInv, WaitInv
      <4> QED
        BY <1>2, <4>1, <4>2 DEF WaitInv
    <3>3. acks + ackq <= Flight
      <4>1. acks + ackq <= Flight + 0
        BY <1>2, <2>1, <3>1, <3>2 DEF WaitInv
      <4> QED
        BY <2>0, <4>1
    <3> QED
      BY <2>0, <3>1, <3>2, <3>3 DEF CanAnswer
  <2>2. ASSUME conn = "up", pc = "drain", ackq = 0, acks = 0, ~CanTransmit, ~CanReceive, ~CanAnswer,
               ~CanEnd
        PROVE  Drained
    <3>1. srv # "ack"
      BY <2>0, <2>2 DEF CanAnswer
    <3>2. srv # "recv"
      BY <2>0, <2>2 DEF CanTransmit, CanReceive, CanEnd
    <3>3. srv = "done"
      BY <1>2, <2>2, <3>1, <3>2 DEF WaitInv
    <3> QED
      BY <2>2, <3>3 DEF Drained
  <2>3. (ackq > 0 \/ ackq = 0) /\ (CanDeliverAck \/ acks = 0)
    BY <2>0 DEF CanDeliverAck
  <2> QED
    BY <2>1, <2>2, <2>3, Zenon DEF NoMutualWait
<1> QED
  BY <1>1, <1>2, SeqInvHolds, StepKeepsExitInv, StepKeepsWaitInv, PTL DEF Spec
=============================================================================
