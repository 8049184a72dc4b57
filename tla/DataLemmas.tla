------------------------------ MODULE DataLemmas ------------------------------
(***************************************************************************)
(* Facts the provers do not know about the data the models are built from: *)
(* least and greatest elements of sets of integers, what the operators of  *)
(* SequencesExt on positions return, induction over a segment of the       *)
(* naturals, the sum of a sequence, and counting what is rearranged.       *)
(***************************************************************************)
EXTENDS Integers, SequencesExt, SequenceTheorems, FiniteSetTheorems, FunctionTheorems,
        WellFoundedInduction, TLAPS

\* A set of natural numbers that is not empty has a least element.
LEMMA LeastExists ==
  ASSUME NEW T \in SUBSET Nat, T # {}
  PROVE  \E x \in T : \A y \in T : x <= y
<1> DEFINE Segments == {0 .. x : x \in T}
<1>1. Segments \subseteq FiniteSubsetsOf(Nat) /\ Segments # {}
  <2>1. \A x \in T : IsFiniteSet(0 .. x) /\ 0 .. x \in SUBSET Nat
    BY FS_Interval
  <2>2. \A x \in T : 0 .. x \in FiniteSubsetsOf(Nat)
    BY <2>1 DEF FiniteSubsetsOf
  <2> QED BY <2>2
<1>2. \E s \in Segments : \A r \in Segments : ~ (<<r, s>> \in StrictSubsetOrdering(Nat))
  <2> HIDE DEF Segments
  <2> QED BY <1>1, FS_StrictSubsetOrderingWellFounded, WFMin
<1>3. PICK x \in T : \A y \in T : ~ (<<0 .. y, 0 .. x>> \in StrictSubsetOrdering(Nat))
  BY <1>2
<1>4. ASSUME NEW y \in T, y < x PROVE FALSE
  <2> DEFINE a == 0 .. y
             b == 0 .. x
  <2>1. a \subseteq b /\ a # b /\ <<a, b>> \in (SUBSET Nat) \X (SUBSET Nat)
    <3>1. x \in b /\ x \notin a
      BY <1>4
    <3> QED BY <1>4, <3>1
  <2>2. <<a, b>> \in StrictSubsetOrdering(Nat)
    <3> HIDE DEF a, b
    <3> QED BY <2>1 DEF StrictSubsetOrdering
  <2> QED BY <1>3, <2>2
<1> QED BY <1>3, <1>4

\* What Min returns for a set of integers with a lower bound.
LEMMA MinIs ==
  ASSUME NEW a \in Int, NEW T \in SUBSET Int, T # {}, \A t \in T : a <= t
  PROVE  Min(T) \in T /\ \A t \in T : Min(T) <= t
<1> DEFINE U == {t - a : t \in T}
<1>1. U \in SUBSET Nat /\ U # {}
  <2>1. \A t \in T : t - a \in Nat
    OBVIOUS
  <2> QED BY <2>1
<1>2. PICK u \in U : \A v \in U : u <= v
  <2> HIDE DEF U
  <2> QED BY <1>1, LeastExists
<1>3. PICK t \in T : u = t - a
  BY <1>2
<1>4. ASSUME NEW s \in T PROVE t <= s
  <2>1. u <= s - a
    BY <1>2
  <2> QED BY <1>3, <2>1
<1> QED BY <1>4 DEF Min

\* What Max returns for a set of integers with an upper bound.
LEMMA MaxIs ==
  ASSUME NEW a \in Int, NEW T \in SUBSET Int, T # {}, \A t \in T : t <= a
  PROVE  Max(T) \in T /\ \A t \in T : t <= Max(T)
<1> DEFINE U == {a - t : t \in T}
<1>1. U \in SUBSET Nat /\ U # {}
  <2>1. \A t \in T : a - t \in Nat
    OBVIOUS
  <2> QED BY <2>1
<1>2. PICK u \in U : \A v \in U : u <= v
  <2> HIDE DEF U
  <2> QED BY <1>1, LeastExists
<1>3. PICK t \in T : u = a - t
  BY <1>2
<1>4. ASSUME NEW s \in T PROVE s <= t
  <2>1. u <= a - s
    BY <1>2
  <2> QED BY <1>3, <2>1
<1> QED BY <1>4 DEF Max
\* SelectInSeq returns the least of the positions it looks for, or 0.
LEMMA LeastPosition ==
  ASSUME NEW n \in Nat, NEW I \in SUBSET (1 .. n), I # {}
  PROVE  Min(I) \in I /\ \A y \in I : Min(I) =< y
PROOF
<1>1. \E x \in I : \A y \in I : x =< y
  BY LeastExists, I \subseteq Nat
<1>. QED
  BY <1>1 DEF Min

\* Inserting an element makes the sequence one longer and keeps every other one.
LEMMA InsertAtFacts ==
  ASSUME NEW S, NEW s \in Seq(S), NEW i \in 1 .. Len(s) + 1, NEW e \in S
  PROVE  /\ InsertAt(s, i, e) \in Seq(S)
         /\ Len(InsertAt(s, i, e)) = Len(s) + 1
         /\ \A j \in 1 .. Len(s) + 1 :
              InsertAt(s, i, e)[j] = IF j < i THEN s[j] ELSE IF j = i THEN e ELSE s[j - 1]
PROOF
<1>. DEFINE a == SubSeq(s, 1, i - 1)
            z == SubSeq(s, i, Len(s))
<1>1. a \in Seq(S) /\ Len(a) = i - 1 /\ \A j \in 1 .. i - 1 : a[j] = s[j]
  BY SubSeqProperties, LenProperties, ElementOfSeq
<1>2. /\ z \in Seq(S) /\ Len(z) = Len(s) - i + 1
      /\ \A j \in 1 .. Len(s) - i + 1 : z[j] = s[i + j - 1]
  BY SubSeqProperties, LenProperties, ElementOfSeq
<1>3. <<e>> \in Seq(S) /\ Len(<<e>>) = 1 /\ <<e>>[1] = e
  OBVIOUS
<1>. HIDE DEF a, z
<1>4. /\ a \o <<e>> \in Seq(S) /\ Len(a \o <<e>>) = i
      /\ \A j \in 1 .. i : (a \o <<e>>)[j] = IF j < i THEN s[j] ELSE e
  BY <1>1, <1>3, ConcatProperties
<1>5. /\ (a \o <<e>>) \o z \in Seq(S)
      /\ Len((a \o <<e>>) \o z) = Len(s) + 1
      /\ \A j \in 1 .. Len(s) + 1 :
           ((a \o <<e>>) \o z)[j] = IF j < i THEN s[j] ELSE IF j = i THEN e ELSE s[j - 1]
  <2>. DEFINE ae == a \o <<e>>
  <2>. HIDE DEF ae
  <2>1. /\ ae \o z \in Seq(S)
        /\ Len(ae \o z) = Len(ae) + Len(z)
        /\ \A j \in 1 .. Len(ae) + Len(z) :
             (ae \o z)[j] = IF j <= Len(ae) THEN ae[j] ELSE z[j - Len(ae)]
    <3>1. ae \in Seq(S)
      BY <1>4 DEF ae
    <3>. QED
      BY <1>2, <3>1, ConcatProperties
  <2>2. Len(ae) = i /\ Len(s) \in Nat
    BY <1>4, LenProperties DEF ae
  <2>3. ASSUME NEW j \in 1 .. Len(s) + 1
        PROVE  (ae \o z)[j] = IF j < i THEN s[j] ELSE IF j = i THEN e ELSE s[j - 1]
    <3>1. CASE j <= i
      BY <2>1, <2>2, <3>1, <1>2, <1>4 DEF ae
    <3>2. CASE j > i
      <4>1. (ae \o z)[j] = z[j - i] /\ j - i \in 1 .. Len(s) - i + 1
        BY <2>1, <2>2, <3>2, <1>2
      <4>. QED
        BY <4>1, <3>2, <1>2, <2>2
    <3>3. j <= i \/ j > i
      OBVIOUS
    <3>. QED
      BY <3>1, <3>2, <3>3
  <2>. QED
    BY <2>1, <2>2, <2>3, <1>2 DEF ae
<1>. QED
  BY <1>5 DEF InsertAt, a, z

\* Removing an element makes the sequence one shorter and keeps every other one.
LEMMA RemoveAtFacts ==
  ASSUME NEW S, NEW s \in Seq(S), NEW i \in 1 .. Len(s)
  PROVE  /\ RemoveAt(s, i) \in Seq(S)
         /\ Len(RemoveAt(s, i)) = Len(s) - 1
         /\ \A j \in 1 .. Len(s) - 1 : RemoveAt(s, i)[j] = IF j < i THEN s[j] ELSE s[j + 1]
PROOF
<1>. DEFINE a == SubSeq(s, 1, i - 1)
            z == SubSeq(s, i + 1, Len(s))
<1>1. a \in Seq(S) /\ Len(a) = i - 1 /\ \A j \in 1 .. i - 1 : a[j] = s[j]
  BY SubSeqProperties, LenProperties, ElementOfSeq
<1>2. /\ z \in Seq(S) /\ Len(z) = Len(s) - i
      /\ \A j \in 1 .. Len(s) - i : z[j] = s[i + j]
  BY SubSeqProperties, LenProperties, ElementOfSeq
<1>. HIDE DEF a, z
<1>3. /\ a \o z \in Seq(S)
      /\ Len(a \o z) = Len(s) - 1
      /\ \A j \in 1 .. Len(s) - 1 : (a \o z)[j] = IF j < i THEN s[j] ELSE s[j + 1]
  <2>1. /\ a \o z \in Seq(S)
        /\ Len(a \o z) = Len(a) + Len(z)
        /\ \A j \in 1 .. Len(a) + Len(z) :
             (a \o z)[j] = IF j <= Len(a) THEN a[j] ELSE z[j - Len(a)]
    BY <1>1, <1>2, ConcatProperties
  <2>2. Len(s) \in Nat
    BY LenProperties
  <2>3. ASSUME NEW j \in 1 .. Len(s) - 1
        PROVE  (a \o z)[j] = IF j < i THEN s[j] ELSE s[j + 1]
    <3>1. CASE j < i
      BY <2>1, <2>2, <3>1, <1>1, <1>2
    <3>2. CASE j >= i
      <4>1. (a \o z)[j] = z[j - (i - 1)] /\ j - (i - 1) \in 1 .. Len(s) - i
        BY <2>1, <2>2, <3>2, <1>1, <1>2
      <4>. QED
        BY <4>1, <3>2, <1>2, <2>2
    <3>3. j < i \/ j >= i
      OBVIOUS
    <3>. QED
      BY <3>1, <3>2, <3>3
  <2>. QED
    BY <2>1, <2>2, <2>3, <1>1, <1>2
<1>. QED
  BY <1>3 DEF RemoveAt, a, z

\* An induction over an initial segment of the naturals.
LEMMA SegmentInduction ==
  ASSUME NEW n \in Nat, NEW T, 0 \in T, \A i \in 0 .. n - 1 : i \in T => i + 1 \in T
  PROVE  \A i \in 0 .. n : i \in T
<1> DEFINE Missed == {i \in 0 .. n : i \notin T}
<1>1. ASSUME Missed # {} PROVE FALSE
  <2>1. PICK x \in Missed : \A y \in Missed : x <= y
    <3>1. Missed \in SUBSET Nat
      OBVIOUS
    <3> HIDE DEF Missed
    <3> QED BY <1>1, <3>1, LeastExists
  <2>2. x \in Nat /\ x # 0 /\ x <= n /\ x \notin T
    BY <2>1
  <2>3. x - 1 \in 0 .. n /\ x - 1 \notin Missed
    BY <2>1, <2>2
  <2>4. x - 1 \in T
    BY <2>3
  <2>5. x - 1 \in 0 .. n - 1 /\ (x - 1) + 1 = x
    BY <2>2
  <2>6. x \in T
    BY <2>4, <2>5
  <2> QED BY <2>2, <2>6
<1> QED BY <1>1

\* A message more at the end of what follows.
LEMMA AppendBehind ==
  ASSUME NEW S, NEW a \in Seq(S), NEW d \in Seq(S), NEW e \in S
  PROVE  a \o Append(d, e) = Append(a \o d, e) /\ a \o d \in Seq(S)
<1>1. <<e>> \in Seq(S) /\ a \o d \in Seq(S)
  BY ConcatProperties
<1>2. Append(d, e) = d \o <<e>> /\ Append(a \o d, e) = (a \o d) \o <<e>>
  BY <1>1, AppendIsConcat
<1>3. (a \o d) \o <<e>> = a \o (d \o <<e>>)
  BY <1>1, ConcatAssociative
<1> QED BY <1>1, <1>2, <1>3

\* The last element and what is before it.
LEMMA FrontFacts ==
  ASSUME NEW S, NEW s \in Seq(S), s # <<>>
  PROVE  /\ Last(s) \in S /\ Last(s) = s[Len(s)]
         /\ Front(s) \in Seq(S) /\ Len(Front(s)) = Len(s) - 1
         /\ \A i \in 1 .. Len(s) - 1 : Front(s)[i] = s[i]
         /\ s = Append(Front(s), Last(s))
<1>1. Len(s) \in Nat \ {0}
  BY EmptySeq
<1>2. Last(s) = s[Len(s)] /\ Last(s) \in S
  BY <1>1, ElementOfSeq DEF Last
<1>3. /\ Front(s) \in Seq(S) /\ Len(Front(s)) = Len(s) - 1
      /\ \A i \in 1 .. Len(s) - 1 : Front(s)[i] = s[i]
  <2> DEFINE k == Len(s) - 1
  <2>1. k \in Nat /\ \A i \in 1 .. k : s[i] \in S
    BY <1>1, ElementOfSeq
  <2>2. Front(s) = SubSeq(s, 1, k)
    BY DEF Front
  <2> HIDE DEF k
  <2>3. /\ SubSeq(s, 1, k) \in Seq(S) /\ Len(SubSeq(s, 1, k)) = k
        /\ \A i \in 1 .. k : SubSeq(s, 1, k)[i] = s[i]
    BY <2>1, SubSeqProperties
  <2> QED BY <2>2, <2>3 DEF k
<1> DEFINE t == Append(Front(s), Last(s))
<1>4. t \in Seq(S) /\ Len(t) = Len(s) /\ \A i \in 1 .. Len(s) : t[i] = s[i]
  BY <1>1, <1>2, <1>3, AppendProperties
<1>5. s = t
  <2> HIDE DEF t
  <2> QED BY <1>4, SeqEqual
<1> QED BY <1>2, <1>3, <1>5

LEMMA AppendedFacts ==
  ASSUME NEW S, NEW s \in Seq(S), NEW e \in S
  PROVE  Append(s, e) \in Seq(S) /\ Append(s, e) # <<>> /\ Last(Append(s, e)) = e /\ Front(Append(s, e)) = s
<1> DEFINE t == Append(s, e)
<1>1. t \in Seq(S) /\ t # <<>> /\ Len(t) = Len(s) + 1 /\ t[Len(s) + 1] = e /\ Len(s) \in Nat
      /\ \A i \in 1 .. Len(s) : t[i] = s[i]
  BY AppendProperties, LenProperties
<1> HIDE DEF t
<1>2. /\ Last(t) = e /\ Front(t) \in Seq(S) /\ Len(Front(t)) = Len(s)
      /\ \A i \in 1 .. Len(s) : Front(t)[i] = s[i]
  BY <1>1, FrontFacts, SMTT(30)
<1>3. Front(t) = s
  BY <1>2, SeqEqual
<1> QED BY <1>1, <1>2, <1>3 DEF t

\* The first of what follows may be taken first.
LEMMA HeadMoves ==
  ASSUME NEW S, NEW a \in Seq(S), NEW s \in Seq(S), s # <<>>
  PROVE  /\ Head(s) \in S /\ Tail(s) \in Seq(S) /\ Append(a, Head(s)) \in Seq(S)
         /\ a \o s = Append(a, Head(s)) \o Tail(s)
<1>0. Len(s) \in Nat \ {0} /\ Len(a) \in Nat
  BY EmptySeq, LenProperties
<1>1. Head(s) \in S /\ Tail(s) \in Seq(S) /\ Append(a, Head(s)) \in Seq(S)
  BY HeadTailProperties, AppendProperties
<1>2. s = <<Head(s)>> \o Tail(s)
  <2>1. Head(s) = s[1] /\ SubSeq(s, 1, Len(s)) = s /\ Tail(s) = SubSeq(s, 2, Len(s))
    BY <1>0, SubSeqFull, TailIsSubSeq
  <2>2. 1 \in 1 .. Len(s) /\ Len(s) \in 1 .. Len(s) /\ 1 + 1 = 2
    BY <1>0
  <2>3. SubSeq(s, 1, Len(s)) = <<s[1]>> \o SubSeq(s, 1 + 1, Len(s))
    BY <2>2, SubSeqRecursiveFirst
  <2> QED BY <2>1, <2>2, <2>3
<1>3. <<Head(s)>> \in Seq(S)
  BY <1>1
<1>4. a \o (<<Head(s)>> \o Tail(s)) = (a \o <<Head(s)>>) \o Tail(s)
  BY <1>1, <1>3, ConcatAssociative
<1>5. a \o <<Head(s)>> = Append(a, Head(s))
  BY <1>1, AppendIsConcat
<1> QED BY <1>1, <1>2, <1>4, <1>5

LEMMA ConcatParts ==
  ASSUME NEW S, NEW a \in Seq(S), NEW b \in Seq(S)
  PROVE  SubSeq(a \o b, 1, Len(a)) = a /\ SubSeq(a \o b, Len(a) + 1, Len(a \o b)) = b
<1> DEFINE t == a \o b
           n == Len(a)
           k == Len(t)
           u == SubSeq(t, 1, n)
           v == SubSeq(t, n + 1, k)
<1>1. n \in Nat /\ Len(b) \in Nat
  BY LenProperties
<1>2. /\ t \in Seq(S) /\ k = n + Len(b)
      /\ \A i \in 1 .. n + Len(b) : t[i] = IF i <= n THEN a[i] ELSE b[i - n]
  BY ConcatProperties
<1>3. k \in Nat /\ \A i \in 1 .. k : t[i] \in S
  BY <1>2, LenProperties, ElementOfSeq
<1> HIDE DEF t, n, k
<1>4. /\ u \in Seq(S) /\ Len(u) = n /\ \A i \in 1 .. n : u[i] = t[i]
  <2>1. n \in Int /\ 1 \in Int /\ \A i \in 1 .. n : t[i] \in S
    BY <1>1, <1>2, <1>3
  <2>2. /\ u \in Seq(S) /\ Len(u) = IF 1 <= n THEN n - 1 + 1 ELSE 0
        /\ \A i \in 1 .. n - 1 + 1 : u[i] = t[1 + i - 1]
    BY <2>1, SubSeqProperties
  <2> QED BY <1>1, <2>2
<1>5. /\ v \in Seq(S) /\ Len(v) = Len(b) /\ \A i \in 1 .. Len(b) : v[i] = t[n + i]
  <2> DEFINE j == n + 1
  <2>1. j \in Int /\ k \in Int /\ \A i \in j .. k : t[i] \in S
    BY <1>1, <1>2, <1>3
  <2>2. v = SubSeq(t, j, k)
    OBVIOUS
  <2> HIDE DEF j, v
  <2> DEFINE w == SubSeq(t, j, k)
  <2>3. /\ w \in Seq(S) /\ Len(w) = IF j <= k THEN k - j + 1 ELSE 0
        /\ \A i \in 1 .. k - j + 1 : w[i] = t[j + i - 1]
    BY <2>1, SubSeqProperties
  <2> HIDE DEF w
  <2>4. j = n + 1 /\ k - j + 1 = Len(b)
    BY <1>1, <1>2 DEF j
  <2>5. Len(w) = Len(b)
    BY <1>1, <1>2, <2>3, <2>4
  <2>6. ASSUME NEW i \in 1 .. Len(b) PROVE w[i] = t[n + i]
    <3>1. j + i - 1 = n + i
      BY <1>1, <2>4
    <3> QED BY <2>3, <2>4, <3>1
  <2> QED BY <2>2, <2>3, <2>5, <2>6 DEF w
<1> HIDE DEF u, v
<1>6. u = a
  BY <1>1, <1>2, <1>4, SeqEqual DEF n
<1>7. v = b
  <2>1. ASSUME NEW i \in 1 .. Len(b) PROVE v[i] = b[i]
    <3>1. n + i \in 1 .. n + Len(b) /\ ~(n + i <= n) /\ (n + i) - n = i
      BY <1>1
    <3> QED BY <1>2, <1>5, <3>1
  <2> QED BY <1>5, <2>1, SeqEqual
<1> QED BY <1>6, <1>7 DEF u, v, t, n, k

\* The first of what follows is taken out.
LEMMA TakenOut ==
  ASSUME NEW S, NEW a \in Seq(S), NEW s \in Seq(S), s # <<>>
  PROVE  /\ RemoveAt(a \o s, Len(a) + 1) = a \o Tail(s)
         /\ Len(a) + 1 \in 1 .. Len(a \o s) /\ (a \o s)[Len(a) + 1] = Head(s)
<1>1. /\ Len(a) \in Nat /\ Len(s) \in Nat \ {0} /\ Head(s) = s[1]
      /\ Tail(s) \in Seq(S) /\ Len(Tail(s)) = Len(s) - 1
      /\ \A i \in 1 .. Len(s) - 1 : Tail(s)[i] = s[i + 1]
  BY LenProperties, EmptySeq, HeadTailProperties
<1> DEFINE t == a \o s
           u == RemoveAt(t, Len(a) + 1)
           v == a \o Tail(s)
<1>2. /\ t \in Seq(S) /\ Len(t) = Len(a) + Len(s)
      /\ \A i \in 1 .. Len(a) + Len(s) : t[i] = IF i <= Len(a) THEN a[i] ELSE s[i - Len(a)]
  BY ConcatProperties
<1>3. /\ v \in Seq(S) /\ Len(v) = Len(a) + Len(s) - 1
      /\ \A i \in 1 .. Len(a) + Len(s) - 1 : v[i] = IF i <= Len(a) THEN a[i] ELSE Tail(s)[i - Len(a)]
  <2> DEFINE r == Tail(s)
  <2>1. /\ v \in Seq(S) /\ Len(v) = Len(a) + Len(r)
        /\ \A i \in 1 .. Len(a) + Len(r) : v[i] = IF i <= Len(a) THEN a[i] ELSE r[i - Len(a)]
    BY <1>1, ConcatProperties
  <2> QED BY <1>1, <2>1
<1> HIDE DEF t, v
<1>4. Len(a) + 1 \in 1 .. Len(t)
  BY <1>1, <1>2
<1>5. /\ u \in Seq(S) /\ Len(u) = Len(t) - 1
      /\ \A i \in 1 .. Len(t) - 1 : u[i] = IF i < Len(a) + 1 THEN t[i] ELSE t[i + 1]
  BY <1>2, <1>4, RemoveAtFacts
<1> HIDE DEF u
<1>6. ASSUME NEW i \in 1 .. Len(u) PROVE u[i] = v[i]
  <2>1. i \in Nat /\ i >= 1 /\ i <= Len(a) + Len(s) - 1
    BY <1>1, <1>2, <1>5
  <2>2. CASE i <= Len(a)
    <3>1. u[i] = t[i] /\ t[i] = a[i]
      BY <1>1, <1>2, <1>5, <2>1, <2>2, SMTT(30)
    <3>2. v[i] = a[i]
      BY <1>1, <1>3, <2>1, <2>2
    <3> QED BY <3>1, <3>2
  <2>3. CASE i > Len(a)
    <3>1. u[i] = t[i + 1] /\ t[i + 1] = s[(i + 1) - Len(a)]
      BY <1>1, <1>2, <1>5, <2>1, <2>3
    <3>2. v[i] = Tail(s)[i - Len(a)]
      BY <1>1, <1>3, <2>1, <2>3
    <3>3. i - Len(a) \in 1 .. Len(s) - 1 /\ (i - Len(a)) + 1 = (i + 1) - Len(a)
      BY <1>1, <2>1, <2>3
    <3>4. Tail(s)[i - Len(a)] = s[(i - Len(a)) + 1]
      BY <1>1, <3>3
    <3> QED BY <3>1, <3>2, <3>3, <3>4
  <2> QED BY <1>1, <2>1, <2>2, <2>3
<1>7. u = v
  BY <1>2, <1>3, <1>5, <1>6, SeqEqual
<1>8. t[Len(a) + 1] = s[1]
  BY <1>1, <1>2
<1> QED BY <1>1, <1>4, <1>7, <1>8 DEF t, u, v

\* A message is replaced where it stands.
LEMMA ReplacedAt ==
  ASSUME NEW S, NEW f \in Seq(S), NEW s \in Seq(S), NEW x \in S, NEW y \in S
  PROVE  /\ [(Append(f, x) \o s) EXCEPT ![Len(f) + 1] = y] = Append(f, y) \o s
         /\ (Append(f, x) \o s)[Len(f) + 1] = x
<1> DEFINE n == Len(f) + 1
           a == Append(f, x)
           b == Append(f, y)
           t == a \o s
           v == b \o s
           u == [t EXCEPT ![n] = y]
<1>1. /\ Len(f) \in Nat /\ Len(s) \in Nat
      /\ a \in Seq(S) /\ Len(a) = n /\ a[n] = x /\ \A i \in 1 .. Len(f) : a[i] = f[i]
      /\ b \in Seq(S) /\ Len(b) = n /\ b[n] = y /\ \A i \in 1 .. Len(f) : b[i] = f[i]
  BY LenProperties, AppendProperties
<1>9. a \in Seq(S) /\ b \in Seq(S)
  BY <1>1
<1> HIDE DEF a, b, n
<1>2. /\ t \in Seq(S) /\ Len(t) = n + Len(s)
      /\ \A i \in 1 .. n + Len(s) : t[i] = IF i <= n THEN a[i] ELSE s[i - n]
  <2>1. /\ t \in Seq(S) /\ Len(t) = Len(a) + Len(s)
        /\ \A i \in 1 .. Len(a) + Len(s) : t[i] = IF i <= Len(a) THEN a[i] ELSE s[i - Len(a)]
    BY <1>9, ConcatProperties
  <2> QED BY <1>1, <2>1
<1>3. /\ v \in Seq(S) /\ Len(v) = n + Len(s)
      /\ \A i \in 1 .. n + Len(s) : v[i] = IF i <= n THEN b[i] ELSE s[i - n]
  <2>1. /\ v \in Seq(S) /\ Len(v) = Len(b) + Len(s)
        /\ \A i \in 1 .. Len(b) + Len(s) : v[i] = IF i <= Len(b) THEN b[i] ELSE s[i - Len(b)]
    BY <1>9, ConcatProperties
  <2> QED BY <1>1, <2>1
<1> HIDE DEF t, v
<1>4. n \in 1 .. Len(t) /\ n \in Nat /\ \A i \in 1 .. n : i = n \/ i \in 1 .. Len(f)
  BY <1>1, <1>2 DEF n
<1>5. /\ u \in Seq(S) /\ Len(u) = Len(t)
      /\ \A i \in 1 .. Len(t) : u[i] = IF i = n THEN y ELSE t[i]
  BY <1>2, <1>4, ExceptSeq
<1> HIDE DEF u
<1>6. ASSUME NEW i \in 1 .. Len(u) PROVE u[i] = v[i]
  <2>1. i \in 1 .. n + Len(s) /\ i \in 1 .. Len(t)
    BY <1>2, <1>5
  <2>2. CASE i = n
    BY <1>1, <1>3, <1>4, <1>5, <2>1, <2>2
  <2>3. CASE i # n /\ i <= n
    <3>1. i \in 1 .. Len(f)
      BY <1>4, <2>1, <2>3
    <3> QED BY <1>1, <1>2, <1>3, <1>5, <2>1, <2>3, <3>1
  <2>4. CASE ~(i <= n)
    <3>1. i # n
      BY <1>4, <2>4
    <3> QED BY <1>2, <1>3, <1>5, <2>1, <2>4, <3>1
  <2> QED BY <2>2, <2>3, <2>4
<1>7. u = v
  BY <1>2, <1>3, <1>5, <1>6, SeqEqual
<1>8. t[n] = x
  <2>1. n \in 1 .. n + Len(s) /\ n <= n
    BY <1>1, <1>4
  <2> QED BY <1>1, <1>2, <2>1
<1> QED BY <1>7, <1>8 DEF u, t, v, a, b, n

\* What is left of a sequence once its first k elements are gone.
LEMMA SuffixFacts ==
  ASSUME NEW S, NEW s \in Seq(S), NEW k \in 0 .. Len(s)
  PROVE  /\ SubSeq(s, k + 1, Len(s)) \in Seq(S)
         /\ Len(SubSeq(s, k + 1, Len(s))) = Len(s) - k
         /\ \A i \in 1 .. Len(s) - k : SubSeq(s, k + 1, Len(s))[i] = s[k + i]
<1> DEFINE j == k + 1
           n == Len(s)
           w == SubSeq(s, j, n)
<1>1. n \in Nat /\ j \in Int /\ j >= 1
  BY LenProperties
<1>2. \A i \in j .. n : s[i] \in S
  BY <1>1, ElementOfSeq
<1> HIDE DEF j, n
<1>3. /\ w \in Seq(S) /\ Len(w) = IF j <= n THEN n - j + 1 ELSE 0
      /\ \A i \in 1 .. n - j + 1 : w[i] = s[j + i - 1]
  BY <1>1, <1>2, SubSeqProperties
<1> HIDE DEF w
<1>4. n - j + 1 = n - k /\ n \in Nat /\ k \in 0 .. n
  BY <1>1 DEF j, n
<1>5. Len(w) = n - k
  BY <1>1, <1>3, <1>4
<1>6. ASSUME NEW i \in 1 .. n - k PROVE w[i] = s[k + i]
  <2>1. j + i - 1 = k + i
    BY <1>1, <1>4 DEF j
  <2> QED BY <1>3, <1>4, <2>1
<1> QED BY <1>3, <1>5, <1>6 DEF w, j, n

-----------------------------------------------------------------------------
(* A sum over a sequence, which SequencesExt folds from its last place on. *)

\* f sums up the elements of s at the first k places, or at some of them.
Sums(f, s, k) ==
  f = [S \in SUBSET (1 .. k) |-> IF S = {} THEN 0 ELSE f[S \ {Max(S)}] + s[Max(S)]]

\* Max returns a greatest element where there is one.
LEMMA GreatestIs ==
  ASSUME NEW T \in SUBSET Int, NEW x \in T, \A t \in T : t <= x PROVE Max(T) = x
<1>1. x \in Int /\ T # {}
  OBVIOUS
<1>2. Max(T) \in T /\ \A t \in T : t <= Max(T)
  BY <1>1, MaxIs
<1> DEFINE m == Max(T)
<1> HIDE DEF m
<1>3. m \in Int /\ m <= x /\ x <= m
  BY <1>1, <1>2 DEF m
<1>4. m = x
  BY <1>1, <1>3
<1> QED BY <1>4 DEF m

\* Min returns a least element where there is one.
LEMMA SmallestIs ==
  ASSUME NEW T \in SUBSET Int, NEW x \in T, \A t \in T : x <= t PROVE Min(T) = x
<1>1. x \in Int /\ T # {}
  OBVIOUS
<1>2. Min(T) \in T /\ \A t \in T : Min(T) <= t
  BY <1>1, MinIs
<1> DEFINE m == Min(T)
<1> HIDE DEF m
<1>3. m \in Int /\ m <= x /\ x <= m
  BY <1>1, <1>2 DEF m
<1>4. m = x
  BY <1>1, <1>3
<1> QED BY <1>4 DEF m

\* One place more is summed up from those before it.
LEMMA SumsExtend ==
  ASSUME NEW s, NEW k \in Nat, s[k + 1] \in Int,
         NEW f \in [SUBSET (1 .. k) -> Int], Sums(f, s, k)
  PROVE  \E g \in [SUBSET (1 .. k + 1) -> Int] : Sums(g, s, k + 1)
<1> DEFINE g == [S \in SUBSET (1 .. k + 1) |-> IF k + 1 \in S THEN f[S \ {k + 1}] + s[k + 1] ELSE f[S]]
<1>1. \A S \in SUBSET (1 .. k + 1) : /\ S \ {k + 1} \in SUBSET (1 .. k)
                                     /\ k + 1 \notin S => S \in SUBSET (1 .. k)
  OBVIOUS
<1>2. g \in [SUBSET (1 .. k + 1) -> Int]
  BY <1>1
<1>3. ASSUME NEW S \in SUBSET (1 .. k + 1)
      PROVE  g[S] = IF S = {} THEN 0 ELSE g[S \ {Max(S)}] + s[Max(S)]
  <2>1. g[S] = IF k + 1 \in S THEN f[S \ {k + 1}] + s[k + 1] ELSE f[S]
    OBVIOUS
  <2>2. CASE k + 1 \in S
    <3>1. Max(S) = k + 1
      <4>1. S \in SUBSET Int /\ \A t \in S : t <= k + 1
        OBVIOUS
      <4> QED BY <2>2, <4>1, GreatestIs
    <3>2. S \ {k + 1} \in SUBSET (1 .. k + 1) /\ k + 1 \notin S \ {k + 1}
      OBVIOUS
    <3>3. g[S \ {k + 1}] = f[S \ {k + 1}]
      BY <3>2
    <3> HIDE DEF g
    <3> QED BY <2>1, <2>2, <3>1, <3>3
  <2>3. CASE k + 1 \notin S
    <3>1. S \in SUBSET (1 .. k)
      BY <1>1, <2>3
    <3>2. f[S] = IF S = {} THEN 0 ELSE f[S \ {Max(S)}] + s[Max(S)]
      BY <3>1 DEF Sums
    <3>3. S \ {Max(S)} \in SUBSET (1 .. k + 1) /\ k + 1 \notin S \ {Max(S)}
      BY <2>3
    <3>4. g[S \ {Max(S)}] = f[S \ {Max(S)}]
      BY <3>3
    <3> HIDE DEF g
    <3> QED BY <2>1, <2>3, <3>2, <3>4
  <2> QED BY <2>2, <2>3
<1>4. Sums(g, s, k + 1)
  BY <1>3 DEF Sums
<1> QED BY <1>2, <1>4

\* There is a function that sums up a sequence.
LEMMA SumsExist ==
  ASSUME NEW n \in Nat, NEW s, \A i \in 1 .. n : s[i] \in Int
  PROVE  \E f \in [SUBSET (1 .. n) -> Int] : Sums(f, s, n)
<1> DEFINE Known(k) == \E f \in [SUBSET (1 .. k) -> Int] : Sums(f, s, k)
           Good == {k \in 0 .. n : Known(k)}
<1>1. 0 \in Good
  <2> DEFINE f == [S \in SUBSET (1 .. 0) |-> 0]
  <2>1. f \in [SUBSET (1 .. 0) -> Int] /\ \A S \in SUBSET (1 .. 0) : S = {}
    OBVIOUS
  <2>2. Sums(f, s, 0)
    BY <2>1 DEF Sums
  <2> HIDE DEF f
  <2>3. Known(0)
    BY <2>1, <2>2
  <2> HIDE DEF Known
  <2> QED BY <2>3
<1>2. ASSUME NEW k \in 0 .. n - 1, k \in Good PROVE k + 1 \in Good
  <2>1. PICK f \in [SUBSET (1 .. k) -> Int] : Sums(f, s, k)
    BY <1>2
  <2>2. k \in Nat /\ k + 1 \in 0 .. n /\ s[k + 1] \in Int
    BY <1>2
  <2> QED BY <2>1, <2>2, SumsExtend
<1>3. n \in Good
  <2> HIDE DEF Good
  <2>1. \A i \in 0 .. n : i \in Good
    BY <1>1, <1>2, SegmentInduction
  <2> QED BY <2>1
<1> QED BY <1>3

\* Two functions that sum up the same elements agree.
LEMMA SumsAgree ==
  ASSUME NEW k \in Nat, NEW n \in Nat, NEW s, NEW t, NEW f, NEW g,
         k <= n, \A i \in 1 .. k : s[i] = t[i], Sums(f, s, k), Sums(g, t, n)
  PROVE  f[1 .. k] = g[1 .. k]
<1> DEFINE Good == {j \in 0 .. k : f[1 .. j] = g[1 .. j]}
<1>0. \A S \in SUBSET (1 .. k) : f[S] = IF S = {} THEN 0 ELSE f[S \ {Max(S)}] + s[Max(S)]
  BY DEF Sums
<1>1. \A S \in SUBSET (1 .. n) : g[S] = IF S = {} THEN 0 ELSE g[S \ {Max(S)}] + t[Max(S)]
  BY DEF Sums
<1>2. 0 \in Good
  <2>1. 1 .. 0 = {} /\ {} \in SUBSET (1 .. k) /\ {} \in SUBSET (1 .. n)
    OBVIOUS
  <2>2. f[{}] = 0 /\ g[{}] = 0
    BY <1>0, <1>1, <2>1
  <2> QED BY <2>1, <2>2
<1>3. ASSUME NEW j \in 0 .. k - 1, j \in Good PROVE j + 1 \in Good
  <2> DEFINE S == 1 .. j + 1
  <2>1. S \in SUBSET (1 .. k) /\ S \in SUBSET (1 .. n) /\ S # {} /\ j + 1 \in 1 .. k
    OBVIOUS
  <2>2. Max(S) = j + 1
    <3>1. S \in SUBSET Int /\ j + 1 \in S /\ \A y \in S : y <= j + 1
      OBVIOUS
    <3> HIDE DEF S
    <3> QED BY <3>1, GreatestIs
  <2>3. S \ {j + 1} = 1 .. j
    OBVIOUS
  <2> HIDE DEF S
  <2>4. f[S] = f[1 .. j] + s[j + 1] /\ g[S] = g[1 .. j] + t[j + 1]
    BY <1>0, <1>1, <2>1, <2>2, <2>3
  <2>5. f[1 .. j] = g[1 .. j] /\ s[j + 1] = t[j + 1]
    BY <1>3, <2>1
  <2>6. f[S] = g[S]
    BY <2>4, <2>5
  <2> QED BY <2>1, <2>6 DEF S
<1>4. k \in Good
  <2> HIDE DEF Good
  <2>1. \A i \in 0 .. k : i \in Good
    BY <1>2, <1>3, SegmentInduction
  <2> QED BY <2>1
<1> QED BY <1>4

\* Two functions that sum up one sequence agree.
LEMMA SumsUnique ==
  ASSUME NEW n \in Nat, NEW s, NEW f, NEW g, Sums(f, s, n), Sums(g, s, n)
  PROVE  f[1 .. n] = g[1 .. n]
<1>1. \A m \in Nat : n <= m /\ Sums(g, s, m) => f[1 .. n] = g[1 .. n]
  <2> SUFFICES ASSUME NEW m \in Nat, n <= m, Sums(g, s, m) PROVE f[1 .. n] = g[1 .. n]
    OBVIOUS
  <2>1. \A i \in 1 .. n : s[i] = s[i]
    OBVIOUS
  <2> QED BY <2>1, SumsAgree
<1>2. n <= n
  OBVIOUS
<1> QED BY <1>1, <1>2

\* The fold of a sequence is what such a function finds for all places.
LEMMA FoldIs ==
  ASSUME NEW s \in Seq(Int)
  PROVE  \E f : /\ Sums(f, s, Len(s)) /\ f[1 .. Len(s)] \in Int
                /\ FoldLeft(LAMBDA a, b : a + b, 0, s) = f[1 .. Len(s)]
<1> DEFINE n == Len(s)
           c == CHOOSE f : Sums(f, s, n)
<1>1. n \in Nat /\ DOMAIN s = 1 .. n /\ \A i \in 1 .. n : s[i] \in Int
  BY LenProperties, ElementOfSeq
<1>2. FoldLeft(LAMBDA a, b : a + b, 0, s) = c[1 .. n]
  BY <1>1 DEF FoldLeft, MapThenFoldSet, Sums
<1> HIDE DEF n
<1>3. PICK f \in [SUBSET (1 .. n) -> Int] : Sums(f, s, n)
  BY <1>1, SumsExist
<1>4. Sums(c, s, n)
  BY <1>3
<1> HIDE DEF c
<1>5. f[1 .. n] = c[1 .. n]
  <2>1. n \in Nat /\ Sums(f, s, n) /\ Sums(c, s, n)
    BY <1>1, <1>3, <1>4
  <2> QED BY ONLY <2>1, SumsUnique
<1>6. f[1 .. n] \in Int
  BY <1>3
<1> QED BY <1>2, <1>4, <1>5, <1>6 DEF n

\* The sum of nothing, and the sum of a sequence with one element more.
LEMMA SumOfAppended ==
  ASSUME NEW s \in Seq(Int), NEW x \in Int
  PROVE  /\ FoldLeft(LAMBDA a, b : a + b, 0, <<>>) = 0
         /\ FoldLeft(LAMBDA a, b : a + b, 0, Append(s, x))
              = FoldLeft(LAMBDA a, b : a + b, 0, s) + x
<1>1. FoldLeft(LAMBDA a, b : a + b, 0, <<>>) = 0
  <2>1. <<>> \in Seq(Int) /\ Len(<<>>) = 0
    OBVIOUS
  <2>2. PICK f : /\ Sums(f, <<>>, 0)
                 /\ FoldLeft(LAMBDA a, b : a + b, 0, <<>>) = f[1 .. 0]
    BY <2>1, FoldIs
  <2>3. 1 .. 0 = {} /\ {} \in SUBSET (1 .. 0)
    OBVIOUS
  <2>4. f[{}] = 0
    BY <2>2, <2>3 DEF Sums
  <2> QED BY <2>2, <2>3, <2>4
<1> DEFINE t == Append(s, x)
           n == Len(s)
<1>2. /\ t \in Seq(Int) /\ Len(t) = n + 1 /\ n \in Nat /\ t[n + 1] = x
      /\ \A i \in 1 .. n : t[i] = s[i]
  BY AppendProperties, LenProperties
<1> HIDE DEF t
<1>3. PICK f : /\ Sums(f, s, n) /\ f[1 .. n] \in Int
               /\ FoldLeft(LAMBDA a, b : a + b, 0, s) = f[1 .. n]
  BY FoldIs
<1>4. PICK g : /\ Sums(g, t, n + 1)
               /\ FoldLeft(LAMBDA a, b : a + b, 0, t) = g[1 .. n + 1]
  <2>1. \E g : /\ Sums(g, t, Len(t))
               /\ FoldLeft(LAMBDA a, b : a + b, 0, t) = g[1 .. Len(t)]
    BY <1>2, FoldIs
  <2> QED BY <1>2, <2>1
<1> HIDE DEF n
<1>5. f[1 .. n] = g[1 .. n]
  <2>1. n + 1 \in Nat /\ n <= n + 1 /\ \A i \in 1 .. n : s[i] = t[i]
    BY <1>2
  <2>2. Sums(f, s, n) /\ Sums(g, t, n + 1)
    BY ONLY <1>3, <1>4
  <2>3. \A m \in Nat : n <= m /\ Sums(g, t, m) => f[1 .. n] = g[1 .. n]
    <3> SUFFICES ASSUME NEW m \in Nat, n <= m, Sums(g, t, m) PROVE f[1 .. n] = g[1 .. n]
      OBVIOUS
    <3>1. n \in Nat /\ n <= m /\ Sums(g, t, m)
      BY <1>2
    <3> QED BY ONLY <2>1, <2>2, <3>1, SumsAgree
  <2> QED BY ONLY <2>1, <2>2, <2>3
<1>6. g[1 .. n + 1] = g[1 .. n] + x
  <2> DEFINE S == 1 .. n + 1
  <2>0. n \in Nat
    BY <1>2
  <2>1. /\ S \in SUBSET Int /\ n + 1 \in S /\ \A y \in S : y <= n + 1
        /\ S # {} /\ S \ {n + 1} = 1 .. n /\ S \in SUBSET (1 .. n + 1)
    BY ONLY <2>0
  <2>2. Max(S) = n + 1
    <3> HIDE DEF S
    <3> QED BY <2>1, GreatestIs
  <2>3. g[S] = IF S = {} THEN 0 ELSE g[S \ {Max(S)}] + t[Max(S)]
    BY <1>4 DEF Sums
  <2> HIDE DEF S
  <2>4. g[S] = g[1 .. n] + x
    BY <1>2, <2>1, <2>2, <2>3
  <2> QED BY <2>4 DEF S
<1> QED BY <1>1, <1>3, <1>4, <1>5, <1>6 DEF t

-----------------------------------------------------------------------------
(* Counting. *)

\* A rearrangement of places keeps how many of them there are of a kind.
LEMMA SameCount ==
  ASSUME NEW n \in Nat, NEW q \in Bijection(1 .. n, 1 .. n),
         NEW A \in SUBSET (1 .. n), NEW B \in SUBSET (1 .. n),
         \A j \in 1 .. n : j \in A <=> q[j] \in B
  PROVE  Cardinality(A) = Cardinality(B)
<1> DEFINE r == [x \in A |-> q[x]]
<1>1. /\ q \in [1 .. n -> 1 .. n] /\ \A a, b \in 1 .. n : q[a] = q[b] => a = b
      /\ \A t \in 1 .. n : \E s \in 1 .. n : q[s] = t
  BY DEF Bijection, Injection, Surjection, IsInjective
<1>2. r \in [A -> B] /\ \A a, b \in A : r[a] = r[b] => a = b
  BY <1>1
<1>3. \A t \in B : \E s \in A : r[s] = t
  BY <1>1
<1>4. r \in Bijection(A, B)
  <2> HIDE DEF r
  <2> QED BY <1>2, <1>3, Fun_IsBij
<1>5. ExistsBijection(A, B)
  BY <1>4, Fun_ExistsBij
<1>6. IsFiniteSet(A)
  <2>1. IsFiniteSet(1 .. n)
    BY FS_Interval
  <2> QED BY <2>1, FS_Subset
<1> QED BY <1>5, <1>6, FS_Bijection
=============================================================================
