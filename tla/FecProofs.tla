------------------------------- MODULE FecProofs -------------------------------
(***************************************************************************)
(* Proofs about ReedSolomon, for every primitive polynomial, every shape   *)
(* of block and every pattern of losses: the tables of Gf256 make a field, *)
(* Gauss-Jordan elimination inverts what is not singular, the squares of   *)
(* parity coefficients are not, and so a block that can be recovered is    *)
(* recovered exactly and without the fallback.                             *)
(***************************************************************************)
EXTENDS ReedSolomon, DataLemmas

-----------------------------------------------------------------------------
(* The field. *)

\* The laws of Xor on bytes.
LEMMA XorLaws ==
  /\ 0 \in Elements
  /\ \A a \in Elements : Xor(a, 0) = a /\ Xor(0, a) = a /\ Xor(a, a) = 0
  /\ \A a, b \in Elements : Xor(a, b) \in Elements /\ Xor(a, b) = Xor(b, a)
  /\ \A a, b, c \in Elements : Xor(a, Xor(b, c)) = Xor(Xor(a, b), c)
<1> DEFINE Wide == 0 .. 2 * Order + 1
<1>1. Elements \subseteq Wide /\ 0 \in Elements
  BY WidthAssumption DEF Elements
<1>2. /\ \A a \in Wide : Xor(a, 0) = a /\ Xor(a, a) = 0
      /\ \A a, b \in Wide : Xor(a, b) = Xor(b, a)
      /\ \A a, b \in Wide : Xor(a, b) \in Elements <=> (a \in Elements <=> b \in Elements)
      /\ \A a, b, c \in Wide : Xor(a, Xor(b, c)) = Xor(Xor(a, b), c)
  BY XorAssumption
<1> HIDE DEF Wide
<1> QED BY <1>1, <1>2

\* What is equal cancels, and nothing else.
LEMMA XorCancels ==
  ASSUME NEW a \in Elements, NEW b \in Elements
  PROVE  /\ Xor(a, b) = 0 <=> a = b
         /\ Xor(a, Xor(a, b)) = b
<1>1. Xor(a, Xor(a, b)) = b
  <2>1. Xor(a, Xor(a, b)) = Xor(Xor(a, a), b)
    BY XorLaws
  <2> QED BY <2>1, XorLaws
<1>2. Xor(a, b) = 0 => a = b
  BY <1>1, XorLaws
<1> QED BY <1>1, <1>2, XorLaws

\* Two pairs summed up in another order.
LEMMA XorSwaps ==
  ASSUME NEW a \in Elements, NEW b \in Elements, NEW c \in Elements, NEW d \in Elements
  PROVE  Xor(Xor(a, b), Xor(c, d)) = Xor(Xor(a, c), Xor(b, d))
<1>1. Xor(a, b) \in Elements /\ Xor(a, c) \in Elements /\ Xor(c, d) \in Elements /\ Xor(b, d) \in Elements
  BY XorLaws
<1>2. Xor(Xor(a, b), Xor(c, d)) = Xor(a, Xor(b, Xor(c, d)))
  BY <1>1, XorLaws
<1>3. Xor(b, Xor(c, d)) = Xor(Xor(b, c), d) /\ Xor(Xor(b, c), d) = Xor(Xor(c, b), d)
      /\ Xor(Xor(c, b), d) = Xor(c, Xor(b, d))
  BY XorLaws
<1>4. Xor(a, Xor(c, Xor(b, d))) = Xor(Xor(a, c), Xor(b, d))
  BY <1>1, XorLaws
<1> QED BY <1>2, <1>3, <1>4

\* Doubling is a linear map of the field.
LEMMA DoubledAdds ==
  ASSUME NEW a \in Elements, NEW b \in Elements
  PROVE  Doubled(Xor(a, b)) = Xor(Doubled(a), Doubled(b))
<1> DEFINE Wide == 0 .. 2 * Order + 1
           x == 2 * a
           y == 2 * b
           p == Polynomial
<1>1. x \in Wide /\ y \in Wide /\ p \in Wide /\ p \notin Elements /\ 0 \in Wide
  BY WidthAssumption DEF Elements
<1>2. Xor(x, y) = 2 * Xor(a, b) /\ Xor(a, b) \in Elements
  BY XorAssumption, XorLaws
<1>3. /\ x > Order <=> x \notin Elements
      /\ y > Order <=> y \notin Elements
      /\ 2 * Xor(a, b) > Order <=> 2 * Xor(a, b) \notin Elements
  BY <1>1, <1>2, WidthAssumption DEF Elements
<1>4. Xor(x, y) \in Elements <=> (x \in Elements <=> y \in Elements)
  <2> HIDE DEF x, y
  <2> QED BY <1>1, XorAssumption
<1>5. /\ Doubled(a) = IF x \in Elements THEN x ELSE Xor(x, p)
      /\ Doubled(b) = IF y \in Elements THEN y ELSE Xor(y, p)
      /\ Doubled(Xor(a, b)) = IF x \in Elements <=> y \in Elements THEN Xor(x, y) ELSE Xor(Xor(x, y), p)
  BY <1>2, <1>3, <1>4 DEF Doubled
<1>6. /\ Xor(Xor(x, p), Xor(y, p)) = Xor(x, y)
      /\ Xor(Xor(x, p), y) = Xor(Xor(x, y), p)
      /\ Xor(x, Xor(y, p)) = Xor(Xor(x, y), p)
  <2> HIDE DEF x, y, p
  <2>0. /\ \A u \in Wide : Xor(u, 0) = u /\ Xor(u, u) = 0
        /\ \A u, v \in Wide : Xor(u, v) \in Wide /\ Xor(u, v) = Xor(v, u)
        /\ \A u, v, w \in Wide : Xor(u, Xor(v, w)) = Xor(Xor(u, v), w)
    BY XorAssumption
  <2> HIDE DEF Wide
  <2>1. Xor(x, Xor(y, p)) = Xor(Xor(x, y), p)
    BY <1>1, <2>0
  <2>2. Xor(Xor(x, p), y) = Xor(x, Xor(p, y)) /\ Xor(p, y) = Xor(y, p)
    BY <1>1, <2>0
  <2>3. Xor(Xor(x, p), Xor(y, p)) = Xor(x, Xor(p, Xor(y, p))) /\ Xor(y, p) \in Wide
    BY <1>1, <2>0
  <2>4. Xor(p, Xor(y, p)) = Xor(Xor(p, p), y) /\ Xor(Xor(p, p), y) = y
    <3>1. Xor(y, p) = Xor(p, y) /\ Xor(p, Xor(p, y)) = Xor(Xor(p, p), y) /\ Xor(p, p) = 0
      BY <1>1, <2>0
    <3>2. Xor(0, y) = Xor(y, 0) /\ Xor(y, 0) = y
      BY <1>1, <2>0
    <3> QED BY <3>1, <3>2
  <2> QED BY <2>1, <2>2, <2>3, <2>4
<1> HIDE DEF x, y, p
<1> QED BY <1>5, <1>6

\* The recursion of Gf256::build defines a function.
LEMMA ExpIs ==
  \A i \in 0 .. 2 * Order :
    Exp[i] = IF i = 0 THEN 1 ELSE IF i >= Order THEN Exp[i - Order] ELSE Doubled(Exp[i - 1])
<1> DEFINE n == 2 * Order
           Step(e, i) == IF i = 0 THEN 1 ELSE IF i >= Order THEN e[i - Order] ELSE Doubled(e[i - 1])
           Known(j) == \E e : \A i \in 0 .. j : e[i] = Step(e, i)
           Good == {j \in 0 .. n : Known(j)}
<1>0. n \in Nat /\ Order \in Nat \ {0}
  BY WidthAssumption
<1>1. 0 \in Good
  <2> DEFINE e == [i \in 0 .. 0 |-> 1]
  <2>1. \A i \in 0 .. 0 : e[i] = Step(e, i)
    OBVIOUS
  <2>2. Known(0)
    <3> HIDE DEF Step, e
    <3> QED BY <2>1
  <2> HIDE DEF Known
  <2> QED BY <2>2, <1>0
<1>2. ASSUME NEW j \in 0 .. n - 1, j \in Good PROVE j + 1 \in Good
  <2>1. PICK e : \A i \in 0 .. j : e[i] = Step(e, i)
    BY <1>2
  <2> DEFINE g == [i \in 0 .. j + 1 |-> IF i = j + 1 THEN Step(e, j + 1) ELSE e[i]]
  <2>2. ASSUME NEW i \in 0 .. j + 1 PROVE g[i] = Step(g, i)
    <3>1. Step(g, i) = Step(e, i)
      <4>1. i # 0 => i - 1 \in 0 .. j /\ i - 1 # j + 1 /\ i - 1 \in 0 .. j + 1
        BY <1>0
      <4>2. i >= Order => i - Order \in 0 .. j /\ i - Order # j + 1 /\ i - Order \in 0 .. j + 1
        BY <1>0
      <4>3. i # 0 => g[i - 1] = e[i - 1]
        BY <4>1
      <4>4. i >= Order => g[i - Order] = e[i - Order]
        BY <4>2
      <4> HIDE DEF g
      <4> QED BY <4>3, <4>4
    <3>2. i = j + 1 => g[i] = Step(e, i)
      <4> HIDE DEF Step
      <4> QED OBVIOUS
    <3>3. i # j + 1 => i \in 0 .. j /\ g[i] = e[i]
      <4> HIDE DEF Step
      <4> QED BY <1>0
    <3> HIDE DEF g, Step
    <3> QED BY <2>1, <3>1, <3>2, <3>3
  <2>3. Known(j + 1) /\ j + 1 \in 0 .. n
    <3>1. Known(j + 1)
      <4> HIDE DEF g, Step
      <4> QED BY <2>2
    <3> HIDE DEF Known
    <3> QED BY <3>1, <1>0
  <2> HIDE DEF Known
  <2> QED BY <2>3
<1>3. n \in Good
  <2> HIDE DEF Good
  <2>1. \A j \in 0 .. n : j \in Good
    BY <1>0, <1>1, <1>2, SegmentInduction
  <2> QED BY <2>1, <1>0
<1>4. PICK f : \A i \in 0 .. n : f[i] = Step(f, i)
  BY <1>3
<1> DEFINE h == [i \in 0 .. n |-> f[i]]
<1>5. h = [i \in 0 .. n |-> Step(h, i)]
  <2>1. ASSUME NEW i \in 0 .. n PROVE Step(f, i) = Step(h, i)
    <3>1. /\ i # 0 => i - 1 \in 0 .. n
          /\ i >= Order => i - Order \in 0 .. n
      BY <1>0
    <3>2. /\ i # 0 => h[i - 1] = f[i - 1]
          /\ i >= Order => h[i - Order] = f[i - Order]
      BY <3>1
    <3> HIDE DEF h
    <3> QED BY <3>2
  <2>2. \A i \in 0 .. n : f[i] = Step(h, i)
    <3> HIDE DEF Step
    <3> QED BY <1>4, <2>1
  <2> HIDE DEF Step
  <2> QED BY <2>2
<1> HIDE DEF h
<1>6. Exp = [i \in 0 .. n |-> IF i = 0 THEN 1 ELSE IF i >= Order THEN Exp[i - Order] ELSE Doubled(Exp[i - 1])]
  BY <1>5 DEF Exp
<1> QED BY <1>6

\* Every power of 2 is a byte but 0, the powers go round, and each is the double of the
\* one before it.
LEMMA ExpFacts ==
  /\ \A i \in 0 .. 2 * Order : Exp[i] \in 1 .. Order
  /\ Exp[0] = 1 /\ Exp[Order] = 1
  /\ \A i \in Order .. 2 * Order : Exp[i] = Exp[i - Order]
  /\ \A i \in 0 .. 2 * Order - 1 : Exp[i + 1] = Doubled(Exp[i])
<1>0. Order \in Nat \ {0}
  BY WidthAssumption
<1>1. Exp[0] = 1 /\ \A i \in Order .. 2 * Order : Exp[i] = Exp[i - Order]
  BY <1>0, ExpIs
<1>2. Exp[Order] = 1
  BY <1>0, <1>1
<1>3. \A i \in 0 .. Order - 1 : Exp[i] \in 1 .. Order
  BY PrimitiveAssumption
<1>4. \A i \in 0 .. Order : Exp[i] \in 1 .. Order
  BY <1>0, <1>2, <1>3
<1>5. ASSUME NEW i \in 0 .. 2 * Order PROVE Exp[i] \in 1 .. Order
  <2>1. i > Order => Exp[i] = Exp[i - Order] /\ i - Order \in 0 .. Order
    BY <1>0, <1>1
  <2> QED BY <1>0, <1>4, <2>1
<1>6. \A i \in 0 .. Order - 1 : Exp[i + 1] = Doubled(Exp[i])
  <2> SUFFICES ASSUME NEW i \in 0 .. Order - 1 PROVE Exp[i + 1] = Doubled(Exp[i])
    OBVIOUS
  <2>1. CASE i = Order - 1
    BY <1>0, <1>2, <2>1, PrimitiveAssumption
  <2>2. CASE i # Order - 1
    <3>1. i + 1 \in 0 .. 2 * Order /\ i + 1 # 0 /\ ~(i + 1 >= Order) /\ (i + 1) - 1 = i
      BY <1>0, <2>2
    <3> QED BY <3>1, ExpIs
  <2> QED BY <2>1, <2>2
<1>7. ASSUME NEW i \in 0 .. 2 * Order - 1 PROVE Exp[i + 1] = Doubled(Exp[i])
  <2>1. CASE i < Order
    BY <1>0, <1>6, <2>1
  <2>2. CASE i >= Order
    <3> DEFINE j == i - Order
    <3>1. /\ j \in 0 .. Order - 1 /\ i \in Order .. 2 * Order /\ i + 1 \in Order .. 2 * Order
          /\ (i + 1) - Order = j + 1
      BY <1>0, <2>2
    <3>2. Exp[i] = Exp[j] /\ Exp[i + 1] = Exp[j + 1]
      BY <1>1, <3>1
    <3> HIDE DEF j
    <3> QED BY <1>6, <3>1, <3>2
  <2> QED BY <1>0, <2>1, <2>2
<1> QED BY <1>1, <1>2, <1>5, <1>7

\* The logarithm is the exponent: no two exponents below Order have one power.
LEMMA LogFacts ==
  /\ \A a \in 1 .. Order : Log[a] \in 0 .. Order - 1 /\ Exp[Log[a]] = a
  /\ \A i \in 0 .. Order - 1 : Log[Exp[i]] = i
<1> DEFINE I == 0 .. Order - 1
           T == 1 .. Order
           f == [i \in I |-> Exp[i]]
<1>0. Order \in Nat \ {0}
  BY WidthAssumption
<1>1. \A a \in T : \E i \in I : Exp[i] = a
  BY PrimitiveAssumption
<1>2. \A i \in I : Exp[i] \in T
  BY PrimitiveAssumption
<1>3. \A i, j \in I : Exp[i] = Exp[j] => i = j
  <2>1. IsFiniteSet(I) /\ Cardinality(I) = Cardinality(T)
    BY <1>0, FS_Interval
  <2>2. f \in Surjection(I, T)
    <3> HIDE DEF I, T
    <3> QED BY <1>1, <1>2 DEF Surjection
  <2>3. f \in Injection(I, T)
    <3> HIDE DEF I, T, f
    <3> QED BY <2>1, <2>2, FS_SurjSameCardinalityImpliesInj
  <2>4. \A i, j \in I : f[i] = f[j] => i = j
    <3> HIDE DEF I, T, f
    <3> QED BY <2>3 DEF Injection, IsInjective
  <2> HIDE DEF I
  <2> QED BY <2>4
<1>4. ASSUME NEW a \in T PROVE Log[a] \in I /\ Exp[Log[a]] = a
  <2>1. Log[a] = CHOOSE i \in I : Exp[i] = a
    BY DEF Log
  <2> HIDE DEF I
  <2> QED BY <1>1, <2>1
<1> HIDE DEF I, T
<1>5. \A i \in I : Log[Exp[i]] = i
  BY <1>2, <1>3, <1>4
<1> QED BY <1>4, <1>5 DEF I, T

\* The product of two powers is a power, with the sum of the exponents, less Order when it
\* is as large.
LEMMA MulOfPowers ==
  ASSUME NEW i \in 0 .. Order - 1, NEW j \in 0 .. Order - 1
  PROVE  /\ Mul(Exp[i], Exp[j]) = Exp[i + j]
         /\ i + j < Order => i + j \in 0 .. Order - 1
         /\ i + j >= Order => i + j - Order \in 0 .. Order - 1 /\ Exp[i + j] = Exp[i + j - Order]
<1>0. Order \in Nat \ {0}
  BY WidthAssumption
<1>1. i \in 0 .. 2 * Order /\ j \in 0 .. 2 * Order
  BY <1>0
<1>2. Exp[i] \in 1 .. Order /\ Exp[j] \in 1 .. Order
  BY <1>1, ExpFacts
<1>3. Exp[i] # 0 /\ Exp[j] # 0 /\ Log[Exp[i]] = i /\ Log[Exp[j]] = j
  BY <1>2, LogFacts
<1>4. Mul(Exp[i], Exp[j]) = Exp[i + j]
  BY <1>3 DEF Mul
<1>5. i + j >= Order => i + j \in Order .. 2 * Order
  BY <1>0
<1> QED BY <1>0, <1>4, <1>5, ExpFacts

\* An element is 0 or a power.
LEMMA ZeroOrPower ==
  ASSUME NEW a \in Elements, a # 0
  PROVE  \E i \in 0 .. Order - 1 : a = Exp[i]
<1>1. a \in 1 .. Order
  BY WidthAssumption DEF Elements
<1> QED BY <1>1, LogFacts

\* The product: a byte, commutative and associative, 1 its unit, 0 only of 0.
LEMMA MulLaws ==
  /\ 1 \in Elements /\ 1 # 0
  /\ \A a \in Elements : Mul(0, a) = 0 /\ Mul(a, 0) = 0 /\ Mul(1, a) = a /\ Mul(a, 1) = a
  /\ \A a, b \in Elements : Mul(a, b) \in Elements /\ Mul(a, b) = Mul(b, a)
  /\ \A a, b \in Elements : Mul(a, b) = 0 => a = 0 \/ b = 0
  /\ \A a, b, c \in Elements : Mul(a, Mul(b, c)) = Mul(Mul(a, b), c)
<1> DEFINE I == 0 .. Order - 1
<1>0. Order \in Nat \ {0} /\ 0 \in I /\ 0 \in Elements /\ 1 \in Elements
  BY WidthAssumption DEF Elements
<1>1. \A a \in Elements : Mul(0, a) = 0 /\ Mul(a, 0) = 0
  BY DEF Mul
<1>2. \A i, j \in I : Mul(Exp[i], Exp[j]) = Exp[i + j] /\ Mul(Exp[i], Exp[j]) \in 1 .. Order
  <2> SUFFICES ASSUME NEW i \in I, NEW j \in I
               PROVE  Mul(Exp[i], Exp[j]) = Exp[i + j] /\ Mul(Exp[i], Exp[j]) \in 1 .. Order
    OBVIOUS
  <2>1. i + j \in 0 .. 2 * Order
    BY <1>0
  <2> QED BY <2>1, MulOfPowers, ExpFacts
<1>3. \A i \in I : Exp[i] \in 1 .. Order
  BY <1>0, ExpFacts
<1>4. ASSUME NEW a \in Elements PROVE Mul(1, a) = a /\ Mul(a, 1) = a
  <2>1. CASE a = 0
    BY <1>1, <1>0, <2>1
  <2>2. CASE a # 0
    <3>1. PICK i \in I : a = Exp[i]
      BY <2>2, ZeroOrPower
    <3>2. Mul(Exp[0], Exp[i]) = Exp[0 + i] /\ Mul(Exp[i], Exp[0]) = Exp[i + 0] /\ 0 + i = i /\ i + 0 = i
      BY <1>0, <1>2
    <3> QED BY <3>1, <3>2, ExpFacts
  <2> QED BY <2>1, <2>2
<1>5. ASSUME NEW a \in Elements, NEW b \in Elements
      PROVE  /\ Mul(a, b) \in Elements /\ Mul(a, b) = Mul(b, a)
             /\ Mul(a, b) = 0 => a = 0 \/ b = 0
  <2>1. CASE a = 0 \/ b = 0
    BY <1>1, <1>0, <2>1
  <2>2. CASE a # 0 /\ b # 0
    <3>1. PICK i \in I : a = Exp[i]
      BY <2>2, ZeroOrPower
    <3>2. PICK j \in I : b = Exp[j]
      BY <2>2, ZeroOrPower
    <3>3. /\ Mul(Exp[i], Exp[j]) = Exp[i + j] /\ Mul(Exp[i], Exp[j]) \in 1 .. Order
          /\ Mul(Exp[j], Exp[i]) = Exp[j + i]
      BY <1>2
    <3>4. i + j = j + i
      OBVIOUS
    <3>5. Mul(a, b) \in 1 .. Order /\ Mul(a, b) = Mul(b, a)
      BY <3>1, <3>2, <3>3, <3>4
    <3> QED BY <1>0, <3>5 DEF Elements
  <2> QED BY <2>1, <2>2
<1>6. ASSUME NEW a \in Elements, NEW b \in Elements, NEW c \in Elements
      PROVE  Mul(a, Mul(b, c)) = Mul(Mul(a, b), c)
  <2>1. CASE a = 0 \/ b = 0 \/ c = 0
    BY <1>0, <1>1, <1>5, <2>1
  <2>2. CASE a # 0 /\ b # 0 /\ c # 0
    <3>1. PICK i \in I : a = Exp[i]
      BY <2>2, ZeroOrPower
    <3>2. PICK j \in I : b = Exp[j]
      BY <2>2, ZeroOrPower
    <3>3. PICK l \in I : c = Exp[l]
      BY <2>2, ZeroOrPower
    <3> DEFINE p == IF i + j < Order THEN i + j ELSE i + j - Order
               q == IF j + l < Order THEN j + l ELSE j + l - Order
    <3>4. p \in I /\ q \in I /\ Mul(a, b) = Exp[p] /\ Mul(b, c) = Exp[q]
      BY <1>0, <3>1, <3>2, <3>3, MulOfPowers
    <3>5. Mul(a, Mul(b, c)) = Exp[i + q] /\ Mul(Mul(a, b), c) = Exp[p + l]
      <4> HIDE DEF p, q, I
      <4> QED BY <1>2, <3>1, <3>3, <3>4
    <3>6. \/ i + q = p + l
          \/ i + q = p + l + Order /\ i + q \in Order .. 2 * Order
          \/ p + l = i + q + Order /\ p + l \in Order .. 2 * Order
      BY <1>0
    <3>7. Exp[i + q] = Exp[p + l]
      <4>1. i + q \in Int /\ p + l \in Int
        BY <3>4
      <4> HIDE DEF p, q
      <4>2. \A x, y \in Int : x = y + Order /\ x \in Order .. 2 * Order => Exp[x] = Exp[y]
        <5> SUFFICES ASSUME NEW x \in Int, NEW y \in Int, x = y + Order, x \in Order .. 2 * Order
                     PROVE  Exp[x] = Exp[y]
          OBVIOUS
        <5>1. x - Order = y
          BY <1>0
        <5> QED BY <5>1, ExpFacts
      <4>3. CASE i + q = p + l
        BY <4>3
      <4>4. CASE i + q = p + l + Order /\ i + q \in Order .. 2 * Order
        BY <4>1, <4>2, <4>4
      <4>5. CASE p + l = i + q + Order /\ p + l \in Order .. 2 * Order
        BY <4>1, <4>2, <4>5
      <4> QED BY <3>6, <4>3, <4>4, <4>5
    <3> QED BY <3>5, <3>7
  <2> QED BY <2>1, <2>2
<1> HIDE DEF I
<1> QED BY <1>0, <1>1, <1>4, <1>5, <1>6

\* The product distributes over the sum: doubling does, and a power is a repeated doubling.
LEMMA MulAdds ==
  ASSUME NEW w \in Elements, NEW a \in Elements, NEW b \in Elements
  PROVE  Mul(w, Xor(a, b)) = Xor(Mul(w, a), Mul(w, b))
<1> DEFINE I == 0 .. Order - 1
           Linear(i) == \A x, y \in Elements : Mul(Exp[i], Xor(x, y)) = Xor(Mul(Exp[i], x), Mul(Exp[i], y))
           Good == {i \in I : Linear(i)}
<1>0. Order \in Nat \ {0} /\ 0 \in I
  BY WidthAssumption
<1>1. 0 \in Good
  <2>1. Linear(0)
    BY ExpFacts, MulLaws, XorLaws
  <2> HIDE DEF Linear
  <2> QED BY <1>0, <2>1
<1>2. ASSUME NEW i \in 0 .. Order - 2, NEW x \in Elements
      PROVE  /\ Mul(Exp[i + 1], x) = Doubled(Mul(Exp[i], x))
             /\ Mul(Exp[i], x) \in Elements
  <2>1. i \in I /\ i + 1 \in I
    BY <1>0
  <2>2. CASE x = 0
    <3>1. Mul(Exp[i + 1], x) = 0 /\ Mul(Exp[i], x) = 0
      BY <2>2 DEF Mul
    <3>2. Doubled(0) = 0
      BY <1>0 DEF Doubled
    <3> QED BY <3>1, <3>2, XorLaws
  <2>3. CASE x # 0
    <3>1. PICK j \in I : x = Exp[j]
      BY <2>3, ZeroOrPower
    <3>2. Mul(Exp[i], x) = Exp[i + j] /\ Mul(Exp[i + 1], x) = Exp[(i + 1) + j]
      BY <2>1, <3>1, MulOfPowers
    <3>3. (i + 1) + j = (i + j) + 1 /\ i + j \in 0 .. 2 * Order - 1 /\ i + j \in 0 .. 2 * Order
      BY <1>0
    <3>4. Exp[(i + j) + 1] = Doubled(Exp[i + j]) /\ Exp[i + j] \in 1 .. Order
      BY <3>3, ExpFacts
    <3>5. Exp[i + j] \in Elements
      BY <1>0, <3>4 DEF Elements
    <3> QED BY <3>2, <3>3, <3>4, <3>5
  <2> QED BY <2>2, <2>3
<1>3. ASSUME NEW i \in 0 .. (Order - 1) - 1, i \in Good PROVE i + 1 \in Good
  <2>0. i \in 0 .. Order - 2
    BY <1>0
  <2>1. ASSUME NEW x \in Elements, NEW y \in Elements
        PROVE  Mul(Exp[i + 1], Xor(x, y)) = Xor(Mul(Exp[i + 1], x), Mul(Exp[i + 1], y))
    <3>1. Mul(Exp[i], Xor(x, y)) = Xor(Mul(Exp[i], x), Mul(Exp[i], y))
      BY <1>3
    <3>2. Xor(x, y) \in Elements
      BY XorLaws
    <3>3. /\ Mul(Exp[i + 1], Xor(x, y)) = Doubled(Mul(Exp[i], Xor(x, y)))
          /\ Mul(Exp[i + 1], x) = Doubled(Mul(Exp[i], x)) /\ Mul(Exp[i], x) \in Elements
          /\ Mul(Exp[i + 1], y) = Doubled(Mul(Exp[i], y)) /\ Mul(Exp[i], y) \in Elements
      BY <1>2, <2>0, <3>2
    <3> QED BY <3>1, <3>3, DoubledAdds
  <2>2. Linear(i + 1) /\ i + 1 \in I
    BY <1>0, <2>1
  <2> HIDE DEF Linear
  <2> QED BY <2>2
<1>4. \A i \in 0 .. Order - 1 : i \in Good
  <2> DEFINE n == Order - 1
  <2>1. n \in Nat /\ \A i \in 0 .. n - 1 : i \in Good => i + 1 \in Good
    BY <1>0, <1>3
  <2> HIDE DEF Good, n
  <2>2. \A i \in 0 .. n : i \in Good
    BY <1>1, <2>1, SegmentInduction
  <2> QED BY <2>2 DEF n
<1>5. CASE w = 0
  BY <1>5, XorLaws, MulLaws, ZenonT(40)
<1>6. CASE w # 0
  <2>1. PICK i \in I : w = Exp[i]
    BY <1>6, ZeroOrPower
  <2>2. Linear(i)
    BY <1>4
  <2> QED BY <2>1, <2>2
<1> QED BY <1>5, <1>6

\* The reciprocal of a byte but 0.
LEMMA ReciprocalIs ==
  ASSUME NEW a \in Elements, a # 0
  PROVE  Reciprocal(a) \in Elements \ {0} /\ Mul(a, Reciprocal(a)) = 1 /\ Mul(Reciprocal(a), a) = 1
<1>0. Order \in Nat \ {0}
  BY WidthAssumption
<1>1. PICK i \in 0 .. Order - 1 : a = Exp[i]
  BY ZeroOrPower
<1>2. Reciprocal(a) = Exp[Order - i]
  <2>1. Log[Exp[i]] = i
    BY LogFacts
  <2> QED BY <1>1, <2>1 DEF Reciprocal
<1>3. Order - i \in 0 .. 2 * Order
  BY <1>0
<1>4. Reciprocal(a) \in 1 .. Order
  BY <1>2, <1>3, ExpFacts
<1>5. Reciprocal(a) \in Elements \ {0}
  BY <1>0, <1>4 DEF Elements
<1>6. Mul(a, Reciprocal(a)) = 1
  <2>1. CASE i = 0
    <3>1. a = 1 /\ Reciprocal(a) = 1
      BY <1>0, <1>1, <1>2, <2>1, ExpFacts
    <3> QED BY <3>1, MulLaws
  <2>2. CASE i # 0
    <3>1. Order - i \in 0 .. Order - 1 /\ i + (Order - i) = Order
      BY <1>0, <2>2
    <3>2. Mul(Exp[i], Exp[Order - i]) = Exp[i + (Order - i)]
      BY <3>1, MulOfPowers
    <3> QED BY <1>1, <1>2, <3>1, <3>2, ExpFacts
  <2> QED BY <2>1, <2>2
<1>7. Mul(Reciprocal(a), a) = Mul(a, Reciprocal(a))
  BY <1>5, MulLaws
<1> QED BY <1>5, <1>6, <1>7

\* The tables of Gf256::build make a field of the bytes, whatever their width and the
\* primitive polynomial: Xor is the sum, Mul the product, Reciprocal the inverse
\* (Gf256::mul, Gf256::inverse).
THEOREM TablesMakeAField ==
  /\ \A a, b \in Elements : Xor(a, b) \in Elements /\ Mul(a, b) \in Elements /\ Reciprocal(a) \in Elements
  /\ \A a, b \in Elements : Xor(a, b) = Xor(b, a) /\ Mul(a, b) = Mul(b, a)
  /\ \A a, b, c \in Elements : /\ Xor(a, Xor(b, c)) = Xor(Xor(a, b), c)
                               /\ Mul(a, Mul(b, c)) = Mul(Mul(a, b), c)
                               /\ Mul(a, Xor(b, c)) = Xor(Mul(a, b), Mul(a, c))
  /\ \A a \in Elements : Xor(a, 0) = a /\ Xor(a, a) = 0 /\ Mul(a, 1) = a
  /\ \A a \in Elements \ {0} : Mul(a, Reciprocal(a)) = 1
<1>1. Reciprocal(0) = 0
  BY DEF Reciprocal
<1>2. \A a \in Elements : Reciprocal(a) \in Elements
  BY <1>1, XorLaws, ReciprocalIs
<1> QED BY <1>2, XorLaws, MulLaws, MulAdds, ReciprocalIs

-----------------------------------------------------------------------------
(* Sums of products. *)

\* A vector of n elements, at least.
Vector(n, f) == \A i \in 0 .. n - 1 : f[i] \in Elements

\* The partial sums of Dot.
Partial(s, n, f, g) ==
  \A i \in 0 .. n : s[i] = IF i = 0 THEN 0 ELSE Xor(s[i - 1], Mul(f[i - 1], g[i - 1]))

\* They exist.
LEMMA PartialsExist ==
  ASSUME NEW n \in Nat, NEW f, NEW g
  PROVE  \E s : Partial(s, n, f, g)
<1> DEFINE Known(j) == \E s : Partial(s, j, f, g)
           Good == {j \in 0 .. n : Known(j)}
<1>1. 0 \in Good
  <2> DEFINE s == [i \in 0 .. 0 |-> 0]
  <2>1. Partial(s, 0, f, g)
    BY DEF Partial
  <2>2. Known(0)
    BY <2>1
  <2> HIDE DEF Known
  <2> QED BY <2>2
<1>2. ASSUME NEW j \in 0 .. n - 1, j \in Good PROVE j + 1 \in Good
  <2>1. PICK s : Partial(s, j, f, g)
    BY <1>2
  <2> DEFINE x == Xor(s[j], Mul(f[j], g[j]))
             t == [i \in 0 .. j + 1 |-> IF i = j + 1 THEN x ELSE s[i]]
  <2> HIDE DEF x
  <2>2. ASSUME NEW i \in 0 .. j + 1
        PROVE  t[i] = IF i = 0 THEN 0 ELSE Xor(t[i - 1], Mul(f[i - 1], g[i - 1]))
    <3>1. CASE i = j + 1
      <4>1. t[i] = x /\ i # 0 /\ i - 1 = j /\ j \in 0 .. j + 1 /\ j # j + 1
        BY <3>1
      <4>2. t[j] = s[j]
        BY <4>1
      <4> HIDE DEF t
      <4> QED BY <4>1, <4>2 DEF x
    <3>2. CASE i # j + 1
      <4>1. i \in 0 .. j /\ t[i] = s[i]
        BY <3>2
      <4>2. i # 0 => t[i - 1] = s[i - 1]
        BY <4>1
      <4> HIDE DEF t
      <4>3. s[i] = IF i = 0 THEN 0 ELSE Xor(s[i - 1], Mul(f[i - 1], g[i - 1]))
        BY <2>1, <4>1 DEF Partial
      <4> QED BY <4>1, <4>2, <4>3
    <3> QED BY <3>1, <3>2
  <2> HIDE DEF t
  <2>3. Partial(t, j + 1, f, g)
    BY <2>2 DEF Partial
  <2>4. Known(j + 1) /\ j + 1 \in 0 .. n
    BY <2>3
  <2> HIDE DEF Known
  <2> QED BY <2>4
<1>3. n \in Good
  <2> HIDE DEF Good
  <2>1. \A j \in 0 .. n : j \in Good
    BY <1>1, <1>2, SegmentInduction
  <2> QED BY <2>1
<1> QED BY <1>3

\* They are unique, and depend on nothing but the elements summed up.
LEMMA PartialsAgree ==
  ASSUME NEW k \in Nat, NEW n \in Nat, k <= n, NEW s, NEW t, NEW f, NEW g, NEW a, NEW b,
         Partial(s, k, f, g), Partial(t, n, a, b), \A i \in 0 .. k - 1 : f[i] = a[i] /\ g[i] = b[i]
  PROVE  s[k] = t[k]
<1> DEFINE Good == {j \in 0 .. k : s[j] = t[j]}
<1>1. 0 \in Good
  <2>1. s[0] = 0 /\ t[0] = 0
    BY DEF Partial
  <2> QED BY <2>1
<1>2. ASSUME NEW j \in 0 .. k - 1, j \in Good PROVE j + 1 \in Good
  <2>1. j + 1 \in 0 .. k /\ j + 1 \in 0 .. n /\ j + 1 # 0 /\ (j + 1) - 1 = j /\ s[j] = t[j]
    BY <1>2
  <2>2. s[j + 1] = Xor(s[j], Mul(f[j], g[j]))
    BY <2>1 DEF Partial
  <2>3. t[j + 1] = Xor(t[j], Mul(a[j], b[j]))
    BY <2>1 DEF Partial
  <2> QED BY <2>1, <2>2, <2>3
<1> HIDE DEF Good
<1>3. \A j \in 0 .. k : j \in Good
  BY <1>1, <1>2, SegmentInduction
<1> QED BY <1>3 DEF Good

\* Dot is the last of the partial sums.
LEMMA DotIsPartial ==
  ASSUME NEW n \in Nat, NEW f, NEW g
  PROVE  \E s : Partial(s, n, f, g) /\ Dot(n, f, g) = s[n]
<1> DEFINE Body(s, i) == IF i = 0 THEN 0 ELSE Xor(s[i - 1], Mul(f[i - 1], g[i - 1]))
<1>1. PICK p : Partial(p, n, f, g)
  BY PartialsExist
<1> DEFINE h == [i \in 0 .. n |-> p[i]]
<1>2. h = [i \in 0 .. n |-> Body(h, i)]
  <2>1. ASSUME NEW i \in 0 .. n PROVE p[i] = Body(h, i)
    <3>1. i # 0 => h[i - 1] = p[i - 1]
      OBVIOUS
    <3>2. p[i] = Body(p, i)
      BY <1>1 DEF Partial
    <3> HIDE DEF h
    <3> QED BY <3>1, <3>2
  <2> HIDE DEF Body
  <2> QED BY <2>1
<1> HIDE DEF h
<1> DEFINE s == CHOOSE s : s = [i \in 0 .. n |-> Body(s, i)]
<1>3. s = [i \in 0 .. n |-> Body(s, i)]
  <2> HIDE DEF Body
  <2> QED BY <1>2
<1>4. Dot(n, f, g) = s[n]
  BY DEF Dot
<1> HIDE DEF s
<1>5. Partial(s, n, f, g)
  <2> SUFFICES ASSUME NEW i \in 0 .. n PROVE s[i] = Body(s, i)
    BY DEF Partial
  <2> HIDE DEF Body
  <2> QED BY <1>3
<1> QED BY <1>4, <1>5

\* The sum of no product.
LEMMA DotZero ==
  ASSUME NEW f, NEW g PROVE Dot(0, f, g) = 0
<1>1. PICK s : Partial(s, 0, f, g) /\ Dot(0, f, g) = s[0]
  BY DotIsPartial
<1> QED BY <1>1 DEF Partial

\* A sum of one product more.
LEMMA DotNext ==
  ASSUME NEW n \in Nat, NEW f, NEW g
  PROVE  Dot(n + 1, f, g) = Xor(Dot(n, f, g), Mul(f[n], g[n]))
<1>1. PICK s : Partial(s, n, f, g) /\ Dot(n, f, g) = s[n]
  BY DotIsPartial
<1>2. n + 1 \in Nat
  OBVIOUS
<1>3. PICK t : Partial(t, n + 1, f, g) /\ Dot(n + 1, f, g) = t[n + 1]
  BY <1>2, DotIsPartial
<1>4. s[n] = t[n]
  <2>1. n <= n + 1
    OBVIOUS
  <2> QED BY <1>1, <1>2, <1>3, <2>1, PartialsAgree
<1>5. t[n + 1] = Xor(t[n], Mul(f[n], g[n]))
  <2>1. n + 1 \in 0 .. n + 1 /\ n + 1 # 0 /\ (n + 1) - 1 = n
    OBVIOUS
  <2> QED BY <1>3, <2>1 DEF Partial
<1> QED BY <1>1, <1>3, <1>4, <1>5

\* A sum depends on nothing but the elements summed up.
LEMMA DotAgrees ==
  ASSUME NEW n \in Nat, NEW f, NEW g, NEW a, NEW b, \A i \in 0 .. n - 1 : f[i] = a[i] /\ g[i] = b[i]
  PROVE  Dot(n, f, g) = Dot(n, a, b)
<1>1. PICK s : Partial(s, n, f, g) /\ Dot(n, f, g) = s[n]
  BY DotIsPartial
<1>2. PICK t : Partial(t, n, a, b) /\ Dot(n, a, b) = t[n]
  BY DotIsPartial
<1>3. n <= n
  OBVIOUS
<1> QED BY <1>1, <1>2, <1>3, PartialsAgree

\* A sum is a byte, and does not depend on the order of the factors.
LEMMA DotType ==
  ASSUME NEW n \in Nat, NEW f, NEW g, Vector(n, f), Vector(n, g)
  PROVE  Dot(n, f, g) \in Elements /\ Dot(n, f, g) = Dot(n, g, f)
<1> DEFINE Good == {j \in 0 .. n : Dot(j, f, g) \in Elements /\ Dot(j, f, g) = Dot(j, g, f)}
<1>1. 0 \in Good
  <2>1. Dot(0, f, g) = 0 /\ Dot(0, g, f) = 0
    BY DotZero
  <2> QED BY <2>1, XorLaws
<1>2. ASSUME NEW j \in 0 .. n - 1, j \in Good PROVE j + 1 \in Good
  <2>1. /\ Dot(j + 1, f, g) = Xor(Dot(j, f, g), Mul(f[j], g[j]))
        /\ Dot(j + 1, g, f) = Xor(Dot(j, g, f), Mul(g[j], f[j]))
    BY DotNext
  <2>2. f[j] \in Elements /\ g[j] \in Elements
    BY DEF Vector
  <2>3. Mul(f[j], g[j]) = Mul(g[j], f[j]) /\ Mul(f[j], g[j]) \in Elements
    BY <2>2, MulLaws
  <2>4. Dot(j, f, g) \in Elements /\ Dot(j, f, g) = Dot(j, g, f)
    BY <1>2
  <2>5. Dot(j + 1, f, g) \in Elements /\ Dot(j + 1, f, g) = Dot(j + 1, g, f)
    BY <2>1, <2>3, <2>4, XorLaws
  <2> QED BY <2>5
<1> HIDE DEF Good
<1>3. \A j \in 0 .. n : j \in Good
  BY <1>1, <1>2, SegmentInduction
<1> QED BY <1>3 DEF Good

\* The sum of products with a scaled vector: Scaled.
LEMMA DotScaled ==
  ASSUME NEW n \in Nat, NEW w \in Elements, NEW f, NEW h, NEW x, Vector(n, f), Vector(n, x),
         \A i \in 0 .. n - 1 : h[i] = Mul(f[i], w)
  PROVE  Dot(n, h, x) = Mul(w, Dot(n, f, x))
<1> DEFINE Good == {j \in 0 .. n : Dot(j, h, x) = Mul(w, Dot(j, f, x))}
<1>1. 0 \in Good
  <2>1. Dot(0, h, x) = 0 /\ Dot(0, f, x) = 0
    BY DotZero
  <2> QED BY <2>1, MulLaws
<1>2. ASSUME NEW j \in 0 .. n - 1, j \in Good PROVE j + 1 \in Good
  <2> DEFINE d == Dot(j, f, x)
             a == f[j]
             b == x[j]
  <2>1. /\ Dot(j + 1, h, x) = Xor(Mul(w, d), Mul(Mul(a, w), b))
        /\ Dot(j + 1, f, x) = Xor(d, Mul(a, b))
    <3>1. h[j] = Mul(a, w) /\ Dot(j, h, x) = Mul(w, d)
      BY <1>2
    <3> QED BY <3>1, DotNext
  <2>2. a \in Elements /\ b \in Elements
    BY DEF Vector
  <2>3. d \in Elements
    <3>1. j \in Nat /\ Vector(j, f) /\ Vector(j, x)
      BY DEF Vector
    <3> QED BY <3>1, DotType
  <2> HIDE DEF d, a, b
  <2>4. Mul(a, w) = Mul(w, a) /\ Mul(Mul(w, a), b) = Mul(w, Mul(a, b)) /\ Mul(a, b) \in Elements
    BY <2>2, MulLaws
  <2>5. Mul(w, Xor(d, Mul(a, b))) = Xor(Mul(w, d), Mul(w, Mul(a, b)))
    BY <2>3, <2>4, MulAdds
  <2>6. Dot(j + 1, h, x) = Mul(w, Dot(j + 1, f, x))
    BY <2>1, <2>4, <2>5
  <2> QED BY <2>6
<1> HIDE DEF Good
<1>3. \A j \in 0 .. n : j \in Good
  BY <1>1, <1>2, SegmentInduction
<1> QED BY <1>3 DEF Good

\* The sum of products with a vector to which a multiple of another is added: Added.
LEMMA DotAdded ==
  ASSUME NEW n \in Nat, NEW w \in Elements, NEW f, NEW p, NEW h, NEW x,
         Vector(n, f), Vector(n, p), Vector(n, x),
         \A i \in 0 .. n - 1 : h[i] = Xor(f[i], Mul(w, p[i]))
  PROVE  Dot(n, h, x) = Xor(Dot(n, f, x), Mul(w, Dot(n, p, x)))
<1> DEFINE Good == {j \in 0 .. n : Dot(j, h, x) = Xor(Dot(j, f, x), Mul(w, Dot(j, p, x)))}
<1>1. 0 \in Good
  <2>1. Dot(0, h, x) = 0 /\ Dot(0, f, x) = 0 /\ Dot(0, p, x) = 0
    BY DotZero
  <2> QED BY <2>1, MulLaws, XorLaws
<1>2. ASSUME NEW j \in 0 .. n - 1, j \in Good PROVE j + 1 \in Good
  <2> DEFINE d == Dot(j, f, x)
             q == Dot(j, p, x)
             a == f[j]
             c == p[j]
             b == x[j]
  <2>1. /\ Dot(j + 1, h, x) = Xor(Xor(d, Mul(w, q)), Mul(Xor(a, Mul(w, c)), b))
        /\ Dot(j + 1, f, x) = Xor(d, Mul(a, b))
        /\ Dot(j + 1, p, x) = Xor(q, Mul(c, b))
    <3>1. h[j] = Xor(a, Mul(w, c)) /\ Dot(j, h, x) = Xor(d, Mul(w, q))
      BY <1>2
    <3> QED BY <3>1, DotNext
  <2>2. a \in Elements /\ b \in Elements /\ c \in Elements
    BY DEF Vector
  <2>3. d \in Elements /\ q \in Elements
    <3>1. j \in Nat /\ Vector(j, f) /\ Vector(j, p) /\ Vector(j, x)
      BY DEF Vector
    <3> QED BY <3>1, DotType
  <2> HIDE DEF d, q, a, b, c
  <2>4. /\ Mul(w, c) \in Elements /\ Mul(c, b) \in Elements /\ Mul(a, b) \in Elements
        /\ Mul(w, q) \in Elements /\ Mul(w, Mul(c, b)) \in Elements
        /\ Mul(Mul(w, c), b) = Mul(w, Mul(c, b))
    BY <2>2, <2>3, MulLaws
  <2>5. Mul(Xor(a, Mul(w, c)), b) = Xor(Mul(a, b), Mul(w, Mul(c, b)))
    <3>1. Xor(a, Mul(w, c)) \in Elements
      BY <2>2, <2>4, XorLaws
    <3>2. Mul(Xor(a, Mul(w, c)), b) = Mul(b, Xor(a, Mul(w, c)))
      BY <2>2, <3>1, MulLaws
    <3>3. Mul(b, Xor(a, Mul(w, c))) = Xor(Mul(b, a), Mul(b, Mul(w, c)))
      BY <2>2, <2>4, MulAdds
    <3>4. Mul(b, a) = Mul(a, b) /\ Mul(b, Mul(w, c)) = Mul(Mul(w, c), b)
      BY <2>2, <2>4, MulLaws
    <3> QED BY <2>4, <3>2, <3>3, <3>4
  <2>6. Mul(w, Xor(q, Mul(c, b))) = Xor(Mul(w, q), Mul(w, Mul(c, b)))
    BY <2>3, <2>4, MulAdds
  <2>7. Xor(Xor(d, Mul(w, q)), Xor(Mul(a, b), Mul(w, Mul(c, b))))
          = Xor(Xor(d, Mul(a, b)), Xor(Mul(w, q), Mul(w, Mul(c, b))))
    BY <2>3, <2>4, XorSwaps
  <2>8. Dot(j + 1, h, x) = Xor(Dot(j + 1, f, x), Mul(w, Dot(j + 1, p, x)))
    BY <2>1, <2>5, <2>6, <2>7
  <2> QED BY <2>8
<1> HIDE DEF Good
<1>3. \A j \in 0 .. n : j \in Good
  BY <1>1, <1>2, SegmentInduction
<1> QED BY <1>3 DEF Good

\* A sum with at most one product that is not 0.
LEMMA DotSingle ==
  ASSUME NEW n \in Nat, NEW f, NEW g, Vector(n, f), Vector(n, g), NEW a \in 0 .. n - 1,
         \A i \in 0 .. n - 1 : i # a => f[i] = 0 \/ g[i] = 0
  PROVE  Dot(n, f, g) = Mul(f[a], g[a])
<1> DEFINE m == Mul(f[a], g[a])
           Good == {j \in 0 .. n : Dot(j, f, g) = IF a < j THEN m ELSE 0}
<1>0. m \in Elements
  <2>1. f[a] \in Elements /\ g[a] \in Elements
    BY DEF Vector
  <2> QED BY <2>1, MulLaws
<1>1. 0 \in Good
  <2>1. Dot(0, f, g) = 0
    BY DotZero
  <2> QED BY <2>1
<1>2. ASSUME NEW j \in 0 .. n - 1, j \in Good PROVE j + 1 \in Good
  <2>1. Dot(j + 1, f, g) = Xor(IF a < j THEN m ELSE 0, Mul(f[j], g[j]))
    BY <1>2, DotNext
  <2>2. CASE j = a
    <3>1. Dot(j + 1, f, g) = Xor(0, m)
      BY <2>1, <2>2
    <3>2. Dot(j + 1, f, g) = m
      BY <1>0, <3>1, XorLaws
    <3> HIDE DEF m
    <3> QED BY <2>2, <3>2
  <2>3. CASE j # a
    <3>1. Mul(f[j], g[j]) = 0
      BY <2>3 DEF Mul
    <3>2. Dot(j + 1, f, g) = IF a < j THEN m ELSE 0
      BY <1>0, <2>1, <3>1, XorLaws
    <3>3. a < j <=> a < j + 1
      BY <2>3
    <3> HIDE DEF m
    <3> QED BY <3>2, <3>3
  <2> QED BY <2>2, <2>3
<1> HIDE DEF Good
<1>3. \A j \in 0 .. n : j \in Good
  BY <1>1, <1>2, SegmentInduction
<1>4. n \in 0 .. n /\ a < n
  OBVIOUS
<1> QED BY <1>3, <1>4 DEF Good

\* A sum of products that are all 0.
LEMMA DotNone ==
  ASSUME NEW n \in Nat, NEW f, NEW g, \A i \in 0 .. n - 1 : f[i] = 0 \/ g[i] = 0
  PROVE  Dot(n, f, g) = 0
<1> DEFINE Good == {j \in 0 .. n : Dot(j, f, g) = 0}
<1>1. 0 \in Good
  BY DotZero
<1>2. ASSUME NEW j \in 0 .. n - 1, j \in Good PROVE j + 1 \in Good
  <2>1. Dot(j + 1, f, g) = Xor(0, Mul(f[j], g[j]))
    BY <1>2, DotNext
  <2>2. Mul(f[j], g[j]) = 0
    BY DEF Mul
  <2>3. Dot(j + 1, f, g) = 0
    BY <2>1, <2>2, XorLaws
  <2> QED BY <2>3
<1> HIDE DEF Good
<1>3. \A j \in 0 .. n : j \in Good
  BY <1>1, <1>2, SegmentInduction
<1> QED BY <1>3 DEF Good

\* y are the sums of the rows A with x, and z those of w with A's columns C.
Exchanges(e, n, w, x, A, C, y, z) ==
  /\ Vector(e, w) /\ Vector(n, x) /\ \A t \in 0 .. e - 1 : Vector(n, A[t])
  /\ \A c \in 0 .. n - 1, t \in 0 .. e - 1 : C[c][t] = A[t][c]
  /\ \A t \in 0 .. e - 1 : y[t] = Dot(n, A[t], x)
  /\ \A c \in 0 .. n - 1 : z[c] = Dot(e, w, C[c])

\* A sum of sums, taken the other way round.
LEMMA DotExchange ==
  ASSUME NEW e \in Nat, NEW n \in Nat, NEW w, NEW x, NEW A, NEW C, NEW y, NEW z,
         Exchanges(e, n, w, x, A, C, y, z)
  PROVE  Dot(e, w, y) = Dot(n, z, x)
<1> SUFFICES ASSUME Vector(e, w), Vector(n, x), \A t \in 0 .. e - 1 : Vector(n, A[t]),
                    \A c \in 0 .. n - 1, t \in 0 .. e - 1 : C[c][t] = A[t][c],
                    \A t \in 0 .. e - 1 : y[t] = Dot(n, A[t], x),
                    \A c \in 0 .. n - 1 : z[c] = Dot(e, w, C[c])
             PROVE  Dot(e, w, y) = Dot(n, z, x)
  BY DEF Exchanges
<1> DEFINE Y(j) == [t \in 0 .. e - 1 |-> Dot(j, A[t], x)]
           Good == {j \in 0 .. n : Dot(e, w, Y(j)) = Dot(j, z, x)}
<1>0. \A j \in 0 .. n : Vector(e, Y(j))
  <2> SUFFICES ASSUME NEW j \in 0 .. n, NEW t \in 0 .. e - 1 PROVE Y(j)[t] \in Elements
    BY DEF Vector
  <2>1. Vector(j, A[t]) /\ Vector(j, x) /\ j \in Nat
    BY DEF Vector
  <2> QED BY <2>1, DotType
<1>1. 0 \in Good
  <2>1. \A t \in 0 .. e - 1 : Y(0)[t] = 0
    BY DotZero
  <2> HIDE DEF Y
  <2>2. Dot(e, w, Y(0)) = 0
    BY <2>1, DotNone
  <2>3. Dot(0, z, x) = 0
    BY DotZero
  <2> QED BY <2>2, <2>3
<1>2. ASSUME NEW j \in 0 .. n - 1, j \in Good PROVE j + 1 \in Good
  <2>0. j \in 0 .. n /\ j + 1 \in 0 .. n
    OBVIOUS
  <2>1. x[j] \in Elements /\ Vector(e, C[j])
    BY DEF Vector
  <2>2. ASSUME NEW t \in 0 .. e - 1 PROVE Y(j + 1)[t] = Xor(Y(j)[t], Mul(x[j], C[j][t]))
    <3>1. Dot(j + 1, A[t], x) = Xor(Dot(j, A[t], x), Mul(A[t][j], x[j]))
      BY DotNext
    <3>2. A[t][j] \in Elements /\ A[t][j] = C[j][t]
      BY DEF Vector
    <3>3. Mul(A[t][j], x[j]) = Mul(x[j], C[j][t])
      BY <2>1, <3>2, MulLaws
    <3> QED BY <3>1, <3>3
  <2>3. Vector(e, Y(j)) /\ Vector(e, Y(j + 1))
    BY <1>0, <2>0
  <2>4. Dot(e, w, Y(j)) = Dot(j, z, x)
    BY <1>2
  <2> HIDE DEF Y
  <2>5. Dot(e, Y(j + 1), w) = Xor(Dot(e, Y(j), w), Mul(x[j], Dot(e, C[j], w)))
    BY <2>1, <2>2, <2>3, DotAdded
  <2>6. /\ Dot(e, Y(j + 1), w) = Dot(e, w, Y(j + 1)) /\ Dot(e, Y(j), w) = Dot(e, w, Y(j))
        /\ Dot(e, C[j], w) = Dot(e, w, C[j]) /\ Dot(e, w, C[j]) \in Elements
    BY <2>1, <2>3, DotType
  <2>7. z[j] = Dot(e, w, C[j]) /\ Mul(x[j], z[j]) = Mul(z[j], x[j])
    BY <2>1, <2>6, MulLaws
  <2>8. Dot(j + 1, z, x) = Xor(Dot(j, z, x), Mul(z[j], x[j]))
    BY DotNext
  <2>9. Dot(e, w, Y(j + 1)) = Dot(j + 1, z, x)
    BY <2>4, <2>5, <2>6, <2>7, <2>8
  <2> QED BY <2>0, <2>9
<1>3. \A t \in 0 .. e - 1 : Y(n)[t] = y[t]
  OBVIOUS
<1> HIDE DEF Y
<1>4. Dot(e, w, Y(n)) = Dot(e, w, y)
  BY <1>3, DotAgrees
<1> HIDE DEF Good
<1>5. \A j \in 0 .. n : j \in Good
  BY <1>1, <1>2, SegmentInduction
<1> QED BY <1>4, <1>5 DEF Good

\* A sum in two parts.
LEMMA DotParts ==
  ASSUME NEW a \in Nat, NEW b \in Nat, NEW f, NEW g, Vector(a + b, f), Vector(a + b, g),
         NEW h, NEW l, \A i \in 0 .. b - 1 : h[i] = f[a + i] /\ l[i] = g[a + i]
  PROVE  Dot(a + b, f, g) = Xor(Dot(a, f, g), Dot(b, h, l))
<1> DEFINE Good == {j \in 0 .. b : Dot(a + j, f, g) = Xor(Dot(a, f, g), Dot(j, h, l))}
<1>0. Dot(a, f, g) \in Elements
  <2>1. Vector(a, f) /\ Vector(a, g)
    BY DEF Vector
  <2> QED BY <2>1, DotType
<1>1. 0 \in Good
  <2>1. Dot(0, h, l) = 0 /\ a + 0 = a
    BY DotZero
  <2> QED BY <1>0, <2>1, XorLaws
<1>2. ASSUME NEW j \in 0 .. b - 1, j \in Good PROVE j + 1 \in Good
  <2>1. Dot(a + j, f, g) = Xor(Dot(a, f, g), Dot(j, h, l)) /\ a + (j + 1) = (a + j) + 1 /\ a + j \in Nat
    BY <1>2
  <2>2. Dot((a + j) + 1, f, g) = Xor(Dot(a + j, f, g), Mul(f[a + j], g[a + j]))
    BY <2>1, DotNext
  <2>3. Dot(j + 1, h, l) = Xor(Dot(j, h, l), Mul(h[j], l[j]))
    BY DotNext
  <2>4. h[j] = f[a + j] /\ l[j] = g[a + j] /\ f[a + j] \in Elements /\ g[a + j] \in Elements
    BY DEF Vector
  <2>5. Vector(j, h) /\ Vector(j, l)
    <3> SUFFICES ASSUME NEW i \in 0 .. j - 1 PROVE h[i] \in Elements /\ l[i] \in Elements
      BY DEF Vector
    <3>1. i \in 0 .. b - 1 /\ a + i \in 0 .. (a + b) - 1
      OBVIOUS
    <3> QED BY <3>1 DEF Vector
  <2>6. Dot(j, h, l) \in Elements /\ Mul(h[j], l[j]) \in Elements
    BY <2>4, <2>5, DotType, MulLaws
  <2>7. Dot(a + (j + 1), f, g) = Xor(Dot(a, f, g), Dot(j + 1, h, l))
    BY <1>0, <2>1, <2>2, <2>3, <2>4, <2>6, XorLaws
  <2> QED BY <2>7
<1> HIDE DEF Good
<1>3. \A j \in 0 .. b : j \in Good
  BY <1>1, <1>2, SegmentInduction
<1> QED BY <1>3 DEF Good

-----------------------------------------------------------------------------
(* Slots in ascending order. *)

\* How many slots come before each place.
LEMMA RankFacts ==
  ASSUME NEW n \in Nat, NEW T \in SUBSET (0 .. n - 1)
  PROVE  /\ IsFiniteSet(T) /\ Cardinality(T) \in 0 .. n
         /\ Rank(T, 0) = 0 /\ Rank(T, n) = Cardinality(T)
         /\ \A j \in 0 .. n : Rank(T, j) \in 0 .. Cardinality(T)
         /\ \A j \in 0 .. n - 1 : Rank(T, j + 1) = IF j \in T THEN Rank(T, j) + 1 ELSE Rank(T, j)
<1> DEFINE Before(j) == {q \in T : q < j}
<1>0. IsFiniteSet(T) /\ Cardinality(T) \in 0 .. n
  <2>1. IsFiniteSet(0 .. n - 1) /\ Cardinality(0 .. n - 1) = n
    BY FS_Interval
  <2>2. IsFiniteSet(T) /\ Cardinality(T) <= n
    BY <2>1, FS_Subset
  <2>3. Cardinality(T) \in Nat
    BY <2>2, FS_CardinalityType
  <2> QED BY <2>2, <2>3
<1>1. \A j \in 0 .. n : /\ Rank(T, j) = Cardinality(Before(j)) /\ IsFiniteSet(Before(j))
                        /\ Rank(T, j) \in 0 .. Cardinality(T)
  <2> SUFFICES ASSUME NEW j \in 0 .. n
               PROVE  /\ Rank(T, j) = Cardinality(Before(j)) /\ IsFiniteSet(Before(j))
                      /\ Rank(T, j) \in 0 .. Cardinality(T)
    OBVIOUS
  <2>1. Rank(T, j) = Cardinality(Before(j)) /\ Before(j) \in SUBSET T
    BY DEF Rank
  <2> HIDE DEF Before
  <2>2. IsFiniteSet(Before(j)) /\ Cardinality(Before(j)) <= Cardinality(T)
    BY <1>0, <2>1, FS_Subset
  <2>3. Cardinality(Before(j)) \in Nat
    BY <2>2, FS_CardinalityType
  <2> QED BY <1>0, <2>1, <2>2, <2>3
<1>2. Before(0) = {} /\ Before(n) = T
  <2>1. \A q \in T : q \in Int /\ 0 <= q /\ q < n
    OBVIOUS
  <2>2. \A q \in T : ~(q < 0) /\ q < n
    BY <2>1
  <2>3. Before(0) = {}
    BY <2>2
  <2>4. Before(n) = T
    BY <2>2
  <2> QED BY <2>3, <2>4
<1>3. Rank(T, 0) = 0 /\ Rank(T, n) = Cardinality(T)
  <2>1. 0 \in 0 .. n /\ n \in 0 .. n
    OBVIOUS
  <2> HIDE DEF Before
  <2> QED BY <1>1, <1>2, <2>1, FS_EmptySet
<1>4. ASSUME NEW j \in 0 .. n - 1
      PROVE  Rank(T, j + 1) = IF j \in T THEN Rank(T, j) + 1 ELSE Rank(T, j)
  <2>1. j \in 0 .. n /\ j + 1 \in 0 .. n /\ j \notin Before(j)
    OBVIOUS
  <2>2. Before(j + 1) = IF j \in T THEN Before(j) \cup {j} ELSE Before(j)
    <3>1. \A q \in T : q < j + 1 <=> q < j \/ q = j
      OBVIOUS
    <3>2. CASE j \in T
      BY <3>1, <3>2
    <3>3. CASE j \notin T
      BY <3>1, <3>3
    <3> QED BY <3>2, <3>3
  <2> HIDE DEF Before
  <2>3. Cardinality(Before(j) \cup {j}) = Cardinality(Before(j)) + 1
    BY <1>1, <2>1, FS_AddElement
  <2> QED BY <1>1, <2>1, <2>2, <2>3
<1> QED BY <1>0, <1>1, <1>3, <1>4

\* The same under one name, which is easier to cite of several sets at once.
Ranked(n, T) ==
  /\ IsFiniteSet(T) /\ Cardinality(T) \in 0 .. n
  /\ Rank(T, 0) = 0 /\ Rank(T, n) = Cardinality(T)
  /\ \A j \in 0 .. n : Rank(T, j) \in 0 .. Cardinality(T)
  /\ \A j \in 0 .. n - 1 : Rank(T, j + 1) = IF j \in T THEN Rank(T, j) + 1 ELSE Rank(T, j)

LEMMA SlotsRanked ==
  ASSUME NEW n \in Nat, NEW T \in SUBSET (0 .. n - 1)
  PROVE  Ranked(n, T)
BY RankFacts DEF Ranked

\* Each slot has its own rank, and every rank below their number is that of a slot.
LEMMA RanksOfSlots ==
  ASSUME NEW n \in Nat, NEW T \in SUBSET (0 .. n - 1)
  PROVE  /\ \A s \in T : Rank(T, s) \in 0 .. Cardinality(T) - 1
         /\ \A s, t \in T : s < t => Rank(T, s) < Rank(T, t)
         /\ \A s, t \in T : Rank(T, s) = Rank(T, t) => s = t
         /\ \A i \in 0 .. Cardinality(T) - 1 : \E s \in T : Rank(T, s) = i
<1> DEFINE c == Cardinality(T)
           R(j) == Rank(T, j)
<1>0. /\ c \in Nat /\ R(0) = 0 /\ R(n) = c /\ \A j \in 0 .. n : R(j) \in 0 .. c
      /\ \A j \in 0 .. n - 1 : R(j + 1) = IF j \in T THEN R(j) + 1 ELSE R(j)
  <2>1. Ranked(n, T)
    BY SlotsRanked
  <2> QED BY <2>1 DEF Ranked
<1> HIDE DEF R, c
<1>1. ASSUME NEW j \in 0 .. n, NEW d \in 0 .. n - j PROVE R(j) <= R(j + d)
  <2> DEFINE Good == {i \in 0 .. n - j : R(j) <= R(j + i)}
  <2>1. 0 \in Good
    <3>1. R(j) \in Int /\ j + 0 = j
      BY <1>0
    <3> QED BY <3>1
  <2>2. ASSUME NEW i \in 0 .. (n - j) - 1, i \in Good PROVE i + 1 \in Good
    <3>1. j + i \in 0 .. n - 1 /\ j + i \in 0 .. n /\ j + (i + 1) = (j + i) + 1 /\ i + 1 \in 0 .. n - j
      OBVIOUS
    <3>2. R((j + i) + 1) = (IF j + i \in T THEN R(j + i) + 1 ELSE R(j + i)) /\ R(j + i) \in Int /\ R(j) \in Int
      BY <1>0, <3>1
    <3>3. R(j) <= R(j + i)
      BY <2>2
    <3> QED BY <3>1, <3>2, <3>3
  <2> HIDE DEF Good
  <2>3. n - j \in Nat
    OBVIOUS
  <2>4. \A i \in 0 .. n - j : i \in Good
    BY <2>1, <2>2, <2>3, SegmentInduction
  <2> QED BY <2>4 DEF Good
<1>2. ASSUME NEW s \in T, NEW j \in 0 .. n, s < j PROVE R(s) + 1 <= R(j)
  <2>1. s \in 0 .. n - 1 /\ s + 1 \in 0 .. n /\ j - (s + 1) \in 0 .. n - (s + 1) /\ (s + 1) + (j - (s + 1)) = j
    BY <1>2
  <2>2. R(s + 1) = R(s) + 1
    BY <1>0, <2>1
  <2>3. R(s + 1) <= R((s + 1) + (j - (s + 1)))
    BY <1>1, <2>1
  <2> QED BY <2>1, <2>2, <2>3
<1>3. \A s \in T : R(s) \in 0 .. c - 1
  <2> SUFFICES ASSUME NEW s \in T PROVE R(s) \in 0 .. c - 1
    OBVIOUS
  <2>1. s \in 0 .. n /\ n \in 0 .. n /\ s < n
    OBVIOUS
  <2>2. R(s) + 1 <= c
    BY <1>0, <1>2, <2>1
  <2>3. R(s) \in 0 .. c
    BY <1>0, <2>1
  <2> QED BY <1>0, <2>2, <2>3
<1>4. \A s, t \in T : s < t => R(s) < R(t)
  <2> SUFFICES ASSUME NEW s \in T, NEW t \in T, s < t PROVE R(s) < R(t)
    OBVIOUS
  <2>1. t \in 0 .. n
    OBVIOUS
  <2>2. R(s) + 1 <= R(t)
    BY <1>2, <2>1
  <2>3. R(s) \in Int /\ R(t) \in Int
    BY <1>0, <1>3
  <2> QED BY <2>2, <2>3
<1>5. \A s, t \in T : R(s) = R(t) => s = t
  <2> SUFFICES ASSUME NEW s \in T, NEW t \in T, R(s) = R(t), s # t PROVE FALSE
    OBVIOUS
  <2>1. s < t \/ t < s
    OBVIOUS
  <2>2. R(s) < R(t) \/ R(t) < R(s)
    BY <1>4, <2>1
  <2>3. R(s) \in Int /\ R(t) \in Int
    BY <1>3
  <2> QED BY <2>2, <2>3
<1>6. \A i \in 0 .. c - 1 : \E s \in T : R(s) = i
  <2> DEFINE Good == {j \in 0 .. n : \A i \in 0 .. R(j) - 1 : \E s \in T : R(s) = i}
  <2>1. 0 \in Good
    BY <1>0
  <2>2. ASSUME NEW j \in 0 .. n - 1, j \in Good PROVE j + 1 \in Good
    <3>1. R(j + 1) = (IF j \in T THEN R(j) + 1 ELSE R(j)) /\ R(j) \in Nat
      BY <1>0
    <3>2. \A i \in 0 .. R(j) - 1 : \E s \in T : R(s) = i
      BY <2>2
    <3>3. ASSUME NEW i \in 0 .. R(j + 1) - 1 PROVE \E s \in T : R(s) = i
      <4>1. CASE i \in 0 .. R(j) - 1
        BY <3>2, <4>1
      <4>2. CASE i \notin 0 .. R(j) - 1
        <5>1. j \in T /\ i = R(j)
          BY <3>1, <4>2
        <5> QED BY <5>1
      <4> QED BY <4>1, <4>2
    <3> QED BY <3>3
  <2> HIDE DEF Good
  <2>3. \A j \in 0 .. n : j \in Good
    BY <2>1, <2>2, SegmentInduction
  <2>4. n \in Good
    BY <2>3
  <2> QED BY <1>0, <2>4 DEF Good
<1> QED BY <1>3, <1>4, <1>5, <1>6 DEF R, c

\* Ascending lists slots, each at its rank.
LEMMA AscendingFacts ==
  ASSUME NEW n \in Nat, NEW T \in SUBSET (0 .. n - 1), NEW k \in 0 .. Cardinality(T)
  PROVE  /\ \A i \in 0 .. k - 1 : Ascending(T, k)[i] \in T /\ Rank(T, Ascending(T, k)[i]) = i
         /\ \A i, j \in 0 .. k - 1 : i # j => Ascending(T, k)[i] # Ascending(T, k)[j]
         /\ \A s \in T : Rank(T, s) < k => Rank(T, s) \in 0 .. k - 1 /\ Ascending(T, k)[Rank(T, s)] = s
<1> DEFINE a == Ascending(T, k)
           c == Cardinality(T)
<1>0. c \in Nat /\ k \in Nat
  <2>1. c \in 0 .. n
    BY RankFacts
  <2> QED BY <2>1
<1>1. ASSUME NEW i \in 0 .. k - 1 PROVE a[i] \in T /\ Rank(T, a[i]) = i
  <2>1. i \in 0 .. c - 1
    BY <1>0
  <2>2. \E s \in T : Rank(T, s) = i
    BY <2>1, RanksOfSlots
  <2>3. a[i] = CHOOSE s \in T : Rank(T, s) = i
    BY DEF Ascending
  <2> HIDE DEF a
  <2> QED BY <2>2, <2>3
<1> HIDE DEF a, c
<1>2. \A i, j \in 0 .. k - 1 : i # j => a[i] # a[j]
  BY <1>1
<1>3. ASSUME NEW s \in T, Rank(T, s) < k PROVE Rank(T, s) \in 0 .. k - 1 /\ a[Rank(T, s)] = s
  <2>1. Rank(T, s) \in 0 .. c - 1
    BY RanksOfSlots DEF c
  <2>2. Rank(T, s) \in 0 .. k - 1
    BY <1>0, <1>3, <2>1
  <2>3. a[Rank(T, s)] \in T /\ Rank(T, a[Rank(T, s)]) = Rank(T, s)
    BY <1>1, <2>2
  <2> QED BY <2>2, <2>3, RanksOfSlots
<1> QED BY <1>1, <1>2, <1>3 DEF a

\* A sum over some of the slots, in ascending order, and over all of them.
LEMMA DotOverSlots ==
  ASSUME NEW n \in Nat, NEW T \in SUBSET (0 .. n - 1), NEW F, NEW G, Vector(n, F), Vector(n, G),
         NEW f, NEW g,
         \A i \in 0 .. Cardinality(T) - 1 :
           f[i] = F[Ascending(T, Cardinality(T))[i]] /\ g[i] = G[Ascending(T, Cardinality(T))[i]],
         NEW H, \A i \in 0 .. n - 1 : H[i] = IF i \in T THEN F[i] ELSE 0
  PROVE  Dot(Cardinality(T), f, g) = Dot(n, H, G)
<1> DEFINE c == Cardinality(T)
           a == Ascending(T, c)
           R(j) == Rank(T, j)
           Good == {j \in 0 .. n : Dot(R(j), f, g) = Dot(j, H, G)}
<1>0. /\ c \in Nat /\ R(0) = 0 /\ R(n) = c /\ \A j \in 0 .. n : R(j) \in 0 .. c
      /\ \A j \in 0 .. n - 1 : R(j + 1) = IF j \in T THEN R(j) + 1 ELSE R(j)
  <2>1. Ranked(n, T)
    BY SlotsRanked
  <2> QED BY <2>1 DEF Ranked
<1>1. \A s \in T : R(s) \in 0 .. c - 1 /\ a[R(s)] = s
  <2>1. c \in 0 .. c
    BY <1>0
  <2>2. \A s \in T : R(s) \in 0 .. c - 1 /\ R(s) < c
    BY <1>0, RanksOfSlots
  <2> HIDE DEF R, a, c
  <2> QED BY <2>1, <2>2, AscendingFacts, ZenonT(40) DEF R, a, c
<1>2. \A i \in 0 .. c - 1 : f[i] = F[a[i]] /\ g[i] = G[a[i]]
  OBVIOUS
<1> HIDE DEF R, a, c
<1>3. 0 \in Good
  <2>1. Dot(0, f, g) = 0 /\ Dot(0, H, G) = 0
    BY DotZero
  <2> QED BY <1>0, <2>1
<1>4. ASSUME NEW j \in 0 .. n - 1, j \in Good PROVE j + 1 \in Good
  <2>0. Dot(R(j), f, g) = Dot(j, H, G) /\ R(j) \in Nat
    BY <1>0, <1>4
  <2>1. Dot(j + 1, H, G) = Xor(Dot(j, H, G), Mul(H[j], G[j]))
    BY DotNext
  <2>2. CASE j \in T
    <3>1. f[R(j)] = F[j] /\ g[R(j)] = G[j] /\ H[j] = F[j]
      BY <1>1, <1>2, <2>2
    <3>2. Dot(R(j) + 1, f, g) = Xor(Dot(R(j), f, g), Mul(f[R(j)], g[R(j)]))
      BY <2>0, DotNext
    <3>3. R(j + 1) = R(j) + 1
      BY <1>0, <2>2
    <3>4. Dot(R(j + 1), f, g) = Dot(j + 1, H, G)
      BY <2>0, <2>1, <3>1, <3>2, <3>3
    <3> QED BY <3>4
  <2>3. CASE j \notin T
    <3>1. Mul(H[j], G[j]) = 0
      BY <2>3 DEF Mul
    <3>2. Vector(j, H) /\ Vector(j, G)
      BY XorLaws DEF Vector
    <3>3. Dot(j, H, G) \in Elements
      BY <3>2, DotType
    <3>4. Dot(j + 1, H, G) = Dot(j, H, G)
      BY <2>1, <3>1, <3>3, XorLaws
    <3>5. R(j + 1) = R(j)
      BY <1>0, <2>3
    <3>6. Dot(R(j + 1), f, g) = Dot(j + 1, H, G)
      BY <2>0, <3>4, <3>5
    <3> QED BY <3>6
  <2> QED BY <2>2, <2>3
<1> HIDE DEF Good
<1>5. \A j \in 0 .. n : j \in Good
  BY <1>3, <1>4, SegmentInduction
<1>6. n \in Good
  BY <1>5
<1>7. Dot(c, f, g) = Dot(n, H, G)
  BY <1>0, <1>6 DEF Good
<1> QED BY <1>7 DEF c

\* f and g are F and G at the slots T, and h and l at the slots U.
Parted(F, G, T, U, f, g, h, l) ==
  /\ \A i \in 0 .. Cardinality(T) - 1 :
       f[i] = F[Ascending(T, Cardinality(T))[i]] /\ g[i] = G[Ascending(T, Cardinality(T))[i]]
  /\ \A i \in 0 .. Cardinality(U) - 1 :
       h[i] = F[Ascending(U, Cardinality(U))[i]] /\ l[i] = G[Ascending(U, Cardinality(U))[i]]

\* A sum is the sum over some slots and over the others.
LEMMA DotOfSlots ==
  ASSUME NEW n \in Nat, NEW T \in SUBSET (0 .. n - 1), NEW F, NEW G, Vector(n, F), Vector(n, G),
         NEW f, NEW g, NEW h, NEW l, Parted(F, G, T, (0 .. n - 1) \ T, f, g, h, l)
  PROVE  Dot(n, F, G) = Xor(Dot(Cardinality(T), f, g), Dot(Cardinality((0 .. n - 1) \ T), h, l))
<1> DEFINE U == (0 .. n - 1) \ T
           P == [i \in 0 .. n - 1 |-> IF i \in T THEN F[i] ELSE 0]
           Q == [i \in 0 .. n - 1 |-> IF i \in U THEN F[i] ELSE 0]
<1>1. /\ \A i \in 0 .. n - 1 : P[i] = IF i \in T THEN F[i] ELSE 0
      /\ \A i \in 0 .. n - 1 : Q[i] = IF i \in U THEN F[i] ELSE 0
      /\ U \in SUBSET (0 .. n - 1) /\ \A i \in 0 .. n - 1 : i \in U <=> i \notin T
  OBVIOUS
<1>2. /\ \A i \in 0 .. Cardinality(U) - 1 :
           h[i] = F[Ascending(U, Cardinality(U))[i]] /\ l[i] = G[Ascending(U, Cardinality(U))[i]]
      /\ \A i \in 0 .. Cardinality(T) - 1 :
           f[i] = F[Ascending(T, Cardinality(T))[i]] /\ g[i] = G[Ascending(T, Cardinality(T))[i]]
  BY DEF Parted
<1> HIDE DEF U, P, Q
<1>3. Dot(Cardinality(T), f, g) = Dot(n, P, G)
  BY <1>1, <1>2, DotOverSlots
<1>4. Dot(Cardinality(U), h, l) = Dot(n, Q, G)
  BY <1>1, <1>2, DotOverSlots
<1>5. Vector(n, P) /\ Vector(n, Q)
  BY <1>1, XorLaws DEF Vector
<1>6. \A i \in 0 .. n - 1 : F[i] = Xor(P[i], Mul(1, Q[i]))
  <2> SUFFICES ASSUME NEW i \in 0 .. n - 1 PROVE F[i] = Xor(P[i], Mul(1, Q[i]))
    OBVIOUS
  <2>1. F[i] \in Elements
    BY DEF Vector
  <2>2. Mul(1, Q[i]) = Q[i]
    BY <1>5, MulLaws DEF Vector
  <2>3. (P[i] = F[i] /\ Q[i] = 0) \/ (P[i] = 0 /\ Q[i] = F[i])
    BY <1>1
  <2> QED BY <2>1, <2>2, <2>3, XorLaws
<1>7. Dot(n, F, G) = Xor(Dot(n, P, G), Mul(1, Dot(n, Q, G)))
  BY <1>5, <1>6, MulLaws, DotAdded
<1>8. Mul(1, Dot(n, Q, G)) = Dot(n, Q, G)
  BY <1>5, DotType, MulLaws
<1>9. Dot(n, F, G) = Xor(Dot(Cardinality(T), f, g), Dot(Cardinality(U), h, l))
  BY <1>3, <1>4, <1>7, <1>8
<1> QED BY <1>9 DEF U

-----------------------------------------------------------------------------
(* Gauss-Jordan elimination. *)

Square(n) == [0 .. n - 1 -> [0 .. n - 1 -> Elements]]

\* A matrix sends x to what another sends y to.
Agree(n, mat, x, inv, y) == \A r \in 0 .. n - 1 : Dot(n, mat[r], x) = Dot(n, inv[r], y)

\* A matrix sends x to 0.
Kills(n, mat, x) == \A r \in 0 .. n - 1 : Dot(n, mat[r], x) = 0

\* The first columns of a matrix are those of the identity.
Cleared(n, mat, col) == \A r \in 0 .. n - 1, c \in 0 .. col - 1 : mat[r][c] = IF r = c THEN 1 ELSE 0

\* Two rows change places.
LEMMA SwappedFacts ==
  ASSUME NEW n \in Nat, NEW rows \in Square(n), NEW a \in 0 .. n - 1, NEW b \in 0 .. n - 1
  PROVE  /\ Swapped(rows, a, b) \in Square(n)
         /\ Swapped(rows, a, b)[a] = rows[b] /\ Swapped(rows, a, b)[b] = rows[a]
         /\ \A r \in 0 .. n - 1 : r # a /\ r # b => Swapped(rows, a, b)[r] = rows[r]
BY DEF Swapped, Square

\* A row scaled.
LEMMA ScaledFacts ==
  ASSUME NEW n \in Nat, NEW w \in Elements, NEW row \in [0 .. n - 1 -> Elements]
  PROVE  /\ Scaled(row, w) \in [0 .. n - 1 -> Elements]
         /\ \A c \in 0 .. n - 1 : Scaled(row, w)[c] = Mul(row[c], w)
<1>1. \A c \in 0 .. n - 1 : Mul(row[c], w) \in Elements
  BY MulLaws
<1> QED BY <1>1 DEF Scaled

\* A row to which a multiple of another is added.
LEMMA AddedFacts ==
  ASSUME NEW n \in Nat, NEW w \in Elements,
         NEW row \in [0 .. n - 1 -> Elements], NEW p \in [0 .. n - 1 -> Elements]
  PROVE  /\ Added(row, w, p) \in [0 .. n - 1 -> Elements]
         /\ \A c \in 0 .. n - 1 : Added(row, w, p)[c] = Xor(row[c], Mul(w, p[c]))
<1>1. \A c \in 0 .. n - 1 : Xor(row[c], Mul(w, p[c])) \in Elements
  BY MulLaws, XorLaws
<1> QED BY <1>1 DEF Added

\* What the row operations of one column do.
LEMMA SweptFacts ==
  ASSUME NEW n \in Nat, NEW rows \in Square(n), NEW col \in 0 .. n - 1, NEW w \in Elements,
         NEW column \in [0 .. n - 1 -> Elements]
  PROVE  /\ Swept(rows, col, w, column) \in Square(n)
         /\ Swept(rows, col, w, column)[col] = Scaled(rows[col], w)
         /\ \A r \in 0 .. n - 1 : r # col =>
              Swept(rows, col, w, column)[r] = Added(rows[r], column[r], Scaled(rows[col], w))
<1> DEFINE top == Scaled(rows[col], w)
           s == Swept(rows, col, w, column)
<1>1. \A r \in 0 .. n - 1 : rows[r] \in [0 .. n - 1 -> Elements] /\ column[r] \in Elements
  BY DEF Square
<1>2. top \in [0 .. n - 1 -> Elements]
  BY <1>1, ScaledFacts
<1>3. \A r \in 0 .. n - 1 : Added(rows[r], column[r], top) \in [0 .. n - 1 -> Elements]
  <2> HIDE DEF top
  <2> QED BY <1>1, <1>2, AddedFacts
<1>4. s = [r \in 0 .. n - 1 |-> IF r = col THEN top ELSE Added(rows[r], column[r], top)]
  BY DEF Swept, Square
<1> HIDE DEF top, s
<1>5. s \in Square(n)
  BY <1>2, <1>3, <1>4 DEF Square
<1>6. s[col] = top /\ \A r \in 0 .. n - 1 : r # col => s[r] = Added(rows[r], column[r], top)
  BY <1>4
<1> QED BY <1>5, <1>6 DEF top, s

\* Sums of products with the rows, before and after.
LEMMA SweptSums ==
  ASSUME NEW n \in Nat, NEW rows \in Square(n), NEW col \in 0 .. n - 1, NEW w \in Elements,
         NEW column \in [0 .. n - 1 -> Elements], NEW x, Vector(n, x)
  PROVE  LET s == Swept(rows, col, w, column)
         IN  /\ Dot(n, s[col], x) = Mul(w, Dot(n, rows[col], x))
             /\ \A r \in 0 .. n - 1 : r # col =>
                  Dot(n, s[r], x) = Xor(Dot(n, rows[r], x), Mul(column[r], Dot(n, s[col], x)))
<1> DEFINE s == Swept(rows, col, w, column)
           top == Scaled(rows[col], w)
<1>1. \A r \in 0 .. n - 1 : rows[r] \in [0 .. n - 1 -> Elements] /\ column[r] \in Elements
  BY DEF Square
<1>2. s[col] = top /\ \A r \in 0 .. n - 1 : r # col => s[r] = Added(rows[r], column[r], top)
  BY SweptFacts
<1>3. top \in [0 .. n - 1 -> Elements] /\ Dot(n, top, x) = Mul(w, Dot(n, rows[col], x))
  <2>1. /\ top \in [0 .. n - 1 -> Elements] /\ \A c \in 0 .. n - 1 : top[c] = Mul(rows[col][c], w)
    BY <1>1, ScaledFacts
  <2> HIDE DEF top
  <2>2. Vector(n, rows[col])
    BY <1>1 DEF Vector
  <2> QED BY <2>1, <2>2, DotScaled
<1> HIDE DEF s, top
<1>4. ASSUME NEW r \in 0 .. n - 1, r # col
      PROVE  Dot(n, s[r], x) = Xor(Dot(n, rows[r], x), Mul(column[r], Dot(n, top, x)))
  <2>1. Dot(n, Added(rows[r], column[r], top), x) = Xor(Dot(n, rows[r], x), Mul(column[r], Dot(n, top, x)))
    <3> DEFINE row == rows[r]
               d == Added(row, column[r], top)
    <3>1. row \in [0 .. n - 1 -> Elements] /\ column[r] \in Elements
      BY <1>1
    <3> HIDE DEF row
    <3>2. \A c \in 0 .. n - 1 : d[c] = Xor(row[c], Mul(column[r], top[c]))
      BY <1>3, <3>1, AddedFacts
    <3>3. Vector(n, row) /\ Vector(n, top)
      BY <1>3, <3>1 DEF Vector
    <3> HIDE DEF d
    <3>4. Dot(n, d, x) = Xor(Dot(n, row, x), Mul(column[r], Dot(n, top, x)))
      BY <3>1, <3>2, <3>3, DotAdded
    <3> QED BY <3>4 DEF d, row
  <2> QED BY <1>2, <1>4, <2>1
<1> QED BY <1>2, <1>3, <1>4 DEF s

\* The pairs elimination works on.
Pair(n) == [mat : Square(n), inv : Square(n)]

\* The step on one column with the pivot in row piv, column being the rows' entries in it.
IsStep(n, pair, col, after, piv, column) ==
  /\ column = [r \in 0 .. n - 1 |-> Swapped(pair.mat, piv, col)[r][col]] /\ column[col] # 0
  /\ after = [mat |-> Swept(Swapped(pair.mat, piv, col), col, Reciprocal(column[col]), column),
            inv |-> Swept(Swapped(pair.inv, piv, col), col, Reciprocal(column[col]), column)]

\* Where there is a pivot, elimination does this step.
LEMMA EliminatedIs ==
  ASSUME NEW n \in Nat, NEW pair \in Pair(n), NEW col \in 0 .. n - 1, Pivots(pair.mat, n, col) # {}
  PROVE  \E after : \E piv \in col .. n - 1, column \in [0 .. n - 1 -> Elements] :
           Eliminated(pair, n, col) = {after} /\ IsStep(n, pair, col, after, piv, column)
<1> DEFINE P == Pivots(pair.mat, n, col)
           piv == CHOOSE r \in P : \A q \in P : r <= q
           mat == Swapped(pair.mat, piv, col)
           inv == Swapped(pair.inv, piv, col)
           column == [r \in 0 .. n - 1 |-> mat[r][col]]
           w == Reciprocal(column[col])
<1>1. P \in SUBSET Nat /\ P # {} /\ \A r \in P : r \in col .. n - 1 /\ pair.mat[r][col] # 0
  BY DEF Pivots
<1>2. piv \in P
  <2>1. \E r \in P : \A q \in P : r <= q
    <3> HIDE DEF P
    <3> QED BY <1>1, LeastExists
  <2> HIDE DEF P
  <2> QED BY <2>1
<1>3. piv \in col .. n - 1 /\ piv \in 0 .. n - 1 /\ pair.mat[piv][col] # 0
  <2> HIDE DEF P, piv
  <2> QED BY <1>1, <1>2
<1>4. Eliminated(pair, n, col) = {[mat |-> Swept(mat, col, w, column), inv |-> Swept(inv, col, w, column)]}
  BY DEF Eliminated
<1>5. mat \in Square(n) /\ mat[col] = pair.mat[piv]
  <2>1. pair.mat \in Square(n)
    BY DEF Pair
  <2> HIDE DEF P, piv
  <2> QED BY <1>3, <2>1, SwappedFacts
<1>6. column \in [0 .. n - 1 -> Elements]
  <2> HIDE DEF mat
  <2>1. \A r \in 0 .. n - 1 : mat[r][col] \in Elements
    BY <1>5 DEF Square
  <2> QED BY <2>1
<1>7. column[col] # 0
  <2> HIDE DEF mat, piv
  <2> QED BY <1>3, <1>5
<1>8. IsStep(n, pair, col, [mat |-> Swept(mat, col, w, column), inv |-> Swept(inv, col, w, column)], piv, column)
  <2> HIDE DEF P, piv
  <2> QED BY <1>7 DEF IsStep
<1> HIDE DEF P, piv, column
<1> QED BY <1>3, <1>4, <1>6, <1>8

\* The step leaves matrices, keeps what the matrices agree on, clears one column more, and
\* the new matrix sends nothing to 0 that the old one does not.
LEMMA EliminatedKeeps ==
  ASSUME NEW n \in Nat, NEW pair \in Pair(n), NEW col \in 0 .. n - 1, NEW after \in Eliminated(pair, n, col)
  PROVE  /\ after \in Pair(n)
         /\ \A x, y : Vector(n, x) /\ Vector(n, y) /\ Agree(n, pair.mat, x, pair.inv, y)
                        => Agree(n, after.mat, x, after.inv, y)
         /\ Cleared(n, pair.mat, col) => Cleared(n, after.mat, col + 1)
         /\ \A x : Vector(n, x) /\ Kills(n, after.mat, x) => Kills(n, pair.mat, x)
<1>1. Pivots(pair.mat, n, col) # {}
  BY DEF Eliminated
<1>2. PICK piv \in col .. n - 1, column \in [0 .. n - 1 -> Elements] : IsStep(n, pair, col, after, piv, column)
  <2>1. PICK out : \E piv \in col .. n - 1, column \in [0 .. n - 1 -> Elements] :
          Eliminated(pair, n, col) = {out} /\ IsStep(n, pair, col, out, piv, column)
    BY <1>1, EliminatedIs
  <2> QED BY <2>1
<1> DEFINE I == 0 .. n - 1
           mat == Swapped(pair.mat, piv, col)
           inv == Swapped(pair.inv, piv, col)
           w == Reciprocal(column[col])
           m == Swept(mat, col, w, column)
           v == Swept(inv, col, w, column)
<1>3. column = [r \in I |-> mat[r][col]] /\ column[col] # 0 /\ after = [mat |-> m, inv |-> v]
  BY <1>2 DEF IsStep
<1>4. piv \in I /\ col \in I /\ pair.mat \in Square(n) /\ pair.inv \in Square(n)
  BY DEF Pair
<1>5. /\ mat \in Square(n) /\ mat[piv] = pair.mat[col] /\ mat[col] = pair.mat[piv]
      /\ \A r \in I : r # piv /\ r # col => mat[r] = pair.mat[r]
      /\ inv \in Square(n) /\ inv[piv] = pair.inv[col] /\ inv[col] = pair.inv[piv]
      /\ \A r \in I : r # piv /\ r # col => inv[r] = pair.inv[r]
  BY <1>4, SwappedFacts, ZenonT(40)
<1>6. /\ w \in Elements /\ w # 0 /\ Mul(column[col], w) = 1
      /\ \A r \in I : column[r] \in Elements /\ column[r] = mat[r][col]
  <2>1. column[col] \in Elements
    OBVIOUS
  <2> HIDE DEF mat
  <2> QED BY <1>3, <2>1, ReciprocalIs
<1> HIDE DEF mat, inv, w
<1>7. m \in Square(n) /\ v \in Square(n) /\ after.mat = m /\ after.inv = v
  BY <1>3, <1>5, <1>6, SweptFacts
<1>8. ASSUME NEW x, Vector(n, x)
      PROVE  /\ Dot(n, m[col], x) = Mul(w, Dot(n, mat[col], x))
             /\ Dot(n, v[col], x) = Mul(w, Dot(n, inv[col], x))
             /\ \A r \in I : r # col =>
                  /\ Dot(n, m[r], x) = Xor(Dot(n, mat[r], x), Mul(column[r], Dot(n, m[col], x)))
                  /\ Dot(n, v[r], x) = Xor(Dot(n, inv[r], x), Mul(column[r], Dot(n, v[col], x)))
  BY <1>5, <1>6, <1>8, SweptSums
<1>9. after \in Pair(n)
  <2> HIDE DEF m, v
  <2> QED BY <1>3, <1>7 DEF Pair
<1>10. ASSUME NEW x, NEW y, Vector(n, x), Vector(n, y), Agree(n, pair.mat, x, pair.inv, y)
       PROVE  Agree(n, m, x, v, y)
  <2>1. \A r \in I : Dot(n, mat[r], x) = Dot(n, inv[r], y)
    BY <1>4, <1>5, <1>10 DEF Agree
  <2> HIDE DEF m, v
  <2>2. Dot(n, m[col], x) = Dot(n, v[col], y)
    BY <1>4, <1>8, <1>10, <2>1
  <2>3. ASSUME NEW r \in I, r # col PROVE Dot(n, m[r], x) = Dot(n, v[r], y)
    <3>1. Dot(n, m[r], x) = Xor(Dot(n, mat[r], x), Mul(column[r], Dot(n, m[col], x)))
      BY <1>8, <1>10, <2>3
    <3>2. Dot(n, v[r], y) = Xor(Dot(n, inv[r], y), Mul(column[r], Dot(n, v[col], y)))
      BY <1>8, <1>10, <2>3
    <3> QED BY <2>1, <2>2, <3>1, <3>2
  <2> QED BY <2>2, <2>3 DEF Agree
<1>11. ASSUME Cleared(n, pair.mat, col) PROVE Cleared(n, m, col + 1)
  <2> DEFINE top == Scaled(mat[col], w)
  <2>0. \A r, c \in I : mat[r][c] \in Elements
    BY <1>5 DEF Square
  <2>1. ASSUME NEW r \in I, NEW c \in 0 .. col - 1 PROVE mat[r][c] = IF r = c THEN 1 ELSE 0
    <3>1. \A q \in I : pair.mat[q][c] = IF q = c THEN 1 ELSE 0
      BY <1>11 DEF Cleared
    <3>2. c # col /\ c # piv
      OBVIOUS
    <3> QED BY <1>4, <1>5, <3>1, <3>2
  <2>2. /\ m[col] = top
        /\ \A c \in I : top[c] = Mul(mat[col][c], w) /\ top[c] \in Elements
        /\ \A r \in I : r # col => \A c \in I : m[r][c] = Xor(mat[r][c], Mul(column[r], top[c]))
    <3>1. \A r \in I : mat[r] \in [I -> Elements]
      BY <1>5 DEF Square
    <3>2. m[col] = top /\ \A r \in I : r # col => m[r] = Added(mat[r], column[r], top)
      BY <1>5, <1>6, SweptFacts, ZenonT(40)
    <3>3. top \in [I -> Elements] /\ \A c \in I : top[c] = Mul(mat[col][c], w)
      BY <1>4, <1>6, <3>1, ScaledFacts
    <3> HIDE DEF top, m
    <3>4. ASSUME NEW r \in I, NEW c \in I PROVE Added(mat[r], column[r], top)[c] = Xor(mat[r][c], Mul(column[r], top[c]))
      <4> DEFINE row == mat[r]
                 f == column[r]
      <4>1. row \in [I -> Elements] /\ f \in Elements /\ top \in [I -> Elements]
        BY <1>6, <3>1, <3>3
      <4> HIDE DEF row, f
      <4>2. Added(row, f, top)[c] = Xor(row[c], Mul(f, top[c]))
        BY <4>1, AddedFacts
      <4> QED BY <4>2 DEF row, f
    <3> QED BY <3>2, <3>3, <3>4
  <2> HIDE DEF top, m
  <2>3. top[col] = 1
    <3>1. mat[col][col] = column[col]
      BY <1>4, <1>6
    <3> QED BY <1>4, <1>6, <2>2, <3>1
  <2>4. \A c \in 0 .. col - 1 : top[c] = 0
    <3> SUFFICES ASSUME NEW c \in 0 .. col - 1 PROVE top[c] = 0
      OBVIOUS
    <3>1. c \in I /\ c # col
      OBVIOUS
    <3>2. mat[col][c] = 0
      BY <1>4, <2>1, <3>1
    <3>3. Mul(0, w) = 0
      BY <1>6, MulLaws
    <3>4. top[c] = Mul(mat[col][c], w)
      BY <2>2, <3>1
    <3> QED BY <3>2, <3>3, <3>4
  <2>5. ASSUME NEW r \in I, NEW c \in 0 .. col PROVE m[r][c] = IF r = c THEN 1 ELSE 0
    <3>0. c \in I
      OBVIOUS
    <3>1. CASE r = col
      <4>1. m[r][c] = top[c]
        BY <2>2, <3>1
      <4>2. c = col \/ c \in 0 .. col - 1
        OBVIOUS
      <4> QED BY <2>3, <2>4, <3>1, <4>1, <4>2
    <3>2. CASE r # col /\ c = col
      <4>1. m[r][c] = Xor(mat[r][col], Mul(column[r], 1)) /\ column[r] = mat[r][col] /\ column[r] \in Elements
        BY <1>4, <1>6, <2>2, <2>3, <3>2
      <4>2. Mul(column[r], 1) = column[r] /\ Xor(column[r], column[r]) = 0
        BY <4>1, MulLaws, XorLaws
      <4>3. m[r][c] = 0
        BY <4>1, <4>2
      <4> QED BY <3>2, <4>3
    <3>3. CASE r # col /\ c # col
      <4>1. c \in 0 .. col - 1
        BY <3>3
      <4>2. m[r][c] = Xor(mat[r][c], Mul(column[r], 0))
        BY <2>2, <2>4, <3>0, <3>3, <4>1
      <4>3. Mul(column[r], 0) = 0 /\ mat[r][c] \in Elements
        BY <1>6, <2>0, <3>0, MulLaws
      <4>4. m[r][c] = mat[r][c]
        BY <4>2, <4>3, XorLaws
      <4> QED BY <2>1, <4>1, <4>4
    <3> QED BY <3>1, <3>2, <3>3
  <2>6. \A c \in 0 .. (col + 1) - 1 : c \in 0 .. col
    OBVIOUS
  <2> QED BY <2>5, <2>6 DEF Cleared
<1>12. ASSUME NEW x, Vector(n, x), Kills(n, m, x) PROVE Kills(n, pair.mat, x)
  <2> HIDE DEF m, v
  <2>0. \A r \in I : Dot(n, mat[r], x) \in Elements
    <3> SUFFICES ASSUME NEW r \in I PROVE Dot(n, mat[r], x) \in Elements
      OBVIOUS
    <3>1. Vector(n, mat[r])
      BY <1>5 DEF Square, Vector
    <3> QED BY <1>12, <3>1, DotType
  <2>1. \A r \in I : Dot(n, m[r], x) = 0
    BY <1>12 DEF Kills
  <2>2. Dot(n, mat[col], x) = 0
    <3>1. Mul(w, Dot(n, mat[col], x)) = 0
      BY <1>4, <1>8, <1>12, <2>1
    <3>2. Dot(n, mat[col], x) \in Elements
      BY <1>4, <2>0
    <3> QED BY <1>6, <3>1, <3>2, MulLaws
  <2>3. ASSUME NEW r \in I, r # col PROVE Dot(n, mat[r], x) = 0
    <3>1. Dot(n, m[r], x) = Xor(Dot(n, mat[r], x), Mul(column[r], Dot(n, m[col], x)))
      BY <1>8, <1>12, <2>3
    <3>2. Dot(n, m[r], x) = 0 /\ Dot(n, m[col], x) = 0
      BY <1>4, <2>1
    <3>3. Mul(column[r], 0) = 0
      BY <1>6, MulLaws
    <3>4. Dot(n, mat[r], x) \in Elements
      BY <2>0
    <3> QED BY <3>1, <3>2, <3>3, <3>4, XorLaws
  <2>4. \A r \in I : Dot(n, pair.mat[r], x) = 0
    <3> SUFFICES ASSUME NEW r \in I PROVE Dot(n, pair.mat[r], x) = 0
      OBVIOUS
    <3>1. \E q \in I : pair.mat[r] = mat[q]
      BY <1>4, <1>5
    <3> QED BY <2>2, <2>3, <3>1
  <2> QED BY <2>4 DEF Kills
<1> HIDE DEF m, v
<1>13. after.mat = m /\ after.inv = v
  BY <1>7
<1> QED BY <1>9, <1>10, <1>11, <1>12, <1>13

\* Where there is no pivot, the matrix sends something to 0.
LEMMA NoPivot ==
  ASSUME NEW n \in Nat, NEW mat \in Square(n), NEW col \in 0 .. n - 1,
         Cleared(n, mat, col), Pivots(mat, n, col) = {}
  PROVE  \E x \in [0 .. n - 1 -> Elements] : x[col] = 1 /\ Kills(n, mat, x)
<1> DEFINE I == 0 .. n - 1
           x == [c \in I |-> IF c < col THEN mat[c][col] ELSE IF c = col THEN 1 ELSE 0]
<1>1. \A r, c \in I : mat[r][c] \in Elements
  BY DEF Square
<1>2. x \in [I -> Elements]
  <2>1. \A c \in I : mat[c][col] \in Elements
    BY <1>1
  <2> QED BY <2>1, MulLaws, XorLaws
<1>3. /\ x[col] = 1
      /\ \A c \in I : c < col => x[c] = mat[c][col]
      /\ \A c \in I : c > col => x[c] = 0
  OBVIOUS
<1> HIDE DEF x
<1>4. \A r \in I : \A c \in I : c < col => mat[r][c] = IF r = c THEN 1 ELSE 0
  <2> SUFFICES ASSUME NEW r \in I, NEW c \in I, c < col PROVE mat[r][c] = IF r = c THEN 1 ELSE 0
    OBVIOUS
  <2>1. c \in 0 .. col - 1
    OBVIOUS
  <2> QED BY <2>1 DEF Cleared
<1>5. Vector(n, x) /\ \A r \in I : Vector(n, mat[r])
  BY <1>1, <1>2 DEF Vector
<1>6. ASSUME NEW r \in I, r >= col PROVE Dot(n, mat[r], x) = 0
  <2>1. mat[r][col] = 0
    <3>1. r \notin Pivots(mat, n, col)
      OBVIOUS
    <3>2. r \in col .. n - 1
      BY <1>6
    <3> QED BY <3>1, <3>2 DEF Pivots
  <2>2. ASSUME NEW c \in I PROVE mat[r][c] = 0 \/ x[c] = 0
    <3>1. c < col \/ c = col \/ c > col
      OBVIOUS
    <3>2. c < col => r # c
      BY <1>6
    <3> QED BY <1>3, <1>4, <2>1, <3>1, <3>2
  <2> QED BY <2>2, DotNone
<1>7. ASSUME NEW r \in I, r < col PROVE Dot(n, mat[r], x) = 0
  <2> DEFINE y == [c \in I |-> IF c = r THEN x[c] ELSE 0]
             z == [c \in I |-> IF c = r THEN 0 ELSE x[c]]
             b == mat[r][col]
             row == mat[r]
  <2>1. /\ \A c \in I : y[c] = (IF c = r THEN x[c] ELSE 0) /\ z[c] = IF c = r THEN 0 ELSE x[c]
        /\ Vector(n, y) /\ Vector(n, z)
    BY <1>2, XorLaws DEF Vector
  <2>2. b \in Elements /\ x[r] = b /\ row[r] = 1 /\ row[col] = b /\ r # col
    BY <1>1, <1>3, <1>4, <1>7
  <2>3. \A c \in I : c # r => row[c] = 0 \/ c >= col
    BY <1>4
  <2>4. Vector(n, row)
    BY <1>5
  <2> HIDE DEF y, z, b, row
  <2>5. \A c \in I : x[c] = Xor(y[c], Mul(1, z[c]))
    <3> SUFFICES ASSUME NEW c \in I PROVE x[c] = Xor(y[c], Mul(1, z[c]))
      OBVIOUS
    <3>1. x[c] \in Elements /\ z[c] \in Elements
      BY <1>2, <2>1 DEF Vector
    <3>2. Mul(1, z[c]) = z[c]
      BY <3>1, MulLaws
    <3>3. Xor(x[c], 0) = x[c] /\ Xor(0, x[c]) = x[c]
      BY <3>1, XorLaws
    <3> QED BY <2>1, <3>2, <3>3
  <2>6. Dot(n, y, row) = b
    <3>1. \A c \in I : c # r => y[c] = 0 \/ row[c] = 0
      BY <2>1
    <3>2. Dot(n, y, row) = Mul(y[r], row[r])
      BY <2>1, <2>4, <3>1, DotSingle
    <3>3. y[r] = b
      BY <2>1, <2>2
    <3> QED BY <2>2, <3>2, <3>3, MulLaws
  <2>7. Dot(n, z, row) = b
    <3>1. ASSUME NEW c \in I, c # col PROVE z[c] = 0 \/ row[c] = 0
      <4>1. c = r \/ c < col \/ c > col
        BY <3>1
      <4> QED BY <1>3, <2>1, <2>3, <4>1
    <3>2. Dot(n, z, row) = Mul(z[col], row[col])
      BY <2>1, <2>4, <3>1, DotSingle
    <3>3. z[col] = 1
      BY <1>3, <2>1, <2>2
    <3> QED BY <2>2, <3>2, <3>3, MulLaws
  <2>8. Dot(n, x, row) = Xor(Dot(n, y, row), Mul(1, Dot(n, z, row)))
    BY <2>1, <2>4, <2>5, MulLaws, DotAdded
  <2>9. Dot(n, x, row) = 0
    <3>1. Mul(1, b) = b /\ Xor(b, b) = 0
      BY <2>2, MulLaws, XorLaws
    <3> QED BY <2>6, <2>7, <2>8, <3>1
  <2>10. Dot(n, row, x) = 0
    BY <1>5, <2>4, <2>9, DotType
  <2> QED BY <2>10 DEF row
<1>8. Kills(n, mat, x)
  <2>1. \A r \in I : r >= col \/ r < col
    OBVIOUS
  <2> QED BY <1>6, <1>7, <2>1 DEF Kills
<1> QED BY <1>2, <1>3, <1>8

\* The recursion of the elimination over the columns.
LEMMA ReducedIs ==
  ASSUME NEW n \in Nat, NEW mat
  PROVE  /\ Reduced(mat, n)[0] = {[mat |-> mat, inv |-> Identity(n)]}
         /\ \A col \in 0 .. n - 1 :
              Reduced(mat, n)[col + 1] = UNION {Eliminated(p, n, col) : p \in Reduced(mat, n)[col]}
<1> DEFINE Start == {[mat |-> mat, inv |-> Identity(n)]}
           Step(s, i) == IF i = 0 THEN Start ELSE UNION {Eliminated(p, n, i - 1) : p \in s[i - 1]}
           Known(j) == \E s : \A i \in 0 .. j : s[i] = Step(s, i)
           Good == {j \in 0 .. n : Known(j)}
<1> HIDE DEF Start
<1>1. 0 \in Good
  <2> DEFINE s == [i \in 0 .. 0 |-> Start]
  <2>1. \A i \in 0 .. 0 : s[i] = Step(s, i)
    OBVIOUS
  <2>2. Known(0)
    <3> HIDE DEF s, Step
    <3> QED BY <2>1
  <2> HIDE DEF Known
  <2> QED BY <2>2
<1>2. ASSUME NEW j \in 0 .. n - 1, j \in Good PROVE j + 1 \in Good
  <2>1. PICK s : \A i \in 0 .. j : s[i] = Step(s, i)
    BY <1>2
  <2> DEFINE t == [i \in 0 .. j + 1 |-> IF i = j + 1 THEN Step(s, j + 1) ELSE s[i]]
  <2>2. ASSUME NEW i \in 0 .. j + 1 PROVE t[i] = Step(t, i)
    <3>1. Step(t, i) = Step(s, i)
      <4>1. i # 0 => t[i - 1] = s[i - 1]
        OBVIOUS
      <4> HIDE DEF t
      <4> QED BY <4>1
    <3>2. i = j + 1 => t[i] = Step(s, i)
      <4> HIDE DEF Step
      <4> QED OBVIOUS
    <3>3. i # j + 1 => i \in 0 .. j /\ t[i] = s[i]
      <4> HIDE DEF Step
      <4> QED OBVIOUS
    <3> HIDE DEF t, Step
    <3> QED BY <2>1, <3>1, <3>2, <3>3
  <2>3. Known(j + 1) /\ j + 1 \in 0 .. n
    <3>1. Known(j + 1)
      <4> HIDE DEF t, Step
      <4> QED BY <2>2
    <3> HIDE DEF Known
    <3> QED BY <3>1
  <2> HIDE DEF Known
  <2> QED BY <2>3
<1>3. n \in Good
  <2> HIDE DEF Good
  <2>1. \A j \in 0 .. n : j \in Good
    BY <1>1, <1>2, SegmentInduction
  <2> QED BY <2>1
<1>4. PICK f : \A i \in 0 .. n : f[i] = Step(f, i)
  BY <1>3
<1> DEFINE h == [i \in 0 .. n |-> f[i]]
<1>5. h = [i \in 0 .. n |-> Step(h, i)]
  <2>1. ASSUME NEW i \in 0 .. n PROVE Step(f, i) = Step(h, i)
    <3>1. i # 0 => h[i - 1] = f[i - 1]
      OBVIOUS
    <3> HIDE DEF h
    <3> QED BY <3>1
  <2>2. \A i \in 0 .. n : f[i] = Step(h, i)
    <3> HIDE DEF Step
    <3> QED BY <1>4, <2>1
  <2> HIDE DEF Step
  <2> QED BY <2>2
<1> HIDE DEF h
<1> DEFINE q == CHOOSE s : s = [i \in 0 .. n |-> Step(s, i)]
<1>6. q = [i \in 0 .. n |-> Step(q, i)]
  <2> HIDE DEF Step
  <2> QED BY <1>5
<1>7. Reduced(mat, n) = q
  BY DEF Reduced, Start
<1> HIDE DEF q
<1>8. q[0] = Start
  <2>1. q[0] = Step(q, 0)
    <3> HIDE DEF Step
    <3> QED BY <1>6
  <2> QED BY <2>1
<1>9. ASSUME NEW col \in 0 .. n - 1 PROVE q[col + 1] = UNION {Eliminated(p, n, col) : p \in q[col]}
  <2>1. q[col + 1] = Step(q, col + 1)
    <3>1. col + 1 \in 0 .. n
      OBVIOUS
    <3> HIDE DEF Step
    <3> QED BY <1>6, <3>1
  <2>2. col + 1 # 0 /\ (col + 1) - 1 = col
    OBVIOUS
  <2> QED BY <2>1, <2>2
<1> QED BY <1>7, <1>8, <1>9 DEF Start

\* What holds of a pair once the first columns are cleared.
Reached(n, mat, col, p) ==
  /\ p \in Pair(n) /\ Cleared(n, p.mat, col)
  /\ \A x, y : Vector(n, x) /\ Vector(n, y) /\ Agree(n, mat, x, Identity(n), y) => Agree(n, p.mat, x, p.inv, y)
  /\ \A x : Vector(n, x) /\ Kills(n, p.mat, x) => Kills(n, mat, x)

\* Every step of the elimination keeps what Reached says.
LEMMA ReducedReached ==
  ASSUME NEW n \in Nat, NEW mat \in Square(n)
  PROVE  \A col \in 0 .. n : \A p \in Reduced(mat, n)[col] : Reached(n, mat, col, p)
<1> DEFINE R(col) == Reduced(mat, n)[col]
           Good == {col \in 0 .. n : \A p \in R(col) : Reached(n, mat, col, p)}
<1>1. 0 \in Good
  <2> DEFINE p == [mat |-> mat, inv |-> Identity(n)]
  <2>1. R(0) = {p}
    BY ReducedIs
  <2>2. p \in Pair(n) /\ p.mat = mat /\ p.inv = Identity(n)
    BY MulLaws, XorLaws DEF Pair, Square, Identity
  <2> HIDE DEF p
  <2>3. Reached(n, mat, 0, p)
    BY <2>2 DEF Reached, Cleared
  <2> HIDE DEF R
  <2> QED BY <2>1, <2>3
<1>2. ASSUME NEW col \in 0 .. n - 1, col \in Good PROVE col + 1 \in Good
  <2>1. R(col + 1) = UNION {Eliminated(p, n, col) : p \in R(col)}
    BY ReducedIs
  <2>2. \A p \in R(col) : Reached(n, mat, col, p)
    BY <1>2
  <2> HIDE DEF R
  <2>3. ASSUME NEW after \in R(col + 1) PROVE Reached(n, mat, col + 1, after)
    <3>1. PICK p \in R(col) : after \in Eliminated(p, n, col)
      BY <2>1
    <3>2. Reached(n, mat, col, p)
      BY <2>2
    <3>3. p \in Pair(n)
      BY <3>2 DEF Reached
    <3>4. /\ after \in Pair(n)
          /\ \A x, y : Vector(n, x) /\ Vector(n, y) /\ Agree(n, p.mat, x, p.inv, y)
                         => Agree(n, after.mat, x, after.inv, y)
          /\ Cleared(n, p.mat, col) => Cleared(n, after.mat, col + 1)
          /\ \A x : Vector(n, x) /\ Kills(n, after.mat, x) => Kills(n, p.mat, x)
      BY <3>1, <3>3, EliminatedKeeps
    <3> QED BY <3>2, <3>4 DEF Reached
  <2>4. col + 1 \in 0 .. n
    OBVIOUS
  <2> QED BY <2>3, <2>4
<1> HIDE DEF Good
<1>3. \A col \in 0 .. n : col \in Good
  BY <1>1, <1>2, SegmentInduction
<1> QED BY <1>3 DEF Good

\* Whatever matrix scalar::invert returns is an inverse: it sends what the matrix makes of
\* any x back to x.
THEOREM InverseUndoes ==
  ASSUME NEW n \in Nat, NEW mat \in Square(n), NEW inv \in Inverted(mat, n),
         NEW x, NEW y, Vector(n, x), Vector(n, y), \A r \in 0 .. n - 1 : y[r] = Dot(n, mat[r], x)
  PROVE  inv \in Square(n) /\ \A r \in 0 .. n - 1 : Dot(n, inv[r], y) = x[r]
<1> DEFINE I == 0 .. n - 1
<1>1. PICK p \in Reduced(mat, n)[n] : inv = p.inv
  BY DEF Inverted
<1>2. Reached(n, mat, n, p)
  <2>1. n \in 0 .. n
    OBVIOUS
  <2> QED BY <2>1, ReducedReached
<1>3. p.mat \in Square(n) /\ p.inv \in Square(n) /\ Cleared(n, p.mat, n)
  BY <1>2 DEF Reached, Pair
<1>4. Agree(n, mat, x, Identity(n), y)
  <2> SUFFICES ASSUME NEW r \in I PROVE Dot(n, mat[r], x) = Dot(n, Identity(n)[r], y)
    BY DEF Agree
  <2> DEFINE d == Identity(n)[r]
  <2>1. \A c \in I : d[c] = IF r = c THEN 1 ELSE 0
    BY DEF Identity
  <2> HIDE DEF d
  <2>2. Vector(n, d)
    BY <2>1, MulLaws, XorLaws DEF Vector
  <2>3. Dot(n, d, y) = Mul(d[r], y[r])
    <3>1. \A c \in I : c # r => d[c] = 0 \/ y[c] = 0
      BY <2>1
    <3> QED BY <2>2, <3>1, DotSingle
  <2>4. d[r] = 1 /\ y[r] \in Elements
    BY <2>1 DEF Vector
  <2>5. Mul(1, y[r]) = y[r]
    BY <2>4, MulLaws
  <2>6. y[r] = Dot(n, mat[r], x)
    OBVIOUS
  <2>7. Dot(n, d, y) = Dot(n, mat[r], x)
    BY <2>3, <2>4, <2>5, <2>6
  <2> QED BY <2>7 DEF d
<1>5. Agree(n, p.mat, x, p.inv, y)
  BY <1>2, <1>4 DEF Reached
<1>6. ASSUME NEW r \in I PROVE Dot(n, p.inv[r], y) = x[r]
  <2> DEFINE d == p.mat[r]
  <2>1. \A c \in I : d[c] = IF r = c THEN 1 ELSE 0
    BY <1>3 DEF Cleared
  <2>2. Dot(n, d, x) = Dot(n, p.inv[r], y)
    BY <1>5 DEF Agree
  <2> HIDE DEF d
  <2>3. Vector(n, d)
    BY <2>1, MulLaws, XorLaws DEF Vector
  <2>4. Dot(n, d, x) = Mul(d[r], x[r])
    <3>1. \A c \in I : c # r => d[c] = 0 \/ x[c] = 0
      BY <2>1
    <3> QED BY <2>3, <3>1, DotSingle, ZenonT(40)
  <2>5. d[r] = 1 /\ x[r] \in Elements
    BY <2>1 DEF Vector
  <2>6. Mul(1, x[r]) = x[r]
    BY <2>5, MulLaws
  <2> QED BY <2>2, <2>4, <2>5, <2>6
<1> QED BY <1>1, <1>3, <1>6

\* A matrix sends nothing to 0 but the vector of zeros.
Regular(n, mat) ==
  \A x \in [0 .. n - 1 -> Elements] : Kills(n, mat, x) => \A c \in 0 .. n - 1 : x[c] = 0

\* scalar::invert finds an inverse of every such matrix.
THEOREM RegularInverts ==
  ASSUME NEW n \in Nat, NEW mat \in Square(n), Regular(n, mat)
  PROVE  Inverted(mat, n) # {}
<1> DEFINE R(col) == Reduced(mat, n)[col]
           Good == {col \in 0 .. n : R(col) # {}}
<1>1. 0 \in Good
  <2>1. R(0) # {}
    BY ReducedIs
  <2> HIDE DEF R
  <2> QED BY <2>1
<1>2. ASSUME NEW col \in 0 .. n - 1, col \in Good PROVE col + 1 \in Good
  <2>1. R(col + 1) = UNION {Eliminated(p, n, col) : p \in R(col)}
    BY ReducedIs
  <2>2. PICK p \in R(col) : TRUE
    BY <1>2
  <2>3. Reached(n, mat, col, p)
    BY <2>2, ReducedReached
  <2>4. p \in Pair(n) /\ p.mat \in Square(n) /\ Cleared(n, p.mat, col)
    BY <2>3 DEF Reached, Pair
  <2>5. Pivots(p.mat, n, col) # {}
    <3> SUFFICES ASSUME Pivots(p.mat, n, col) = {} PROVE FALSE
      OBVIOUS
    <3>1. PICK x \in [0 .. n - 1 -> Elements] : x[col] = 1 /\ Kills(n, p.mat, x)
      BY <2>4, NoPivot
    <3>2. Vector(n, x)
      BY DEF Vector
    <3>3. Kills(n, mat, x)
      BY <2>3, <3>1, <3>2 DEF Reached
    <3>4. x[col] = 0
      BY <3>3 DEF Regular
    <3> QED BY <3>1, <3>4
  <2>6. PICK after : \E piv \in col .. n - 1, column \in [0 .. n - 1 -> Elements] :
          Eliminated(p, n, col) = {after} /\ IsStep(n, p, col, after, piv, column)
    BY <2>4, <2>5, EliminatedIs
  <2> HIDE DEF R
  <2>7. after \in R(col + 1)
    BY <2>1, <2>2, <2>6
  <2>8. col + 1 \in 0 .. n
    OBVIOUS
  <2> QED BY <2>7, <2>8
<1> HIDE DEF Good
<1>3. \A col \in 0 .. n : col \in Good
  BY <1>1, <1>2, SegmentInduction
<1>4. n \in Good
  BY <1>3
<1>5. Reduced(mat, n)[n] # {}
  BY <1>4 DEF Good
<1> QED BY <1>5 DEF Inverted

-----------------------------------------------------------------------------
(* The squares of parity coefficients. *)

\* A sum depends on nothing but the products.
LEMMA DotOfProducts ==
  ASSUME NEW n \in Nat, NEW f, NEW g, NEW a, NEW b, \A i \in 0 .. n - 1 : Mul(f[i], g[i]) = Mul(a[i], b[i])
  PROVE  Dot(n, f, g) = Dot(n, a, b)
<1> DEFINE Good == {j \in 0 .. n : Dot(j, f, g) = Dot(j, a, b)}
<1>1. 0 \in Good
  <2>1. Dot(0, f, g) = 0 /\ Dot(0, a, b) = 0
    BY DotZero
  <2> QED BY <2>1
<1>2. ASSUME NEW j \in 0 .. n - 1, j \in Good PROVE j + 1 \in Good
  <2>1. Dot(j + 1, f, g) = Xor(Dot(j, f, g), Mul(f[j], g[j]))
    BY DotNext
  <2>2. Dot(j + 1, a, b) = Xor(Dot(j, a, b), Mul(a[j], b[j]))
    BY DotNext
  <2>3. Dot(j, f, g) = Dot(j, a, b)
    BY <1>2
  <2>4. Dot(j + 1, f, g) = Dot(j + 1, a, b)
    BY <2>1, <2>2, <2>3
  <2> QED BY <2>4
<1> HIDE DEF Good
<1>3. \A j \in 0 .. n : j \in Good
  BY <1>1, <1>2, SegmentInduction
<1> QED BY <1>3 DEF Good

\* Two identities of the reciprocals p1 of p and q1 of q: (p + d) / p = 1 + d / p, and
\* 1 / p + 1 / q = (p + q) / (p q).
LEMMA ReciprocalSums ==
  ASSUME NEW p \in Elements, NEW p1 \in Elements, Mul(p, p1) = 1, NEW d \in Elements
  PROVE  /\ Mul(Xor(p, d), p1) = Xor(1, Mul(d, p1))
         /\ \A q, q1 \in Elements : Mul(q, q1) = 1 => Xor(p1, q1) = Mul(Xor(p, q), Mul(p1, q1))
<1>1. \A x, y, z \in Elements : Mul(Xor(x, y), z) = Xor(Mul(x, z), Mul(y, z))
  <2> SUFFICES ASSUME NEW x \in Elements, NEW y \in Elements, NEW z \in Elements
               PROVE  Mul(Xor(x, y), z) = Xor(Mul(x, z), Mul(y, z))
    OBVIOUS
  <2>1. Mul(z, Xor(x, y)) = Xor(Mul(z, x), Mul(z, y))
    BY MulAdds
  <2>2. Xor(x, y) \in Elements
    BY XorLaws
  <2>3. Mul(z, Xor(x, y)) = Mul(Xor(x, y), z) /\ Mul(z, x) = Mul(x, z) /\ Mul(z, y) = Mul(y, z)
    BY <2>2, MulLaws
  <2> QED BY <2>1, <2>3
<1>2. Mul(Xor(p, d), p1) = Xor(1, Mul(d, p1))
  BY <1>1
<1>3. ASSUME NEW q \in Elements, NEW q1 \in Elements, Mul(q, q1) = 1
      PROVE  Xor(p1, q1) = Mul(Xor(p, q), Mul(p1, q1))
  <2>1. Mul(p1, q1) \in Elements
    BY MulLaws
  <2>2. Mul(Xor(p, q), Mul(p1, q1)) = Xor(Mul(p, Mul(p1, q1)), Mul(q, Mul(p1, q1)))
    BY <1>1, <2>1
  <2>3. Mul(p, Mul(p1, q1)) = q1
    <3>1. Mul(p, Mul(p1, q1)) = Mul(Mul(p, p1), q1)
      BY MulLaws
    <3> QED BY <3>1, MulLaws
  <2>4. Mul(q, Mul(p1, q1)) = p1
    <3>1. Mul(p1, q1) = Mul(q1, p1) /\ Mul(q, Mul(q1, p1)) = Mul(Mul(q, q1), p1)
      BY MulLaws
    <3> QED BY <1>3, <3>1, MulLaws
  <2>5. Xor(q1, p1) = Xor(p1, q1)
    BY XorLaws
  <2> QED BY <2>2, <2>3, <2>4, <2>5
<1> QED BY <1>2, <1>3

\* No two columns and no two rows alike, and no column like a row.
Apart(n, a, b) ==
  /\ Vector(n, a) /\ Vector(n, b)
  /\ \A i, j \in 0 .. n - 1 : /\ a[i] # b[j]
                              /\ i # j => a[i] # a[j] /\ b[i] # b[j]

\* The coefficient of column a and row b.
Weight(a, b) == Reciprocal(Xor(a, b))

\* The coefficient of a column and a row that differ is the inverse of their sum.
LEMMA WeightIs ==
  ASSUME NEW a \in Elements, NEW b \in Elements, a # b
  PROVE  /\ Xor(a, b) \in Elements \ {0} /\ Weight(a, b) \in Elements \ {0}
         /\ Mul(Xor(a, b), Weight(a, b)) = 1
<1>1. Xor(a, b) \in Elements /\ Xor(a, b) # 0
  BY XorLaws, XorCancels
<1> HIDE DEF Weight
<1>2. Reciprocal(Xor(a, b)) \in Elements \ {0} /\ Mul(Xor(a, b), Reciprocal(Xor(a, b))) = 1
  BY <1>1, ReciprocalIs
<1> QED BY <1>1, <1>2 DEF Weight

\* x is sent to 0 by the weights of n + 1 columns and rows, and y is x weighted by what
\* the last column and row make of each.
Lessens(n, a, b, row, x, y) ==
  /\ Apart(n + 1, a, b) /\ Vector(n + 1, x)
  /\ \A t, u \in 0 .. n : row[t][u] = Weight(a[u], b[t])
  /\ \A t \in 0 .. n : Dot(n + 1, row[t], x) = 0
  /\ \A u \in 0 .. n - 1 : y[u] = Mul(Mul(Xor(a[n], a[u]), row[n][u]), x[u])

\* Such a y is sent to 0 by the weights of the first n columns and rows.
LEMMA CauchySmaller ==
  ASSUME NEW n \in Nat, NEW a, NEW b, NEW row, NEW x, NEW y, Lessens(n, a, b, row, x, y),
         NEW t \in 0 .. n - 1
  PROVE  Dot(n, row[t], y) = 0
<1> SUFFICES ASSUME Apart(n + 1, a, b), Vector(n + 1, x),
                    \A s, u \in 0 .. n : row[s][u] = Weight(a[u], b[s]),
                    \A s \in 0 .. n : Dot(n + 1, row[s], x) = 0,
                    \A u \in 0 .. n - 1 : y[u] = Mul(Mul(Xor(a[n], a[u]), row[n][u]), x[u])
             PROVE  Dot(n, row[t], y) = 0
  BY DEF Lessens
<1> DEFINE I == 0 .. n
           d(u) == Xor(a[n], a[u])
           H(s) == [u \in I |-> Mul(d(u), row[s][u])]
           ones == [u \in I |-> 1]
<1>0. /\ \A u \in I : a[u] \in Elements /\ b[u] \in Elements /\ x[u] \in Elements
      /\ \A u, s \in I : a[u] # b[s] /\ (u # s => a[u] # a[s] /\ b[u] # b[s])
      /\ n \in I /\ t \in I /\ t # n /\ \A u \in 0 .. n - 1 : u \in I
  BY DEF Apart, Vector
<1>1. ASSUME NEW s \in I, NEW u \in I
      PROVE  /\ row[s][u] \in Elements /\ d(u) \in Elements /\ Xor(a[u], b[s]) \in Elements
             /\ Mul(Xor(a[u], b[s]), row[s][u]) = 1 /\ Mul(d(u), row[s][u]) \in Elements
  <2>1. row[s][u] \in Elements /\ Xor(a[u], b[s]) \in Elements /\ Mul(Xor(a[u], b[s]), row[s][u]) = 1
    <3>1. a[u] \in Elements /\ b[s] \in Elements /\ a[u] # b[s] /\ row[s][u] = Weight(a[u], b[s])
      BY <1>0
    <3> QED BY <3>1, WeightIs
  <2>2. d(u) \in Elements
    BY <1>0, XorLaws
  <2> HIDE DEF d
  <2> QED BY <2>1, <2>2, MulLaws
<1>2. ASSUME NEW s \in I
      PROVE  Vector(n + 1, row[s]) /\ Vector(n + 1, H(s)) /\ Vector(n + 1, ones) /\ n + 1 \in Nat
  <2> DEFINE h == H(s)
  <2>1. 0 .. (n + 1) - 1 = I /\ n + 1 \in Nat
    OBVIOUS
  <2>2. \A u \in I : row[s][u] \in Elements
    BY <1>1
  <2>3. \A u \in I : h[u] \in Elements
    <3>1. \A u \in I : h[u] = Mul(d(u), row[s][u])
      OBVIOUS
    <3> HIDE DEF h, d
    <3> QED BY <1>1, <3>1
  <2>4. \A u \in I : ones[u] \in Elements
    <3>1. 1 \in Elements
      BY WidthAssumption DEF Elements
    <3> QED BY <3>1
  <2> HIDE DEF I, h, ones
  <2> QED BY <2>1, <2>2, <2>3, <2>4 DEF Vector, h
<1>3. ASSUME NEW s \in I PROVE Dot(n + 1, H(s), x) = Dot(n + 1, ones, x)
  <2> DEFINE w == Xor(a[n], b[s])
             z == [u \in I |-> Mul(row[s][u], w)]
             h == H(s)
  <2>1. w \in Elements
    BY <1>0, XorLaws
  <2>2. ASSUME NEW u \in I PROVE z[u] = Xor(ones[u], Mul(1, h[u]))
    <3> DEFINE p == Xor(a[u], b[s])
               r == row[s][u]
    <3>0. a[u] \in Elements /\ a[n] \in Elements /\ b[s] \in Elements
      BY <1>0
    <3>1. w = Xor(p, d(u))
      <4>1. Xor(p, d(u)) = Xor(d(u), p)
        BY <1>1, XorLaws
      <4>2. Xor(Xor(a[n], a[u]), Xor(a[u], b[s])) = Xor(Xor(Xor(a[n], a[u]), a[u]), b[s])
        <5>1. Xor(a[n], a[u]) \in Elements
          BY <3>0, XorLaws
        <5> QED BY <3>0, <5>1, XorLaws
      <4>3. Xor(Xor(a[n], a[u]), a[u]) = a[n]
        <5>1. Xor(Xor(a[n], a[u]), a[u]) = Xor(a[n], Xor(a[u], a[u]))
          BY <3>0, XorLaws
        <5>2. Xor(a[u], a[u]) = 0 /\ Xor(a[n], 0) = a[n]
          BY <3>0, XorLaws
        <5> QED BY <5>1, <5>2
      <4> QED BY <4>1, <4>2, <4>3
    <3>2. p \in Elements /\ r \in Elements /\ d(u) \in Elements /\ Mul(p, r) = 1 /\ Mul(d(u), r) \in Elements
      BY <1>1
    <3>3. z[u] = Mul(r, w) /\ h[u] = Mul(d(u), r) /\ ones[u] = 1
      OBVIOUS
    <3> HIDE DEF w, p, r, z, h, ones, d
    <3>4. Mul(Xor(p, d(u)), r) = Xor(1, Mul(d(u), r))
      BY <3>2, ReciprocalSums
    <3>5. Mul(r, w) = Mul(w, r)
      BY <2>1, <3>2, MulLaws
    <3>6. Mul(1, h[u]) = h[u]
      BY <3>2, <3>3, MulLaws
    <3> QED BY <3>1, <3>3, <3>4, <3>5, <3>6
  <2>3. Vector(n + 1, row[s]) /\ Vector(n + 1, h) /\ Vector(n + 1, ones) /\ n + 1 \in Nat
    <3> HIDE DEF H, ones, I
    <3> QED BY <1>2
  <2>4. \A u \in 0 .. (n + 1) - 1 : u \in I
    OBVIOUS
  <2>5. \A u \in I : z[u] = Mul(row[s][u], w)
    OBVIOUS
  <2> HIDE DEF w, z, h, ones
  <2>6. Dot(n + 1, z, x) = Mul(w, Dot(n + 1, row[s], x))
    BY <2>1, <2>3, <2>4, <2>5, DotScaled
  <2>7. Dot(n + 1, z, x) = Xor(Dot(n + 1, ones, x), Mul(1, Dot(n + 1, h, x)))
    BY <2>2, <2>3, <2>4, MulLaws, DotAdded
  <2>8. Dot(n + 1, h, x) \in Elements /\ Dot(n + 1, ones, x) \in Elements
    BY <2>3, DotType
  <2>9. Mul(w, 0) = 0 /\ Mul(1, Dot(n + 1, h, x)) = Dot(n + 1, h, x)
    BY <2>1, <2>8, MulLaws
  <2>10. Xor(Dot(n + 1, ones, x), Dot(n + 1, h, x)) = 0
    BY <2>6, <2>7, <2>9
  <2>11. Dot(n + 1, ones, x) = Dot(n + 1, h, x)
    BY <2>8, <2>10, XorCancels
  <2> QED BY <2>11 DEF h
<1> DEFINE g == [u \in I |-> Mul(d(u), Mul(row[t][u], row[n][u]))]
           v == Xor(b[t], b[n])
<1>4. v \in Elements /\ v # 0
  <2>1. b[t] \in Elements /\ b[n] \in Elements /\ b[t] # b[n]
    BY <1>0
  <2> QED BY <2>1, XorLaws, XorCancels
<1>5. ASSUME NEW u \in I PROVE g[u] \in Elements /\ H(t)[u] = Xor(H(n)[u], Mul(v, g[u]))
  <2> DEFINE p == Xor(a[u], b[t])
             q == Xor(a[u], b[n])
             p1 == row[t][u]
             q1 == row[n][u]
  <2>0. a[u] \in Elements /\ b[t] \in Elements /\ b[n] \in Elements
    BY <1>0
  <2>1. v = Xor(p, q)
    <3>1. Xor(p, q) = Xor(Xor(b[t], a[u]), Xor(a[u], b[n]))
      BY <2>0, XorLaws
    <3>2. Xor(Xor(b[t], a[u]), Xor(a[u], b[n])) = Xor(Xor(Xor(b[t], a[u]), a[u]), b[n])
      <4>1. Xor(b[t], a[u]) \in Elements
        BY <2>0, XorLaws
      <4> QED BY <2>0, <4>1, XorLaws
    <3>3. Xor(Xor(b[t], a[u]), a[u]) = b[t]
      <4>1. Xor(Xor(b[t], a[u]), a[u]) = Xor(b[t], Xor(a[u], a[u]))
        BY <2>0, XorLaws
      <4>2. Xor(a[u], a[u]) = 0 /\ Xor(b[t], 0) = b[t]
        BY <2>0, XorLaws
      <4> QED BY <4>1, <4>2
    <3> QED BY <3>1, <3>2, <3>3
  <2>2. /\ p \in Elements /\ q \in Elements /\ p1 \in Elements /\ q1 \in Elements /\ d(u) \in Elements
        /\ Mul(p, p1) = 1 /\ Mul(q, q1) = 1
    BY <1>0, <1>1
  <2>3. g[u] = Mul(d(u), Mul(p1, q1)) /\ H(t)[u] = Mul(d(u), p1) /\ H(n)[u] = Mul(d(u), q1)
    OBVIOUS
  <2> DEFINE gu == g[u]
             ht == H(t)[u]
             hn == H(n)[u]
             du == d(u)
  <2>4. gu = Mul(du, Mul(p1, q1)) /\ ht = Mul(du, p1) /\ hn = Mul(du, q1) /\ du \in Elements
    BY <2>2, <2>3
  <2> HIDE DEF v, p, q, p1, q1, gu, ht, hn, du
  <2>5. Xor(p1, q1) = Mul(v, Mul(p1, q1))
    BY <2>1, <2>2, ReciprocalSums
  <2>6. Mul(p1, q1) \in Elements /\ gu \in Elements
    <3>1. Mul(p1, q1) \in Elements
      BY <2>2, MulLaws
    <3> QED BY <2>4, <3>1, MulLaws
  <2>7. Xor(ht, hn) = Mul(v, gu)
    <3>1. Mul(du, Xor(p1, q1)) = Xor(ht, hn)
      BY <2>2, <2>4, MulAdds
    <3>2. Mul(du, Mul(v, Mul(p1, q1))) = Mul(Mul(du, v), Mul(p1, q1))
      BY <1>4, <2>4, <2>6, MulLaws
    <3>3. Mul(du, v) = Mul(v, du) /\ Mul(Mul(v, du), Mul(p1, q1)) = Mul(v, Mul(du, Mul(p1, q1)))
      BY <1>4, <2>4, <2>6, MulLaws
    <3> QED BY <2>4, <2>5, <3>1, <3>2, <3>3
  <2>8. ht = Xor(hn, Mul(v, gu))
    <3>1. ht \in Elements /\ hn \in Elements
      BY <2>2, <2>4, MulLaws
    <3>2. Xor(hn, Xor(hn, ht)) = ht /\ Xor(ht, hn) = Xor(hn, ht)
      BY <3>1, XorCancels, XorLaws
    <3> QED BY <2>7, <3>2
  <2> QED BY <2>6, <2>8 DEF gu, ht, hn
<1>6. Dot(n + 1, g, x) = 0
  <2> DEFINE ht == H(t)
             hn == H(n)
             m == n + 1
  <2>1. Vector(m, ht) /\ Vector(m, hn) /\ Vector(m, x) /\ m \in Nat /\ \A u \in 0 .. m - 1 : u \in I
    BY <1>0, <1>2
  <2>2. Vector(m, g)
    <3> HIDE DEF g
    <3> QED BY <1>5, <2>1 DEF Vector
  <2>3. \A u \in I : ht[u] = Xor(hn[u], Mul(v, g[u]))
    BY <1>5
  <2>4. Dot(m, ht, x) = Dot(m, hn, x)
    BY <1>0, <1>3
  <2> HIDE DEF ht, hn, g, v, m
  <2>5. Dot(m, ht, x) = Xor(Dot(m, hn, x), Mul(v, Dot(m, g, x)))
    BY <1>4, <2>1, <2>2, <2>3, DotAdded
  <2>6. Dot(m, hn, x) \in Elements /\ Dot(m, g, x) \in Elements
    BY <2>1, <2>2, DotType
  <2>7. Mul(v, Dot(m, g, x)) \in Elements
    BY <1>4, <2>6, MulLaws
  <2>8. Xor(Dot(m, hn, x), Dot(m, ht, x)) = Mul(v, Dot(m, g, x))
    BY <2>5, <2>6, <2>7, XorCancels
  <2>9. Mul(v, Dot(m, g, x)) = 0
    BY <2>4, <2>6, <2>8, XorLaws
  <2>10. Dot(m, g, x) = 0
    BY <1>4, <2>6, <2>9, MulLaws
  <2> QED BY <2>10 DEF m
<1>7. Dot(n, g, x) = 0
  <2>1. g[n] = 0
    <3>1. d(n) = 0
      BY <1>0, XorLaws
    <3>2. g[n] = Mul(d(n), Mul(row[t][n], row[n][n]))
      BY <1>0
    <3> HIDE DEF d, g
    <3> QED BY <3>1, <3>2 DEF Mul
  <2> HIDE DEF g
  <2>2. Vector(n, g) /\ Vector(n, x)
    BY <1>0, <1>5 DEF Vector
  <2>3. Dot(n + 1, g, x) = Xor(Dot(n, g, x), Mul(g[n], x[n]))
    BY DotNext
  <2>4. Mul(g[n], x[n]) = 0
    BY <2>1 DEF Mul
  <2>5. Dot(n, g, x) \in Elements
    BY <2>2, DotType
  <2> QED BY <1>6, <2>3, <2>4, <2>5, XorLaws
<1>8. ASSUME NEW u \in 0 .. n - 1 PROVE Mul(g[u], x[u]) = Mul(row[t][u], y[u])
  <2> DEFINE p1 == row[t][u]
             q1 == row[n][u]
             du == d(u)
             xu == x[u]
  <2>1. p1 \in Elements /\ q1 \in Elements /\ du \in Elements /\ xu \in Elements
    BY <1>0, <1>1
  <2>2. g[u] = Mul(du, Mul(p1, q1)) /\ y[u] = Mul(Mul(du, q1), xu)
    BY <1>0
  <2> HIDE DEF g, p1, q1, du, xu
  <2>3. Mul(du, Mul(p1, q1)) = Mul(p1, Mul(du, q1))
    <3>1. Mul(du, Mul(p1, q1)) = Mul(Mul(du, p1), q1) /\ Mul(du, p1) = Mul(p1, du)
          /\ Mul(Mul(p1, du), q1) = Mul(p1, Mul(du, q1))
      BY <2>1, MulLaws
    <3> QED BY <3>1
  <2>4. Mul(du, q1) \in Elements
    BY <2>1, MulLaws
  <2>5. Mul(Mul(p1, Mul(du, q1)), xu) = Mul(p1, Mul(Mul(du, q1), xu))
    BY <2>1, <2>4, MulLaws
  <2>6. Mul(g[u], xu) = Mul(p1, y[u])
    BY <2>2, <2>3, <2>5
  <2> QED BY <2>6 DEF xu, p1
<1> HIDE DEF g
<1>9. Dot(n, g, x) = Dot(n, row[t], y)
  BY <1>8, DotOfProducts
<1> QED BY <1>7, <1>9

\* The weights of columns and rows that are apart send no vector but 0 to 0: a square of the
\* parity rows' weights, of whichever rows and columns, can be inverted.
THEOREM CauchyRegular ==
  ASSUME NEW e \in Nat, NEW a, NEW b, Apart(e, a, b),
         NEW row, \A t, u \in 0 .. e - 1 : row[t][u] = Weight(a[u], b[t])
  PROVE  \A x : Vector(e, x) /\ Kills(e, row, x) => \A u \in 0 .. e - 1 : x[u] = 0
<1> DEFINE Good(n) == \A x : Vector(n, x) /\ Kills(n, row, x) => \A u \in 0 .. n - 1 : x[u] = 0
           T == {n \in 0 .. e : Good(n)}
<1>1. 0 \in T
  OBVIOUS
<1>2. ASSUME NEW n \in 0 .. e - 1, n \in T PROVE n + 1 \in T
  <2>1. n \in Nat /\ n + 1 \in 0 .. e /\ Good(n) /\ (n + 1) - 1 = n
    BY <1>2
  <2>2. ASSUME NEW x, Vector(n + 1, x), Kills(n + 1, row, x)
        PROVE  \A u \in 0 .. n : x[u] = 0
    <3> DEFINE y == [u \in 0 .. n - 1 |-> Mul(Mul(Xor(a[n], a[u]), row[n][u]), x[u])]
    <3>1. Apart(n + 1, a, b)
      BY <2>1 DEF Apart, Vector
    <3>2. \A t, u \in 0 .. n : row[t][u] = Weight(a[u], b[t])
      BY <2>1
    <3>3. \A t \in 0 .. n : Dot(n + 1, row[t], x) = 0
      BY <2>1, <2>2 DEF Kills
    <3>4. \A u \in 0 .. n - 1 : y[u] = Mul(Mul(Xor(a[n], a[u]), row[n][u]), x[u])
      OBVIOUS
    <3>5. ASSUME NEW t \in 0 .. n, NEW u \in 0 .. n
          PROVE  /\ row[t][u] \in Elements \ {0} /\ x[u] \in Elements
                 /\ (u # n => Xor(a[n], a[u]) \in Elements \ {0})
      <4>1. a[u] \in Elements /\ b[t] \in Elements /\ a[n] \in Elements /\ a[u] # b[t]
            /\ (u # n => a[n] # a[u])
        BY <2>1, <3>1 DEF Apart, Vector
      <4>2. row[t][u] \in Elements \ {0}
        BY <3>2, <4>1, WeightIs
      <4>3. x[u] \in Elements
        BY <2>1, <2>2 DEF Vector
      <4>4. u # n => Xor(a[n], a[u]) \in Elements \ {0}
        BY <4>1, XorLaws, XorCancels
      <4> QED BY <4>2, <4>3, <4>4
    <3> HIDE DEF y
    <3>6. \A t \in 0 .. n - 1 : Dot(n, row[t], y) = 0
      <4> HIDE DEF Good
      <4>1. n \in Nat /\ Apart(n + 1, a, b) /\ Vector(n + 1, x)
        BY <2>1, <2>2, <3>1
      <4>2. Lessens(n, a, b, row, x, y)
        BY <4>1, <3>2, <3>3, <3>4 DEF Lessens
      <4>3. ASSUME NEW t \in 0 .. n - 1 PROVE Dot(n, row[t], y) = 0
        BY <4>1, <4>2, CauchySmaller
      <4> QED BY <4>3
    <3>7. ASSUME NEW u \in 0 .. n - 1
          PROVE  /\ y[u] \in Elements /\ (y[u] = 0 => x[u] = 0)
      <4> DEFINE d == Xor(a[n], a[u])
                 q == row[n][u]
                 xu == x[u]
      <4>1. d \in Elements \ {0} /\ q \in Elements \ {0} /\ xu \in Elements
        BY <2>1, <3>5
      <4>2. y[u] = Mul(Mul(d, q), xu)
        BY <3>4
      <4> HIDE DEF d, q, xu
      <4>3. Mul(d, q) \in Elements /\ Mul(d, q) # 0
        BY <4>1, MulLaws
      <4>4. Mul(Mul(d, q), xu) \in Elements /\ (Mul(Mul(d, q), xu) = 0 => xu = 0)
        BY <4>1, <4>3, MulLaws
      <4> QED BY <4>2, <4>4 DEF xu
    <3>8. \A u \in 0 .. n - 1 : y[u] = 0
      <4>1. Vector(n, y)
        BY <3>7 DEF Vector
      <4>2. Kills(n, row, y)
        BY <3>6 DEF Kills
      <4> QED BY <2>1, <4>1, <4>2
    <3>9. \A u \in 0 .. n - 1 : x[u] = 0
      BY <3>7, <3>8
    <3>10. x[n] = 0
      <4>1. Vector(n + 1, row[n]) /\ n \in 0 .. (n + 1) - 1
        BY <2>1, <3>5 DEF Vector
      <4>2. \A i \in 0 .. (n + 1) - 1 : i # n => row[n][i] = 0 \/ x[i] = 0
        BY <2>1, <3>9
      <4>3. Dot(n + 1, row[n], x) = Mul(row[n][n], x[n])
        BY <2>1, <2>2, <4>1, <4>2, DotSingle
      <4>4. Mul(row[n][n], x[n]) = 0
        BY <2>1, <3>3, <4>3
      <4>5. row[n][n] \in Elements \ {0} /\ x[n] \in Elements
        BY <2>1, <3>5
      <4> QED BY <4>4, <4>5, MulLaws
    <3> QED BY <2>1, <3>9, <3>10
  <2> QED BY <2>1, <2>2
<1>3. e \in T
  <2> HIDE DEF T
  <2>1. \A n \in 0 .. e : n \in T
    BY <1>1, <1>2, SegmentInduction
  <2> QED BY <2>1
<1> QED BY <1>3

-----------------------------------------------------------------------------
(* Recovery. *)

\* What recover_missing's rows mix: sources src, of which the last e are parity, each being the
\* sum of its weights A[t] of the first p and of a rest y[t].
Mixes(p, e, w, src, crow, A, y, row) ==
  /\ Vector(e, w) /\ Vector(p + e, src) /\ Vector(e, y)
  /\ \A c \in 0 .. p - 1, t \in 0 .. e - 1 : crow[c][t] = A[t][c] /\ A[t][c] \in Elements
  /\ \A t \in 0 .. e - 1 : src[p + t] = Xor(Dot(p, A[t], src), y[t])
  /\ \A c \in 0 .. p - 1 : row[c] = Dot(e, w, crow[c])
  /\ \A t \in 0 .. e - 1 : row[p + t] = w[t]

\* Such a row takes the present data out of the parity: what is left is w of the rest.
LEMMA RowRecovers ==
  ASSUME NEW p \in Nat, NEW e \in Nat, NEW w, NEW src, NEW crow, NEW A, NEW y, NEW row,
         Mixes(p, e, w, src, crow, A, y, row)
  PROVE  Dot(p + e, row, src) = Dot(e, w, y)
<1> DEFINE P == [t \in 0 .. e - 1 |-> src[p + t]]
           Q == [t \in 0 .. e - 1 |-> Dot(p, A[t], src)]
<1>1. Vector(e, w) /\ Vector(p + e, src) /\ Vector(e, y) /\ Vector(p, src)
  BY DEF Mixes, Vector
<1>2. \A t \in 0 .. e - 1 : Vector(p, A[t])
  BY DEF Mixes, Vector
<1>3. \A c \in 0 .. p - 1 : Vector(e, crow[c])
  BY DEF Mixes, Vector
<1>4. /\ \A t \in 0 .. e - 1 : P[t] = src[p + t] /\ Q[t] = Dot(p, A[t], src)
      /\ \A i \in 0 .. e - 1 : row[p + i] = w[i]
      /\ \A c \in 0 .. p - 1 : row[c] = Dot(e, w, crow[c])
      /\ \A c \in 0 .. p - 1, t \in 0 .. e - 1 : crow[c][t] = A[t][c]
      /\ \A t \in 0 .. e - 1 : src[p + t] = Xor(Dot(p, A[t], src), y[t])
  BY DEF Mixes
<1> HIDE DEF P, Q
<1>5. \A t \in 0 .. e - 1 : Q[t] \in Elements /\ P[t] \in Elements
  <2> TAKE t \in 0 .. e - 1
  <2>1. Q[t] \in Elements
    BY <1>1, <1>2, <1>4, DotType
  <2>2. p + t \in 0 .. (p + e) - 1
    OBVIOUS
  <2>3. P[t] \in Elements
    BY <1>1, <1>4, <2>2 DEF Vector
  <2> QED BY <2>1, <2>3
<1>6. Vector(e, P) /\ Vector(e, Q)
  BY <1>5 DEF Vector
<1>7. Vector(p + e, row)
  <2> SUFFICES ASSUME NEW i \in 0 .. (p + e) - 1 PROVE row[i] \in Elements
    BY DEF Vector
  <2>1. CASE i < p
    <3>1. i \in 0 .. p - 1
      BY <2>1
    <3> QED BY <1>1, <1>3, <1>4, <3>1, DotType
  <2>2. CASE i >= p
    <3>1. i - p \in 0 .. e - 1 /\ p + (i - p) = i
      BY <2>2
    <3>2. w[i - p] \in Elements
      BY <1>1, <3>1 DEF Vector
    <3>3. row[p + (i - p)] = w[i - p]
      BY <1>4, <3>1
    <3> QED BY <3>1, <3>2, <3>3
  <2> QED BY <2>1, <2>2
<1>8. Dot(p + e, row, src) = Xor(Dot(p, row, src), Dot(e, w, P))
  <2>1. \A i \in 0 .. e - 1 : w[i] = row[p + i] /\ P[i] = src[p + i]
    BY <1>4
  <2> QED BY <1>1, <1>7, <2>1, DotParts
<1>9. Dot(e, w, Q) = Dot(p, row, src)
  <2>1. Exchanges(e, p, w, src, A, crow, Q, row)
    BY <1>1, <1>2, <1>4 DEF Exchanges
  <2> QED BY <2>1, DotExchange
<1>10. Dot(e, P, w) = Xor(Dot(e, y, w), Mul(1, Dot(e, Q, w)))
  <2>1. \A i \in 0 .. e - 1 : P[i] = Xor(y[i], Mul(1, Q[i]))
    <3> TAKE i \in 0 .. e - 1
    <3>1. P[i] = Xor(Q[i], y[i]) /\ Q[i] \in Elements /\ y[i] \in Elements
      BY <1>1, <1>4, <1>5 DEF Vector
    <3>2. Mul(1, Q[i]) = Q[i] /\ Xor(Q[i], y[i]) = Xor(y[i], Q[i])
      BY <3>1, MulLaws, XorLaws
    <3> QED BY <3>1, <3>2
  <2> QED BY <1>1, <1>6, <2>1, MulLaws, DotAdded
<1>11. /\ Dot(e, P, w) = Dot(e, w, P) /\ Dot(e, Q, w) = Dot(e, w, Q) /\ Dot(e, y, w) = Dot(e, w, y)
       /\ Dot(e, w, y) \in Elements /\ Dot(e, w, Q) \in Elements
  BY <1>1, <1>6, DotType
<1>12. Dot(e, w, P) = Xor(Dot(e, w, Q), Dot(e, w, y))
  BY <1>10, <1>11, MulLaws, XorLaws
<1> QED BY <1>8, <1>9, <1>11, <1>12, XorCancels

\* The data slots that arrived, those that did not, and the parity slots that arrived.
Kept(k, view)     == {i \in 0 .. k - 1 : view[i] # Lost}
Gone(k, view)     == {i \in 0 .. k - 1 : view[i] = Lost}
Alive(k, m, view) == {j \in 0 .. m - 1 : view[k + j] # Lost}

\* A view has k data slots and m of parity.
Slots(k, m, view) == DOMAIN view = 0 .. k + m - 1

\* How the slots that arrived are counted: data first, and then parity.
LEMMA Survivors ==
  ASSUME NEW k \in Nat, NEW m \in Nat, NEW view, Slots(k, m, view)
  PROVE  /\ Present(view) \in SUBSET (0 .. (k + m) - 1)
         /\ Gone(k, view) \in SUBSET (0 .. k - 1) /\ Alive(k, m, view) \in SUBSET (0 .. m - 1)
         /\ Kept(k, view) = (0 .. k - 1) \ Gone(k, view)
         /\ Cardinality(Gone(k, view)) \in 0 .. k
         /\ Cardinality(Kept(k, view)) = k - Cardinality(Gone(k, view))
         /\ \A i \in 0 .. k - 1 : Rank(Present(view), i) < k
         /\ \A j \in 0 .. m : Rank(Present(view), k + j) = Cardinality(Kept(k, view)) + Rank(Alive(k, m, view), j)
         /\ Cardinality(Present(view)) = Cardinality(Kept(k, view)) + Cardinality(Alive(k, m, view))
<1> DEFINE S == Present(view)
           D == Kept(k, view)
           G == Gone(k, view)
           A == Alive(k, m, view)
           N == k + m
<1>0. DOMAIN view = 0 .. k + m - 1
  BY DEF Slots
<1>1. /\ S \in SUBSET (0 .. N - 1) /\ D \in SUBSET (0 .. k - 1)
      /\ G \in SUBSET (0 .. k - 1) /\ A \in SUBSET (0 .. m - 1)
      /\ D = (0 .. k - 1) \ G
      /\ N \in Nat /\ \A i \in 0 .. k - 1 : i \in S <=> i \in D
      /\ \A j \in 0 .. m - 1 : k + j \in 0 .. N - 1 /\ (k + j \in S <=> j \in A)
  BY <1>0 DEF Present, Kept, Gone, Alive
<1> HIDE DEF S, D, G, A, N
<1>1s. /\ Cardinality(S) \in 0 .. N /\ Rank(S, 0) = 0 /\ Rank(S, N) = Cardinality(S)
       /\ \A i \in 0 .. N : Rank(S, i) \in 0 .. Cardinality(S)
       /\ \A i \in 0 .. N - 1 : Rank(S, i + 1) = IF i \in S THEN Rank(S, i) + 1 ELSE Rank(S, i)
  <2>1. S \in SUBSET (0 .. N - 1) /\ N \in Nat
    BY <1>1
  <2>2. Ranked(N, S)
    BY <2>1, SlotsRanked
  <2> QED BY <2>2 DEF Ranked
<1>1d. /\ Cardinality(D) \in 0 .. k /\ Rank(D, 0) = 0 /\ Rank(D, k) = Cardinality(D)
       /\ \A i \in 0 .. k : Rank(D, i) \in 0 .. Cardinality(D)
       /\ \A i \in 0 .. k - 1 : Rank(D, i + 1) = IF i \in D THEN Rank(D, i) + 1 ELSE Rank(D, i)
  <2>1. D \in SUBSET (0 .. k - 1) /\ k \in Nat
    BY <1>1
  <2>2. Ranked(k, D)
    BY <2>1, SlotsRanked
  <2> QED BY <2>2 DEF Ranked
<1>1g. /\ Cardinality(G) \in 0 .. k /\ Rank(G, 0) = 0 /\ Rank(G, k) = Cardinality(G)
       /\ \A i \in 0 .. k : Rank(G, i) \in 0 .. Cardinality(G)
       /\ \A i \in 0 .. k - 1 : Rank(G, i + 1) = IF i \in G THEN Rank(G, i) + 1 ELSE Rank(G, i)
  <2>1. G \in SUBSET (0 .. k - 1) /\ k \in Nat
    BY <1>1
  <2>2. Ranked(k, G)
    BY <2>1, SlotsRanked
  <2> QED BY <2>2 DEF Ranked
<1>1a. /\ Cardinality(A) \in 0 .. m /\ Rank(A, 0) = 0 /\ Rank(A, m) = Cardinality(A)
       /\ \A i \in 0 .. m : Rank(A, i) \in 0 .. Cardinality(A)
       /\ \A i \in 0 .. m - 1 : Rank(A, i + 1) = IF i \in A THEN Rank(A, i) + 1 ELSE Rank(A, i)
  <2>1. A \in SUBSET (0 .. m - 1) /\ m \in Nat
    BY <1>1
  <2>2. Ranked(m, A)
    BY <2>1, SlotsRanked
  <2> QED BY <2>2 DEF Ranked
<1>2. \A i \in 0 .. k : Rank(S, i) = Rank(D, i) /\ Rank(D, i) + Rank(G, i) = i /\ i \in 0 .. N
  <2> DEFINE Good == {i \in 0 .. k : Rank(S, i) = Rank(D, i) /\ Rank(D, i) + Rank(G, i) = i}
  <2>0. k <= N
    BY DEF N
  <2>1. 0 \in Good
    BY <1>1s, <1>1d, <1>1g
  <2>2. ASSUME NEW i \in 0 .. k - 1, i \in Good PROVE i + 1 \in Good
    <3>1. i + 1 \in 0 .. k /\ i \in 0 .. N - 1 /\ i \in 0 .. k /\ i \in 0 .. N
      BY <1>1, <2>0
    <3>2. Rank(S, i + 1) = IF i \in S THEN Rank(S, i) + 1 ELSE Rank(S, i)
      BY <1>1s, <3>1
    <3>3. Rank(D, i + 1) = IF i \in D THEN Rank(D, i) + 1 ELSE Rank(D, i)
      BY <1>1d, <3>1
    <3>4. Rank(G, i + 1) = IF i \in G THEN Rank(G, i) + 1 ELSE Rank(G, i)
      BY <1>1g, <3>1
    <3>5. i \in S <=> i \in D
      BY <1>1
    <3>6. i \in D <=> i \notin G
      BY <1>1
    <3>7. Rank(D, i) \in Int /\ Rank(G, i) \in Int
      <4>1. Rank(D, i) \in 0 .. Cardinality(D) /\ Cardinality(D) \in 0 .. k
        BY <1>1d, <3>1
      <4>2. Rank(G, i) \in 0 .. Cardinality(G) /\ Cardinality(G) \in 0 .. k
        BY <1>1g, <3>1
      <4> QED BY <4>1, <4>2
    <3>8. Rank(S, i) = Rank(D, i) /\ Rank(D, i) + Rank(G, i) = i
      BY <2>2
    <3> QED BY <3>1, <3>2, <3>3, <3>4, <3>5, <3>6, <3>7, <3>8
  <2> HIDE DEF Good
  <2>3. \A i \in 0 .. k : i \in Good
    BY <2>1, <2>2, SegmentInduction
  <2>4. \A i \in 0 .. k : i \in 0 .. N
    BY <1>1, <2>0
  <2> QED BY <2>3, <2>4 DEF Good
<1>3. /\ Cardinality(G) \in 0 .. k /\ Cardinality(D) \in 0 .. k /\ Cardinality(D) = k - Cardinality(G)
      /\ Rank(S, k) = Cardinality(D)
  <2>1. Cardinality(G) \in 0 .. k /\ Rank(G, k) = Cardinality(G)
    BY <1>1g
  <2>2. Cardinality(D) \in 0 .. k /\ Rank(D, k) = Cardinality(D)
    BY <1>1d
  <2>3. Rank(S, k) = Rank(D, k) /\ Rank(D, k) + Rank(G, k) = k
    BY <1>2
  <2> QED BY <2>1, <2>2, <2>3
<1>4. \A i \in 0 .. k - 1 : Rank(S, i) < k
  <2> TAKE i \in 0 .. k - 1
  <2>1. Rank(D, i) \in 0 .. Cardinality(D) /\ Rank(G, i) \in 0 .. Cardinality(G) /\ i \in 0 .. k
    BY <1>1d, <1>1g
  <2>2. Rank(S, i) = Rank(D, i) /\ Rank(D, i) + Rank(G, i) = i
    BY <1>2, <2>1
  <2> QED BY <1>3, <2>1, <2>2
<1>5. \A j \in 0 .. m : Rank(S, k + j) = Cardinality(D) + Rank(A, j)
  <2> DEFINE Good == {j \in 0 .. m : Rank(S, k + j) = Cardinality(D) + Rank(A, j)}
  <2>1. 0 \in Good
    <3>1. Rank(A, 0) = 0
      BY <1>1a
    <3> QED BY <1>3, <3>1
  <2>2. ASSUME NEW j \in 0 .. m - 1, j \in Good PROVE j + 1 \in Good
    <3>1. j + 1 \in 0 .. m /\ k + j \in 0 .. N - 1 /\ (k + j) + 1 = k + (j + 1) /\ j \in 0 .. m
      BY <1>1
    <3>2. Rank(S, (k + j) + 1) = IF k + j \in S THEN Rank(S, k + j) + 1 ELSE Rank(S, k + j)
      BY <1>1s, <3>1
    <3>3. Rank(A, j + 1) = IF j \in A THEN Rank(A, j) + 1 ELSE Rank(A, j)
      BY <1>1a, <3>1
    <3>4. k + j \in S <=> j \in A
      BY <1>1
    <3>5. Rank(S, k + j) = Cardinality(D) + Rank(A, j)
      BY <2>2
    <3>6. Rank(A, j) \in Int
      <4>1. Rank(A, j) \in 0 .. Cardinality(A) /\ Cardinality(A) \in 0 .. m
        BY <1>1a, <3>1
      <4> QED BY <4>1
    <3> QED BY <1>3, <3>1, <3>2, <3>3, <3>4, <3>5, <3>6
  <2> HIDE DEF Good
  <2>3. \A j \in 0 .. m : j \in Good
    BY <2>1, <2>2, SegmentInduction
  <2> QED BY <2>3 DEF Good
<1>6. Cardinality(S) = Cardinality(D) + Cardinality(A)
  <2>1. Rank(S, N) = Cardinality(S)
    BY <1>1s
  <2>2. Rank(A, m) = Cardinality(A)
    BY <1>1a
  <2>3. Rank(S, k + m) = Cardinality(D) + Rank(A, m)
    BY <1>5
  <2> QED BY <2>1, <2>2, <2>3 DEF N
<1> QED BY <1>1, <1>3, <1>4, <1>5, <1>6 DEF S, D, G, A, N

\* A parity row's weights f of the kept data g, and h of the lost data l.
Splits(k, m, view, x, j, f, g, h, l) ==
  LET e       == Cardinality(Gone(k, view))
      gone    == Ascending(Gone(k, view), e)
      present == Ascending(Kept(k, view), k - e)
  IN  /\ \A c \in 0 .. (k - e) - 1 : f[c] = Coeff(m, present[c], j) /\ g[c] = x[present[c]]
      /\ \A u \in 0 .. e - 1 : h[u] = Coeff(m, gone[u], j) /\ l[u] = x[gone[u]]

\* The coefficients of a block that can be encoded are bytes other than 0.
LEMMA CoeffFacts ==
  ASSUME NEW k \in Nat, NEW m \in Nat, Encodable(k, m), NEW i \in 0 .. k - 1, NEW j \in 0 .. m - 1
  PROVE  /\ m + i \in Elements /\ j \in Elements /\ m + i # j
         /\ Coeff(m, i, j) \in Elements \ {0} /\ Coeff(m, i, j) = Weight(m + i, j)
<1>1. m + i \in Elements /\ j \in Elements /\ m + i # j
  BY WidthAssumption DEF Elements, Encodable
<1>2. Coeff(m, i, j) = Weight(m + i, j)
  BY DEF Coeff, Weight
<1> QED BY <1>1, <1>2, WeightIs

\* The generator's rows are rows of bytes: a data shard's picks its byte, a parity shard's is
\* its coefficients.
LEMMA GeneratorIs ==
  ASSUME NEW k \in Nat, NEW m \in Nat, Encodable(k, m)
  PROVE  /\ \A r \in 0 .. k + m - 1 : Generator(k, m)[r] \in [0 .. k - 1 -> Elements]
         /\ \A r, i \in 0 .. k - 1 : Generator(k, m)[r][i] = IF r = i THEN 1 ELSE 0
         /\ \A j \in 0 .. m - 1, i \in 0 .. k - 1 : Generator(k, m)[k + j][i] = Coeff(m, i, j)
<1>1. ASSUME NEW r \in 0 .. k + m - 1
      PROVE  Generator(k, m)[r] = [i \in 0 .. k - 1 |-> IF r < k THEN (IF r = i THEN 1 ELSE 0) ELSE Coeff(m, i, r - k)]
  BY DEF Generator
<1>2. ASSUME NEW r \in 0 .. k + m - 1 PROVE Generator(k, m)[r] \in [0 .. k - 1 -> Elements]
  <2>1. ASSUME NEW i \in 0 .. k - 1
        PROVE  (IF r < k THEN (IF r = i THEN 1 ELSE 0) ELSE Coeff(m, i, r - k)) \in Elements
    <3>1. CASE r < k
      BY <3>1, MulLaws, XorLaws
    <3>2. CASE r >= k
      <4>1. r - k \in 0 .. m - 1
        BY <3>2
      <4> QED BY <3>2, <4>1, CoeffFacts
    <3> QED BY <3>1, <3>2
  <2> QED BY <1>1, <2>1
<1>3. ASSUME NEW r \in 0 .. k - 1, NEW i \in 0 .. k - 1
      PROVE  Generator(k, m)[r][i] = IF r = i THEN 1 ELSE 0
  <2>1. r \in 0 .. k + m - 1 /\ r < k
    OBVIOUS
  <2> QED BY <1>1, <2>1
<1>4. ASSUME NEW j \in 0 .. m - 1, NEW i \in 0 .. k - 1
      PROVE  Generator(k, m)[k + j][i] = Coeff(m, i, j)
  <2>1. k + j \in 0 .. k + m - 1 /\ ~(k + j < k) /\ (k + j) - k = j
    OBVIOUS
  <2> DEFINE r == k + j
  <2>2. r \in 0 .. k + m - 1 /\ ~(r < k) /\ r - k = j
    BY <2>1
  <2> HIDE DEF r
  <2>3. Generator(k, m)[r] = [c \in 0 .. k - 1 |-> IF r < k THEN (IF r = c THEN 1 ELSE 0) ELSE Coeff(m, c, r - k)]
    BY <1>1, <2>2
  <2>4. Generator(k, m)[r][i] = Coeff(m, i, j)
    BY <2>2, <2>3
  <2> QED BY <2>4 DEF r
<1> QED BY <1>2, <1>3, <1>4

\* A parity shard is a sum over the kept data and one over the lost.
LEMMA ParitySplits ==
  ASSUME NEW k \in Nat, NEW m \in Nat, Encodable(k, m), NEW view, Slots(k, m, view),
         NEW x, Vector(k, x), NEW j \in 0 .. m - 1, NEW f, NEW g, NEW h, NEW l,
         Splits(k, m, view, x, j, f, g, h, l)
  PROVE  LET e == Cardinality(Gone(k, view))
         IN  Dot(k, Generator(k, m)[k + j], x) = Xor(Dot(k - e, f, g), Dot(e, h, l))
<1> DEFINE D == Kept(k, view)
           G == Gone(k, view)
           e == Cardinality(G)
           F == Generator(k, m)[k + j]
           gone == Ascending(G, e)
           present == Ascending(D, k - e)
<1>1. /\ G \in SUBSET (0 .. k - 1) /\ D = (0 .. k - 1) \ G /\ D \in SUBSET (0 .. k - 1)
      /\ G = (0 .. k - 1) \ D /\ e \in 0 .. k /\ Cardinality(D) = k - e
  <2>1. G \in SUBSET (0 .. k - 1) /\ D = (0 .. k - 1) \ G /\ e \in 0 .. k /\ Cardinality(D) = k - e
    <3> HIDE DEF F, gone, present, D, G
    <3>2. /\ Alive(k, m, view) \in SUBSET (0 .. m - 1) /\ Gone(k, view) \in SUBSET (0 .. k - 1)
          /\ Kept(k, view) = (0 .. k - 1) \ Gone(k, view) /\ Cardinality(Gone(k, view)) \in 0 .. k
          /\ Cardinality(Kept(k, view)) = k - Cardinality(Gone(k, view))
      BY Survivors
    <3> QED BY <3>2 DEF D, G
  <2> HIDE DEF D, G
  <2>2. D \in SUBSET (0 .. k - 1) /\ G = (0 .. k - 1) \ D
    BY <2>1
  <2> QED BY <2>1, <2>2
<1>2. k + j \in 0 .. k + m - 1
  OBVIOUS
<1>3. Vector(k, F) /\ \A i \in 0 .. k - 1 : F[i] = Coeff(m, i, j)
  BY <1>2, GeneratorIs DEF Vector
<1>4. /\ \A c \in 0 .. (k - e) - 1 : f[c] = Coeff(m, present[c], j) /\ g[c] = x[present[c]]
      /\ \A u \in 0 .. e - 1 : h[u] = Coeff(m, gone[u], j) /\ l[u] = x[gone[u]]
  BY DEF Splits
<1> HIDE DEF D, G, F
<1>5. \A c \in 0 .. (k - e) - 1 : present[c] \in 0 .. k - 1
  <2>1. k - e \in 0 .. Cardinality(D)
    BY <1>1
  <2>2. \A c \in 0 .. (k - e) - 1 : present[c] \in D
    <3> DEFINE n == k - e
    <3>1. n \in 0 .. Cardinality(D) /\ D \in SUBSET (0 .. k - 1)
      BY <1>1, <2>1
    <3> HIDE DEF e, n
    <3>2. \A c \in 0 .. n - 1 : Ascending(D, n)[c] \in D
      BY <3>1, AscendingFacts
    <3> QED BY <3>2 DEF n
  <2> QED BY <1>1, <2>2
<1>6. \A u \in 0 .. e - 1 : gone[u] \in 0 .. k - 1
  <2>1. e \in 0 .. Cardinality(G)
    BY <1>1
  <2>2. \A u \in 0 .. e - 1 : gone[u] \in G
    BY <1>1, <2>1, AscendingFacts
  <2> QED BY <1>1, <2>2
<1>7. \A i \in 0 .. Cardinality(D) - 1 :
        f[i] = F[Ascending(D, Cardinality(D))[i]] /\ g[i] = x[Ascending(D, Cardinality(D))[i]]
  <2>1. \A i \in 0 .. (k - e) - 1 : f[i] = F[present[i]] /\ g[i] = x[present[i]]
    BY <1>3, <1>4, <1>5
  <2> QED BY <1>1, <2>1
<1>8. \A i \in 0 .. Cardinality(G) - 1 :
        h[i] = F[Ascending(G, Cardinality(G))[i]] /\ l[i] = x[Ascending(G, Cardinality(G))[i]]
  BY <1>3, <1>4, <1>6
<1>9. Dot(k, F, x) = Xor(Dot(Cardinality(D), f, g), Dot(Cardinality(G), h, l))
  <2>1. D \in SUBSET (0 .. k - 1) /\ G = (0 .. k - 1) \ D
    BY <1>1
  <2> HIDE DEF e, present, gone
  <2>2. Parted(F, x, D, (0 .. k - 1) \ D, f, g, h, l)
    BY <1>7, <1>8, <2>1 DEF Parted
  <2>3. Dot(k, F, x) = Xor(Dot(Cardinality(D), f, g), Dot(Cardinality((0 .. k - 1) \ D), h, l))
    BY <1>3, <2>1, <2>2, DotOfSlots
  <2> QED BY <2>1, <2>3
<1> QED BY <1>1, <1>9 DEF F, G

\* The lost data slots in order, the kept ones, and as many parity slots as are lost.
LostSlots(k, view)      == Ascending(Gone(k, view), Cardinality(Gone(k, view)))
KeptSlots(k, view)      == Ascending(Kept(k, view), k - Cardinality(Gone(k, view)))
ParitySlots(k, m, view) == Ascending(Alive(k, m, view), Cardinality(Gone(k, view)))

\* When k shards arrived, there is a parity shard for each lost data shard.
LEMMA SlotsChosen ==
  ASSUME NEW k \in Nat, NEW m \in Nat, NEW view, Slots(k, m, view), Cardinality(Present(view)) >= k
  PROVE  LET e == Cardinality(Gone(k, view))
         IN  /\ e \in 0 .. k /\ e \in 0 .. Cardinality(Alive(k, m, view))
             /\ \A u \in 0 .. e - 1 : /\ LostSlots(k, view)[u] \in Gone(k, view)
                                      /\ ParitySlots(k, m, view)[u] \in Alive(k, m, view)
                                      /\ Rank(Alive(k, m, view), ParitySlots(k, m, view)[u]) = u
             /\ \A u, v \in 0 .. e - 1 : u # v => /\ LostSlots(k, view)[u] # LostSlots(k, view)[v]
                                                  /\ ParitySlots(k, m, view)[u] # ParitySlots(k, m, view)[v]
             /\ \A c \in 0 .. (k - e) - 1 : KeptSlots(k, view)[c] \in Kept(k, view)
             /\ \A s \in Gone(k, view) : /\ Rank(Gone(k, view), s) \in 0 .. e - 1
                                         /\ LostSlots(k, view)[Rank(Gone(k, view), s)] = s
<1> DEFINE D == Kept(k, view)
           G == Gone(k, view)
           A == Alive(k, m, view)
           e == Cardinality(G)
           p == k - e
<1>1. /\ G \in SUBSET (0 .. k - 1) /\ A \in SUBSET (0 .. m - 1) /\ D = (0 .. k - 1) \ G
      /\ e \in 0 .. k /\ Cardinality(D) = p /\ Cardinality(Present(view)) = Cardinality(D) + Cardinality(A)
  BY Survivors
<1> HIDE DEF D, G, A, e
<1>2. D \in SUBSET (0 .. k - 1) /\ p \in 0 .. Cardinality(D)
  BY <1>1
<1>3. e \in 0 .. Cardinality(A)
  <2>1. Cardinality(A) \in 0 .. m
    BY <1>1, RankFacts
  <2> QED BY <1>1, <2>1
<1> HIDE DEF p
<1>4. e \in 0 .. Cardinality(G)
  BY <1>1 DEF e
<1>5. \A c \in 0 .. p - 1 : Ascending(D, p)[c] \in D
  BY <1>2, AscendingFacts
<1>6. /\ \A t \in 0 .. e - 1 : Ascending(A, e)[t] \in A /\ Rank(A, Ascending(A, e)[t]) = t
      /\ \A t, u \in 0 .. e - 1 : t # u => Ascending(A, e)[t] # Ascending(A, e)[u]
  BY <1>1, <1>3, AscendingFacts, ZenonT(40)
<1>7. /\ \A t \in 0 .. e - 1 : Ascending(G, e)[t] \in G
      /\ \A t, u \in 0 .. e - 1 : t # u => Ascending(G, e)[t] # Ascending(G, e)[u]
  BY <1>1, <1>4, AscendingFacts
<1>8a. \A s \in G : Rank(G, s) < e => Rank(G, s) \in 0 .. e - 1 /\ Ascending(G, e)[Rank(G, s)] = s
  BY <1>1, <1>4, AscendingFacts
<1>8. \A s \in G : Rank(G, s) \in 0 .. e - 1 /\ Ascending(G, e)[Rank(G, s)] = s
  <2> TAKE s \in G
  <2>1. Rank(G, s) \in 0 .. e - 1
    BY <1>1, RanksOfSlots DEF e
  <2>2. Rank(G, s) < e => Ascending(G, e)[Rank(G, s)] = s
    BY <1>8a
  <2>3. Rank(G, s) < e
    BY <1>1, <2>1
  <2> QED BY <2>1, <2>2, <2>3
<1> QED BY <1>1, <1>3, <1>5, <1>6, <1>7, <1>8 DEF LostSlots, KeptSlots, ParitySlots, D, G, A, e, p

\* The square that recover_missing inverts.
LostSquare(k, m, view) ==
  LET e == Cardinality(Gone(k, view))
  IN  [t \in 0 .. e - 1 |->
         [u \in 0 .. e - 1 |-> Coeff(m, LostSlots(k, view)[u], ParitySlots(k, m, view)[t])]]

\* It is a square of bytes that sends no vector but 0 to 0.
LEMMA LostSquareRegular ==
  ASSUME NEW k \in Nat, NEW m \in Nat, Encodable(k, m), NEW view, Slots(k, m, view),
         Cardinality(Present(view)) >= k
  PROVE  LET e == Cardinality(Gone(k, view))
         IN  /\ LostSquare(k, m, view) \in Square(e) /\ Regular(e, LostSquare(k, m, view))
             /\ \A x : Vector(e, x) /\ Kills(e, LostSquare(k, m, view), x) => \A u \in 0 .. e - 1 : x[u] = 0
<1> DEFINE e == Cardinality(Gone(k, view))
           a == [u \in 0 .. e - 1 |-> m + LostSlots(k, view)[u]]
           b == [t \in 0 .. e - 1 |-> ParitySlots(k, m, view)[t]]
           sq == LostSquare(k, m, view)
<1>1. /\ e \in 0 .. k
      /\ \A u \in 0 .. e - 1 : LostSlots(k, view)[u] \in 0 .. k - 1 /\ ParitySlots(k, m, view)[u] \in 0 .. m - 1
      /\ \A u, v \in 0 .. e - 1 : u # v => /\ LostSlots(k, view)[u] # LostSlots(k, view)[v]
                                           /\ ParitySlots(k, m, view)[u] # ParitySlots(k, m, view)[v]
  <2>1. /\ e \in 0 .. k
        /\ \A u \in 0 .. e - 1 : LostSlots(k, view)[u] \in Gone(k, view) /\ ParitySlots(k, m, view)[u] \in Alive(k, m, view)
        /\ \A u, v \in 0 .. e - 1 : u # v => /\ LostSlots(k, view)[u] # LostSlots(k, view)[v]
                                             /\ ParitySlots(k, m, view)[u] # ParitySlots(k, m, view)[v]
    BY SlotsChosen
  <2>2. Gone(k, view) \in SUBSET (0 .. k - 1) /\ Alive(k, m, view) \in SUBSET (0 .. m - 1)
    BY DEF Gone, Alive
  <2> QED BY <2>1, <2>2
<1>2. \A t, u \in 0 .. e - 1 : /\ sq[t][u] = Coeff(m, LostSlots(k, view)[u], ParitySlots(k, m, view)[t])
                               /\ a[u] = m + LostSlots(k, view)[u] /\ b[t] = ParitySlots(k, m, view)[t]
  BY DEF LostSquare
<1>3. sq = [t \in 0 .. e - 1 |->
              [u \in 0 .. e - 1 |-> Coeff(m, LostSlots(k, view)[u], ParitySlots(k, m, view)[t])]]
  BY DEF LostSquare
<1> HIDE DEF e, a, b, sq
<1>4. \A t, u \in 0 .. e - 1 : /\ a[u] \in Elements /\ b[t] \in Elements /\ a[u] # b[t]
                               /\ sq[t][u] \in Elements /\ sq[t][u] = Weight(a[u], b[t])
  <2> TAKE t, u \in 0 .. e - 1
  <2>1. LostSlots(k, view)[u] \in 0 .. k - 1 /\ ParitySlots(k, m, view)[t] \in 0 .. m - 1
    BY <1>1
  <2> QED BY <1>2, <2>1, CoeffFacts
<1>5. Apart(e, a, b)
  <2>1. \A u, v \in 0 .. e - 1 : u # v => a[u] # a[v] /\ b[u] # b[v]
    <3> TAKE u, v \in 0 .. e - 1
    <3>1. /\ a[u] = m + LostSlots(k, view)[u] /\ b[u] = ParitySlots(k, m, view)[u]
          /\ a[v] = m + LostSlots(k, view)[v] /\ b[v] = ParitySlots(k, m, view)[v]
      BY <1>2
    <3>2. LostSlots(k, view)[u] \in 0 .. k - 1 /\ LostSlots(k, view)[v] \in 0 .. k - 1
      BY <1>1
    <3>3. u # v => /\ LostSlots(k, view)[u] # LostSlots(k, view)[v]
                   /\ ParitySlots(k, m, view)[u] # ParitySlots(k, m, view)[v]
      BY <1>1
    <3> QED BY <3>1, <3>2, <3>3
  <2> QED BY <1>4, <2>1 DEF Apart, Vector
<1>6. e \in Nat /\ \A t, u \in 0 .. e - 1 : sq[t][u] = Weight(a[u], b[t])
  BY <1>1, <1>4
<1>7. \A x : Vector(e, x) /\ Kills(e, sq, x) => \A u \in 0 .. e - 1 : x[u] = 0
  BY <1>5, <1>6, CauchyRegular
<1>8. sq \in Square(e)
  <2>1. \A t \in 0 .. e - 1 : sq[t] = [u \in 0 .. e - 1 |-> Coeff(m, LostSlots(k, view)[u], ParitySlots(k, m, view)[t])]
    BY <1>3
  <2>2. \A t \in 0 .. e - 1 : sq[t] \in [0 .. e - 1 -> Elements]
    <3> TAKE t \in 0 .. e - 1
    <3>1. sq[t] = [u \in 0 .. e - 1 |-> Coeff(m, LostSlots(k, view)[u], ParitySlots(k, m, view)[t])]
      BY <2>1
    <3>2. \A u \in 0 .. e - 1 : sq[t][u] \in Elements
      BY <1>4
    <3> QED BY <3>1, <3>2
  <2>3. sq = [t \in 0 .. e - 1 |-> sq[t]]
    BY <1>3
  <2> QED BY <2>2, <2>3 DEF Square
<1>9. Regular(e, sq)
  BY <1>7 DEF Regular, Vector
<1> QED BY <1>7, <1>8, <1>9 DEF e, sq

\* The rows of coefficients, the sources and the mixed row of recover_missing.
CoeffRows(k, m, view) ==
  LET e == Cardinality(Gone(k, view))
  IN  [c \in 0 .. k - e - 1 |->
         [t \in 0 .. e - 1 |-> Coeff(m, KeptSlots(k, view)[c], ParitySlots(k, m, view)[t])]]

Sources(k, m, view) ==
  LET e == Cardinality(Gone(k, view))
  IN  [c \in 0 .. k - 1 |-> IF c < k - e THEN view[KeptSlots(k, view)[c]].byte
                            ELSE view[k + ParitySlots(k, m, view)[c - (k - e)]].byte]

MixedRow(k, m, view, w) ==
  LET e == Cardinality(Gone(k, view))
  IN  [c \in 0 .. k - 1 |-> IF c < k - e THEN Dot(e, w, CoeffRows(k, m, view)[c]) ELSE w[c - (k - e)]]

\* recover_missing in the names above.
LEMMA RecoverMissingIs ==
  ASSUME NEW k \in Nat, NEW m \in Nat, NEW view
  PROVE  LET G == Gone(k, view)
             e == Cardinality(G)
         IN  RecoverMissing(k, m, G, view) =
               IF Cardinality(Alive(k, m, view)) < e \/ k + m > Order THEN {}
               ELSE {[s \in G |-> Dot(k, MixedRow(k, m, view, inv[Rank(G, s)]), Sources(k, m, view))] :
                       inv \in Inverted(LostSquare(k, m, view), e)}
BY DEF RecoverMissing, Alive, Kept, LostSlots, KeptSlots, ParitySlots, CoeffRows, Sources, MixedRow, LostSquare

\* What arrived of a block dat of k bytes with m of parity, when that is k shards or more.
Holds(k, m, dat, view) ==
  /\ Encodable(k, m) /\ Slots(k, m, view) /\ dat \in [0 .. k - 1 -> Elements]
  /\ \A s \in 0 .. k + m - 1 : view[s] # Lost => view[s].byte = Dot(k, Generator(k, m)[s], dat)
  /\ Cardinality(Present(view)) >= k

\* The bytes of the shards that arrived: the data's own, and the parity's sums.
LEMMA BytesArrived ==
  ASSUME NEW k \in Nat, NEW m \in Nat, NEW dat, NEW view, Holds(k, m, dat, view)
  PROVE  /\ \A i \in Kept(k, view) : i \in 0 .. k - 1 /\ view[i].byte = dat[i]
         /\ \A j \in Alive(k, m, view) : /\ j \in 0 .. m - 1 /\ view[k + j].byte \in Elements
                                         /\ view[k + j].byte = Dot(k, Generator(k, m)[k + j], dat)
<1>1. /\ Encodable(k, m) /\ Vector(k, dat)
      /\ \A s \in 0 .. k + m - 1 : view[s] # Lost => view[s].byte = Dot(k, Generator(k, m)[s], dat)
  BY DEF Holds, Vector
<1>2. ASSUME NEW i \in Kept(k, view) PROVE i \in 0 .. k - 1 /\ view[i].byte = dat[i]
  <2>1. i \in 0 .. k - 1 /\ i \in 0 .. k + m - 1 /\ view[i] # Lost
    BY DEF Kept
  <2>2. view[i].byte = Dot(k, Generator(k, m)[i], dat)
    BY <1>1, <2>1
  <2> DEFINE row == Generator(k, m)[i]
  <2>3. /\ Vector(k, row) /\ row[i] = 1 /\ \A c \in 0 .. k - 1 : c # i => row[c] = 0 \/ dat[c] = 0
    <3>1. row \in [0 .. k - 1 -> Elements]
      BY <1>1, <2>1, GeneratorIs
    <3>2. \A c \in 0 .. k - 1 : row[c] = IF i = c THEN 1 ELSE 0
      BY <1>1, <2>1, GeneratorIs
    <3> HIDE DEF row
    <3> QED BY <2>1, <3>1, <3>2 DEF Vector
  <2> HIDE DEF row
  <2>4. Dot(k, row, dat) = Mul(row[i], dat[i])
    BY <1>1, <2>1, <2>3, DotSingle
  <2>5. Mul(1, dat[i]) = dat[i]
    BY <1>1, <2>1, MulLaws DEF Vector
  <2> QED BY <2>1, <2>2, <2>3, <2>4, <2>5 DEF row
<1>3. ASSUME NEW j \in Alive(k, m, view)
      PROVE  /\ j \in 0 .. m - 1 /\ view[k + j].byte \in Elements
             /\ view[k + j].byte = Dot(k, Generator(k, m)[k + j], dat)
  <2>1. j \in 0 .. m - 1 /\ k + j \in 0 .. k + m - 1 /\ view[k + j] # Lost
    BY DEF Alive
  <2>2. view[k + j].byte = Dot(k, Generator(k, m)[k + j], dat)
    BY <1>1, <2>1
  <2>3. Vector(k, Generator(k, m)[k + j])
    BY <1>1, <2>1, GeneratorIs DEF Vector
  <2> QED BY <1>1, <2>1, <2>2, <2>3, DotType
<1> QED BY <1>2, <1>3

\* x are the lost bytes, and y what the square makes of them.
LostSums(k, m, dat, view, x, y) ==
  LET e == Cardinality(Gone(k, view))
  IN  \A u \in 0 .. e - 1 : x[u] = dat[LostSlots(k, view)[u]] /\ y[u] = Dot(e, LostSquare(k, m, view)[u], x)

\* The row mixed from any row w of bytes, and the sources, give w of the lost bytes' sums.
LEMMA MixedRowMixes ==
  ASSUME NEW k \in Nat, NEW m \in Nat, NEW dat, NEW view, Holds(k, m, dat, view), NEW w,
         Vector(Cardinality(Gone(k, view)), w), NEW x, NEW y, LostSums(k, m, dat, view, x, y)
  PROVE  Dot(k, MixedRow(k, m, view, w), Sources(k, m, view)) = Dot(Cardinality(Gone(k, view)), w, y)
<1> DEFINE e == Cardinality(Gone(k, view))
           p == k - e
           gone == LostSlots(k, view)
           present == KeptSlots(k, view)
           parity == ParitySlots(k, m, view)
           crow == CoeffRows(k, m, view)
           src == Sources(k, m, view)
           row == MixedRow(k, m, view, w)
           sq == LostSquare(k, m, view)
           A == [t \in 0 .. e - 1 |-> [c \in 0 .. p - 1 |-> crow[c][t]]]
<1>1. /\ Encodable(k, m) /\ Slots(k, m, view) /\ Cardinality(Present(view)) >= k /\ Vector(k, dat)
  BY DEF Holds, Vector
<1>2. /\ e \in 0 .. k
      /\ \A u \in 0 .. e - 1 : gone[u] \in Gone(k, view) /\ parity[u] \in Alive(k, m, view)
      /\ \A c \in 0 .. (k - e) - 1 : present[c] \in Kept(k, view)
  BY <1>1, SlotsChosen
<1>3. /\ \A u \in 0 .. e - 1 : gone[u] \in 0 .. k - 1 /\ parity[u] \in 0 .. m - 1
      /\ \A c \in 0 .. p - 1 : present[c] \in 0 .. k - 1
  <2> HIDE DEF e, gone, present, parity
  <2> QED BY <1>2 DEF Gone, Alive, Kept
<1>4. /\ \A c \in 0 .. p - 1, t \in 0 .. e - 1 : A[t][c] = crow[c][t] /\ crow[c][t] = Coeff(m, present[c], parity[t])
      /\ \A t, u \in 0 .. e - 1 : sq[t][u] = Coeff(m, gone[u], parity[t])
  BY DEF CoeffRows, LostSquare
<1>5. \A c \in 0 .. k - 1 : src[c] = IF c < p THEN view[present[c]].byte ELSE view[k + parity[c - p]].byte
  BY DEF Sources
<1>6. \A c \in 0 .. k - 1 : row[c] = IF c < p THEN Dot(e, w, crow[c]) ELSE w[c - p]
  BY DEF MixedRow
<1>7. /\ p \in Nat /\ e \in Nat /\ p + e = k
      /\ \A c \in 0 .. p - 1 : c \in 0 .. k - 1 /\ c < p
      /\ \A t \in 0 .. e - 1 : p + t \in 0 .. k - 1 /\ ~(p + t < p) /\ (p + t) - p = t
  BY <1>2
<1>8. \A u \in 0 .. e - 1 : x[u] = dat[gone[u]] /\ y[u] = Dot(e, sq[u], x)
  BY DEF LostSums
<1>9. Vector(e, w)
  OBVIOUS
<1> HIDE DEF e, p, gone, present, parity, crow, src, row, sq, A
<1>10. \A c \in 0 .. p - 1, t \in 0 .. e - 1 : crow[c][t] = A[t][c] /\ A[t][c] \in Elements
  <2> TAKE c \in 0 .. p - 1, t \in 0 .. e - 1
  <2>1. present[c] \in 0 .. k - 1 /\ parity[t] \in 0 .. m - 1
    BY <1>3
  <2>2. Coeff(m, present[c], parity[t]) \in Elements
    BY <1>1, <2>1, CoeffFacts
  <2> QED BY <1>4, <2>2
<1>11. /\ \A c \in 0 .. p - 1 : src[c] = dat[present[c]]
       /\ \A t \in 0 .. e - 1 : src[p + t] = view[k + parity[t]].byte
  <2>1. ASSUME NEW c \in 0 .. p - 1 PROVE src[c] = dat[present[c]]
    <3>1. src[c] = view[present[c]].byte
      BY <1>5, <1>7
    <3>2. present[c] \in Kept(k, view)
      BY <1>2 DEF p
    <3>3. view[present[c]].byte = dat[present[c]]
      <4>1. \A i \in Kept(k, view) : view[i].byte = dat[i]
        BY BytesArrived
      <4> QED BY <3>2, <4>1
    <3> QED BY <3>1, <3>3
  <2>2. ASSUME NEW t \in 0 .. e - 1 PROVE src[p + t] = view[k + parity[t]].byte
    <3> DEFINE c == p + t
    <3>1. c \in 0 .. k - 1 /\ ~(c < p) /\ c - p = t
      BY <1>7
    <3> HIDE DEF c
    <3>2. src[c] = view[k + parity[t]].byte
      BY <1>5, <3>1
    <3> QED BY <3>2 DEF c
  <2> QED BY <2>1, <2>2
<1>12. Vector(k, src)
  <2> SUFFICES ASSUME NEW c \in 0 .. k - 1 PROVE src[c] \in Elements
    BY DEF Vector
  <2>1. CASE c < p
    <3>1. c \in 0 .. p - 1
      BY <1>7, <2>1
    <3>2. src[c] = dat[present[c]] /\ present[c] \in 0 .. k - 1
      BY <1>3, <1>11, <3>1
    <3> QED BY <1>1, <3>2 DEF Vector
  <2>2. CASE c >= p
    <3>1. c - p \in 0 .. e - 1 /\ ~(c < p)
      BY <1>7, <2>2
    <3>2. src[c] = view[k + parity[c - p]].byte
      BY <1>5, <3>1
    <3>3. parity[c - p] \in Alive(k, m, view)
      BY <1>2, <3>1
    <3> QED BY <3>2, <3>3, BytesArrived
  <2> QED BY <1>7, <2>1, <2>2
<1>13. /\ \A c \in 0 .. p - 1 : row[c] = Dot(e, w, crow[c])
       /\ \A t \in 0 .. e - 1 : row[p + t] = w[t]
  <2>1. ASSUME NEW c \in 0 .. p - 1 PROVE row[c] = Dot(e, w, crow[c])
    BY <1>6, <1>7
  <2>2. ASSUME NEW t \in 0 .. e - 1 PROVE row[p + t] = w[t]
    <3> DEFINE c == p + t
    <3>1. c \in 0 .. k - 1 /\ ~(c < p) /\ c - p = t
      BY <1>7
    <3> HIDE DEF c
    <3>2. row[c] = w[t]
      BY <1>6, <3>1
    <3> QED BY <3>2 DEF c
  <2> QED BY <2>1, <2>2
<1>14. Vector(e, x) /\ \A t \in 0 .. e - 1 : Vector(e, sq[t])
  <2>1. \A u \in 0 .. e - 1 : x[u] \in Elements
    BY <1>1, <1>3, <1>8 DEF Vector
  <2>2. \A t, u \in 0 .. e - 1 : sq[t][u] \in Elements
    <3> TAKE t, u \in 0 .. e - 1
    <3>1. gone[u] \in 0 .. k - 1 /\ parity[t] \in 0 .. m - 1
      BY <1>3
    <3>2. Coeff(m, gone[u], parity[t]) \in Elements
      BY <1>1, <3>1, CoeffFacts
    <3> QED BY <1>4, <3>2
  <2> QED BY <2>1, <2>2 DEF Vector
<1>15. Vector(e, y)
  <2>1. \A u \in 0 .. e - 1 : y[u] \in Elements
    <3> TAKE u \in 0 .. e - 1
    <3>1. Vector(e, sq[u]) /\ y[u] = Dot(e, sq[u], x)
      BY <1>8, <1>14
    <3> QED BY <1>7, <1>14, <3>1, DotType
  <2> QED BY <2>1 DEF Vector
<1>16. ASSUME NEW t \in 0 .. e - 1 PROVE src[p + t] = Xor(Dot(p, A[t], src), y[t])
  <2> DEFINE j == parity[t]
  <2>1. j \in 0 .. m - 1 /\ j \in Alive(k, m, view)
    BY <1>2, <1>3
  <2>2. Splits(k, m, view, dat, j, A[t], src, sq[t], x)
    <3>1. \A c \in 0 .. (k - e) - 1 : A[t][c] = Coeff(m, present[c], j) /\ src[c] = dat[present[c]]
      BY <1>4, <1>11 DEF p
    <3>2. \A u \in 0 .. e - 1 : sq[t][u] = Coeff(m, gone[u], j) /\ x[u] = dat[gone[u]]
      BY <1>4, <1>8
    <3> QED BY <3>1, <3>2 DEF Splits, e, present, gone, KeptSlots, LostSlots
  <2>3. Dot(k, Generator(k, m)[k + j], dat) = Xor(Dot(k - e, A[t], src), Dot(e, sq[t], x))
    <3> HIDE DEF j
    <3> QED BY <1>1, <2>1, <2>2, ParitySplits DEF e
  <2>4. src[p + t] = view[k + j].byte
    BY <1>11
  <2>5. view[k + j].byte = Dot(k, Generator(k, m)[k + j], dat)
    BY <2>1, BytesArrived
  <2> QED BY <1>8, <2>3, <2>4, <2>5 DEF p
<1>17. Mixes(p, e, w, src, crow, A, y, row)
  BY <1>7, <1>9, <1>10, <1>12, <1>13, <1>15, <1>16 DEF Mixes
<1>18. Dot(p + e, row, src) = Dot(e, w, y)
  BY <1>7, <1>17, RowRecovers
<1> QED BY <1>7, <1>18 DEF e, row, src

\* What recover_missing gives: one answer, the lost bytes themselves.
LEMMA RecoverMissingExact ==
  ASSUME NEW k \in Nat, NEW m \in Nat, NEW dat, NEW view, Holds(k, m, dat, view)
  PROVE  RecoverMissing(k, m, Gone(k, view), view) = {[s \in Gone(k, view) |-> dat[s]]}
<1> DEFINE G == Gone(k, view)
           e == Cardinality(G)
           gone == LostSlots(k, view)
           sq == LostSquare(k, m, view)
           src == Sources(k, m, view)
           x == [u \in 0 .. e - 1 |-> dat[gone[u]]]
           y == [u \in 0 .. e - 1 |-> Dot(e, sq[u], x)]
           Bytes0(inv) == [s \in G |-> Dot(k, MixedRow(k, m, view, inv[Rank(G, s)]), src)]
<1>1. /\ Encodable(k, m) /\ Slots(k, m, view) /\ Cardinality(Present(view)) >= k
      /\ dat \in [0 .. k - 1 -> Elements]
  BY DEF Holds
<1>2. /\ e \in 0 .. k /\ e \in 0 .. Cardinality(Alive(k, m, view))
      /\ \A s \in G : Rank(G, s) \in 0 .. e - 1 /\ gone[Rank(G, s)] = s
      /\ \A u \in 0 .. e - 1 : gone[u] \in G
  BY <1>1, SlotsChosen
<1>3. sq \in Square(e) /\ Regular(e, sq)
  BY <1>1, LostSquareRegular
<1>4. /\ \A s \in G : s \in 0 .. k - 1
      /\ \A u \in 0 .. e - 1 : x[u] = dat[gone[u]] /\ y[u] = Dot(e, sq[u], x)
  <2> HIDE DEF e, gone, sq
  <2> QED BY DEF Gone
<1>5. RecoverMissing(k, m, G, view) = {Bytes0(inv) : inv \in Inverted(sq, e)}
  <2>1. RecoverMissing(k, m, G, view) =
          IF Cardinality(Alive(k, m, view)) < e \/ k + m > Order THEN {} ELSE {Bytes0(inv) : inv \in Inverted(sq, e)}
    BY RecoverMissingIs
  <2>2. ~(Cardinality(Alive(k, m, view)) < e) /\ ~(k + m > Order)
    <3>1. Alive(k, m, view) \in SUBSET (0 .. m - 1)
      BY DEF Alive
    <3>2. Cardinality(Alive(k, m, view)) \in 0 .. m
      BY <3>1, RankFacts
    <3>3. k + m <= Order
      BY <1>1 DEF Encodable
    <3> HIDE DEF e
    <3> QED BY <1>2, <3>2, <3>3, WidthAssumption
  <2> HIDE DEF Bytes0, e, sq, G
  <2> QED BY <2>1, <2>2
<1>6. LostSums(k, m, dat, view, x, y)
  BY <1>4 DEF LostSums
<1> HIDE DEF G, e, gone, sq, src, x, y
<1>7. Inverted(sq, e) # {}
  BY <1>2, <1>3, RegularInverts
<1>8. Vector(e, x) /\ Vector(e, y)
  <2>1. \A u \in 0 .. e - 1 : x[u] \in Elements
    BY <1>1, <1>2, <1>4
  <2>2. Vector(e, x) /\ \A u \in 0 .. e - 1 : Vector(e, sq[u])
    BY <1>3, <2>1 DEF Vector, Square
  <2>3. \A u \in 0 .. e - 1 : y[u] \in Elements
    <3> TAKE u \in 0 .. e - 1
    <3>1. Vector(e, sq[u]) /\ y[u] = Dot(e, sq[u], x)
      BY <1>4, <2>2
    <3> QED BY <1>2, <2>2, <3>1, DotType
  <2> QED BY <2>2, <2>3 DEF Vector
<1>9. ASSUME NEW inv \in Inverted(sq, e), NEW s \in G
      PROVE  Dot(k, MixedRow(k, m, view, inv[Rank(G, s)]), src) = dat[s]
  <2> DEFINE r == Rank(G, s)
             w == inv[r]
  <2>1. r \in 0 .. e - 1 /\ gone[r] = s
    BY <1>2
  <2>2. inv \in Square(e) /\ \A q \in 0 .. e - 1 : Dot(e, inv[q], y) = x[q]
    BY <1>2, <1>3, <1>4, <1>8, InverseUndoes
  <2> HIDE DEF r
  <2>3. Vector(e, w) /\ Dot(e, w, y) = x[r] /\ x[r] = dat[s]
    BY <1>4, <2>1, <2>2 DEF Vector, Square
  <2> HIDE DEF w
  <2>4. Dot(k, MixedRow(k, m, view, w), src) = Dot(e, w, y)
    BY <1>6, <2>3, MixedRowMixes DEF e, G, src
  <2> QED BY <2>3, <2>4 DEF w, r
<1>10. \A inv \in Inverted(sq, e) : Bytes0(inv) = [s \in G |-> dat[s]]
  BY <1>9
<1> HIDE DEF Bytes0
<1>11. RecoverMissing(k, m, G, view) = {[s \in G |-> dat[s]]}
  BY <1>5, <1>7, <1>10
<1> QED BY <1>11 DEF G

\* The rows that scalar::recover inverts.
ScalarRows(k, m, view) == [r \in 0 .. k - 1 |-> Generator(k, m)[Ascending(Present(view), k)[r]]]

\* Its first k surviving slots are the kept data and as much parity as data is lost.
LEMMA FirstSlots ==
  ASSUME NEW k \in Nat, NEW m \in Nat, NEW view, Slots(k, m, view), Cardinality(Present(view)) >= k
  PROVE  LET S == Present(view)
             e == Cardinality(Gone(k, view))
         IN  /\ \A r \in 0 .. k - 1 : Ascending(S, k)[r] \in S /\ Ascending(S, k)[r] \in 0 .. k + m - 1
             /\ \A i \in Kept(k, view) : Rank(S, i) \in 0 .. k - 1 /\ Ascending(S, k)[Rank(S, i)] = i
             /\ \A t \in 0 .. e - 1 : LET s == k + ParitySlots(k, m, view)[t]
                                      IN  Rank(S, s) \in 0 .. k - 1 /\ Ascending(S, k)[Rank(S, s)] = s
<1> DEFINE S == Present(view)
           A == Alive(k, m, view)
           D == Kept(k, view)
           e == Cardinality(Gone(k, view))
           parity == ParitySlots(k, m, view)
           N == k + m
<1>1. /\ S \in SUBSET (0 .. N - 1) /\ A \in SUBSET (0 .. m - 1)
      /\ \A i \in 0 .. k - 1 : Rank(S, i) < k
      /\ \A j \in 0 .. m : Rank(S, k + j) = Cardinality(D) + Rank(A, j)
      /\ Cardinality(D) = k - e
  BY Survivors
<1>2. /\ e \in 0 .. k
      /\ \A t \in 0 .. e - 1 : parity[t] \in A /\ Rank(A, parity[t]) = t
  BY SlotsChosen
<1>3. /\ \A i \in D : i \in S /\ i \in 0 .. k - 1
      /\ \A j \in A : k + j \in S
  BY DEF Present, Kept, Alive, Slots
<1>4. Cardinality(S) >= k /\ N \in Nat
  OBVIOUS
<1> HIDE DEF S, A, D, e, parity, N
<1>5. k \in 0 .. Cardinality(S)
  <2>1. Cardinality(S) \in 0 .. N
    BY <1>1, <1>4, RankFacts
  <2> QED BY <1>4, <2>1
<1>6. /\ \A r \in 0 .. k - 1 : Ascending(S, k)[r] \in S
      /\ \A s \in S : Rank(S, s) < k => Rank(S, s) \in 0 .. k - 1 /\ Ascending(S, k)[Rank(S, s)] = s
  BY <1>1, <1>4, <1>5, AscendingFacts
<1>7. \A r \in 0 .. k - 1 : Ascending(S, k)[r] \in 0 .. N - 1
  BY <1>1, <1>6
<1>8. \A i \in D : Rank(S, i) \in 0 .. k - 1 /\ Ascending(S, k)[Rank(S, i)] = i
  BY <1>1, <1>3, <1>6
<1>9. ASSUME NEW t \in 0 .. e - 1
      PROVE  Rank(S, k + parity[t]) \in 0 .. k - 1 /\ Ascending(S, k)[Rank(S, k + parity[t])] = k + parity[t]
  <2> DEFINE j == parity[t]
  <2>1. j \in A /\ j \in 0 .. m /\ Rank(A, j) = t
    <3>1. j \in A /\ Rank(A, j) = t
      BY <1>2
    <3>2. \A q \in 0 .. m - 1 : q \in 0 .. m
      OBVIOUS
    <3> HIDE DEF j
    <3>3. j \in 0 .. m - 1
      BY <1>1, <3>1
    <3> QED BY <3>1, <3>2, <3>3
  <2>2. Rank(S, k + j) = (k - e) + t
    BY <1>1, <2>1
  <2> HIDE DEF j
  <2>3. k + j \in S /\ Rank(S, k + j) < k
    BY <1>2, <1>3, <2>1, <2>2
  <2>4. Rank(S, k + j) \in 0 .. k - 1 /\ Ascending(S, k)[Rank(S, k + j)] = k + j
    BY <1>6, <2>3
  <2> QED BY <2>4 DEF j
<1> QED BY <1>6, <1>7, <1>8, <1>9 DEF S, A, D, e, parity, N

\* The rows of the generator that scalar::recover inverts.
LEMMA ScalarRowsFacts ==
  ASSUME NEW k \in Nat, NEW m \in Nat, Encodable(k, m), NEW view, Slots(k, m, view),
         Cardinality(Present(view)) >= k
  PROVE  /\ ScalarRows(k, m, view) \in Square(k)
         /\ \A r \in 0 .. k - 1 : ScalarRows(k, m, view)[r] = Generator(k, m)[Ascending(Present(view), k)[r]]
<1> DEFINE rows == Ascending(Present(view), k)
           mat == ScalarRows(k, m, view)
<1>1. \A r \in 0 .. k - 1 : rows[r] \in 0 .. k + m - 1
  BY FirstSlots
<1>2. mat = [r \in 0 .. k - 1 |-> Generator(k, m)[rows[r]]]
  BY DEF ScalarRows
<1> HIDE DEF rows, mat
<1>3. \A r \in 0 .. k - 1 : Generator(k, m)[rows[r]] \in [0 .. k - 1 -> Elements]
  BY <1>1, GeneratorIs
<1> QED BY <1>2, <1>3 DEF Square, rows, mat

\* They send no vector but 0 to 0: the rows of the kept data leave the lost columns, and the
\* parity rows send those to what the lost square does.
LEMMA ScalarRowsRegular ==
  ASSUME NEW k \in Nat, NEW m \in Nat, Encodable(k, m), NEW view, Slots(k, m, view),
         Cardinality(Present(view)) >= k
  PROVE  Regular(k, ScalarRows(k, m, view))
<1> SUFFICES ASSUME NEW x \in [0 .. k - 1 -> Elements], Kills(k, ScalarRows(k, m, view), x)
             PROVE  \A c \in 0 .. k - 1 : x[c] = 0
  BY DEF Regular
<1> DEFINE e == Cardinality(Gone(k, view))
           gone == LostSlots(k, view)
           present == KeptSlots(k, view)
           parity == ParitySlots(k, m, view)
           sq == LostSquare(k, m, view)
           S == Present(view)
           rows == Ascending(S, k)
           l == [u \in 0 .. e - 1 |-> x[gone[u]]]
<1>0. Vector(k, x)
  BY DEF Vector
<1>1. \A r \in 0 .. k - 1 : Dot(k, Generator(k, m)[rows[r]], x) = 0
  BY ScalarRowsFacts DEF Kills
<1>2. /\ \A i \in Kept(k, view) : Rank(S, i) \in 0 .. k - 1 /\ rows[Rank(S, i)] = i
      /\ \A t \in 0 .. e - 1 : Rank(S, k + parity[t]) \in 0 .. k - 1 /\ rows[Rank(S, k + parity[t])] = k + parity[t]
  BY FirstSlots
<1>3. /\ e \in 0 .. k
      /\ \A u \in 0 .. e - 1 : gone[u] \in Gone(k, view) /\ parity[u] \in Alive(k, m, view)
      /\ \A c \in 0 .. (k - e) - 1 : present[c] \in Kept(k, view)
      /\ \A s \in Gone(k, view) : Rank(Gone(k, view), s) \in 0 .. e - 1 /\ gone[Rank(Gone(k, view), s)] = s
  BY SlotsChosen
<1>4. \A y : Vector(e, y) /\ Kills(e, sq, y) => \A u \in 0 .. e - 1 : y[u] = 0
  BY LostSquareRegular
<1>5. /\ \A t, u \in 0 .. e - 1 : sq[t][u] = Coeff(m, gone[u], parity[t])
      /\ \A u \in 0 .. e - 1 : l[u] = x[gone[u]]
  BY DEF LostSquare
<1> HIDE DEF e, gone, present, parity, sq, S, rows, l
<1>6. /\ \A i \in Kept(k, view) : i \in 0 .. k - 1
      /\ \A i \in Gone(k, view) : i \in 0 .. k - 1
      /\ \A j \in Alive(k, m, view) : j \in 0 .. m - 1
      /\ \A i \in 0 .. k - 1 : i \in Kept(k, view) \/ i \in Gone(k, view)
  BY DEF Kept, Gone, Alive
<1>7. ASSUME NEW i \in Kept(k, view) PROVE x[i] = 0
  <2> DEFINE row == Generator(k, m)[i]
  <2>1. i \in 0 .. k - 1 /\ i \in 0 .. k + m - 1
    BY <1>6
  <2>2. Dot(k, row, x) = 0
    <3>1. Rank(S, i) \in 0 .. k - 1 /\ rows[Rank(S, i)] = i
      BY <1>2
    <3> QED BY <1>1, <3>1
  <2>3. row \in [0 .. k - 1 -> Elements] /\ \A c \in 0 .. k - 1 : row[c] = IF i = c THEN 1 ELSE 0
    BY <2>1, GeneratorIs
  <2> HIDE DEF row
  <2>4. Vector(k, row) /\ row[i] = 1 /\ \A c \in 0 .. k - 1 : c # i => row[c] = 0 \/ x[c] = 0
    BY <2>1, <2>3 DEF Vector
  <2>5. Dot(k, row, x) = Mul(row[i], x[i])
    BY <1>0, <2>1, <2>4, DotSingle
  <2>6. Mul(1, x[i]) = x[i]
    BY <1>0, <2>1, MulLaws DEF Vector
  <2> QED BY <2>2, <2>4, <2>5, <2>6
<1>8. ASSUME NEW t \in 0 .. e - 1 PROVE Dot(e, sq[t], l) = 0
  <2> DEFINE j == parity[t]
             f == [c \in 0 .. (k - e) - 1 |-> Coeff(m, present[c], j)]
             g == [c \in 0 .. (k - e) - 1 |-> x[present[c]]]
  <2>1. j \in 0 .. m - 1
    BY <1>3, <1>6
  <2>2. Dot(k, Generator(k, m)[k + j], x) = 0
    <3>1. Rank(S, k + j) \in 0 .. k - 1 /\ rows[Rank(S, k + j)] = k + j
      BY <1>2
    <3> HIDE DEF j
    <3> QED BY <1>1, <3>1
  <2>3. \A c \in 0 .. (k - e) - 1 : f[c] = Coeff(m, present[c], j) /\ g[c] = x[present[c]]
    OBVIOUS
  <2>4. \A u \in 0 .. e - 1 : sq[t][u] = Coeff(m, gone[u], j) /\ l[u] = x[gone[u]]
    BY <1>5
  <2> HIDE DEF f, g, j
  <2>5. Splits(k, m, view, x, j, f, g, sq[t], l)
    BY <2>3, <2>4 DEF Splits, e, present, gone, KeptSlots, LostSlots
  <2>6. 0 = Xor(Dot(k - e, f, g), Dot(e, sq[t], l))
    BY <1>0, <2>1, <2>2, <2>5, ParitySplits DEF e
  <2>7. Dot(k - e, f, g) = 0
    <3>1. \A c \in 0 .. (k - e) - 1 : f[c] = 0 \/ g[c] = 0
      BY <1>3, <1>7, <2>3
    <3>2. k - e \in Nat
      BY <1>3
    <3> DEFINE p == k - e
    <3> HIDE DEF p
    <3>3. p \in Nat /\ \A c \in 0 .. p - 1 : f[c] = 0 \/ g[c] = 0
      BY <3>1, <3>2 DEF p
    <3>4. Dot(p, f, g) = 0
      BY <3>3, DotNone
    <3> QED BY <3>4 DEF p
  <2>8. Dot(e, sq[t], l) \in Elements
    <3>1. \A u \in 0 .. e - 1 : l[u] \in Elements
      BY <1>3, <1>5, <1>6
    <3>2. \A u \in 0 .. e - 1 : sq[t][u] \in Elements
      <4> TAKE u \in 0 .. e - 1
      <4>1. gone[u] \in 0 .. k - 1
        BY <1>3, <1>6
      <4>2. Coeff(m, gone[u], j) \in Elements
        BY <2>1, <4>1, CoeffFacts
      <4> QED BY <2>4, <4>2
    <3>3. e \in Nat /\ Vector(e, l) /\ Vector(e, sq[t])
      BY <1>3, <3>1, <3>2 DEF Vector
    <3> QED BY <3>3, DotType
  <2> QED BY <2>6, <2>7, <2>8, XorLaws
<1>9. \A u \in 0 .. e - 1 : l[u] = 0
  <2>1. Vector(e, l)
    BY <1>3, <1>5, <1>6 DEF Vector
  <2>2. Kills(e, sq, l)
    BY <1>8 DEF Kills
  <2> QED BY <1>4, <2>1, <2>2
<1>10. ASSUME NEW i \in Gone(k, view) PROVE x[i] = 0
  <2>1. Rank(Gone(k, view), i) \in 0 .. e - 1 /\ gone[Rank(Gone(k, view), i)] = i
    BY <1>3
  <2> QED BY <1>5, <1>9, <2>1
<1> QED BY <1>6, <1>7, <1>10

\* What scalar::recover gives: one answer, the lost bytes themselves.
LEMMA ScalarRecoverExact ==
  ASSUME NEW k \in Nat, NEW m \in Nat, NEW dat, NEW view, Holds(k, m, dat, view)
  PROVE  ScalarRecover(k, m, Gone(k, view), view) = {[s \in Gone(k, view) |-> dat[s]]}
<1> DEFINE G == Gone(k, view)
           rows == Ascending(Present(view), k)
           mat == ScalarRows(k, m, view)
           bytes == [r \in 0 .. k - 1 |-> view[rows[r]].byte]
<1>1. /\ Encodable(k, m) /\ Slots(k, m, view) /\ Cardinality(Present(view)) >= k
      /\ dat \in [0 .. k - 1 -> Elements] /\ Vector(k, dat)
      /\ \A s \in 0 .. k + m - 1 : view[s] # Lost => view[s].byte = Dot(k, Generator(k, m)[s], dat)
  BY DEF Holds, Vector
<1>2. \A r \in 0 .. k - 1 : rows[r] \in Present(view) /\ rows[r] \in 0 .. k + m - 1
  BY <1>1, FirstSlots
<1>3. /\ mat \in Square(k) /\ Regular(k, mat)
      /\ \A r \in 0 .. k - 1 : mat[r] = Generator(k, m)[rows[r]]
  <2>1. Encodable(k, m) /\ Slots(k, m, view) /\ Cardinality(Present(view)) >= k
    BY <1>1
  <2>2. mat \in Square(k) /\ \A r \in 0 .. k - 1 : mat[r] = Generator(k, m)[rows[r]]
    BY <2>1, ScalarRowsFacts
  <2>3. Regular(k, mat)
    BY <2>1, ScalarRowsRegular
  <2> QED BY <2>2, <2>3
<1>4. ScalarRecover(k, m, G, view) = {[s \in G |-> Dot(k, inv[s], bytes)] : inv \in Inverted(mat, k)}
  BY DEF ScalarRecover, ScalarRows
<1>5. \A r \in 0 .. k - 1 : bytes[r] = view[rows[r]].byte
  OBVIOUS
<1>6. \A s \in G : s \in 0 .. k - 1
  BY DEF Gone
<1> HIDE DEF G, rows, mat, bytes
<1>7. \A r \in 0 .. k - 1 : bytes[r] = Dot(k, mat[r], dat)
  <2> TAKE r \in 0 .. k - 1
  <2>1. view[rows[r]] # Lost
    BY <1>2 DEF Present
  <2>2. view[rows[r]].byte = Dot(k, Generator(k, m)[rows[r]], dat)
    BY <1>1, <1>2, <2>1
  <2> QED BY <1>3, <1>5, <2>2
<1>8. Vector(k, bytes)
  <2>1. \A r \in 0 .. k - 1 : bytes[r] \in Elements
    <3> TAKE r \in 0 .. k - 1
    <3>1. Vector(k, mat[r])
      BY <1>3 DEF Vector, Square
    <3> QED BY <1>1, <1>7, <3>1, DotType
  <2> QED BY <2>1 DEF Vector
<1>9. \A inv \in Inverted(mat, k), s \in G : Dot(k, inv[s], bytes) = dat[s]
  <2> TAKE inv \in Inverted(mat, k), s \in G
  <2>1. \A r \in 0 .. k - 1 : Dot(k, inv[r], bytes) = dat[r]
    BY <1>1, <1>3, <1>7, <1>8, InverseUndoes
  <2> QED BY <1>6, <2>1
<1>10. Inverted(mat, k) # {}
  BY <1>3, RegularInverts
<1>11. ScalarRecover(k, m, G, view) = {[s \in G |-> dat[s]]}
  BY <1>4, <1>9, <1>10
<1> QED BY <1>11 DEF G

-----------------------------------------------------------------------------
(* The encoder and the recovery. *)

\* The shards sent are those of the data, and the ones that arrived are theirs.
Coding ==
  coded # Refused =>
    /\ shape[1] \in Nat /\ shape[2] \in Nat /\ Encodable(shape[1], shape[2])
    /\ data \in [0 .. shape[1] - 1 -> Elements]
    /\ coded = [r \in 0 .. shape[1] + shape[2] - 1 |-> Dot(shape[1], Generator(shape[1], shape[2])[r], data)]

Arrival ==
  shards # <<>> =>
    /\ coded # Refused /\ Slots(shape[1], shape[2], shards)
    /\ \A s \in 0 .. shape[1] + shape[2] - 1 :
         shards[s] # Lost => shards[s].byte = coded[s] /\ shards[s].len \in {Full, Full - 1}

Waiting == rebuilt = Pending => shards # <<>>

FecInv == Coding /\ Arrival /\ Waiting /\ RecoversExactly

\* The invariant holds before the first block.
LEMMA FecInit == Init => FecInv
BY DEF Init, FecInv, Coding, Arrival, Waiting, RecoversExactly, Pending, Nothing, Refused

\* A new block keeps the invariant: its data shards are sent as they are, its parity is the code's.
LEMMA FecEncode == ASSUME FecInv, Encode PROVE FecInv'
<1>1. /\ shards' = <<>> /\ rebuilt' = Nothing /\ fallback' = fallback
      /\ \E s \in Shapes :
           /\ shape' = s /\ data' \in [0 .. s[1] - 1 -> Bytes]
           /\ IF Encodable(s[1], s[2])
              THEN coded' = [r \in 0 .. s[1] + s[2] - 1 |-> Dot(s[1], Generator(s[1], s[2])[r], data')]
              ELSE coded' = Refused
  BY DEF Encode
<1>2. Arrival' /\ Waiting' /\ RecoversExactly'
  BY <1>1 DEF FecInv, Arrival, Waiting, RecoversExactly, Pending, Nothing
<1>3. Coding'
  <2> SUFFICES ASSUME coded' # Refused
               PROVE  /\ shape'[1] \in Nat /\ shape'[2] \in Nat /\ Encodable(shape'[1], shape'[2])
                      /\ data' \in [0 .. shape'[1] - 1 -> Elements]
                      /\ coded' = [r \in 0 .. shape'[1] + shape'[2] - 1 |->
                                     Dot(shape'[1], Generator(shape'[1], shape'[2])[r], data')]
    BY DEF Coding, Refused
  <2>1. PICK s \in Shapes :
           /\ shape' = s /\ data' \in [0 .. s[1] - 1 -> Bytes]
           /\ IF Encodable(s[1], s[2])
              THEN coded' = [r \in 0 .. s[1] + s[2] - 1 |-> Dot(s[1], Generator(s[1], s[2])[r], data')]
              ELSE coded' = Refused
    BY <1>1
  <2>2. s \in Nat \X Nat /\ Bytes \subseteq Elements
    BY BlockAssumption
  <2>3. data' \in [0 .. s[1] - 1 -> Elements]
    BY <2>1, <2>2
  <2> QED BY <2>1, <2>2, <2>3
<1> QED BY <1>2, <1>3 DEF FecInv

\* What arrives keeps it: a shard is lost, short or as it was sent.
LEMMA FecArrive == ASSUME FecInv, Arrive PROVE FecInv'
<1>1. /\ coded # Refused /\ rebuilt' = Pending
      /\ shape' = shape /\ data' = data /\ coded' = coded /\ fallback' = fallback
  BY DEF Arrive
<1>2. PICK there \in SUBSET DOMAIN coded, short \in DOMAIN coded \cup {-1} :
        shards' = [s \in DOMAIN coded |-> IF s \notin there THEN Lost
                                          ELSE [len |-> IF s = short THEN Full - 1 ELSE Full, byte |-> coded[s]]]
  BY DEF Arrive
<1> DEFINE k == shape[1]
           m == shape[2]
<1>3. k \in Nat /\ m \in Nat /\ Encodable(k, m) /\ DOMAIN coded = 0 .. k + m - 1
  BY <1>1 DEF FecInv, Coding
<1>4. DOMAIN shards' = 0 .. k + m - 1
  BY <1>2, <1>3
<1>5. shards' # <<>>
  <2>1. 0 \in DOMAIN shards'
    BY <1>3, <1>4 DEF Encodable
  <2> QED BY <2>1
<1>6. \A s \in 0 .. k + m - 1 :
        shards'[s] # Lost => shards'[s].byte = coded[s] /\ shards'[s].len \in {Full, Full - 1}
  BY <1>2, <1>3
<1>7. Coding' /\ Waiting'
  BY <1>1, <1>5 DEF FecInv, Coding, Waiting, Refused
<1>8. Arrival'
  BY <1>1, <1>4, <1>6 DEF Arrival, Slots, Lost, Refused
<1>9. RecoversExactly'
  BY <1>1 DEF FecInv, RecoversExactly, Pending
<1> QED BY <1>7, <1>8, <1>9 DEF FecInv

\* What Fec::recover_views does with what arrived.
LEMMA FecRecovers ==
  ASSUME FecInv, RecoverViews
  PROVE  RecoversExactly'
<1> DEFINE k == shape[1]
           m == shape[2]
           P == Present(shards)
           G == Gone(k, shards)
           exact == [i \in G |-> data[i]]
           quick == RecoverMissing(k, m, G, shards)
           slow == ScalarRecover(k, m, G, shards)
<1>1. /\ rebuilt = Pending /\ coded # Refused
      /\ shape' = shape /\ data' = data /\ coded' = coded /\ shards' = shards
  BY DEF RecoverViews
<1>2. /\ shards # <<>> /\ fallback = 0
      /\ k \in Nat /\ m \in Nat /\ Encodable(k, m) /\ Slots(k, m, shards)
      /\ data \in [0 .. k - 1 -> Elements]
      /\ \A s \in 0 .. k + m - 1 : coded[s] = Dot(k, Generator(k, m)[s], data)
      /\ \A s \in 0 .. k + m - 1 :
           shards[s] # Lost => shards[s].byte = coded[s] /\ shards[s].len \in {Full, Full - 1}
  BY <1>1 DEF FecInv, Coding, Arrival, Waiting, RecoversExactly
<1>3. \/ G = {} /\ rebuilt' = Rebuilt(<<>>) /\ fallback' = fallback
      \/ G # {} /\ ~Solvable(k, shards) /\ rebuilt' = Nothing /\ fallback' = fallback
      \/ /\ G # {} /\ Solvable(k, shards)
         /\ quick # {} => rebuilt' \in {Rebuilt(b) : b \in quick} /\ fallback' = fallback
  BY DEF RecoverViews, Gone
<1>4. P \in SUBSET (0 .. k + m - 1) /\ \A s \in P : shards[s].len \in {Full, Full - 1}
  BY <1>2 DEF Present, Slots
<1>5. Cardinality(P) >= k => quick = {exact} /\ slow = {exact}
  <2> SUFFICES ASSUME Cardinality(P) >= k PROVE quick = {exact} /\ slow = {exact}
    OBVIOUS
  <2>1. Holds(k, m, data, shards)
    BY <1>2 DEF Holds
  <2> QED BY <1>2, <2>1, RecoverMissingExact, ScalarRecoverExact
<1>a. /\ Alive(k, m, shards) \in SUBSET (0 .. m - 1)
      /\ Cardinality(Kept(k, shards)) = k - Cardinality(Gone(k, shards))
      /\ Cardinality(Present(shards)) = Cardinality(Kept(k, shards)) + Cardinality(Alive(k, m, shards))
  <2>1. k \in Nat /\ m \in Nat /\ Slots(k, m, shards)
    BY <1>2
  <2> HIDE DEF k, m, P, G, exact, quick, slow
  <2> QED BY <2>1, Survivors
<1>6. G = {} => Cardinality(P) >= k /\ exact = <<>>
  <2> SUFFICES ASSUME G = {} PROVE Cardinality(P) >= k /\ exact = <<>>
    OBVIOUS
  <2>2. Cardinality(G) = 0 /\ Cardinality(Alive(k, m, shards)) \in 0 .. m
    BY <1>2, <1>a, FS_EmptySet, RankFacts
  <2>3. exact = <<>>
    OBVIOUS
  <2> QED BY <1>2, <1>a, <2>2, <2>3
<1>7. {i \in DOMAIN data : shards[i] = Lost} = G
  BY <1>2 DEF Gone
<1> DEFINE whole == \A s \in P : shards[s].len = Full
           Right == /\ fallback' = 0
                    /\ IF Cardinality(P) >= k /\ (whole \/ G = {})
                       THEN rebuilt' = Rebuilt(exact) /\ (G # {} => slow = {rebuilt'.bytes})
                       ELSE rebuilt' # Nothing => \A s \in P : shards[s].len = Full - 1 /\ Cardinality(P) >= k
<1>8. Right
  <2> HIDE DEF k, m, P, G, exact, quick, slow
  <2>1. CASE G = {} /\ rebuilt' = Rebuilt(<<>>) /\ fallback' = fallback
    BY <1>2, <1>6, <2>1
  <2>2. CASE G # {} /\ ~Solvable(k, shards) /\ rebuilt' = Nothing /\ fallback' = fallback
    <3>1. Cardinality(P) >= k /\ whole => Solvable(k, shards)
      BY DEF Solvable, P
    <3> QED BY <1>2, <2>2, <3>1
  <2>3. CASE /\ G # {} /\ Solvable(k, shards)
             /\ quick # {} => rebuilt' \in {Rebuilt(b) : b \in quick} /\ fallback' = fallback
    <3>1. Cardinality(P) >= k /\ \A s, t \in P : shards[s].len = shards[t].len
      BY <2>3 DEF Solvable, P
    <3>2. quick = {exact} /\ slow = {exact}
      BY <1>5, <3>1
    <3>3. rebuilt' = Rebuilt(exact) /\ fallback' = 0
      BY <1>2, <2>3, <3>2
    <3>4. Rebuilt(exact).bytes = exact
      BY DEF Rebuilt
    <3>5. ~whole => \A s \in P : shards[s].len = Full - 1
      BY <1>4, <3>1
    <3> QED BY <3>1, <3>2, <3>3, <3>4, <3>5
  <2> QED BY <1>3, <2>1, <2>2, <2>3
<1>9. RecoversExactly' = (/\ fallback' = 0
                          /\ shards' # <<>> /\ rebuilt' # Pending =>
                               IF Cardinality(Present(shards')) >= shape'[1]
                                  /\ ((\A s \in Present(shards') : shards'[s].len = Full)
                                      \/ {q \in DOMAIN data' : shards'[q] = Lost} = {})
                               THEN /\ rebuilt' = Rebuilt([i \in {q \in DOMAIN data' : shards'[q] = Lost} |-> data'[i]])
                                    /\ {q \in DOMAIN data' : shards'[q] = Lost} # {} =>
                                         ScalarRecover(shape'[1], shape'[2], {q \in DOMAIN data' : shards'[q] = Lost}, shards')
                                           = {rebuilt'.bytes}
                               ELSE rebuilt' # Nothing =>
                                      \A s \in Present(shards') :
                                        shards'[s].len = Full - 1 /\ Cardinality(Present(shards')) >= shape'[1])
  BY DEF RecoversExactly
<1> QED BY <1>1, <1>7, <1>8, <1>9

\* A recovery is exact or it does not happen, and the fallback is never needed: for every
\* primitive polynomial, block shape and pattern of losses.
THEOREM FecRecoversExactly == Spec => []RecoversExactly
<1>1. FecInv /\ [Next]_vars => FecInv'
  <2> SUFFICES ASSUME FecInv, [Next]_vars PROVE FecInv'
    OBVIOUS
  <2>1. CASE Encode
    BY <2>1, FecEncode
  <2>2. CASE Arrive
    BY <2>2, FecArrive
  <2>3. CASE RecoverViews
    <3>1. /\ shape' = shape /\ data' = data /\ coded' = coded /\ shards' = shards /\ rebuilt = Pending
      BY <2>3 DEF RecoverViews
    <3>2. Coding' /\ Arrival' /\ Waiting'
      BY <3>1 DEF FecInv, Coding, Arrival, Waiting, Slots, Lost, Refused, Pending
    <3> QED BY <2>3, <3>2, FecRecovers DEF FecInv
  <2>4. CASE UNCHANGED vars
    BY <2>4 DEF vars, FecInv, Coding, Arrival, Waiting, Slots, Lost, Refused, RecoversExactly, Pending, Nothing
  <2> QED BY <2>1, <2>2, <2>3, <2>4 DEF Next
<1>2. FecInv => RecoversExactly
  BY DEF FecInv
<1> QED BY FecInit, <1>1, <1>2, PTL DEF Spec
=============================================================================
