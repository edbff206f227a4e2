---------------------------- MODULE NumberLemmas ----------------------------
(***************************************************************************)
(* Facts about sets of numbers, about recursion over them, and about       *)
(* powers and remainders, that the proofs share.                           *)
(***************************************************************************)
EXTENDS Powers, FiniteSets, FiniteSetTheorems, WellFoundedInduction, TLAPS

\* A set of numbers has a least member.
LEMMA MinExists ==
  ASSUME NEW A \in SUBSET Nat, A # {}
  PROVE  \E m \in A : \A a \in A : m <= a
<1>1. PICK m \in A : \A a \in A : ~ (<<a, m>> \in OpToRel(<, Nat))
  BY NatLessThanWellFounded, WFMin
<1>2. ASSUME NEW a \in A, ~ (m <= a) PROVE FALSE
  <2>1. a \in Nat /\ m \in Nat /\ a < m
    BY <1>2
  <2>2. <<a, m>> \in OpToRel(<, Nat)
    BY <2>1 DEF OpToRel
  <2> QED BY <1>1, <2>2
<1> QED BY <1>2

\* A finite non-empty set of numbers has a largest member: the one with the fewest
\* members above it.
LEMMA MaxExists ==
  ASSUME NEW A \in SUBSET Nat, IsFiniteSet(A), A # {}
  PROVE  \E m \in A : \A a \in A : a <= m
<1> DEFINE Above(m) == {a \in A : a > m}
           B == {Cardinality(Above(m)) : m \in A}
<1>1. \A m \in A : IsFiniteSet(Above(m)) /\ Cardinality(Above(m)) \in Nat
  BY FS_Subset, FS_CardinalityType
<1>2. B \subseteq Nat /\ B # {}
  BY <1>1
<1>3. \E x \in B : \A y \in B : ~ (<<y, x>> \in OpToRel(<, Nat))
  <2> HIDE DEF B
  <2> QED BY <1>2, NatLessThanWellFounded, WFMin
<1>4. PICK x \in B : \A y \in B : ~ (<<y, x>> \in OpToRel(<, Nat))
  BY <1>3
<1>5. PICK m \in A : x = Cardinality(Above(m))
  OBVIOUS
<1>6. ASSUME NEW a \in A, a > m PROVE FALSE
  <2>1. Above(a) \subseteq Above(m) /\ a \in Above(m) /\ a \notin Above(a)
    <3>1. \A b \in A : b \in Nat
      OBVIOUS
    <3>2. \A b \in Above(a) : b \in Above(m)
      BY <1>6, <3>1
    <3>3. a \in Above(m)
      BY <1>6
    <3>4. a \notin Above(a)
      BY <3>1
    <3> HIDE DEF Above
    <3> QED BY <3>2, <3>3, <3>4
  <2>2. Cardinality(Above(a)) <= Cardinality(Above(m))
    BY <1>1, <2>1, FS_Subset
  <2>3. Cardinality(Above(a)) # Cardinality(Above(m))
    <3> HIDE DEF Above
    <3> QED BY <1>1, <2>1, FS_Subset
  <2>4. Cardinality(Above(a)) < Cardinality(Above(m))
    <3>1. Cardinality(Above(a)) \in Nat /\ Cardinality(Above(m)) \in Nat
      BY <1>1
    <3> HIDE DEF Above
    <3> QED BY <2>2, <2>3, <3>1
  <2>5. Cardinality(Above(a)) \in B
    OBVIOUS
  <2> HIDE DEF Above, B
  <2>6. <<Cardinality(Above(a)), x>> \in OpToRel(<, Nat)
    BY <1>1, <1>5, <2>4 DEF OpToRel
  <2> QED BY <1>4, <2>5, <2>6
<1> QED BY <1>6

\* A set of numbers with 0, and with every number whose predecessor it has.
LEMMA CountingUp ==
  ASSUME NEW N \in Nat, NEW A, 0 \in A, \A i \in 1..N : i - 1 \in A => i \in A
  PROVE  0..N \subseteq A
<1> DEFINE Bad == {i \in 0..N : i \notin A}
<1> SUFFICES ASSUME Bad # {} PROVE FALSE
  OBVIOUS
<1>1. Bad \in SUBSET Nat
  OBVIOUS
<1>2. PICK m \in Bad : \A a \in Bad : m <= a
  <2> HIDE DEF Bad
  <2> QED BY <1>1, MinExists
<1>3. m \in 1..N /\ m - 1 \in 0..N /\ m - 1 \notin Bad
  BY <1>2
<1> QED BY <1>2, <1>3

\* Every value of f follows from the one before.
Recursive(f, N, start, step) == f[0] = start /\ \A i \in 1 .. N : f[i] = step[i][f[i - 1]]

\* There is such a function on 0 .. N.
LEMMA RecursionExists ==
  ASSUME NEW N \in Nat, NEW S, NEW start \in S, NEW step \in [1 .. N -> [S -> S]]
  PROVE  \E f \in [0 .. N -> S] : Recursive(f, N, start, step)
<1> DEFINE UpTo(m) == \E f \in [0 .. m -> S] :
                        f[0] = start /\ \A i \in 1 .. m : f[i] = step[i][f[i - 1]]
           A == {m \in 0 .. N : UpTo(m)}
<1>1. UpTo(0)
  <2> DEFINE f == [i \in 0 .. 0 |-> start]
  <2>1. f \in [0 .. 0 -> S] /\ f[0] = start /\ \A i \in 1 .. 0 : f[i] = step[i][f[i - 1]]
    OBVIOUS
  <2> HIDE DEF f
  <2> QED BY <2>1
<1>2. ASSUME NEW m \in 1 .. N, UpTo(m - 1)
      PROVE  UpTo(m)
  <2>1. PICK f \in [0 .. m - 1 -> S] :
          f[0] = start /\ \A i \in 1 .. m - 1 : f[i] = step[i][f[i - 1]]
    BY <1>2
  <2> DEFINE g == [i \in 0 .. m |-> IF i = m THEN step[m][f[m - 1]] ELSE f[i]]
  <2>2. g \in [0 .. m -> S] /\ g[0] = start
    BY <2>1
  <2>3. \A i \in 1 .. m : g[i] = step[i][g[i - 1]]
    BY <2>1
  <2> QED BY <2>2, <2>3
<1> HIDE DEF UpTo
<1>3. 0 .. N \subseteq A
  <2>1. 0 \in A
    BY <1>1
  <2>2. ASSUME NEW i \in 1 .. N, i - 1 \in A PROVE i \in A
    <3>1. UpTo(i - 1) /\ i \in 0 .. N
      BY <2>2
    <3> QED BY <3>1, <1>2
  <2> HIDE DEF A
  <2> QED BY <2>1, <2>2, CountingUp
<1>4. UpTo(N)
  BY <1>3
<1> QED BY <1>4 DEF UpTo, Recursive

\* Powers, factor by factor.
LEMMA PowerRuns ==
  ASSUME NEW b \in Nat \ {0}, NEW n \in Nat
  PROVE  \E f \in [0 .. n -> Nat \ {0}] :
           Power(b, n) = f[n] /\ f[0] = 1 /\ \A i \in 1 .. n : f[i] = b * f[i - 1]
<1> DEFINE S == Nat \ {0}
           step == [i \in 1 .. n |-> [x \in S |-> b * x]]
           Body(f) == [i \in 0 .. n |-> IF i = 0 THEN 1 ELSE b * f[i - 1]]
           p == CHOOSE f : f = Body(f)
<1>1. \A x \in S : b * x \in S
  OBVIOUS
<1>2. step \in [1 .. n -> [S -> S]] /\ 1 \in S
  BY <1>1
<1>3. PICK f \in [0 .. n -> S] : Recursive(f, n, 1, step)
  <2> HIDE DEF S, step
  <2> QED BY <1>2, RecursionExists
<1>4. f[0] = 1 /\ \A i \in 1 .. n : f[i] = b * f[i - 1]
  <2>1. \A i \in 1 .. n : f[i] = step[i][f[i - 1]]
    BY <1>3 DEF Recursive
  <2>2. f[0] = 1
    BY <1>3 DEF Recursive
  <2>3. \A i \in 1 .. n : i - 1 \in 0 .. n
    OBVIOUS
  <2>4. \A i \in 1 .. n : f[i - 1] \in S
    <3> HIDE DEF S
    <3> QED BY <1>3, <2>3
  <2> QED BY <2>1, <2>2, <2>4
<1>5. f = Body(f)
  <2> HIDE DEF S
  <2> QED BY <1>3, <1>4
<1>6. p = Body(p) /\ Power(b, n) = p[n]
  <2>1. p = Body(p)
    <3> HIDE DEF Body
    <3> QED BY <1>5
  <2>2. Power(b, n) = p[n]
    BY DEF Power
  <2> QED BY <2>1, <2>2
<1>7. PICK g : Power(b, n) = g[n] /\ g = Body(g)
  <2> HIDE DEF p, Body
  <2> QED BY <1>6
<1>8. PICK h : h = g /\ h = Body(g)
  <2> HIDE DEF Body
  <2> QED BY <1>7
<1>9. h[0] = 1 /\ \A i \in 1 .. n : h[i] = b * h[i - 1]
  <2>1. \A i \in 0 .. n : h[i] = IF i = 0 THEN 1 ELSE b * g[i - 1]
    <3> HIDE DEF p
    <3> QED BY <1>8
  <2>2. h = g /\ 0 \in 0 .. n /\ \A i \in 1 .. n : i \in 0 .. n /\ i # 0
    BY <1>8
  <2> HIDE DEF p, Body, S, step
  <2> QED BY <2>1, <2>2
<1> DEFINE A == {i \in 0 .. n : h[i] \in S}
<1>10. 0 .. n \subseteq A
  <2>1. 0 \in A
    BY <1>9
  <2>2. ASSUME NEW i \in 1 .. n, i - 1 \in A PROVE i \in A
    <3>1. h[i - 1] \in S /\ h[i] = b * h[i - 1] /\ i \in 0 .. n
      BY <2>2, <1>9
    <3>2. h[i] \in S
      <4> HIDE DEF S
      <4> QED BY <3>1, <1>1
    <3> QED BY <3>1, <3>2
  <2> HIDE DEF A
  <2> QED BY <2>1, <2>2, CountingUp
<1>11. h \in [0 .. n -> S]
  BY <1>8, <1>10
<1> QED BY <1>7, <1>8, <1>9, <1>11

\* What a power is made of.
LEMMA PowerFacts ==
  ASSUME NEW b \in Nat \ {0}, NEW n \in Nat
  PROVE  /\ Power(b, n) \in Nat \ {0}
         /\ Power(b, 0) = 1
         /\ Power(b, n + 1) = b * Power(b, n)
<1>1. PICK f \in [0 .. n -> Nat \ {0}] :
        Power(b, n) = f[n] /\ f[0] = 1 /\ \A i \in 1 .. n : f[i] = b * f[i - 1]
  BY PowerRuns
<1>2. PICK g \in [0 .. n + 1 -> Nat \ {0}] :
        Power(b, n + 1) = g[n + 1] /\ g[0] = 1 /\ \A i \in 1 .. n + 1 : g[i] = b * g[i - 1]
  <2>1. n + 1 \in Nat
    OBVIOUS
  <2> QED BY <2>1, PowerRuns
<1>3. Power(b, 0) = 1
  <2>1. PICK h \in [0 .. 0 -> Nat \ {0}] :
          Power(b, 0) = h[0] /\ h[0] = 1 /\ \A i \in 1 .. 0 : h[i] = b * h[i - 1]
    BY PowerRuns
  <2> QED BY <2>1
<1> DEFINE A == {i \in 0 .. n : f[i] = g[i]}
<1>4. 0 .. n \subseteq A
  <2>1. 0 \in A
    BY <1>1, <1>2
  <2>2. ASSUME NEW i \in 1 .. n, i - 1 \in A PROVE i \in A
    <3>1. f[i] = b * f[i - 1] /\ g[i] = b * g[i - 1] /\ i \in 0 .. n
      BY <1>1, <1>2
    <3>2. f[i - 1] = g[i - 1]
      BY <2>2
    <3> QED BY <3>1, <3>2
  <2> HIDE DEF A
  <2> QED BY <2>1, <2>2, CountingUp
<1>5. f[n] = g[n] /\ g[n + 1] = b * g[n]
  BY <1>2, <1>4
<1> QED BY <1>1, <1>2, <1>3, <1>5

\* A power whose exponent is a sum.
LEMMA PowerSum ==
  ASSUME NEW b \in Nat \ {0}, NEW m \in Nat, NEW n \in Nat
  PROVE  Power(b, m + n) = Power(b, m) * Power(b, n)
<1> DEFINE A == {i \in 0 .. n : Power(b, m + i) = Power(b, m) * Power(b, i)}
<1>1. 0 \in A
  <2>1. Power(b, 0) = 1 /\ Power(b, m) \in Nat
    BY PowerFacts
  <2> QED BY <2>1
<1>2. ASSUME NEW i \in 1 .. n, i - 1 \in A PROVE i \in A
  <2>1. Power(b, m + (i - 1)) = Power(b, m) * Power(b, i - 1)
    BY <1>2
  <2>2. Power(b, (m + (i - 1)) + 1) = b * Power(b, m + (i - 1)) /\ (m + (i - 1)) + 1 = m + i
    BY PowerFacts
  <2>3. Power(b, (i - 1) + 1) = b * Power(b, i - 1) /\ (i - 1) + 1 = i
    BY PowerFacts
  <2>4. Power(b, m) \in Nat /\ Power(b, i - 1) \in Nat
    <3>1. i - 1 \in Nat
      OBVIOUS
    <3> QED BY <3>1, PowerFacts
  <2>5. \A x, y \in Nat : b * (x * y) = x * (b * y)
    OBVIOUS
  <2>6. Power(b, m + i) = Power(b, m) * Power(b, i)
    BY <2>1, <2>2, <2>3, <2>4, <2>5
  <2> QED BY <2>6
<1>3. n \in A
  <2> HIDE DEF A
  <2> QED BY <1>1, <1>2, CountingUp
<1> QED BY <1>3

\* A power of a power.
LEMMA PowerProduct ==
  ASSUME NEW b \in Nat \ {0}, NEW m \in Nat, NEW n \in Nat
  PROVE  Power(Power(b, m), n) = Power(b, m * n)
<1> DEFINE A == {i \in 0 .. n : Power(Power(b, m), i) = Power(b, m * i)}
<1>1. Power(b, m) \in Nat \ {0}
  BY PowerFacts
<1>2. 0 \in A
  <2>1. Power(Power(b, m), 0) = 1
    BY <1>1, PowerFacts
  <2>2. Power(b, 0) = 1
    BY PowerFacts
  <2>3. m * 0 = 0
    OBVIOUS
  <2> QED BY <2>1, <2>2, <2>3
<1>3. ASSUME NEW i \in 1 .. n, i - 1 \in A PROVE i \in A
  <2>1. Power(Power(b, m), i - 1) = Power(b, m * (i - 1)) /\ i - 1 \in Nat
    BY <1>3
  <2>2. Power(Power(b, m), (i - 1) + 1) = Power(b, m) * Power(Power(b, m), i - 1)
    BY <1>1, <2>1, PowerFacts
  <2>3. m * (i - 1) \in Nat /\ m + m * (i - 1) = m * i /\ (i - 1) + 1 = i
    BY <2>1
  <2>4. Power(b, m + m * (i - 1)) = Power(b, m) * Power(b, m * (i - 1))
    BY <2>3, PowerSum
  <2> QED BY <2>1, <2>2, <2>3, <2>4
<1>4. n \in A
  <2> HIDE DEF A
  <2> QED BY <1>2, <1>3, CountingUp
<1> QED BY <1>4

\* A larger exponent, a larger power.
LEMMA PowerGrows ==
  ASSUME NEW b \in Nat \ {0}, NEW m \in Nat, NEW n \in Nat, m <= n
  PROVE  Power(b, m) <= Power(b, n)
<1>1. n - m \in Nat /\ m + (n - m) = n
  OBVIOUS
<1>2. Power(b, n) = Power(b, m) * Power(b, n - m)
  BY <1>1, PowerSum
<1>3. Power(b, m) \in Nat \ {0} /\ Power(b, n - m) \in Nat \ {0}
  BY <1>1, PowerFacts
<1>4. \A x, y \in Nat \ {0} : x <= x * y
  OBVIOUS
<1> QED BY <1>2, <1>3, <1>4

\* Quotient and remainder, and that there are no others.
LEMMA DivFacts ==
  ASSUME NEW n \in Nat, NEW b \in Nat \ {0}
  PROVE  n \div b \in Nat /\ n % b \in 0 .. b - 1 /\ n = b * (n \div b) + (n % b)
OBVIOUS

\* A quotient and a remainder are known by what they make.
LEMMA DivUnique ==
  ASSUME NEW b \in Nat \ {0}, NEW q \in Nat, NEW r \in 0 .. b - 1
  PROVE  (b * q + r) \div b = q /\ (b * q + r) % b = r
<1> DEFINE n == b * q + r
<1>1. b * q \in Nat
  OBVIOUS
<1>2. n \in Nat
  BY <1>1
<1>3. n \div b \in Nat /\ n % b \in 0 .. b - 1 /\ n = b * (n \div b) + (n % b)
  <2> HIDE DEF n
  <2> QED BY <1>2, DivFacts
<1>4. ASSUME NEW p \in Nat, NEW s \in 0 .. b - 1, b * q + r = b * p + s PROVE p = q /\ s = r
  <2>1. CASE p < q
    <3>1. b * q >= b * (p + 1)
      BY <2>1
    <3>2. b * (p + 1) = b * p + b /\ b * p \in Nat
      OBVIOUS
    <3> QED BY <3>1, <3>2, <1>4, <1>1
  <2>2. CASE q < p
    <3>1. b * p >= b * (q + 1)
      BY <2>2
    <3>2. b * (q + 1) = b * q + b /\ b * p \in Nat
      OBVIOUS
    <3> QED BY <3>1, <3>2, <1>4, <1>1
  <2> QED BY <2>1, <2>2, <1>4
<1> QED BY <1>3, <1>4

\* A digit more.
LEMMA DigitStep ==
  ASSUME NEW n \in Nat, NEW b \in Nat \ {0}, NEW P \in Nat \ {0}
  PROVE  n % (b * P) = (n % P) + ((n \div P) % b) * P
<1> DEFINE q == n \div P
           r == n % P
           t == q \div b
           d == q % b
<1>1. q \in Nat /\ r \in 0 .. P - 1 /\ n = P * q + r
  BY DivFacts
<1>2. t \in Nat /\ d \in 0 .. b - 1 /\ q = b * t + d
  <2> HIDE DEF q
  <2> QED BY <1>1, DivFacts
<1> HIDE DEF q, r, t, d
<1>3. d * P \in Nat /\ b * P \in Nat \ {0} /\ b * t \in Nat /\ d \in Nat
  BY <1>2
<1>4. d * P <= (b - 1) * P /\ (b - 1) * P = b * P - P
  BY <1>2
<1>5. r + d * P \in 0 .. b * P - 1
  BY <1>1, <1>3, <1>4
<1>6. P * (b * t + d) = (b * P) * t + d * P
  <2>1. P * (b * t + d) = P * (b * t) + P * d
    BY <1>3
  <2>2. P * (b * t) = (P * b) * t /\ P * b = b * P /\ P * d = d * P
    BY <1>2, <1>3
  <2> QED BY <2>1, <2>2
<1>7. n = (b * P) * t + (r + d * P)
  <2>1. (b * P) * t \in Nat /\ r \in Nat
    BY <1>1, <1>2, <1>3
  <2>2. n = ((b * P) * t + d * P) + r
    BY <1>1, <1>2, <1>6
  <2> QED BY <1>3, <2>1, <2>2
<1>8. ((b * P) * t + (r + d * P)) % (b * P) = r + d * P
  BY <1>2, <1>3, <1>5, DivUnique
<1> QED BY <1>7, <1>8 DEF q, r, t, d
=============================================================================
