---------------------------- MODULE DataInduction ----------------------------
(* Induction on the natural numbers for the proofs beside it, stated of sets *)
(* and drawn from the well-foundedness of the numbers' order.                *)
EXTENDS Integers, Sequences, TLAPS, FiniteSetTheorems, WellFoundedInduction

Less == {p \in Nat \X Nat : p[1] < p[2]}

\* A set of numbers that is not empty has a least one.
LEMMA LeastNumber ==
    ASSUME NEW S \in SUBSET Nat, S # {}
    PROVE  \E n \in S : \A m \in S : n <= m
<1>1. OpToRel(<, Nat) = Less
  BY DEF OpToRel, Less
<1>2. IsWellFoundedOn(Less, Nat)
  BY <1>1, NatLessThanWellFounded
<1>3. PICK n \in S : \A m \in S : <<m, n>> \notin Less
  BY <1>2, WFMin
<1>4. ASSUME NEW m \in S
      PROVE  n <= m
  <2>1. <<m, n>> \in Nat \X Nat
    OBVIOUS
  <2> QED BY <1>3, <2>1 DEF Less
<1> QED BY <1>4

\* A set that has zero and every successor has every number.
LEMMA Numbers ==
    ASSUME NEW S, 0 \in S, \A n \in Nat : n \in S => n + 1 \in S
    PROVE  Nat \subseteq S
<1> SUFFICES ASSUME Nat \ S # {} PROVE FALSE
  OBVIOUS
<1>1. PICK n \in Nat \ S : \A m \in Nat \ S : n <= m
  BY LeastNumber
<1>2. n - 1 \in Nat /\ n - 1 \in S
  BY <1>1
<1> QED BY <1>2

\* A set of numbers that is not empty and has a bound has a greatest one.
LEMMA GreatestNumber ==
    ASSUME NEW S \in SUBSET Nat, S # {}, NEW b \in Nat, \A n \in S : n <= b
    PROVE  \E n \in S : \A m \in S : m <= n
<1> DEFINE T == {k \in Nat : \E n \in S : n + k = b}
<1>1. PICK n \in S : TRUE
  OBVIOUS
<1>2. b - n \in T
  BY <1>1
<1>3. PICK k \in T : \A m \in T : k <= m
  BY <1>2, LeastNumber
<1>4. PICK x \in S : x + k = b
  BY <1>3
<1>5. ASSUME NEW m \in S
      PROVE  m <= x
  <2>1. b - m \in T
    OBVIOUS
  <2>2. k <= b - m
    BY <1>3, <2>1
  <2> QED BY <1>4, <2>2
<1> QED BY <1>4, <1>5

(* A strict order of a finite set, given as a set of pairs, and the rank of *)
(* an element: how many stand before it.                                    *)
StrictOn(S, R) ==
    /\ \A x \in S : <<x, x>> \notin R
    /\ \A x, y, z \in S : <<x, y>> \in R /\ <<y, z>> \in R => <<x, z>> \in R
    /\ \A x, y \in S : x # y => <<x, y>> \in R \/ <<y, x>> \in R
Below(S, R, x) == {y \in S : <<y, x>> \in R}

LEMMA RankGrows ==
    ASSUME NEW S, IsFiniteSet(S), NEW R, StrictOn(S, R), NEW x \in S, NEW y \in S, <<x, y>> \in R
    PROVE  Cardinality(Below(S, R, x)) < Cardinality(Below(S, R, y))
<1>1. /\ IsFiniteSet(Below(S, R, x)) /\ IsFiniteSet(Below(S, R, y)) /\ IsFiniteSet(Below(S, R, y) \ {x})
      /\ Cardinality(Below(S, R, y) \ {x}) = Cardinality(Below(S, R, y)) - 1
  <2>1. Below(S, R, x) \in SUBSET S /\ Below(S, R, y) \in SUBSET S /\ x \in Below(S, R, y)
    BY DEF Below
  <2>2. IsFiniteSet(Below(S, R, x)) /\ IsFiniteSet(Below(S, R, y))
    BY <2>1, FS_Subset
  <2> QED BY <2>1, <2>2, FS_RemoveElement
<1>2. Below(S, R, x) \in SUBSET (Below(S, R, y) \ {x})
  BY DEF Below, StrictOn
<1>3. Cardinality(Below(S, R, x)) <= Cardinality(Below(S, R, y) \ {x})
  BY <1>1, <1>2, FS_Subset
<1>4. Cardinality(Below(S, R, x)) \in Nat /\ Cardinality(Below(S, R, y)) \in Nat
  BY <1>1, FS_CardinalityType
<1> QED BY <1>1, <1>3, <1>4

\* Each rank is that of one element.
LEMMA Ranked ==
    ASSUME NEW S, IsFiniteSet(S), NEW R, StrictOn(S, R)
    PROVE  /\ Cardinality(S) \in Nat
           /\ \A x \in S : Cardinality(Below(S, R, x)) \in 0..(Cardinality(S) - 1)
           /\ \A x, y \in S : <<x, y>> \in R <=> Cardinality(Below(S, R, x)) < Cardinality(Below(S, R, y))
           /\ \A i \in 0..(Cardinality(S) - 1) : \E x \in S : Cardinality(Below(S, R, x)) = i
<1> DEFINE n == Cardinality(S)
           T == 0..(n - 1)
           r(x) == Cardinality(Below(S, R, x))
           f == [x \in S |-> r(x)]
<1>1. n \in Nat
  BY FS_CardinalityType
<1>2. ASSUME NEW x \in S
      PROVE  r(x) \in T
  <2>1. Below(S, R, x) \in SUBSET (S \ {x})
    BY DEF Below, StrictOn
  <2>2. IsFiniteSet(S \ {x}) /\ Cardinality(S \ {x}) = n - 1
    BY FS_RemoveElement
  <2>3. IsFiniteSet(Below(S, R, x)) /\ r(x) <= n - 1
    BY <2>1, <2>2, FS_Subset
  <2>4. r(x) \in Nat
    BY <2>3, FS_CardinalityType
  <2> HIDE DEF n, r
  <2> QED BY <2>3, <2>4, <1>1
<1>3. \A x, y \in S : <<x, y>> \in R => r(x) < r(y)
  BY RankGrows
<1>4. \A x, y \in S : <<x, y>> \in R <=> r(x) < r(y)
  <2> SUFFICES ASSUME NEW x \in S, NEW y \in S, r(x) < r(y) PROVE <<x, y>> \in R
    BY <1>3
  <2> HIDE DEF n, r
  <2>1. x # y /\ ~(r(y) < r(x))
    BY <1>2
  <2> QED BY <2>1, <1>3 DEF StrictOn
<1>5. f \in Injection(S, T)
  <2> HIDE DEF n, r, T
  <2>1. f \in [S -> T]
    BY <1>2
  <2>2. ASSUME NEW x \in S, NEW y \in S, f[x] = f[y]
        PROVE  x = y
    <3>1. r(x) = r(y) /\ r(x) \in T /\ r(y) \in T
      BY <2>2, <1>2
    <3>2. ~(r(x) < r(y)) /\ ~(r(y) < r(x))
      BY <3>1, <1>1 DEF T
    <3> QED BY <3>2, <1>3 DEF StrictOn
  <2> QED BY <2>1, <2>2 DEF Injection, IsInjective
<1>6. IsFiniteSet(T) /\ Cardinality(T) = n
  <2> HIDE DEF n
  <2>1. /\ IsFiniteSet(0..(n - 1))
        /\ Cardinality(0..(n - 1)) = IF 0 > n - 1 THEN 0 ELSE (n - 1) - 0 + 1
    BY <1>1, FS_Interval
  <2> QED BY <2>1, <1>1
<1>7. f \in Surjection(S, T)
  <2> HIDE DEF f, T
  <2> QED BY <1>5, <1>6, FS_Injection
<1>8. \A i \in T : \E x \in S : r(x) = i
  <2> HIDE DEF n, r, T
  <2> QED BY <1>7 DEF Surjection
<1> QED BY <1>1, <1>2, <1>4, <1>8

\* The first n, each chosen by its rank, stand in the order; the others come
\* after them all.
Chosen(S, R, n) == [i \in 1..n |-> CHOOSE x \in S : Cardinality(Below(S, R, x)) = i - 1]

LEMMA ListedInOrder ==
    ASSUME NEW S, IsFiniteSet(S), NEW R, StrictOn(S, R), NEW n \in Nat, n <= Cardinality(S),
           NEW a, a = Chosen(S, R, n)
    PROVE  /\ a \in Seq(S) /\ Len(a) = n /\ DOMAIN a = 1..n
           /\ \A i, j \in 1..n : i < j => <<a[i], a[j]>> \in R
           /\ \A x \in S : (\E i \in 1..n : a[i] = x) \/ (n < Cardinality(S) /\ \A i \in 1..n : <<a[i], x>> \in R)
<1> DEFINE r(x) == Cardinality(Below(S, R, x))
           c == Cardinality(S)
<1>1. /\ c \in Nat /\ \A x \in S : r(x) \in 0..(c - 1)
      /\ \A x, y \in S : <<x, y>> \in R <=> r(x) < r(y)
      /\ \A i \in 0..(c - 1) : \E x \in S : r(x) = i
  BY Ranked
<1>2. a = [i \in 1..n |-> CHOOSE x \in S : r(x) = i - 1] /\ n <= c
  BY DEF Chosen
<1> HIDE DEF r, c
<1>3. ASSUME NEW i \in 1..n
      PROVE  a[i] \in S /\ r(a[i]) = i - 1
  <2>1. i - 1 \in 0..(c - 1)
    BY <1>1, <1>2
  <2>2. \E x \in S : r(x) = i - 1
    BY <2>1, <1>1
  <2>3. a[i] = CHOOSE x \in S : r(x) = i - 1
    BY <1>2
  <2> QED BY <2>2, <2>3
<1>4. a \in [1..n -> S]
  BY <1>2, <1>3
<1>5. a \in Seq(S) /\ Len(a) = n /\ DOMAIN a = 1..n
  BY <1>4
<1>6. ASSUME NEW i \in 1..n, NEW j \in 1..n, i < j
      PROVE  <<a[i], a[j]>> \in R
  <2>1. r(a[i]) < r(a[j])
    BY <1>3, <1>6
  <2> QED BY <2>1, <1>1, <1>3
<1>7. ASSUME NEW x \in S
      PROVE  (\E i \in 1..n : a[i] = x) \/ (n < c /\ \A i \in 1..n : <<a[i], x>> \in R)
  <2>1. r(x) \in 0..(c - 1)
    BY <1>1
  <2>2. CASE r(x) < n
    <3> DEFINE i == r(x) + 1
    <3>1. i \in 1..n /\ r(a[i]) = r(x) /\ a[i] \in S
      <4>1. i \in 1..n /\ i - 1 = r(x)
        BY <2>1, <2>2
      <4> QED BY <4>1, <1>3
    <3>2. ~(r(a[i]) < r(x)) /\ ~(r(x) < r(a[i]))
      BY <3>1, <2>1
    <3>3. a[i] = x
      BY <3>1, <3>2, <1>1 DEF StrictOn
    <3> QED BY <3>1, <3>3
  <2>3. CASE ~(r(x) < n)
    <3>1. n < c
      BY <2>1, <2>3, <1>1
    <3>2. ASSUME NEW i \in 1..n
          PROVE  <<a[i], x>> \in R
      <4>1. r(a[i]) < r(x) /\ a[i] \in S
        BY <2>1, <2>3, <1>3
      <4> QED BY <4>1, <1>1
    <3> QED BY <3>1, <3>2
  <2> QED BY <2>2, <2>3
<1> QED BY <1>5, <1>6, <1>7 DEF c

\* A sequence whose steps go up goes up by one at least at each.
LEMMA StepsUp ==
    ASSUME NEW s \in Seq(Nat), \A i \in 1..(Len(s) - 1) : s[i] < s[i + 1]
    PROVE  \A i, j \in 1..Len(s) : i <= j => j - i <= s[j] - s[i]
<1> DEFINE n == Len(s)
<1>0. n \in Nat /\ \A i \in 1..n : s[i] \in Nat
  OBVIOUS
<1> DEFINE P == {k \in Nat : \A i \in 1..n : i + k <= n => k <= s[i + k] - s[i]}
<1>4. \A i \in 1..(n - 1) : s[i] < s[i + 1]
  OBVIOUS
<1> HIDE DEF n
<1>1. 0 \in P
  BY <1>0
<1>2. ASSUME NEW k \in Nat, k \in P
      PROVE  k + 1 \in P
  <2> SUFFICES ASSUME NEW i \in 1..n, i + (k + 1) <= n PROVE k + 1 <= s[i + (k + 1)] - s[i]
    OBVIOUS
  <2>1. i + k <= n /\ i + k \in 1..(n - 1) /\ i + (k + 1) = (i + k) + 1 /\ (i + k) + 1 \in 1..n
    BY <1>0
  <2>2. k <= s[i + k] - s[i] /\ s[i + k] < s[(i + k) + 1]
    BY <1>2, <1>4, <2>1
  <2>3. s[i + k] \in Nat /\ s[i] \in Nat /\ s[(i + k) + 1] \in Nat
    BY <1>0, <2>1
  <2> QED BY <2>1, <2>2, <2>3
<1> HIDE DEF P
<1>3. Nat \subseteq P
  BY <1>1, <1>2, Numbers
<1>5. ASSUME NEW i \in 1..n, NEW j \in 1..n, i <= j
      PROVE  j - i <= s[j] - s[i]
  <2>1. j - i \in Nat /\ i + (j - i) = j /\ j <= n
    BY <1>0, <1>5
  <2>2. j - i \in P
    BY <1>3, <2>1
  <2> QED BY <2>1, <2>2 DEF P
<1> QED BY <1>5 DEF n
==============================================================================
