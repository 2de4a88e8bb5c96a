---------------------------- MODULE StreamProofs -----------------------------
(* The bytes that pass between the devices and the server, and the rows that *)
(* are kept of them, proved part by part: each part has an invariant that    *)
(* its initial states have and its steps keep, from which its properties     *)
(* follow.                                                                   *)
EXTENDS FrameStreams, SerialCapture, DevSerialSniff, StoredReadings, DataInduction

(* Frames found in streams (FrameStreams).                                   *)

\* What one step leads to, over and over, is a function of how often.
LEMMA Iterated ==
    ASSUME NEW X, NEW x \in X, NEW f \in [X -> X]
    PROVE  \E r \in [Nat -> X] : r[0] = x /\ \A n \in Nat : r[n + 1] = f[r[n]]
<1> DEFINE Sofar(n) == {g \in [0..n -> X] : g[0] = x /\ \A i \in 0..(n - 1) : g[i + 1] = f[g[i]]}
<1>1. \A n \in Nat : Sofar(n) # {}
  <2> DEFINE S == {n \in Nat : Sofar(n) # {}}
  <2>1. 0 \in S
    <3>1. [i \in 0..0 |-> x] \in Sofar(0)
      OBVIOUS
    <3> QED BY <3>1
  <2>2. ASSUME NEW n \in Nat, n \in S
        PROVE  n + 1 \in S
    <3>1. PICK g \in Sofar(n) : TRUE
      BY <2>2
    <3> DEFINE h == [i \in 0..(n + 1) |-> IF i = n + 1 THEN f[g[n]] ELSE g[i]]
    <3>2. g \in [0..n -> X] /\ g[n] \in X /\ f[g[n]] \in X
      BY <3>1
    <3>3. h \in [0..(n + 1) -> X]
      BY <3>2
    <3>4. h[0] = x
      BY <3>1
    <3>5. \A i \in 0..n : h[i + 1] = f[h[i]]
      BY <3>1
    <3>7. (n + 1) - 1 = n
      OBVIOUS
    <3> HIDE DEF h
    <3>6. h \in Sofar(n + 1)
      BY <3>3, <3>4, <3>5, <3>7
    <3> QED BY <3>6
  <2> HIDE DEF S
  <2>3. Nat \subseteq S
    BY <2>1, <2>2, Numbers
  <2> QED BY <2>3 DEF S
<1> DEFINE G(n) == CHOOSE g : g \in Sofar(n)
<1>2. \A n \in Nat : G(n) \in Sofar(n)
  BY <1>1
<1> HIDE DEF G
<1>3. ASSUME NEW m \in Nat, NEW n \in Nat, m <= n, NEW g \in Sofar(m), NEW h \in Sofar(n)
      PROVE  \A i \in 0..m : g[i] = h[i]
  <2> DEFINE S == {i \in Nat : i <= m => g[i] = h[i]}
  <2>1. 0 \in S
    OBVIOUS
  <2>2. ASSUME NEW i \in Nat, i \in S
        PROVE  i + 1 \in S
    <3> SUFFICES ASSUME i + 1 <= m PROVE g[i + 1] = h[i + 1]
      OBVIOUS
    <3>1. i \in 0..(m - 1) /\ i \in 0..(n - 1) /\ g[i] = h[i]
      BY <1>3, <2>2
    <3> QED BY <3>1
  <2> HIDE DEF S
  <2>3. Nat \subseteq S
    BY <2>1, <2>2, Numbers
  <2> QED BY <2>3 DEF S
<1> DEFINE r == [n \in Nat |-> G(n)[n]]
<1>4. r[0] = x
  BY <1>2
<1>5. ASSUME NEW n \in Nat
      PROVE  r[n] \in X /\ r[n + 1] = f[r[n]]
  <2>1. G(n + 1)[n] = G(n)[n]
    <3>1. n + 1 \in Nat /\ n <= n + 1 /\ n \in 0..n
      OBVIOUS
    <3>2. G(n) \in Sofar(n) /\ G(n + 1) \in Sofar(n + 1)
      BY <3>1, <1>2
    <3> HIDE DEF Sofar
    <3> QED BY <3>1, <3>2, <1>3
  <2>2. n + 1 \in Nat /\ n \in 0..((n + 1) - 1)
    OBVIOUS
  <2>3. G(n + 1)[n + 1] = f[G(n + 1)[n]]
    BY <1>2, <2>2
  <2>4. G(n)[n] \in X
    BY <1>2
  <2> QED BY <2>1, <2>2, <2>3, <2>4
<1>6. r \in [Nat -> X]
  BY <1>5
<1> QED BY <1>4, <1>5, <1>6

\* The rounds of a loop, whatever they work on, as long as they stay in it.
LEMMA RoundsOf ==
    ASSUME NEW kind, NEW X, NEW x \in X, \A y \in X : AfterRound(kind, y) \in X
    PROVE  /\ Rounds(kind, x)[0] = x
           /\ \A n \in Nat : /\ Rounds(kind, x)[n] \in X
                             /\ Rounds(kind, x)[n + 1] = AfterRound(kind, Rounds(kind, x)[n])
<1> DEFINE f == [y \in X |-> AfterRound(kind, y)]
<1>1. f \in [X -> X]
  OBVIOUS
<1>2. PICK r \in [Nat -> X] : r[0] = x /\ \A n \in Nat : r[n + 1] = f[r[n]]
  <2> HIDE DEF f
  <2> QED BY <1>1, Iterated
<1>3. \A n \in Nat : r[n + 1] = AfterRound(kind, r[n])
  BY <1>2
<1>4. r = [n \in Nat |-> IF n = 0 THEN x ELSE AfterRound(kind, r[n - 1])]
  <2>1. \A n \in Nat : r[n] = IF n = 0 THEN x ELSE AfterRound(kind, r[n - 1])
    <3> TAKE n \in Nat
    <3>1. n # 0 => n - 1 \in Nat /\ (n - 1) + 1 = n
      OBVIOUS
    <3> QED BY <3>1, <1>2, <1>3
  <2>2. r = [n \in Nat |-> r[n]]
    BY <1>2
  <2> QED BY <2>1, <2>2
<1> DEFINE R == Rounds(kind, x)
<1>5. R = [n \in Nat |-> IF n = 0 THEN x ELSE AfterRound(kind, R[n - 1])]
  BY <1>4 DEF Rounds
<1> HIDE DEF R
<1>6. R[0] = x /\ \A n \in Nat : R[n + 1] = AfterRound(kind, R[n])
  <2>1. \A n \in Nat : n + 1 \in Nat /\ n + 1 # 0 /\ (n + 1) - 1 = n
    OBVIOUS
  <2> QED BY <2>1, <1>5
<1> DEFINE S == {n \in Nat : R[n] \in X}
<1>7. 0 \in S
  BY <1>6
<1>8. \A n \in Nat : n \in S => n + 1 \in S
  BY <1>6
<1> HIDE DEF S
<1>9. Nat \subseteq S
  BY <1>7, <1>8, Numbers
<1> QED BY <1>6, <1>9 DEF R, S

-----------------------------------------------------------------------------
(* Parts of sequences.                                                      *)
LEMMA PartHas ==
    ASSUME NEW B, NEW s \in Seq(B), NEW i \in Nat, NEW n \in Nat, 1 <= i, i + n - 1 <= Len(s)
    PROVE  /\ SubSeq(s, i, i + n - 1) \in Seq(B) /\ Len(SubSeq(s, i, i + n - 1)) = n
           /\ \A j \in 1..n : SubSeq(s, i, i + n - 1)[j] = s[i + j - 1]
<1> DEFINE k == i + n - 1
<1>1. k \in Int /\ k - i + 1 = n /\ (n = 0 => k < i) /\ k <= Len(s) /\ Len(s) \in Nat
  OBVIOUS
<1> HIDE DEF k
<1>2. SubSeq(s, i, k) \in Seq(B)
  BY <1>1
<1>3. Len(SubSeq(s, i, k)) = n
  BY <1>1
<1>4. \A j \in 1..n : SubSeq(s, i, k)[j] = s[i + j - 1]
  BY <1>1
<1> QED BY <1>2, <1>3, <1>4 DEF k

LEMMA SameSequence ==
    ASSUME NEW B, NEW s \in Seq(B), NEW t \in Seq(B), Len(s) = Len(t), \A i \in 1..Len(s) : s[i] = t[i]
    PROVE  s = t
OBVIOUS

LEMMA SamePart ==
    ASSUME NEW B, NEW u \in Seq(B), NEW v \in Seq(B), NEW i \in Nat, NEW k \in Nat, NEW n \in Nat,
           1 <= i, 1 <= k, i + n - 1 <= Len(u), k + n - 1 <= Len(v),
           \A j \in 1..n : u[i + j - 1] = v[k + j - 1]
    PROVE  SubSeq(u, i, i + n - 1) = SubSeq(v, k, k + n - 1)
<1> DEFINE a == SubSeq(u, i, i + n - 1)
           b == SubSeq(v, k, k + n - 1)
<1>1. a \in Seq(B) /\ Len(a) = n /\ \A j \in 1..n : a[j] = u[i + j - 1]
  BY PartHas
<1>2. b \in Seq(B) /\ Len(b) = n /\ \A j \in 1..n : b[j] = v[k + j - 1]
  BY PartHas
<1> HIDE DEF a, b
<1>3. a = b
  <2>1. Len(a) = Len(b) /\ \A j \in 1..Len(a) : a[j] = b[j]
    BY <1>1, <1>2
  <2> QED BY <2>1, <1>1, <1>2, SameSequence
<1> QED BY <1>3 DEF a, b

LEMMA RestIs ==
    ASSUME NEW B, NEW s \in Seq(B), NEW k \in Nat, k <= Len(s)
    PROVE  /\ Rest(s, k + 1) \in Seq(B) /\ Len(Rest(s, k + 1)) = Len(s) - k
           /\ \A j \in 1..(Len(s) - k) : Rest(s, k + 1)[j] = s[k + j]
           /\ Rest(s, k + 1) = SubSeq(s, k + 1, (k + 1) + (Len(s) - k) - 1)
<1> DEFINE n == Len(s) - k
           i == k + 1
<1>1. n \in Nat /\ i \in Nat /\ 1 <= i /\ i + n - 1 <= Len(s) /\ i + n - 1 = Len(s)
  OBVIOUS
<1>2. Rest(s, i) = SubSeq(s, i, i + n - 1)
  BY <1>1 DEF Rest
<1>4. \A j : i + j - 1 = k + 1 + j - 1
  OBVIOUS
<1> HIDE DEF n, i
<1>3. /\ Rest(s, i) \in Seq(B) /\ Len(Rest(s, i)) = n
      /\ \A j \in 1..n : Rest(s, i)[j] = s[i + j - 1]
  BY <1>1, <1>2, PartHas
<1>5. \A j \in 1..n : i + j - 1 = k + j
  BY DEF n, i
<1> QED BY <1>2, <1>3, <1>5 DEF n, i

LEMMA MoreHas ==
    ASSUME NEW B, NEW s \in Seq(B), NEW c \in Seq(B)
    PROVE  /\ s \o c \in Seq(B) /\ Len(s \o c) = Len(s) + Len(c)
           /\ \A i \in 1..Len(s) : (s \o c)[i] = s[i]
           /\ \A i \in 1..Len(c) : (s \o c)[Len(s) + i] = c[i]
<1> DEFINE m == s \o c
           a == Len(s)
           b == Len(c)
<1>1. m \in Seq(B) /\ Len(m) = a + b /\ a \in Nat /\ b \in Nat
  OBVIOUS
<1>2. \A i \in 1..(a + b) : m[i] = IF i <= a THEN s[i] ELSE c[i - a]
  OBVIOUS
<1> HIDE DEF m, a, b
<1>3. ASSUME NEW i \in 1..a
      PROVE  m[i] = s[i]
  <2>1. i \in 1..(a + b) /\ i <= a
    BY <1>1
  <2> QED BY <2>1, <1>2
<1>4. ASSUME NEW i \in 1..b
      PROVE  m[a + i] = c[i]
  <2>1. a + i \in 1..(a + b) /\ ~(a + i <= a) /\ (a + i) - a = i
    BY <1>1
  <2> QED BY <2>1, <1>2
<1> QED BY <1>1, <1>3, <1>4 DEF m, a, b

\* The rest of a sequence with more put after it.
LEMMA RestOfMore ==
    ASSUME NEW B, NEW s \in Seq(B), NEW c \in Seq(B), NEW k \in Nat, k <= Len(s)
    PROVE  Rest(s \o c, k + 1) = Rest(s, k + 1) \o c
<1> DEFINE m == s \o c
           r == Rest(s, k + 1)
           x == Rest(m, k + 1)
           y == r \o c
           a == Len(s)
           b == Len(c)
<1>1. m \in Seq(B) /\ Len(m) = a + b /\ (\A i \in 1..a : m[i] = s[i]) /\ \A i \in 1..b : m[a + i] = c[i]
  BY MoreHas
<1>2. r \in Seq(B) /\ Len(r) = a - k /\ \A j \in 1..(a - k) : r[j] = s[k + j]
  BY RestIs
<1>3. a \in Nat /\ b \in Nat /\ k <= a
  OBVIOUS
<1>4. k <= Len(m)
  BY <1>1, <1>3
<1> HIDE DEF m
<1>5. x \in Seq(B) /\ Len(x) = Len(m) - k /\ \A j \in 1..(Len(m) - k) : x[j] = m[k + j]
  <2>1. m \in Seq(B) /\ k <= Len(m)
    BY <1>1, <1>4
  <2> HIDE DEF a, b, r
  <2> QED BY <2>1, RestIs
<1> HIDE DEF r
<1>6. y \in Seq(B) /\ Len(y) = Len(r) + b /\ (\A i \in 1..Len(r) : y[i] = r[i]) /\ \A i \in 1..b : y[Len(r) + i] = c[i]
  <2>1. r \in Seq(B)
    BY <1>2
  <2> HIDE DEF a, x
  <2> QED BY <2>1, MoreHas
<1> HIDE DEF a, b, x, y
<1>7. Len(x) = a + b - k /\ Len(y) = a + b - k
  BY <1>1, <1>2, <1>3, <1>5, <1>6
<1>8. ASSUME NEW i \in 1..(a + b - k)
      PROVE  x[i] = y[i]
  <2>1. x[i] = m[k + i]
    BY <1>1, <1>3, <1>5, <1>7
  <2>2. CASE i <= a - k
    <3>1. i \in 1..(a - k) /\ k + i \in 1..a /\ i \in 1..Len(r)
      BY <2>2, <1>2, <1>3
    <3> QED BY <3>1, <2>1, <1>1, <1>2, <1>6
  <2>3. CASE ~(i <= a - k)
    <3> DEFINE j == i - (a - k)
    <3>1. j \in 1..b /\ k + i = a + j /\ i = Len(r) + j
      <4>1. a \in Nat /\ b \in Nat /\ k <= a /\ Len(r) = a - k /\ k \in Nat
        BY <1>2, <1>3
      <4>2. i \in Int /\ a - k < i /\ i <= a + b - k
        BY <2>3, <4>1
      <4> QED BY <4>1, <4>2
    <3> HIDE DEF j
    <3> QED BY <3>1, <2>1, <1>1, <1>6
  <2> QED BY <2>2, <2>3
<1>9. x = y
  BY <1>5, <1>6, <1>7, <1>8, SameSequence
<1> QED BY <1>9 DEF x, y, m, r

\* A part of the rest.
PartOfTheRest(s, k, i, n) == SubSeq(Rest(s, k + 1), i, i + n - 1) = SubSeq(s, k + i, k + i + n - 1)

LEMMA PartOfRest ==
    ASSUME NEW B, NEW s \in Seq(B), NEW k \in Nat, NEW i \in Nat, NEW n \in Nat, k <= Len(s),
           1 <= i, k + i + n - 1 <= Len(s)
    PROVE  PartOfTheRest(s, k, i, n)
<1> DEFINE r == Rest(s, k + 1)
           h == k + i
           x == SubSeq(r, i, i + n - 1)
           y == SubSeq(s, h, h + n - 1)
<1>0. h \in Nat /\ 1 <= h /\ h + n - 1 <= Len(s) /\ i + n - 1 <= Len(s) - k /\ Len(s) \in Nat
  OBVIOUS
<1>1. r \in Seq(B) /\ Len(r) = Len(s) - k /\ \A j \in 1..(Len(s) - k) : r[j] = s[k + j]
  BY RestIs
<1>2. y \in Seq(B) /\ Len(y) = n /\ \A j \in 1..n : y[j] = s[h + j - 1]
  <2> HIDE DEF h
  <2> QED BY <1>0, PartHas
<1> HIDE DEF r
<1>3. x \in Seq(B) /\ Len(x) = n /\ \A j \in 1..n : x[j] = r[i + j - 1]
  BY <1>0, <1>1, PartHas
<1>4. \A j \in 1..n : r[i + j - 1] = s[h + j - 1]
  <2> SUFFICES ASSUME NEW j \in 1..n PROVE r[i + j - 1] = s[h + j - 1]
    OBVIOUS
  <2>1. i + j - 1 \in 1..(Len(s) - k) /\ k + (i + j - 1) = h + j - 1
    BY <1>0
  <2> HIDE DEF h
  <2> QED BY <2>1, <1>1
<1> HIDE DEF x, y
<1>5. x = y
  <2>1. Len(x) = Len(y) /\ \A j \in 1..Len(x) : x[j] = y[j]
    BY <1>2, <1>3, <1>4
  <2> QED BY <2>1, <1>2, <1>3, SameSequence
<1> QED BY <1>5 DEF x, y, r, h, PartOfTheRest

LEMMA RestOfRest ==
    ASSUME NEW B, NEW s \in Seq(B), NEW k \in Nat, NEW n \in Nat, k + n <= Len(s)
    PROVE  Rest(Rest(s, k + 1), n + 1) = Rest(s, k + n + 1)
<1> DEFINE r == Rest(s, k + 1)
           x == Rest(r, n + 1)
           y == Rest(s, k + n + 1)
           a == Len(s)
<1>0. a \in Nat /\ k <= a /\ n <= a - k /\ k + n \in Nat
  OBVIOUS
<1>1. r \in Seq(B) /\ Len(r) = a - k /\ \A j \in 1..(a - k) : r[j] = s[k + j]
  BY <1>0, RestIs
<1>2. y \in Seq(B) /\ Len(y) = a - (k + n) /\ \A j \in 1..(a - (k + n)) : y[j] = s[k + n + j]
  BY <1>0, RestIs
<1> HIDE DEF r
<1>3. x \in Seq(B) /\ Len(x) = Len(r) - n /\ \A j \in 1..(Len(r) - n) : x[j] = r[n + j]
  <2>1. r \in Seq(B) /\ n <= Len(r)
    BY <1>0, <1>1
  <2> HIDE DEF y, a
  <2> QED BY <2>1, RestIs
<1> HIDE DEF x, y, a
<1>4. Len(x) = a - (k + n) /\ Len(y) = Len(x)
  BY <1>0, <1>1, <1>2, <1>3
<1>5. ASSUME NEW j \in 1..(a - (k + n))
      PROVE  x[j] = y[j]
  <2>1. j \in 1..(Len(r) - n) /\ n + j \in 1..(a - k) /\ k + (n + j) = k + n + j
    BY <1>0, <1>1
  <2> QED BY <2>1, <1>1, <1>2, <1>3
<1>6. x = y
  BY <1>2, <1>3, <1>4, <1>5, SameSequence
<1> QED BY <1>6 DEF x, y, r

-----------------------------------------------------------------------------
(* A round of each parser.                                                  *)
LEMMA StreamNumbers ==
    /\ Bytes \in Nat /\ Bytes > 2 /\ BmsLength \in Nat /\ BmsLength > 2
    /\ Byte \subseteq Nat /\ 0 \in Byte /\ 1 \in Byte /\ 2 \in Byte
BY StreamAssumption DEF Byte

LEMMA LeastOf ==
    ASSUME NEW S \in SUBSET Nat, S # {}
    PROVE  Min(S) \in S /\ \A n \in S : Min(S) <= n
<1>1. PICK x \in S : \A y \in S : x <= y
  BY LeastNumber
<1>2. Min(S) = CHOOSE m \in S : \A n \in S : m <= n
  BY DEF Min
<1> QED BY <1>1, <1>2

LEMMA PreamblesAre ==
    ASSUME NEW s \in Seq(Byte)
    PROVE  /\ PreamblesIn(s) \subseteq 1..(Len(s) - 1) /\ PreamblesIn(s) \subseteq Nat
           /\ \A i \in 1..(Len(s) - 1) : i \in PreamblesIn(s) <=> s[i] = 1 /\ s[i + 1] = 2
<1>1. Len(s) \in Nat
  OBVIOUS
<1>2. ASSUME NEW i \in 1..(Len(s) - 1)
      PROVE  i \in PreamblesIn(s) <=> s[i] = 1 /\ s[i + 1] = 2
  <2> DEFINE t == SubSeq(s, i, i + 2 - 1)
  <2>1. t \in Seq(Byte) /\ Len(t) = 2 /\ \A j \in 1..2 : t[j] = s[i + j - 1]
    <3>1. i \in Nat /\ 1 <= i /\ i + 2 - 1 <= Len(s)
      BY <1>1
    <3>2. /\ SubSeq(s, i, i + 2 - 1) \in Seq(Byte) /\ Len(SubSeq(s, i, i + 2 - 1)) = 2
          /\ \A j \in 1..2 : SubSeq(s, i, i + 2 - 1)[j] = s[i + j - 1]
      <4> DEFINE n == 2
      <4>1. n \in Nat /\ i + n - 1 <= Len(s)
        BY <3>1
      <4> HIDE DEF n
      <4>2. /\ SubSeq(s, i, i + n - 1) \in Seq(Byte) /\ Len(SubSeq(s, i, i + n - 1)) = n
            /\ \A j \in 1..n : SubSeq(s, i, i + n - 1)[j] = s[i + j - 1]
        BY <3>1, <4>1, PartHas
      <4> QED BY <4>2 DEF n
    <3> QED BY <3>2
  <2>2. SubSeq(s, i, i + 1) = t
    BY <1>1
  <2> HIDE DEF t
  <2>3. t[1] = s[i] /\ t[2] = s[i + 1]
    <3>1. 1 \in 1..2 /\ 2 \in 1..2 /\ i + 1 - 1 = i /\ i + 2 - 1 = i + 1
      BY <1>1
    <3> QED BY <3>1, <2>1
  <2>4. t = <<1, 2>> <=> t[1] = 1 /\ t[2] = 2
    <3>1. <<1, 2>> \in Seq(Byte) /\ Len(<<1, 2>>) = 2 /\ <<1, 2>>[1] = 1 /\ <<1, 2>>[2] = 2
      BY StreamNumbers
    <3> DEFINE p == <<1, 2>>
    <3> HIDE DEF p
    <3>2. p \in Seq(Byte) /\ Len(p) = 2 /\ p[1] = 1 /\ p[2] = 2
      BY <3>1 DEF p
    <3>3. t = p <=> t[1] = 1 /\ t[2] = 2
      <4>1. \A j \in 1..2 : j = 1 \/ j = 2
        OBVIOUS
      <4>2. t[1] = 1 /\ t[2] = 2 => \A j \in 1..Len(t) : t[j] = p[j]
        BY <4>1, <3>2, <2>1
      <4>3. t[1] = 1 /\ t[2] = 2 => t = p
        BY <4>2, <3>2, <2>1, SameSequence
      <4> QED BY <4>3, <3>2
    <3> QED BY <3>3 DEF p
  <2> QED BY <2>2, <2>3, <2>4 DEF PreamblesIn, Preamble
<1>3. PreamblesIn(s) \subseteq 1..(Len(s) - 1)
  BY DEF PreamblesIn
<1> QED BY <1>1, <1>2, <1>3

Kinds == {"bms", "request", "response", "logger"}
RoundRow == [skip : Nat, take : Nat, over : Nat, again : BOOLEAN]

LEMMA Turns ==
    /\ \A a, b, c \in Nat : /\ Round(a, b, c) \in RoundRow
                            /\ Round(a, b, c).skip = a /\ Round(a, b, c).take = b /\ Round(a, b, c).over = c
                            /\ Round(a, b, c).again = TRUE
    /\ \A a \in Nat : /\ Wait(a) \in RoundRow
                      /\ Wait(a).skip = a /\ Wait(a).take = 0 /\ Wait(a).over = 0 /\ Wait(a).again = FALSE
BY DEF RoundRow, Round, Wait

\* What a round of the BMS's parser is.
BmsTurn(s, P, r) ==
    \/ P = {} /\ r = Wait(IF s = <<>> THEN 0 ELSE Len(s) - 1)
    \/ \E start \in P :
          /\ \A i \in P : start <= i
          /\ \/ \E next \in P : /\ start < next /\ next < start + BmsLength
                                /\ \A i \in P : start < i => next <= i
                                /\ r = Round(next - 1, 0, 0)
             \/ /\ \A i \in P : start < i => start + BmsLength <= i
                /\ \/ Len(s) < start + BmsLength - 1 /\ r = Wait(start - 1)
                   \/ /\ start + BmsLength - 1 <= Len(s)
                      /\ r = IF Checks(SubSeq(s, start, start + BmsLength - 1))
                             THEN Round(start - 1, BmsLength, 0) ELSE Round(start - 1, 0, BmsLength)

LEMMA BmsTurns ==
    ASSUME NEW s \in Seq(Byte)
    PROVE  BmsTurn(s, PreamblesIn(s), BmsRound(s))
<1> DEFINE P == PreamblesIn(s)
           start == Min(P)
           next == {i \in P : start < i /\ i < start + BmsLength}
           frame == SubSeq(s, start, start + BmsLength - 1)
<1>0. P \subseteq Nat /\ Len(s) \in Nat /\ BmsLength \in Nat
  BY PreamblesAre, StreamNumbers
<1>1. BmsRound(s) = IF P = {} THEN Wait(IF s = <<>> THEN 0 ELSE Len(s) - 1)
        ELSE IF next # {} THEN Round(Min(next) - 1, 0, 0)
        ELSE IF Len(s) < start + BmsLength - 1 THEN Wait(start - 1)
        ELSE IF Checks(frame) THEN Round(start - 1, BmsLength, 0)
        ELSE Round(start - 1, 0, BmsLength)
  BY DEF BmsRound
<1>2. frame = SubSeq(s, start, start + BmsLength - 1)
  OBVIOUS
<1>6. P # {} => start \in P /\ \A i \in P : start <= i
  BY <1>0, LeastOf
<1>7. next # {} => Min(next) \in next /\ \A i \in next : Min(next) <= i
  BY <1>0, LeastOf
<1>8. next = {i \in P : start < i /\ i < start + BmsLength}
  OBVIOUS
<1> HIDE DEF P, start, next, frame
<1>3. CASE P = {}
  BY <1>1, <1>3 DEF BmsTurn, P
<1>4. CASE P # {} /\ next # {}
  <2> DEFINE n == Min(next)
  <2>1. n \in P /\ start < n /\ n < start + BmsLength /\ \A i \in next : n <= i
    BY <1>4, <1>7, <1>8
  <2>2. BmsRound(s) = Round(n - 1, 0, 0) /\ start \in P /\ \A i \in P : start <= i
    BY <1>1, <1>4, <1>6
  <2> HIDE DEF n
  <2>3. \A i \in P : start < i => n <= i
    <3> SUFFICES ASSUME NEW i \in P, start < i PROVE n <= i
      OBVIOUS
    <3>1. i \in Nat /\ n \in Nat /\ start \in Nat
      BY <2>1, <2>2, <1>0
    <3>2. i < start + BmsLength => n <= i
      BY <2>1, <1>8
    <3> QED BY <3>1, <3>2, <2>1, <1>0
  <2> QED BY <2>1, <2>2, <2>3 DEF BmsTurn, P
<1>5. CASE P # {} /\ next = {}
  <2>1. start \in P /\ (\A i \in P : start <= i) /\ start \in Nat
    BY <1>0, <1>5, <1>6
  <2>2. \A i \in P : start < i => start + BmsLength <= i
    <3> SUFFICES ASSUME NEW i \in P, start < i PROVE start + BmsLength <= i
      OBVIOUS
    <3>1. ~(i < start + BmsLength) /\ i \in Nat
      BY <1>0, <1>5, <1>8
    <3> QED BY <3>1, <2>1, <1>0
  <2>3. \/ Len(s) < start + BmsLength - 1 /\ BmsRound(s) = Wait(start - 1)
        \/ /\ start + BmsLength - 1 <= Len(s)
           /\ BmsRound(s) = IF Checks(SubSeq(s, start, start + BmsLength - 1))
                  THEN Round(start - 1, BmsLength, 0) ELSE Round(start - 1, 0, BmsLength)
    <3>1. Len(s) < start + BmsLength - 1 \/ start + BmsLength - 1 <= Len(s)
      BY <1>0, <2>1
    <3>2. ~(Len(s) < start + BmsLength - 1 /\ start + BmsLength - 1 <= Len(s))
      BY <1>0, <2>1
    <3> QED BY <3>1, <3>2, <1>1, <1>2, <1>5
  <2> QED BY <2>1, <2>2, <2>3 DEF BmsTurn, P
<1> QED BY <1>3, <1>4, <1>5

\* A round leaves no more than there is, and one byte at least if another
\* follows it.
LEMMA RoundFits ==
    ASSUME NEW kind \in Kinds, NEW s \in Seq(Byte), NEW r, r = RoundOf(kind, s)
    PROVE  /\ r \in RoundRow /\ r.skip + r.take + r.over <= Len(s)
           /\ r.again => r.skip + r.take + r.over >= 1
           /\ ~r.again => r.take = 0 /\ r.over = 0 /\ (kind # "bms" => r.skip = 0)
<1>0. Len(s) \in Nat /\ Fixed \in Nat /\ Fixed = 4 /\ \A i \in 1..Len(s) : s[i] \in Nat
  <2>1. \A i \in 1..Len(s) : s[i] \in Byte
    OBVIOUS
  <2>2. \A i \in 1..Len(s) : s[i] \in Nat
    BY <2>1, StreamNumbers
  <2>3. Fixed \in Nat /\ Fixed = 4 /\ Len(s) \in Nat
    BY DEF Fixed
  <2> QED BY <2>2, <2>3
<1>1. CASE kind = "bms"
  <2>1. r = BmsRound(s)
    BY <1>1 DEF RoundOf
  <2>2. BmsTurn(s, PreamblesIn(s), r)
    BY <2>1, BmsTurns
  <2>3. PreamblesIn(s) \subseteq 1..(Len(s) - 1) /\ BmsLength \in Nat /\ BmsLength > 2
    BY PreamblesAre, StreamNumbers
  <2>4. CASE PreamblesIn(s) = {} /\ r = Wait(IF s = <<>> THEN 0 ELSE Len(s) - 1)
    <3>1. (IF s = <<>> THEN 0 ELSE Len(s) - 1) \in Nat /\ (IF s = <<>> THEN 0 ELSE Len(s) - 1) <= Len(s)
      BY <1>0
    <3> QED BY <3>1, <2>4, <1>0, <1>1, Turns
  <2>5. ASSUME NEW start \in PreamblesIn(s), NEW next \in PreamblesIn(s), start < next, r = Round(next - 1, 0, 0)
        PROVE  /\ r \in RoundRow /\ r.skip + r.take + r.over <= Len(s)
               /\ r.skip + r.take + r.over >= 1 /\ r.again
    <3>1. next - 1 \in Nat /\ next - 1 >= 1 /\ next - 1 <= Len(s)
      BY <2>3, <2>5, <1>0
    <3> QED BY <3>1, <2>5, Turns
  <2>6. ASSUME NEW start \in PreamblesIn(s), r = Wait(start - 1)
        PROVE  r \in RoundRow /\ r.skip + r.take + r.over <= Len(s) /\ ~r.again /\ r.take = 0 /\ r.over = 0
    <3>1. start - 1 \in Nat /\ start - 1 <= Len(s)
      BY <2>3, <1>0
    <3> QED BY <3>1, <2>6, Turns
  <2>7. ASSUME NEW start \in PreamblesIn(s), start + BmsLength - 1 <= Len(s),
               r = Round(start - 1, BmsLength, 0) \/ r = Round(start - 1, 0, BmsLength)
        PROVE  /\ r \in RoundRow /\ r.skip + r.take + r.over <= Len(s)
               /\ r.skip + r.take + r.over >= 1 /\ r.again
    <3>1. start - 1 \in Nat /\ BmsLength \in Nat /\ 0 \in Nat /\ start - 1 + BmsLength <= Len(s) /\ start - 1 + BmsLength >= 1
      BY <2>3, <2>7, <1>0
    <3>2. r \in RoundRow /\ r.again /\ r.skip = start - 1 /\ ((r.take = BmsLength /\ r.over = 0) \/ (r.take = 0 /\ r.over = BmsLength))
      BY <3>1, <2>7, Turns
    <3> QED BY <3>1, <3>2
  <2> QED BY <2>2, <2>4, <2>5, <2>6, <2>7, <1>1 DEF BmsTurn
<1>2. CASE kind = "request"
  <2> DEFINE length == IF s[2] = WRITE THEN Fixed + s[3] ELSE Fixed
  <2>1. r = IF Len(s) < Fixed THEN Wait(0)
        ELSE IF s[1] = 0 \/ s[2] \notin {READ, WRITE} THEN Round(1, 0, 0)
        ELSE IF Len(s) < length THEN Wait(0)
        ELSE IF ~Checks(SubSeq(s, 1, length)) THEN Round(1, 0, 0)
        ELSE IF s[2] = READ THEN Round(0, length, 0)
        ELSE Round(0, 0, length)
    BY <1>2 DEF RoundOf, RequestRound
  <2>2. Len(s) >= Fixed => length \in Nat /\ length >= 1
    BY <1>0
  <2> HIDE DEF length
  <2>3. \/ r = Wait(0) \/ (r = Round(1, 0, 0) /\ 1 <= Len(s))
        \/ (r = Round(0, length, 0) \/ r = Round(0, 0, length)) /\ length \in Nat /\ length >= 1 /\ length <= Len(s)
    BY <2>1, <2>2, <1>0
  <2> QED BY <2>3, <1>0, <1>2, Turns
<1>3. CASE kind = "response"
  <2> DEFINE length == Fixed + s[3]
  <2>1. r = IF Len(s) < Fixed THEN Wait(0)
    ELSE IF s[1] = 0 \/ s[2] # READ \/ s[3] = 0 \/ s[3] % 2 # 0 THEN Round(1, 0, 0)
    ELSE IF Len(s) < length THEN Wait(0)
    ELSE IF Checks(SubSeq(s, 1, length)) THEN Round(0, length, 0)
    ELSE Round(1, 0, 0)
    BY <1>3 DEF RoundOf, ResponseRound
  <2>2. Len(s) >= Fixed => length \in Nat /\ length >= 1
    BY <1>0
  <2> HIDE DEF length
  <2>3. \/ r = Wait(0) \/ (r = Round(1, 0, 0) /\ 1 <= Len(s))
        \/ r = Round(0, length, 0) /\ length \in Nat /\ length >= 1 /\ length <= Len(s)
    BY <2>1, <2>2, <1>0
  <2> QED BY <2>3, <1>0, <1>3, Turns
<1>4. CASE kind = "logger"
  <2> DEFINE length == 2 + s[2]
  <2>1. r = IF Len(s) < 2 \/ Len(s) < length THEN Wait(0) ELSE Round(0, length, 0)
    <3>1. r = IF frameLength(s) = 0 THEN Wait(0) ELSE Round(0, frameLength(s), 0)
      BY <1>4 DEF RoundOf, LoggerRound
    <3>2. frameLength(s) = IF Len(s) < 2 \/ Len(s) < length THEN 0 ELSE length
      BY DEF frameLength
    <3>3. Len(s) >= 2 => length # 0
      BY <1>0
    <3> HIDE DEF length
    <3> QED BY <3>1, <3>2, <3>3, <1>0
  <2>2. Len(s) >= 2 => length \in Nat /\ length >= 1
    BY <1>0
  <2> HIDE DEF length
  <2>3. \/ r = Wait(0)
        \/ r = Round(0, length, 0) /\ length \in Nat /\ length >= 1 /\ length <= Len(s)
    BY <2>1, <2>2, <1>0
  <2> QED BY <2>3, <1>0, <1>4, Turns
<1> QED BY <1>1, <1>2, <1>3, <1>4 DEF Kinds

\* The first bytes of a buffer, and what a frame at its front holds.
LEMMA FrontOfMore ==
    ASSUME NEW s \in Seq(Byte), NEW c \in Seq(Byte), NEW i \in Nat, NEW n \in Nat, 1 <= i, i + n - 1 <= Len(s)
    PROVE  SubSeq(s \o c, i, i + n - 1) = SubSeq(s, i, i + n - 1)
<1> DEFINE m == s \o c
<1>1. m \in Seq(Byte) /\ Len(m) = Len(s) + Len(c) /\ Len(s) \in Nat /\ Len(c) \in Nat /\ \A j \in 1..Len(s) : m[j] = s[j]
  BY MoreHas
<1> HIDE DEF m
<1>2. i + n - 1 <= Len(m) /\ \A j \in 1..n : m[i + j - 1] = s[i + j - 1]
  <2>1. \A j \in 1..n : i + j - 1 \in 1..Len(s)
    BY <1>1
  <2> QED BY <2>1, <1>1
<1>3. SubSeq(m, i, i + n - 1) = SubSeq(s, i, i + n - 1)
  BY <1>1, <1>2, SamePart
<1> QED BY <1>3 DEF m

\* A frame of the BMS cut short by fewer bytes than a preamble.
HeadCrossed(s) == \E p, q \in PreamblesIn(s) : q = p + BmsLength - 1

\* A round that another follows does the same when more has come.
LEMMA RoundKept ==
    ASSUME NEW kind \in Kinds, NEW s \in Seq(Byte), NEW c \in Seq(Byte), kind = "bms" => ~HeadCrossed(s \o c),
           RoundOf(kind, s).again
    PROVE  RoundOf(kind, s \o c) = RoundOf(kind, s)
<1> DEFINE m == s \o c
           r == RoundOf(kind, s)
<1>0. /\ m \in Seq(Byte) /\ Len(m) = Len(s) + Len(c) /\ Len(s) \in Nat /\ Len(c) \in Nat /\ Len(s) <= Len(m)
      /\ (\A j \in 1..Len(s) : m[j] = s[j])
      /\ \A i, n \in Nat : 1 <= i /\ i + n - 1 <= Len(s) => SubSeq(m, i, i + n - 1) = SubSeq(s, i, i + n - 1)
  BY MoreHas, FrontOfMore
<1>9. kind = "bms" => ~HeadCrossed(m)
  OBVIOUS
<1> HIDE DEF m
<1>5. \A i \in 1..Len(s) : s[i] \in Nat
  <2>1. \A i \in 1..Len(s) : s[i] \in Byte
    OBVIOUS
  <2> QED BY <2>1, StreamNumbers
<1>6. \A n \in Nat : n <= Len(s) => SubSeq(m, 1, n) = SubSeq(s, 1, n)
  <2> SUFFICES ASSUME NEW n \in Nat, n <= Len(s) PROVE SubSeq(m, 1, n) = SubSeq(s, 1, n)
    OBVIOUS
  <2>1. 1 \in Nat /\ 1 + n - 1 = n
    OBVIOUS
  <2>2. 1 + n - 1 <= Len(s)
    BY <2>1
  <2>3. SubSeq(m, 1, 1 + n - 1) = SubSeq(s, 1, 1 + n - 1)
    BY <2>2, <1>0
  <2> QED BY <2>1, <2>3
<1>7. Len(s) >= 4 => m[1] = s[1] /\ m[2] = s[2] /\ m[3] = s[3] /\ s[1] \in Nat /\ s[2] \in Nat /\ s[3] \in Nat
  BY <1>0, <1>5
<1>8. Len(s) >= 2 => m[2] = s[2] /\ s[2] \in Nat
  BY <1>0, <1>5
<1>1. CASE kind = "bms"
  <2> DEFINE P == PreamblesIn(s)
             Q == PreamblesIn(m)
  <2>1. r = BmsRound(s) /\ RoundOf(kind, m) = BmsRound(m)
    BY <1>1 DEF RoundOf
  <2>2. BmsTurn(s, P, r) /\ BmsTurn(m, Q, BmsRound(m))
    BY <2>1, <1>0, BmsTurns
  <2>3. /\ P \subseteq 1..(Len(s) - 1) /\ Q \subseteq 1..(Len(m) - 1) /\ BmsLength \in Nat /\ BmsLength > 2
        /\ P \subseteq Nat /\ Q \subseteq Nat
    BY <1>0, PreamblesAre, StreamNumbers
  <2>4. \A i \in 1..(Len(s) - 1) : i \in P <=> i \in Q
    <3> SUFFICES ASSUME NEW i \in 1..(Len(s) - 1) PROVE i \in P <=> i \in Q
      OBVIOUS
    <3>1. i \in 1..Len(s) /\ i + 1 \in 1..Len(s) /\ i \in 1..(Len(m) - 1)
      BY <1>0
    <3>2. m[i] = s[i] /\ m[i + 1] = s[i + 1]
      BY <3>1, <1>0
    <3>3. i \in P <=> s[i] = 1 /\ s[i + 1] = 2
      BY PreamblesAre
    <3>4. i \in Q <=> m[i] = 1 /\ m[i + 1] = 2
      BY <3>1, <1>0, PreamblesAre
    <3> QED BY <3>2, <3>3, <3>4
  <2>5. ~(\E p, q \in Q : q = p + BmsLength - 1)
    BY <1>1, <1>9 DEF HeadCrossed
  <2>13. \A i \in Q \ P : i >= Len(s)
    BY <2>3, <2>4, <1>0
  <2> DEFINE R == BmsRound(m)
  <2>15. RoundOf(kind, m) = R /\ BmsTurn(m, Q, R)
    BY <2>1, <2>2
  <2> HIDE DEF P, Q, R
  <2>6. ~(P = {} /\ r = Wait(IF s = <<>> THEN 0 ELSE Len(s) - 1))
    <3>1. (IF s = <<>> THEN 0 ELSE Len(s) - 1) \in Nat
      BY <1>0
    <3> QED BY <3>1, Turns
  <2>7. PICK start \in P :
          /\ \A i \in P : start <= i
          /\ \/ \E next \in P : /\ start < next /\ next < start + BmsLength
                                /\ \A i \in P : start < i => next <= i
                                /\ r = Round(next - 1, 0, 0)
             \/ /\ \A i \in P : start < i => start + BmsLength <= i
                /\ \/ Len(s) < start + BmsLength - 1 /\ r = Wait(start - 1)
                   \/ /\ start + BmsLength - 1 <= Len(s)
                      /\ r = IF Checks(SubSeq(s, start, start + BmsLength - 1))
                             THEN Round(start - 1, BmsLength, 0) ELSE Round(start - 1, 0, BmsLength)
    BY <2>2, <2>6 DEF BmsTurn
  <2>8. start \in Q /\ (\A i \in Q : start <= i) /\ start \in Nat /\ 1 <= start
    BY <2>3, <2>4, <2>7, <2>13, <1>0
  <2>9. PICK first \in Q :
          /\ \A i \in Q : first <= i
          /\ \/ \E next \in Q : /\ first < next /\ next < first + BmsLength
                                /\ \A i \in Q : first < i => next <= i
                                /\ R = Round(next - 1, 0, 0)
             \/ /\ \A i \in Q : first < i => first + BmsLength <= i
                /\ \/ Len(m) < first + BmsLength - 1 /\ R = Wait(first - 1)
                   \/ /\ first + BmsLength - 1 <= Len(m)
                      /\ R = IF Checks(SubSeq(m, first, first + BmsLength - 1))
                             THEN Round(first - 1, BmsLength, 0) ELSE Round(first - 1, 0, BmsLength)
    BY <2>15, <2>8 DEF BmsTurn
  <2>10. first = start
    BY <2>3, <2>8, <2>9
  <2>11. CASE \E next \in P : /\ start < next /\ next < start + BmsLength
                              /\ \A i \in P : start < i => next <= i
                              /\ r = Round(next - 1, 0, 0)
    <3>1. PICK next \in P : /\ start < next /\ next < start + BmsLength
                            /\ \A i \in P : start < i => next <= i
                            /\ r = Round(next - 1, 0, 0)
      BY <2>11
    <3>2. next \in Q /\ next \in Nat /\ next <= Len(s) - 1
      BY <2>3, <2>4
    <3>3. \A i \in Q : start < i => next <= i
      BY <3>1, <3>2, <2>3, <2>13, <1>0
    <3>4. ~(\A i \in Q : first < i => first + BmsLength <= i)
      BY <3>1, <3>2, <2>3, <2>8, <2>10
    <3>5. PICK other \in Q : /\ first < other /\ (\A i \in Q : first < i => other <= i)
                             /\ R = Round(other - 1, 0, 0)
      BY <3>4, <2>9
    <3>6. other = next
      BY <3>1, <3>2, <3>3, <3>5, <2>3, <2>10
    <3> QED BY <3>1, <3>5, <3>6, <2>15 DEF m
  <2>12. CASE /\ \A i \in P : start < i => start + BmsLength <= i
              /\ start + BmsLength - 1 <= Len(s)
              /\ r = IF Checks(SubSeq(s, start, start + BmsLength - 1))
                     THEN Round(start - 1, BmsLength, 0) ELSE Round(start - 1, 0, BmsLength)
    <3>1. \A i \in Q : start < i => start + BmsLength <= i
      <4> SUFFICES ASSUME NEW i \in Q, start < i, ~(start + BmsLength <= i) PROVE FALSE
        OBVIOUS
      <4>1. i \notin P
        BY <2>12
      <4>2. i >= Len(s) /\ i \in Nat
        BY <4>1, <2>3, <2>13
      <4>3. i = start + BmsLength - 1
        <5>1. i < start + BmsLength
          BY <4>2, <2>3, <2>8
        <5>2. start + BmsLength - 1 <= Len(s)
          BY <2>12
        <5> QED BY <5>1, <5>2, <4>2, <2>3, <2>8, <1>0
      <4> QED BY <4>3, <2>5, <2>8
    <3>2. SubSeq(m, start, start + BmsLength - 1) = SubSeq(s, start, start + BmsLength - 1)
      BY <2>3, <2>8, <2>12, <1>0
    <3>3. ~(Len(m) < start + BmsLength - 1)
      BY <2>3, <2>8, <2>12, <1>0
    <3>4. ~(\E next \in Q : first < next /\ next < first + BmsLength)
      BY <3>1, <2>3, <2>8, <2>10
    <3>5. R = IF Checks(SubSeq(m, start, start + BmsLength - 1))
              THEN Round(start - 1, BmsLength, 0) ELSE Round(start - 1, 0, BmsLength)
      BY <3>3, <3>4, <2>9, <2>10
    <3>6. R = r
      BY <3>2, <3>5, <2>12
    <3> QED BY <3>6, <2>15 DEF m
  <2>14. ~(r = Wait(start - 1))
    <3>1. start - 1 \in Nat
      BY <2>8
    <3> QED BY <3>1, Turns
  <2> QED BY <2>7, <2>11, <2>12, <2>14 DEF m
<1>2. CASE kind = "request"
  <2> DEFINE n(t) == IF t[2] = WRITE THEN Fixed + t[3] ELSE Fixed
             Bad(t) == t[1] = 0 \/ t[2] \notin {READ, WRITE}
             R == RoundOf(kind, m)
  <2>1. r = IF Len(s) < Fixed THEN Wait(0) ELSE IF Bad(s) THEN Round(1, 0, 0)
        ELSE IF Len(s) < n(s) THEN Wait(0) ELSE IF ~Checks(SubSeq(s, 1, n(s))) THEN Round(1, 0, 0)
        ELSE IF s[2] = READ THEN Round(0, n(s), 0) ELSE Round(0, 0, n(s))
    BY <1>2 DEF RoundOf, RequestRound
  <2>2. R = IF Len(m) < Fixed THEN Wait(0) ELSE IF Bad(m) THEN Round(1, 0, 0)
        ELSE IF Len(m) < n(m) THEN Wait(0) ELSE IF ~Checks(SubSeq(m, 1, n(m))) THEN Round(1, 0, 0)
        ELSE IF m[2] = READ THEN Round(0, n(m), 0) ELSE Round(0, 0, n(m))
    BY <1>2 DEF RoundOf, RequestRound
  <2>3. 0 \in Nat /\ ~Wait(0).again /\ Fixed = 4
    BY Turns DEF Fixed
  <2> HIDE DEF n, Bad
  <2>4. ~(Len(s) < Fixed)
    BY <2>1, <2>3
  <2>5. Len(s) >= 4 /\ ~(Len(m) < Fixed)
    BY <2>4, <2>3, <1>0
  <2>6. m[1] = s[1] /\ m[2] = s[2] /\ m[3] = s[3] /\ s[3] \in Nat
    BY <2>5, <1>7
  <2>7. n(m) = n(s) /\ n(s) \in Nat /\ (Bad(m) <=> Bad(s))
    BY <2>6, <2>3 DEF n, Bad
  <2>8. CASE Bad(s)
    BY <2>1, <2>2, <2>4, <2>5, <2>7, <2>8 DEF R, m
  <2>9. CASE ~Bad(s)
    <3>1. ~(Len(s) < n(s))
      BY <2>1, <2>3, <2>4, <2>9
    <3>2. ~(Len(m) < n(m)) /\ n(s) <= Len(s)
      BY <3>1, <2>7, <1>0
    <3>3. SubSeq(m, 1, n(m)) = SubSeq(s, 1, n(s))
      BY <3>2, <2>7, <1>6
    <3>4. r = IF ~Checks(SubSeq(s, 1, n(s))) THEN Round(1, 0, 0)
              ELSE IF s[2] = READ THEN Round(0, n(s), 0) ELSE Round(0, 0, n(s))
      BY <2>1, <2>4, <2>9, <3>1
    <3>5. R = IF ~Checks(SubSeq(m, 1, n(m))) THEN Round(1, 0, 0)
              ELSE IF m[2] = READ THEN Round(0, n(m), 0) ELSE Round(0, 0, n(m))
      BY <2>2, <2>5, <2>7, <2>9, <3>2
    <3>6. R = r
      <4> DEFINE f == SubSeq(s, 1, n(s))
                 g == SubSeq(m, 1, n(m))
                 a == n(s)
                 b == n(m)
      <4>1. g = f /\ b = a /\ m[2] = s[2]
        BY <3>3, <2>7, <2>6
      <4>2. r = IF ~Checks(f) THEN Round(1, 0, 0) ELSE IF s[2] = READ THEN Round(0, a, 0) ELSE Round(0, 0, a)
        BY <3>4
      <4>3. R = IF ~Checks(g) THEN Round(1, 0, 0) ELSE IF m[2] = READ THEN Round(0, b, 0) ELSE Round(0, 0, b)
        BY <3>5
      <4> HIDE DEF f, g, a, b, R, r
      <4> QED BY <4>1, <4>2, <4>3
    <3> QED BY <3>6 DEF R, m
  <2> QED BY <2>8, <2>9
<1>3. CASE kind = "response"
  <2> DEFINE n(t) == Fixed + t[3]
             Bad(t) == t[1] = 0 \/ t[2] # READ \/ t[3] = 0 \/ t[3] % 2 # 0
             R == RoundOf(kind, m)
  <2>1. r = IF Len(s) < Fixed THEN Wait(0) ELSE IF Bad(s) THEN Round(1, 0, 0)
        ELSE IF Len(s) < n(s) THEN Wait(0)
        ELSE IF Checks(SubSeq(s, 1, n(s))) THEN Round(0, n(s), 0) ELSE Round(1, 0, 0)
    BY <1>3 DEF RoundOf, ResponseRound
  <2>2. R = IF Len(m) < Fixed THEN Wait(0) ELSE IF Bad(m) THEN Round(1, 0, 0)
        ELSE IF Len(m) < n(m) THEN Wait(0)
        ELSE IF Checks(SubSeq(m, 1, n(m))) THEN Round(0, n(m), 0) ELSE Round(1, 0, 0)
    BY <1>3 DEF RoundOf, ResponseRound
  <2>3. 0 \in Nat /\ ~Wait(0).again /\ Fixed = 4
    BY Turns DEF Fixed
  <2> HIDE DEF n, Bad
  <2>4. ~(Len(s) < Fixed)
    BY <2>1, <2>3
  <2>5. Len(s) >= 4 /\ ~(Len(m) < Fixed)
    BY <2>4, <2>3, <1>0
  <2>6. m[1] = s[1] /\ m[2] = s[2] /\ m[3] = s[3] /\ s[3] \in Nat
    BY <2>5, <1>7
  <2>7. n(m) = n(s) /\ n(s) \in Nat /\ (Bad(m) <=> Bad(s))
    BY <2>6, <2>3 DEF n, Bad
  <2>8. CASE Bad(s)
    BY <2>1, <2>2, <2>4, <2>5, <2>7, <2>8 DEF R, m
  <2>9. CASE ~Bad(s)
    <3>1. ~(Len(s) < n(s))
      BY <2>1, <2>3, <2>4, <2>9
    <3>2. ~(Len(m) < n(m)) /\ n(s) <= Len(s)
      BY <3>1, <2>7, <1>0
    <3>3. SubSeq(m, 1, n(m)) = SubSeq(s, 1, n(s))
      BY <3>2, <2>7, <1>6
    <3>4. r = IF Checks(SubSeq(s, 1, n(s))) THEN Round(0, n(s), 0) ELSE Round(1, 0, 0)
      BY <2>1, <2>4, <2>9, <3>1
    <3>5. R = IF Checks(SubSeq(m, 1, n(m))) THEN Round(0, n(m), 0) ELSE Round(1, 0, 0)
      BY <2>2, <2>5, <2>7, <2>9, <3>2
    <3>6. R = r
      <4> DEFINE f == SubSeq(s, 1, n(s))
                 g == SubSeq(m, 1, n(m))
                 a == n(s)
                 b == n(m)
      <4>1. g = f /\ b = a
        BY <3>3, <2>7
      <4>2. r = IF Checks(f) THEN Round(0, a, 0) ELSE Round(1, 0, 0)
        BY <3>4
      <4>3. R = IF Checks(g) THEN Round(0, b, 0) ELSE Round(1, 0, 0)
        BY <3>5
      <4> HIDE DEF f, g, a, b, R, r
      <4> QED BY <4>1, <4>2, <4>3
    <3> QED BY <3>6 DEF R, m
  <2> QED BY <2>8, <2>9
<1>4. CASE kind = "logger"
  <2> DEFINE R(t) == IF frameLength(t) = 0 THEN Wait(0) ELSE Round(0, frameLength(t), 0)
  <2>1. r = R(s) /\ RoundOf(kind, m) = R(m)
    BY <1>4 DEF RoundOf, LoggerRound
  <2>2. frameLength(s) # 0
    BY <2>1, Turns
  <2>3. Len(s) >= 2 /\ Len(s) >= 2 + s[2] /\ frameLength(s) = 2 + s[2]
    BY <2>2, <1>0, <1>8 DEF frameLength
  <2>4. frameLength(m) = frameLength(s)
    BY <2>3, <1>0, <1>8 DEF frameLength
  <2> QED BY <2>1, <2>4 DEF m
<1> QED BY <1>1, <1>2, <1>3, <1>4 DEF Kinds

\* What a round leaves behind when it begins k bytes further on.
Later(r, k, w) ==
    r.skip = k + w.skip /\ r.take = w.take /\ r.over = w.over /\ r.again = w.again

LEMMA LaterWait ==
    ASSUME NEW k, NEW a, NEW b, a = k + b
    PROVE  Later(Wait(a), k, Wait(b))
BY DEF Later, Wait

LEMMA LaterRound ==
    ASSUME NEW k, NEW a, NEW b, a = k + b, NEW c, NEW d
    PROVE  Later(Round(a, c, d), k, Round(b, c, d))
BY DEF Later, Round

\* The BMS's parser passes over what precedes the first preamble.
LEMMA BmsShift ==
    ASSUME NEW m \in Seq(Byte), NEW k \in Nat, k < Len(m), NEW v, v = Rest(m, k + 1),
           \A i \in PreamblesIn(m) : k < i
    PROVE  Later(BmsRound(m), k, BmsRound(v))
<1> DEFINE P == PreamblesIn(m)
           Q == PreamblesIn(v)
           size == Len(m)
           long == BmsLength
           r == BmsRound(m)
           w == BmsRound(v)
<1>1. size \in Nat /\ k <= size /\ long \in Nat /\ long > 2
  BY StreamNumbers
<1>2. v \in Seq(Byte) /\ Len(v) = size - k /\ \A j \in 1..(size - k) : v[j] = m[k + j]
  BY <1>1, RestIs
<1>3. P \subseteq 1..(size - 1) /\ \A i \in 1..(size - 1) : i \in P <=> m[i] = 1 /\ m[i + 1] = 2
  BY PreamblesAre
<1>4. Q \subseteq 1..(Len(v) - 1) /\ \A i \in 1..(Len(v) - 1) : i \in Q <=> v[i] = 1 /\ v[i + 1] = 2
  <2> HIDE DEF Q
  <2> QED BY <1>2, PreamblesAre DEF Q
<1>5. \A i \in P : k < i
  OBVIOUS
<1>6. BmsTurn(m, P, r) /\ BmsTurn(v, Q, w)
  BY <1>2, BmsTurns
<1>7. k < size /\ m # <<>>
  BY <1>1
<1>20. v # <<>>
  BY <1>2, <1>7, <1>1
<1>21. \A i \in Nat : /\ i >= 1 /\ i + long - 1 <= size - k
                      => SubSeq(v, i, i + long - 1) = SubSeq(m, k + i, k + i + long - 1)
  <2> SUFFICES ASSUME NEW i \in Nat, i >= 1, i + long - 1 <= size - k
               PROVE  SubSeq(v, i, i + long - 1) = SubSeq(m, k + i, k + i + long - 1)
    OBVIOUS
  <2>1. long \in Nat /\ k <= Len(m) /\ 1 <= i /\ k + i + long - 1 <= Len(m)
    BY <1>1
  <2> HIDE DEF long
  <2>2. PartOfTheRest(m, k, i, long)
    BY <2>1, PartOfRest
  <2> QED BY <2>2 DEF PartOfTheRest, long
<1> HIDE DEF P, Q, long, r, w, size
<1> SUFFICES Later(r, k, w)
  BY DEF r, w
<1>8. \A i \in Q : i \in Nat /\ i >= 1 /\ k + i \in P
  <2> SUFFICES ASSUME NEW i \in Q PROVE i \in Nat /\ i >= 1 /\ k + i \in P
    OBVIOUS
  <2>1. i \in 1..(Len(v) - 1) /\ v[i] = 1 /\ v[i + 1] = 2
    BY <1>4
  <2>2. i \in 1..(size - k) /\ i + 1 \in 1..(size - k) /\ k + i \in 1..(size - 1) /\ k + (i + 1) = (k + i) + 1
    BY <2>1, <1>1, <1>2
  <2>3. m[k + i] = 1 /\ m[(k + i) + 1] = 2
    BY <2>1, <2>2, <1>2
  <2> QED BY <2>1, <2>2, <2>3, <1>3
<1>9. \A i \in P : i \in Nat /\ k < i /\ i - k \in Q /\ k + (i - k) = i
  <2> SUFFICES ASSUME NEW i \in P PROVE i \in Nat /\ k < i /\ i - k \in Q /\ k + (i - k) = i
    OBVIOUS
  <2>1. i \in 1..(size - 1) /\ m[i] = 1 /\ m[i + 1] = 2 /\ k < i
    BY <1>3, <1>5
  <2>2. /\ i - k \in 1..(size - k) /\ (i - k) + 1 \in 1..(size - k) /\ i - k \in 1..(Len(v) - 1)
        /\ k + (i - k) = i /\ k + ((i - k) + 1) = i + 1
    BY <2>1, <1>1, <1>2
  <2>3. v[i - k] = 1 /\ v[(i - k) + 1] = 2
    BY <2>1, <2>2, <1>2
  <2>4. i - k \in Q
    BY <2>2, <2>3, <1>4
  <2> QED BY <2>1, <2>2, <2>4
<1>10. CASE P = {}
  <2>1. Q = {}
    BY <1>8, <1>10
  <2>2. r = Wait(size - 1) /\ w = Wait(Len(v) - 1)
    BY <2>1, <1>10, <1>6, <1>7, <1>20 DEF BmsTurn, size
  <2>3. size - 1 \in Nat /\ Len(v) - 1 \in Nat /\ size - 1 = k + (Len(v) - 1)
    BY <1>1, <1>2, <1>7
  <2> QED BY <2>2, <2>3, LaterWait
<1>11. CASE P # {}
  <2>1. Q # {}
    BY <1>9, <1>11
  <2>2. PICK start \in P :
          /\ \A i \in P : start <= i
          /\ \/ \E next \in P : /\ start < next /\ next < start + long
                                /\ \A i \in P : start < i => next <= i
                                /\ r = Round(next - 1, 0, 0)
             \/ /\ \A i \in P : start < i => start + long <= i
                /\ \/ size < start + long - 1 /\ r = Wait(start - 1)
                   \/ /\ start + long - 1 <= size
                      /\ r = IF Checks(SubSeq(m, start, start + long - 1))
                             THEN Round(start - 1, long, 0) ELSE Round(start - 1, 0, long)
    BY <1>6, <1>11 DEF BmsTurn, long, size
  <2>3. PICK first \in Q :
          /\ \A i \in Q : first <= i
          /\ \/ \E next \in Q : /\ first < next /\ next < first + long
                                /\ \A i \in Q : first < i => next <= i
                                /\ w = Round(next - 1, 0, 0)
             \/ /\ \A i \in Q : first < i => first + long <= i
                /\ \/ Len(v) < first + long - 1 /\ w = Wait(first - 1)
                   \/ /\ first + long - 1 <= Len(v)
                      /\ w = IF Checks(SubSeq(v, first, first + long - 1))
                             THEN Round(first - 1, long, 0) ELSE Round(first - 1, 0, long)
    BY <1>6, <2>1 DEF BmsTurn, long
  <2>4. start = k + first /\ start \in Nat /\ first \in Nat /\ first >= 1
    <3>1. k + first \in P /\ start - k \in Q /\ start \in Nat /\ first \in Nat /\ first >= 1
      BY <1>8, <1>9
    <3>2. start <= k + first /\ first <= start - k
      BY <3>1, <2>2, <2>3
    <3> QED BY <3>1, <3>2
  <2>5. CASE \E next \in P : /\ start < next /\ next < start + long
                             /\ \A i \in P : start < i => next <= i
                             /\ r = Round(next - 1, 0, 0)
    <3>1. PICK next \in P : /\ start < next /\ next < start + long
                            /\ \A i \in P : start < i => next <= i
                            /\ r = Round(next - 1, 0, 0)
      BY <2>5
    <3>2. next \in Nat /\ next - k \in Q /\ first < next - k /\ next - k < first + long
      BY <3>1, <2>4, <1>9, <1>1
    <3>3. ~(\A i \in Q : first < i => first + long <= i)
      <4> SUFFICES ASSUME \A i \in Q : first < i => first + long <= i PROVE FALSE
        OBVIOUS
      <4>1. first + long <= next - k
        BY <3>2
      <4> QED BY <4>1, <3>2, <2>4, <1>1
    <3>4. PICK other \in Q : /\ first < other /\ (\A i \in Q : first < i => other <= i)
                             /\ w = Round(other - 1, 0, 0)
      BY <3>3, <2>3
    <3>5. k + other \in P /\ other \in Nat
      BY <1>8
    <3>6. other = next - k
      <4>1. other <= next - k
        BY <3>2, <3>4
      <4>2. next <= k + other
        BY <3>1, <3>4, <3>5, <2>4
      <4> QED BY <4>1, <4>2, <3>2, <3>5
    <3>7. next - 1 \in Nat /\ other - 1 \in Nat /\ next - 1 = k + (other - 1)
      BY <3>2, <3>4, <3>5, <3>6, <2>4
    <3> QED BY <3>1, <3>4, <3>7, LaterRound
  <2>6. CASE \A i \in P : start < i => start + long <= i
    <3>1. \A i \in Q : first < i => first + long <= i
      <4> SUFFICES ASSUME NEW i \in Q, first < i PROVE first + long <= i
        OBVIOUS
      <4>1. k + i \in P /\ i \in Nat /\ start < k + i
        BY <2>4, <1>8
      <4>2. start + long <= k + i
        BY <4>1, <2>6
      <4> QED BY <4>1, <4>2, <2>4, <1>1
    <3>2. ~(\E next \in P : start < next /\ next < start + long)
      <4> SUFFICES ASSUME NEW next \in P, start < next, next < start + long PROVE FALSE
        OBVIOUS
      <4>1. start + long <= next /\ next \in Nat
        BY <2>6, <1>9
      <4> QED BY <4>1, <2>4, <1>1
    <3>3. ~(\E next \in Q : first < next /\ next < first + long)
      <4> SUFFICES ASSUME NEW next \in Q, first < next, next < first + long PROVE FALSE
        OBVIOUS
      <4>1. first + long <= next /\ next \in Nat
        BY <3>1, <1>8
      <4> QED BY <4>1, <2>4, <1>1
    <3>4. /\ start - 1 \in Nat /\ first - 1 \in Nat /\ start - 1 = k + (first - 1) /\ long \in Nat /\ 0 \in Nat
          /\ (size < start + long - 1 <=> Len(v) < first + long - 1)
          /\ ~(size < start + long - 1 /\ start + long - 1 <= size)
          /\ ~(Len(v) < first + long - 1 /\ first + long - 1 <= Len(v))
      BY <2>4, <1>1, <1>2
    <3>5. CASE size < start + long - 1
      <4>1. r = Wait(start - 1) /\ w = Wait(first - 1)
        BY <3>2, <3>3, <3>4, <3>5, <2>2, <2>3
      <4> QED BY <4>1, <3>4, LaterWait
    <3>6. CASE ~(size < start + long - 1)
      <4> DEFINE f == SubSeq(m, start, start + long - 1)
                 g == SubSeq(v, first, first + long - 1)
      <4>1. g = f
        <5>1. first + long - 1 <= size - k
          BY <3>4, <3>6, <2>4, <1>1, <1>2
        <5> QED BY <5>1, <2>4, <1>21
      <4>2. r = IF Checks(f) THEN Round(start - 1, long, 0) ELSE Round(start - 1, 0, long)
        BY <3>2, <3>6, <2>2
      <4>3. w = IF Checks(g) THEN Round(first - 1, long, 0) ELSE Round(first - 1, 0, long)
        BY <3>3, <3>4, <3>6, <2>3
      <4> HIDE DEF f, g
      <4>4. CASE Checks(f)
        <5>1. r = Round(start - 1, long, 0) /\ w = Round(first - 1, long, 0)
          BY <4>1, <4>2, <4>3, <4>4
        <5> QED BY <5>1, <3>4, LaterRound
      <4>5. CASE ~Checks(f)
        <5>1. r = Round(start - 1, 0, long) /\ w = Round(first - 1, 0, long)
          BY <4>1, <4>2, <4>3, <4>5
        <5> QED BY <5>1, <3>4, LaterRound
      <4> QED BY <4>4, <4>5
    <3> QED BY <3>5, <3>6
  <2> QED BY <2>2, <2>5, <2>6
<1> QED BY <1>10, <1>11

LEMMA PreamblesOfMore ==
    ASSUME NEW s \in Seq(Byte), NEW c \in Seq(Byte)
    PROVE  \A i \in 1..(Len(s) - 1) : i \in PreamblesIn(s) <=> i \in PreamblesIn(s \o c)
<1> DEFINE m == s \o c
<1>1. /\ m \in Seq(Byte) /\ Len(m) = Len(s) + Len(c) /\ Len(s) \in Nat /\ Len(c) \in Nat
      /\ \A j \in 1..Len(s) : m[j] = s[j]
  BY MoreHas
<1> HIDE DEF m
<1>2. ASSUME NEW i \in 1..(Len(s) - 1)
      PROVE  i \in PreamblesIn(s) <=> i \in PreamblesIn(m)
  <2>1. i \in 1..Len(s) /\ i + 1 \in 1..Len(s) /\ i \in 1..(Len(m) - 1)
    BY <1>1
  <2>2. m[i] = s[i] /\ m[i + 1] = s[i + 1]
    BY <2>1, <1>1
  <2>3. i \in PreamblesIn(s) <=> s[i] = 1 /\ s[i + 1] = 2
    BY PreamblesAre
  <2>4. i \in PreamblesIn(m) <=> m[i] = 1 /\ m[i + 1] = 2
    BY <2>1, <1>1, PreamblesAre
  <2> QED BY <2>2, <2>3, <2>4
<1> QED BY <1>2 DEF m

LEMMA RestWhole ==
    ASSUME NEW B, NEW s \in Seq(B)
    PROVE  Rest(s, 1) = s
<1>1. 0 \in Nat /\ 0 <= Len(s) /\ Len(s) \in Nat /\ 0 + 1 = 1
  OBVIOUS
<1>2. /\ Rest(s, 0 + 1) \in Seq(B) /\ Len(Rest(s, 0 + 1)) = Len(s) - 0
      /\ \A j \in 1..(Len(s) - 0) : Rest(s, 0 + 1)[j] = s[0 + j]
  <2> DEFINE k == 0
  <2>1. k \in Nat /\ k <= Len(s)
    OBVIOUS
  <2> HIDE DEF k
  <2>2. /\ Rest(s, k + 1) \in Seq(B) /\ Len(Rest(s, k + 1)) = Len(s) - k
        /\ \A j \in 1..(Len(s) - k) : Rest(s, k + 1)[j] = s[k + j]
    BY <2>1, RestIs
  <2> QED BY <2>2 DEF k
<1> DEFINE t == Rest(s, 1)
<1>3. t \in Seq(B) /\ Len(t) = Len(s) /\ \A j \in 1..Len(s) : t[j] = s[j]
  BY <1>1, <1>2
<1> HIDE DEF t
<1>4. t = s
  BY <1>3, SameSequence
<1> QED BY <1>4 DEF t

\* A loop that has stopped and goes on from what it kept, when more has come,
\* does what it would have done had that come before it stopped.
LEMMA RoundResumed ==
    ASSUME NEW kind \in Kinds, NEW s \in Seq(Byte), NEW c \in Seq(Byte), Len(c) >= 1,
           ~RoundOf(kind, s).again, NEW k, k = RoundOf(kind, s).skip
    PROVE  /\ k \in Nat /\ k <= Len(s)
           /\ Later(RoundOf(kind, s \o c), k, RoundOf(kind, Rest(s, k + 1) \o c))
<1> DEFINE r == RoundOf(kind, s)
<1>1. r \in RoundRow /\ r.skip + r.take + r.over <= Len(s) /\ r.take = 0 /\ r.over = 0 /\ (kind # "bms" => r.skip = 0)
  BY RoundFits
<1>2. k \in Nat /\ k <= Len(s) /\ Len(s) \in Nat /\ Len(c) \in Nat
  BY <1>1 DEF RoundRow
<1>3. CASE kind # "bms"
  <2>1. k = 0 /\ Rest(s, 1) = s
    BY <1>1, <1>3, RestWhole
  <2>2. Rest(s, k + 1) = s
    BY <2>1
  <2>3. s \o c \in Seq(Byte)
    BY MoreHas
  <2>4. RoundOf(kind, s \o c).skip \in Nat
    BY <2>3, RoundFits DEF RoundRow
  <2> DEFINE w == RoundOf(kind, s \o c)
  <2> HIDE DEF w
  <2>5. w.skip = 0 + w.skip
    BY <2>4 DEF w
  <2>6. Later(w, k, w)
    BY <2>1, <2>5 DEF Later
  <2> QED BY <2>2, <2>6, <1>2 DEF w
<1>4. CASE kind = "bms"
  <2> DEFINE m == s \o c
             v == Rest(m, k + 1)
             P == PreamblesIn(s)
             Q == PreamblesIn(m)
  <2>1. m \in Seq(Byte) /\ Len(m) = Len(s) + Len(c)
    BY MoreHas
  <2>2. v = Rest(s, k + 1) \o c
    BY <1>2, RestOfMore
  <2>3. k < Len(m)
    BY <2>1, <1>2
  <2>4. \A i \in 1..(Len(s) - 1) : i \in P <=> i \in Q
    BY PreamblesOfMore
  <2>5. /\ P \subseteq 1..(Len(s) - 1) /\ Q \subseteq 1..(Len(m) - 1)
    BY <2>1, PreamblesAre
  <2>6. r = BmsRound(s) /\ RoundOf(kind, m) = BmsRound(m) /\ RoundOf(kind, v) = BmsRound(v)
    BY <1>4 DEF RoundOf
  <2>7. BmsTurn(s, P, r)
    BY <2>6, BmsTurns
  <2> HIDE DEF P, Q, v, m
  <2>8. \A i \in Q : k < i
    <3>0. \A i \in Q : i \in Nat /\ i >= 1
      BY <2>5
    <3>1. CASE P = {} /\ r = Wait(IF s = <<>> THEN 0 ELSE Len(s) - 1)
      <4>1. k = IF s = <<>> THEN 0 ELSE Len(s) - 1
        BY <3>1 DEF Wait
      <4>2. \A i \in Q : ~(i \in 1..(Len(s) - 1))
        BY <3>1, <2>4
      <4>3. s # <<>> => Len(s) # 0
        OBVIOUS
      <4> QED BY <4>1, <4>2, <4>3, <3>0, <1>2
    <3>2. CASE \E start \in P : (\A i \in P : start <= i) /\ r = Wait(start - 1)
      <4>1. PICK start \in P : (\A i \in P : start <= i) /\ r = Wait(start - 1)
        BY <3>2
      <4>2. k = start - 1 /\ start \in 1..(Len(s) - 1)
        BY <4>1, <2>5 DEF Wait
      <4> SUFFICES ASSUME NEW i \in Q PROVE k < i
        OBVIOUS
      <4>3. CASE i \in 1..(Len(s) - 1)
        <5>1. start <= i
          BY <4>1, <4>3, <2>4
        <5> QED BY <5>1, <4>2, <3>0
      <4>4. CASE ~(i \in 1..(Len(s) - 1))
        BY <4>2, <4>4, <3>0, <1>2
      <4> QED BY <4>3, <4>4
    <3>3. \A a, b, d : ~(r = Round(a, b, d))
      BY DEF Round
    <3>4. \A x : ~(r = IF x THEN Round(0, 0, 0) ELSE Round(0, 0, 0))
      BY <3>3
    <3>5. ASSUME NEW start \in P, start + BmsLength - 1 <= Len(s),
                 r = IF Checks(SubSeq(s, start, start + BmsLength - 1))
                     THEN Round(start - 1, BmsLength, 0) ELSE Round(start - 1, 0, BmsLength)
          PROVE  FALSE
      BY <3>5, <3>3
    <3> QED BY <3>1, <3>2, <3>3, <3>5, <2>7 DEF BmsTurn
  <2>9. Later(BmsRound(m), k, BmsRound(v))
    <3>1. m \in Seq(Byte) /\ k \in Nat /\ k < Len(m) /\ v = Rest(m, k + 1) /\ \A i \in PreamblesIn(m) : k < i
      BY <2>1, <2>3, <2>8, <1>2 DEF v, Q
    <3> HIDE DEF r
    <3> QED BY <3>1, BmsShift
  <2> QED BY <2>2, <2>6, <2>9, <1>2 DEF m, v
<1> QED BY <1>3, <1>4

-----------------------------------------------------------------------------
(* The loop.                                                                *)
FoundFrame == [at : Nat, length : Nat]
Looped == [rest : Seq(Byte), done : Nat, frames : Seq(FoundFrame), again : BOOLEAN]

\* A round leaves the bytes it was through, and has handed on at most one frame.
LEMMA RoundMade ==
    ASSUME NEW kind \in Kinds, NEW x \in Looped
    PROVE  /\ AfterRound(kind, x) \in Looped
           /\ ~x.again => AfterRound(kind, x) = x
           /\ x.again => \E n \in Nat :
                 /\ n <= Len(x.rest) /\ (AfterRound(kind, x).again => n >= 1)
                 /\ AfterRound(kind, x).done = x.done + n /\ AfterRound(kind, x).rest = Rest(x.rest, n + 1)
<1> DEFINE r == RoundOf(kind, x.rest)
           y == AfterRound(kind, x)
<1>1. x.rest \in Seq(Byte) /\ x.done \in Nat /\ x.frames \in Seq(FoundFrame) /\ x.again \in BOOLEAN
  BY DEF Looped
<1>2. CASE ~x.again
  <2>1. y = x
    BY <1>2 DEF AfterRound
  <2> QED BY <2>1, <1>2
<1>3. CASE x.again
  <2>1. /\ r \in RoundRow /\ r.skip + r.take + r.over <= Len(x.rest)
        /\ r.again => r.skip + r.take + r.over >= 1
    BY <1>1, RoundFits
  <2>2. r.skip \in Nat /\ r.take \in Nat /\ r.over \in Nat /\ r.again \in BOOLEAN
    BY <2>1 DEF RoundRow
  <2> DEFINE n == r.skip + r.take + r.over
             g == IF r.take = 0 THEN x.frames
                  ELSE Append(x.frames, [at |-> x.done + r.skip + 1, length |-> r.take])
  <2>3. y = [rest |-> Rest(x.rest, n + 1), done |-> x.done + n, again |-> r.again, frames |-> g]
    BY <1>3 DEF AfterRound
  <2>4. n \in Nat /\ n <= Len(x.rest) /\ (r.again => n >= 1)
    BY <2>1, <2>2
  <2>5. [at |-> x.done + r.skip + 1, length |-> r.take] \in FoundFrame
    BY <1>1, <2>2 DEF FoundFrame
  <2>6. g \in Seq(FoundFrame)
    <3> DEFINE e == [at |-> x.done + r.skip + 1, length |-> r.take]
    <3>1. e \in FoundFrame
      BY <2>5
    <3> HIDE DEF e
    <3>2. Append(x.frames, e) \in Seq(FoundFrame)
      BY <3>1, <1>1
    <3> QED BY <3>2, <1>1 DEF e
  <2> HIDE DEF n, g, r, y
  <2>7. Rest(x.rest, n + 1) \in Seq(Byte)
    BY <1>1, <2>4, RestIs
  <2>8. y.rest = Rest(x.rest, n + 1) /\ y.done = x.done + n /\ y.again = r.again
    BY <2>3
  <2>9. y \in Looped
    <3>1. x.done + n \in Nat
      BY <1>1, <2>4
    <3> QED BY <3>1, <2>2, <2>3, <2>6, <2>7 DEF Looped
  <2>10. \E n0 \in Nat : /\ n0 <= Len(x.rest) /\ (y.again => n0 >= 1)
                         /\ y.done = x.done + n0 /\ y.rest = Rest(x.rest, n0 + 1)
    BY <2>4, <2>8
  <2> QED BY <2>9, <2>10, <1>3 DEF y
<1> QED BY <1>2, <1>3, <1>1

LoopEnd(kind, x) == Rounds(kind, x)[Len(x.rest) + 1]

LEMMA LoopRounds ==
    ASSUME NEW kind \in Kinds, NEW x \in Looped
    PROVE  /\ Rounds(kind, x)[0] = x
           /\ \A n \in Nat : /\ Rounds(kind, x)[n] \in Looped
                             /\ Rounds(kind, x)[n + 1] = AfterRound(kind, Rounds(kind, x)[n])
<1>1. \A y \in Looped : AfterRound(kind, y) \in Looped
  BY RoundMade
<1> QED BY <1>1, RoundsOf

\* What is left after any number of rounds is what they were not through.
LEMMA LoopLeaves ==
    ASSUME NEW kind \in Kinds, NEW x \in Looped
    PROVE  \A n \in Nat : \E k \in Nat :
              /\ k <= Len(x.rest) /\ Rounds(kind, x)[n].rest = Rest(x.rest, k + 1)
              /\ Rounds(kind, x)[n].done = x.done + k
              /\ Rounds(kind, x)[n].again => k >= n
<1> DEFINE R == Rounds(kind, x)
           Left(n) == \E k \in Nat : /\ k <= Len(x.rest) /\ R[n].rest = Rest(x.rest, k + 1)
                                     /\ R[n].done = x.done + k /\ (R[n].again => k >= n)
           S == {n \in Nat : Left(n)}
<1>1. R[0] = x /\ \A n \in Nat : R[n] \in Looped /\ R[n + 1] = AfterRound(kind, R[n])
  BY LoopRounds
<1>2. x.rest \in Seq(Byte) /\ x.done \in Nat /\ Len(x.rest) \in Nat
  BY DEF Looped
<1> HIDE DEF R
<1>3. 0 \in S
  <2>1. x.rest = Rest(x.rest, 1)
    BY <1>2, RestWhole
  <2>2. R[0].rest = Rest(x.rest, 0 + 1) /\ R[0].done = x.done + 0
    BY <2>1, <1>1, <1>2
  <2> QED BY <2>2, <1>2
<1>4. ASSUME NEW n \in Nat, n \in S
      PROVE  n + 1 \in S
  <2>1. PICK k \in Nat : /\ k <= Len(x.rest) /\ R[n].rest = Rest(x.rest, k + 1)
                         /\ R[n].done = x.done + k /\ (R[n].again => k >= n)
    BY <1>4
  <2>2. R[n] \in Looped /\ R[n + 1] = AfterRound(kind, R[n])
    BY <1>1
  <2>3. CASE ~R[n].again
    <3>1. R[n + 1] = R[n]
      BY <2>2, <2>3, RoundMade
    <3>2. Left(n + 1)
      BY <3>1, <2>1, <2>3
    <3> QED BY <3>2
  <2>4. CASE R[n].again
    <3> DEFINE y == R[n]
               z == R[n + 1]
    <3>0. y \in Looped /\ z = AfterRound(kind, y) /\ y.again /\ y.rest = Rest(x.rest, k + 1) /\ y.done = x.done + k /\ k >= n
      BY <2>1, <2>2, <2>4
    <3> HIDE DEF y, z
    <3>1. PICK j \in Nat : /\ j <= Len(y.rest) /\ (z.again => j >= 1)
                           /\ z.done = y.done + j /\ z.rest = Rest(y.rest, j + 1)
      BY <3>0, RoundMade
    <3>2. Len(y.rest) = Len(x.rest) - k
      BY <3>0, <2>1, <1>2, RestIs
    <3>3. k + j \in Nat /\ k + j <= Len(x.rest) /\ (z.again => k + j >= n + 1)
      BY <3>0, <3>1, <3>2, <2>1, <1>2
    <3>4. z.rest = Rest(x.rest, k + j + 1)
      BY <3>0, <3>1, <3>3, <1>2, RestOfRest
    <3>5. z.done = x.done + (k + j)
      BY <3>0, <3>1, <1>2
    <3> DEFINE i == k + j
    <3>6. i \in Nat /\ i <= Len(x.rest) /\ z.rest = Rest(x.rest, i + 1) /\ z.done = x.done + i /\ (z.again => i >= n + 1)
      BY <3>3, <3>4, <3>5
    <3> HIDE DEF i
    <3>7. Left(n + 1)
      BY <3>6 DEF z
    <3> QED BY <3>7
  <2> QED BY <2>3, <2>4
<1> HIDE DEF S
<1>5. Nat \subseteq S
  BY <1>3, <1>4, Numbers
<1> QED BY <1>5 DEF S, R

\* It has stopped once it has been through as many rounds as there are bytes,
LEMMA LoopStops ==
    ASSUME NEW kind \in Kinds, NEW x \in Looped
    PROVE  LoopEnd(kind, x) \in Looped /\ ~LoopEnd(kind, x).again
<1> DEFINE n == Len(x.rest) + 1
           e == Rounds(kind, x)[n]
<1>1. Len(x.rest) \in Nat /\ n \in Nat
  BY DEF Looped
<1>2. e \in Looped
  BY <1>1, LoopRounds
<1>3. \E k \in Nat : k <= Len(x.rest) /\ (e.again => k >= n)
  <2> HIDE DEF n
  <2> QED BY <1>1, LoopLeaves
<1>4. ~e.again
  BY <1>1, <1>3
<1> QED BY <1>2, <1>4 DEF LoopEnd

\* and nothing more happens.
LEMMA LoopStays ==
    ASSUME NEW kind \in Kinds, NEW x \in Looped, NEW n \in Nat, ~Rounds(kind, x)[n].again
    PROVE  \A j \in Nat : Rounds(kind, x)[n + j] = Rounds(kind, x)[n]
<1> DEFINE R == Rounds(kind, x)
           S == {j \in Nat : R[n + j] = R[n]}
<1>1. \A i \in Nat : R[i] \in Looped /\ R[i + 1] = AfterRound(kind, R[i])
  BY LoopRounds
<1> HIDE DEF R
<1>2. 0 \in S
  OBVIOUS
<1>3. ASSUME NEW j \in Nat, j \in S
      PROVE  j + 1 \in S
  <2>1. n + j \in Nat /\ n + (j + 1) = (n + j) + 1 /\ R[n + j] = R[n]
    BY <1>3
  <2>2. R[n + (j + 1)] = AfterRound(kind, R[n])
    BY <2>1, <1>1
  <2>3. AfterRound(kind, R[n]) = R[n]
    BY <1>1, RoundMade DEF R
  <2> QED BY <2>2, <2>3
<1> HIDE DEF S
<1>4. Nat \subseteq S
  BY <1>2, <1>3, Numbers
<1> QED BY <1>4 DEF S, R

LEMMA LoopEnds ==
    ASSUME NEW kind \in Kinds, NEW x \in Looped, NEW n \in Nat, ~Rounds(kind, x)[n].again
    PROVE  LoopEnd(kind, x) = Rounds(kind, x)[n]
<1> DEFINE e == Len(x.rest) + 1
           R == Rounds(kind, x)
<1>1. e \in Nat /\ ~R[e].again
  BY LoopStops DEF LoopEnd, Looped
<1>2. ~R[n].again /\ LoopEnd(kind, x) = R[e]
  BY DEF LoopEnd
<1>3. \A j \in Nat : R[n + j] = R[n] /\ R[e + j] = R[e]
  <2> HIDE DEF e
  <2> QED BY <1>1, <1>2, LoopStays
<1> HIDE DEF e, R
<1>4. CASE n <= e
  <2>1. e - n \in Nat /\ n + (e - n) = e
    BY <1>1, <1>4
  <2> QED BY <2>1, <1>2, <1>3 DEF R
<1>5. CASE e <= n
  <2>1. n - e \in Nat /\ e + (n - e) = n
    BY <1>1, <1>5
  <2> QED BY <2>1, <1>2, <1>3 DEF R
<1> QED BY <1>1, <1>4, <1>5

\* Rounds after rounds are more of the same rounds.
LEMMA LoopFrom ==
    ASSUME NEW kind \in Kinds, NEW x \in Looped, NEW n \in Nat
    PROVE  LoopEnd(kind, Rounds(kind, x)[n]) = LoopEnd(kind, x)
<1> DEFINE R == Rounds(kind, x)
           y == R[n]
           Q == Rounds(kind, y)
           S == {j \in Nat : Q[j] = R[n + j]}
           e == Len(y.rest) + 1
<1>1. \A i \in Nat : R[i] \in Looped /\ R[i + 1] = AfterRound(kind, R[i])
  BY LoopRounds
<1>2. y \in Looped
  BY <1>1
<1> HIDE DEF R, y
<1>3. Q[0] = y /\ \A i \in Nat : Q[i] \in Looped /\ Q[i + 1] = AfterRound(kind, Q[i])
  BY <1>2, LoopRounds
<1>4. LoopEnd(kind, y) = Q[e] /\ ~Q[e].again /\ e \in Nat
  BY <1>2, LoopStops DEF LoopEnd, Looped
<1> HIDE DEF Q, e
<1>5. 0 \in S
  BY <1>3 DEF y
<1>6. ASSUME NEW j \in Nat, j \in S
      PROVE  j + 1 \in S
  <2>1. n + j \in Nat /\ n + (j + 1) = (n + j) + 1 /\ Q[j] = R[n + j]
    BY <1>6
  <2>2. Q[j + 1] = R[n + (j + 1)]
    BY <2>1, <1>1, <1>3
  <2> QED BY <2>2
<1> HIDE DEF S
<1>7. Nat \subseteq S
  BY <1>5, <1>6, Numbers
<1>8. Q[e] = R[n + e] /\ n + e \in Nat
  BY <1>4, <1>7 DEF S
<1>9. LoopEnd(kind, x) = R[n + e]
  <2>1. ~R[n + e].again
    BY <1>4, <1>8
  <2> DEFINE i == n + e
  <2>2. i \in Nat /\ ~Rounds(kind, x)[i].again
    BY <2>1, <1>8 DEF R
  <2> HIDE DEF i
  <2>3. LoopEnd(kind, x) = Rounds(kind, x)[i]
    BY <2>2, LoopEnds
  <2> QED BY <2>3 DEF i, R
<1> QED BY <1>4, <1>8, <1>9 DEF y, R

LEMMA LoopOnce ==
    ASSUME NEW kind \in Kinds, NEW x \in Looped
    PROVE  LoopEnd(kind, AfterRound(kind, x)) = LoopEnd(kind, x)
<1>1. Rounds(kind, x)[0] = x /\ Rounds(kind, x)[0 + 1] = AfterRound(kind, Rounds(kind, x)[0])
  BY LoopRounds
<1>2. Rounds(kind, x)[1] = AfterRound(kind, x)
  BY <1>1
<1> QED BY <1>2, LoopFrom

\* The same loop with more bytes, going on.
WithMore(x, c) == [rest |-> x.rest \o c, done |-> x.done, frames |-> x.frames, again |-> TRUE]

LEMMA OnIs ==
    ASSUME NEW x \in Looped, NEW c \in Seq(Byte)
    PROVE  WithMore(x, c) \in Looped /\ x.rest \in Seq(Byte) /\ Len(x.rest) \in Nat /\ x.done \in Nat
<1>1. x.rest \in Seq(Byte) /\ x.done \in Nat /\ x.frames \in Seq(FoundFrame)
  BY DEF Looped
<1>2. x.rest \o c \in Seq(Byte)
  BY <1>1, MoreHas
<1> QED BY <1>1, <1>2 DEF WithMore, Looped

\* What a round that leaves n bytes in all makes of the loop.
RoundMakes(x, n, skip, take, again) ==
          [rest |-> Rest(x.rest, n + 1), done |-> x.done + n, again |-> again,
           frames |-> IF take = 0 THEN x.frames
                      ELSE Append(x.frames, [at |-> x.done + skip + 1, length |-> take])]

LEMMA MadeBy ==
    ASSUME NEW kind \in Kinds, NEW x \in Looped, x.again, NEW r, r = RoundOf(kind, x.rest)
    PROVE  /\ AfterRound(kind, x) = RoundMakes(x, r.skip + r.take + r.over, r.skip, r.take, r.again)
           /\ r.skip \in Nat /\ r.take \in Nat /\ r.over \in Nat /\ r.again \in BOOLEAN
           /\ r.skip + r.take + r.over \in Nat /\ r.skip + r.take + r.over <= Len(x.rest)
           /\ ~r.again => r.take = 0 /\ r.over = 0
<1>1. x.rest \in Seq(Byte)
  BY DEF Looped
<1>2. r \in RoundRow /\ r.skip + r.take + r.over <= Len(x.rest) /\ (~r.again => r.take = 0 /\ r.over = 0)
  BY <1>1, RoundFits
<1>3. r.skip \in Nat /\ r.take \in Nat /\ r.over \in Nat /\ r.again \in BOOLEAN
  BY <1>2 DEF RoundRow
<1>4. AfterRound(kind, x) = RoundMakes(x, r.skip + r.take + r.over, r.skip, r.take, r.again)
  BY DEF AfterRound, RoundMakes
<1> QED BY <1>2, <1>3, <1>4

LEMMA RoundOn ==
    ASSUME NEW kind \in Kinds, NEW x \in Looped, NEW c \in Seq(Byte), x.again, AfterRound(kind, x).again,
           kind = "bms" => ~HeadCrossed(x.rest \o c)
    PROVE  AfterRound(kind, WithMore(x, c)) = WithMore(AfterRound(kind, x), c)
<1> DEFINE r == RoundOf(kind, x.rest)
           w == RoundOf(kind, x.rest \o c)
           n == r.skip + r.take + r.over
           y == WithMore(x, c)
           z == AfterRound(kind, x)
<1>1. y \in Looped /\ x.rest \in Seq(Byte) /\ Len(x.rest) \in Nat /\ x.done \in Nat
  BY OnIs
<1>2. y.rest = x.rest \o c /\ y.done = x.done /\ y.frames = x.frames /\ y.again
  BY DEF WithMore
<1>3. z = RoundMakes(x, n, r.skip, r.take, r.again) /\ n \in Nat /\ n <= Len(x.rest)
  BY MadeBy
<1>4. r.again = TRUE
  <2>1. z.again = r.again
    <3> HIDE DEF z, r, n
    <3> QED BY <1>3 DEF RoundMakes
  <2>2. r.again \in BOOLEAN
    BY MadeBy
  <2> QED BY <2>1, <2>2
<1>5. w = r
  BY <1>1, <1>4, RoundKept
<1>6. AfterRound(kind, y) = RoundMakes(y, w.skip + w.take + w.over, w.skip, w.take, w.again)
  <2> HIDE DEF y, r, n, z
  <2> QED BY <1>1, <1>2, MadeBy
<1>7. Rest(x.rest \o c, n + 1) = Rest(x.rest, n + 1) \o c
  <2> HIDE DEF n
  <2> QED BY <1>1, <1>3, RestOfMore
<1> HIDE DEF y, z, r, w
<1>8. AfterRound(kind, y) = RoundMakes(y, n, r.skip, r.take, TRUE)
  BY <1>4, <1>5, <1>6
<1> HIDE DEF n
<1>9. RoundMakes(y, n, r.skip, r.take, TRUE) = WithMore(z, c)
  BY <1>2, <1>3, <1>7 DEF RoundMakes, WithMore
<1> QED BY <1>8, <1>9 DEF y, z

LEMMA RoundAgain ==
    ASSUME NEW kind \in Kinds, NEW x \in Looped, NEW c \in Seq(Byte), Len(c) >= 1, x.again,
           ~AfterRound(kind, x).again
    PROVE  AfterRound(kind, WithMore(x, c)) = AfterRound(kind, WithMore(AfterRound(kind, x), c))
<1> DEFINE r == RoundOf(kind, x.rest)
           k == r.skip
           z == AfterRound(kind, x)
           y == WithMore(x, c)
           v == WithMore(z, c)
           s == x.rest
           t == Rest(s, k + 1)
           w == RoundOf(kind, s \o c)
           q == RoundOf(kind, t \o c)
<1>1. y \in Looped /\ s \in Seq(Byte) /\ Len(s) \in Nat /\ x.done \in Nat
  BY OnIs
<1>2. y.rest = s \o c /\ y.done = x.done /\ y.frames = x.frames /\ y.again
  BY DEF WithMore
<1>3. z = RoundMakes(x, k + r.take + r.over, k, r.take, r.again) /\ r.again \in BOOLEAN /\ k \in Nat
  BY MadeBy
<1>4. r.again = FALSE /\ r.take = 0 /\ r.over = 0
  <2>1. z.again = r.again
    BY <1>3 DEF RoundMakes
  <2>2. ~r.again => r.take = 0 /\ r.over = 0
    BY MadeBy
  <2> QED BY <2>1, <2>2, <1>3
<1>5. /\ k <= Len(s) /\ Later(w, k, q)
  BY <1>1, <1>4, RoundResumed
<1>6. z.rest = t /\ z.done = x.done + k /\ z.frames = x.frames /\ z \in Looped
  <2>1. k + r.take + r.over = k
    BY <1>3, <1>4
  <2>2. z \in Looped
    BY RoundMade
  <2> HIDE DEF k, r, z
  <2> QED BY <2>1, <2>2, <1>3, <1>4 DEF RoundMakes, t
<1>7. v \in Looped /\ v.rest = t \o c /\ v.done = x.done + k /\ v.frames = x.frames /\ v.again
  <2> HIDE DEF z, t, k
  <2>1. v \in Looped
    BY <1>6, OnIs
  <2> QED BY <2>1, <1>6 DEF WithMore
<1>8. s \o c \in Seq(Byte) /\ Len(s \o c) = Len(s) + Len(c) /\ Len(c) \in Nat
  BY <1>1, MoreHas
<1>9. Rest(s \o c, k + 1) = t \o c
  <2> HIDE DEF k
  <2> QED BY <1>1, <1>3, <1>5, RestOfMore
<1>10. /\ AfterRound(kind, y) = RoundMakes(y, w.skip + w.take + w.over, w.skip, w.take, w.again)
       /\ w.skip \in Nat /\ w.take \in Nat /\ w.over \in Nat
       /\ w.skip + w.take + w.over \in Nat /\ w.skip + w.take + w.over <= Len(s \o c)
  <2> HIDE DEF y, r, z, v, t
  <2> QED BY <1>1, <1>2, MadeBy
<1>11. /\ AfterRound(kind, v) = RoundMakes(v, q.skip + q.take + q.over, q.skip, q.take, q.again)
       /\ q.skip \in Nat /\ q.take \in Nat /\ q.over \in Nat
  <2> HIDE DEF y, r, z, v, t, w
  <2> QED BY <1>7, MadeBy
<1> DEFINE n == q.skip + q.take + q.over
           u == s \o c
<1>12. w.skip = k + q.skip /\ w.take = q.take /\ w.over = q.over /\ w.again = q.again
  BY <1>5 DEF Later
<1> HIDE DEF y, z, r, w, v, q, t, k
<1>13. w.skip + w.take + w.over = k + n /\ n \in Nat /\ k + n <= Len(u)
  <2>1. w.skip + w.take + w.over = k + n
    BY <1>3, <1>11, <1>12
  <2>2. n \in Nat
    BY <1>11
  <2> HIDE DEF n
  <2> QED BY <2>1, <2>2, <1>10
<1>14. Rest(t \o c, n + 1) = Rest(u, k + n + 1)
  <2> HIDE DEF n, u
  <2>1. u \in Seq(Byte) /\ Rest(u, k + 1) = t \o c
    BY <1>8, <1>9 DEF u
  <2>2. Rest(Rest(u, k + 1), n + 1) = Rest(u, k + n + 1)
    BY <2>1, <1>3, <1>13, RestOfRest
  <2> QED BY <2>1, <2>2
<1> HIDE DEF n, u, s
<1>15. RoundMakes(y, k + n, k + q.skip, q.take, q.again) = RoundMakes(v, n, q.skip, q.take, q.again)
  <2>1. x.done + (k + n) = (x.done + k) + n /\ x.done + (k + q.skip) + 1 = (x.done + k) + q.skip + 1
    BY <1>1, <1>3, <1>11, <1>13
  <2>2. y.rest = u
    BY <1>2 DEF u
  <2>3. Rest(y.rest, (k + n) + 1) = Rest(v.rest, n + 1)
    BY <2>2, <1>7, <1>14
  <2>4. y.done + (k + n) = v.done + n /\ y.done + (k + q.skip) + 1 = v.done + q.skip + 1 /\ y.frames = v.frames
    BY <2>1, <1>2, <1>7
  <2> QED BY <2>3, <2>4 DEF RoundMakes
<1>16. AfterRound(kind, y) = AfterRound(kind, v)
  BY <1>10, <1>11, <1>12, <1>13, <1>15 DEF n
<1> QED BY <1>16 DEF y, v, z

LEMMA CutOfRest ==
    ASSUME NEW m \in Seq(Byte), NEW k \in Nat, k <= Len(m), HeadCrossed(Rest(m, k + 1))
    PROVE  HeadCrossed(m)
<1> DEFINE v == Rest(m, k + 1)
<1>1. v \in Seq(Byte) /\ Len(v) = Len(m) - k /\ Len(m) \in Nat /\ \A j \in 1..(Len(m) - k) : v[j] = m[k + j]
  <2>1. m \in Seq(Byte) /\ k <= Len(m) /\ Len(m) \in Nat
    OBVIOUS
  <2>2. Rest(m, k + 1) \in Seq(Byte) /\ Len(Rest(m, k + 1)) = Len(m) - k
    BY <2>1, RestIs
  <2>3. \A j \in 1..(Len(m) - k) : Rest(m, k + 1)[j] = m[k + j]
    BY <2>1, RestIs
  <2> QED BY <2>1, <2>2, <2>3
<1>2. PICK p, q \in PreamblesIn(v) : q = p + BmsLength - 1
  BY DEF HeadCrossed
<1> HIDE DEF v
<1>3. \A i \in PreamblesIn(v) : i \in Nat /\ k + i \in PreamblesIn(m)
  <2> SUFFICES ASSUME NEW i \in PreamblesIn(v) PROVE i \in Nat /\ k + i \in PreamblesIn(m)
    OBVIOUS
  <2>1. i \in 1..(Len(v) - 1) /\ v[i] = 1 /\ v[i + 1] = 2
    <3>1. i \in 1..(Len(v) - 1)
      BY <1>1, PreamblesAre
    <3> QED BY <3>1, <1>1, PreamblesAre
  <2>2. /\ i \in 1..(Len(m) - k) /\ i + 1 \in 1..(Len(m) - k) /\ k + i \in 1..(Len(m) - 1)
        /\ k + (i + 1) = (k + i) + 1
    BY <2>1, <1>1
  <2>3. m[k + i] = 1 /\ m[(k + i) + 1] = 2
    BY <2>1, <2>2, <1>1
  <2> QED BY <2>2, <2>3, PreamblesAre
<1>4. k + q = (k + p) + BmsLength - 1
  BY <1>2, <1>3, StreamNumbers
<1> QED BY <1>2, <1>3, <1>4 DEF HeadCrossed

\* However the bytes come, the loop gets to the same end.
LEMMA LoopResumed ==
    ASSUME NEW kind \in Kinds, NEW x \in Looped, NEW c \in Seq(Byte), Len(c) >= 1, x.again,
           kind = "bms" => ~HeadCrossed(x.rest \o c)
    PROVE  LoopEnd(kind, WithMore(x, c)) = LoopEnd(kind, WithMore(LoopEnd(kind, x), c))
<1> DEFINE R == Rounds(kind, x)
           Q == Rounds(kind, WithMore(x, c))
           Stopped == {n \in Nat : ~R[n].again}
           S == {n \in Nat : R[n].again => Q[n] = WithMore(R[n], c)}
<1>1. R[0] = x /\ \A n \in Nat : R[n] \in Looped /\ R[n + 1] = AfterRound(kind, R[n])
  BY LoopRounds
<1>2. WithMore(x, c) \in Looped /\ x.rest \in Seq(Byte) /\ Len(x.rest) \in Nat
  BY OnIs
<1>3. Q[0] = WithMore(x, c) /\ \A n \in Nat : Q[n] \in Looped /\ Q[n + 1] = AfterRound(kind, Q[n])
  BY <1>2, LoopRounds
<1>4. \A n \in Nat : \E k \in Nat : k <= Len(x.rest) /\ R[n].rest = Rest(x.rest, k + 1)
  BY LoopLeaves
<1>5. PICK e \in Nat : ~R[e].again /\ R[e] = LoopEnd(kind, x)
  <2>1. Len(x.rest) + 1 \in Nat
    BY <1>2
  <2> QED BY <2>1, LoopStops DEF LoopEnd
<1> HIDE DEF R, Q
<1>6. \A n \in Nat : kind = "bms" => ~HeadCrossed(R[n].rest \o c)
  <2> SUFFICES ASSUME NEW n \in Nat, kind = "bms" PROVE ~HeadCrossed(R[n].rest \o c)
    OBVIOUS
  <2>1. PICK k \in Nat : k <= Len(x.rest) /\ R[n].rest = Rest(x.rest, k + 1)
    BY <1>4
  <2> DEFINE m == x.rest \o c
  <2>4. Rest(x.rest \o c, k + 1) = Rest(x.rest, k + 1) \o c
    <3> DEFINE s == x.rest
    <3>1. s \in Seq(Byte) /\ k <= Len(s)
      BY <2>1, <1>2
    <3> HIDE DEF s, m
    <3>2. Rest(s \o c, k + 1) = Rest(s, k + 1) \o c
      BY <3>1, RestOfMore
    <3> QED BY <3>2 DEF s
  <2>2. Rest(m, k + 1) = R[n].rest \o c
    BY <2>1, <2>4
  <2>3. m \in Seq(Byte) /\ k <= Len(m) /\ ~HeadCrossed(m)
    BY <2>1, <1>2, MoreHas
  <2> HIDE DEF m
  <2> QED BY <2>2, <2>3, CutOfRest
<1>7. 0 \in S
  BY <1>1, <1>3
<1>8. ASSUME NEW n \in Nat, n \in S
      PROVE  n + 1 \in S
  <2> SUFFICES ASSUME R[n + 1].again PROVE Q[n + 1] = WithMore(R[n + 1], c)
    OBVIOUS
  <2>1. R[n] \in Looped /\ R[n + 1] = AfterRound(kind, R[n]) /\ Q[n + 1] = AfterRound(kind, Q[n])
    BY <1>1, <1>3
  <2>2. R[n].again
    BY <2>1, RoundMade
  <2>3. Q[n] = WithMore(R[n], c)
    BY <2>2, <1>8
  <2>4. AfterRound(kind, WithMore(R[n], c)) = WithMore(AfterRound(kind, R[n]), c)
    BY <2>1, <2>2, <1>6, RoundOn
  <2> QED BY <2>1, <2>3, <2>4
<1> HIDE DEF S
<1>9. Nat \subseteq S
  BY <1>7, <1>8, Numbers
<1>10. PICK least \in Stopped : \A n \in Stopped : least <= n
  <2>1. Stopped \subseteq Nat /\ e \in Stopped
    BY <1>5
  <2> HIDE DEF Stopped
  <2> QED BY <2>1, LeastNumber
<1>11. least \in Nat /\ ~R[least].again /\ least # 0
  BY <1>1, <1>10
<1> DEFINE n == least - 1
<1>12. n \in Nat /\ n + 1 = least /\ n \notin Stopped
  BY <1>10, <1>11
<1> HIDE DEF n
<1>13. R[n].again /\ R[n] \in Looped /\ R[n + 1] = AfterRound(kind, R[n]) /\ Q[n] = WithMore(R[n], c)
  BY <1>1, <1>9, <1>12 DEF S
<1>14. LoopEnd(kind, x) = R[n + 1]
  <2>1. ~Rounds(kind, x)[n + 1].again /\ n + 1 \in Nat
    BY <1>11, <1>12 DEF R
  <2> DEFINE i == n + 1
  <2> HIDE DEF i
  <2>2. i \in Nat /\ ~Rounds(kind, x)[i].again
    BY <2>1 DEF i
  <2>3. LoopEnd(kind, x) = Rounds(kind, x)[i]
    BY <2>2, LoopEnds
  <2> QED BY <2>3 DEF i, R
<1> DEFINE y == R[n]
           z == R[n + 1]
<1>15. y \in Looped /\ y.again /\ z = AfterRound(kind, y) /\ ~z.again /\ z \in Looped /\ z = LoopEnd(kind, x) /\ Q[n] = WithMore(y, c)
  BY <1>1, <1>11, <1>12, <1>13, <1>14
<1> HIDE DEF y, z
<1>16. WithMore(y, c) \in Looped /\ WithMore(z, c) \in Looped
  BY <1>15, OnIs
<1>17. AfterRound(kind, WithMore(y, c)) = AfterRound(kind, WithMore(z, c))
  BY <1>15, RoundAgain
<1>18. LoopEnd(kind, WithMore(y, c)) = LoopEnd(kind, WithMore(z, c))
  <2>1. LoopEnd(kind, AfterRound(kind, WithMore(y, c))) = LoopEnd(kind, WithMore(y, c))
    BY <1>16, LoopOnce
  <2>2. LoopEnd(kind, AfterRound(kind, WithMore(z, c))) = LoopEnd(kind, WithMore(z, c))
    BY <1>16, LoopOnce
  <2> QED BY <2>1, <2>2, <1>17
<1>19. LoopEnd(kind, WithMore(y, c)) = LoopEnd(kind, WithMore(x, c))
  <2>1. LoopEnd(kind, Rounds(kind, WithMore(x, c))[n]) = LoopEnd(kind, WithMore(x, c))
    BY <1>2, <1>12, LoopFrom
  <2> QED BY <2>1, <1>15 DEF Q
<1> QED BY <1>15, <1>18, <1>19

-----------------------------------------------------------------------------
(* Whole frames.                                                            *)
WholeIn(S, p, length) == p + length - 1 <= Len(S) /\ Checks(SubSeq(S, p, p + length - 1))

HeadLength(kind, S, p) ==
    IF kind = "response" \/ S[p + 1] = WRITE THEN Fixed + S[p + 2] ELSE Fixed

HeadIn(kind, S, p) ==
    /\ S[p] # 0
    /\ S[p + 1] \in IF kind = "request" THEN {READ, WRITE} ELSE {READ}
    /\ kind = "response" => S[p + 2] # 0 /\ S[p + 2] % 2 = 0

FrameIn(kind, S, p) ==
    IF kind = "bms"
    THEN IF /\ p \in PreamblesIn(S) /\ WholeIn(S, p, BmsLength)
            /\ ~\E q \in PreamblesIn(S) : p < q /\ q < p + BmsLength
         THEN BmsLength ELSE 0
    ELSE IF kind = "logger" \/ ~(p + Fixed - 1 <= Len(S)) THEN 0
    ELSE IF HeadIn(kind, S, p) /\ WholeIn(S, p, HeadLength(kind, S, p)) THEN HeadLength(kind, S, p) ELSE 0

LEMMA FrameAtIs == \A p : FrameAt(p) = FrameIn(parser, stream, p)
BY DEF FrameAt, FrameIn, Whole, WholeIn, HeadIn, HeadLength

\* What a parser at the front of a buffer sees of the stream.
FrontOf(S, d, s) ==
    /\ s \in Seq(Byte) /\ Len(s) = Len(S) - d /\ Len(S) \in Nat /\ Len(s) \in Nat
    /\ Len(s) >= 4 => /\ S[d + 1] = s[1] /\ S[(d + 1) + 1] = s[2] /\ S[(d + 1) + 2] = s[3]
                      /\ s[1] \in Nat /\ s[2] \in Nat /\ s[3] \in Nat
    /\ \A n \in Nat : n <= Len(s) => SubSeq(S, d + 1, d + 1 + n - 1) = SubSeq(s, 1, n)

LEMMA FrontIs ==
    ASSUME NEW S \in Seq(Byte), NEW d \in Nat, d <= Len(S), NEW s, s = Rest(S, d + 1)
    PROVE  FrontOf(S, d, s)
<1>1. s \in Seq(Byte) /\ Len(s) = Len(S) - d /\ Len(S) \in Nat /\ \A j \in 1..(Len(S) - d) : s[j] = S[d + j]
  <2>1. S \in Seq(Byte) /\ d <= Len(S) /\ Len(S) \in Nat
    OBVIOUS
  <2>2. Rest(S, d + 1) \in Seq(Byte) /\ Len(Rest(S, d + 1)) = Len(S) - d
    BY <2>1, RestIs
  <2>3. \A j \in 1..(Len(S) - d) : Rest(S, d + 1)[j] = S[d + j]
    BY <2>1, RestIs
  <2> QED BY <2>1, <2>2, <2>3
<1>2. ASSUME Len(s) >= 4
      PROVE  /\ S[d + 1] = s[1] /\ S[(d + 1) + 1] = s[2] /\ S[(d + 1) + 2] = s[3]
             /\ s[1] \in Nat /\ s[2] \in Nat /\ s[3] \in Nat
  <2>1. /\ 1 \in 1..Len(s) /\ 2 \in 1..Len(s) /\ 3 \in 1..Len(s)
        /\ d + 2 = (d + 1) + 1 /\ d + 3 = (d + 1) + 2
    BY <1>1, <1>2
  <2>2. s[1] \in Byte /\ s[2] \in Byte /\ s[3] \in Byte
    BY <1>1, <2>1
  <2>3. s[1] = S[d + 1] /\ s[2] = S[d + 2] /\ s[3] = S[d + 3]
    BY <1>1, <2>1
  <2> QED BY <2>1, <2>2, <2>3, StreamNumbers
<1>3. ASSUME NEW n \in Nat, n <= Len(s)
      PROVE  SubSeq(S, d + 1, d + 1 + n - 1) = SubSeq(s, 1, n)
  <2> DEFINE i == 1
  <2>1. i \in Nat /\ 1 <= i /\ d + i + n - 1 <= Len(S) /\ i + n - 1 = n
    BY <1>1, <1>3
  <2> HIDE DEF i
  <2>2. PartOfTheRest(S, d, i, n)
    BY <2>1, PartOfRest
  <2>3. SubSeq(Rest(S, d + 1), i, n) = SubSeq(S, d + i, d + i + n - 1)
    BY <2>1, <2>2 DEF PartOfTheRest
  <2> QED BY <2>3 DEF i
<1>4. Len(s) \in Nat
  BY <1>1
<1> QED BY <1>1, <1>2, <1>3, <1>4 DEF FrontOf

LEMMA PreamblesOfRest ==
    ASSUME NEW S \in Seq(Byte), NEW d \in Nat, d <= Len(S), NEW s, s = Rest(S, d + 1)
    PROVE  /\ \A i \in PreamblesIn(s) : d + i \in PreamblesIn(S)
           /\ \A i \in Nat : i >= 1 /\ d + i \in PreamblesIn(S) => i \in PreamblesIn(s)
<1>1. s \in Seq(Byte) /\ Len(s) = Len(S) - d /\ Len(S) \in Nat /\ \A j \in 1..(Len(S) - d) : s[j] = S[d + j]
  <2>1. S \in Seq(Byte) /\ d <= Len(S) /\ Len(S) \in Nat
    OBVIOUS
  <2>2. Rest(S, d + 1) \in Seq(Byte) /\ Len(Rest(S, d + 1)) = Len(S) - d
    BY <2>1, RestIs
  <2>3. \A j \in 1..(Len(S) - d) : Rest(S, d + 1)[j] = S[d + j]
    BY <2>1, RestIs
  <2> QED BY <2>1, <2>2, <2>3
<1>2. ASSUME NEW i \in 1..(Len(s) - 1)
      PROVE  i \in PreamblesIn(s) <=> d + i \in PreamblesIn(S)
  <2>1. /\ i \in 1..(Len(S) - d) /\ i + 1 \in 1..(Len(S) - d) /\ d + i \in 1..(Len(S) - 1)
        /\ d + (i + 1) = (d + i) + 1
    BY <1>1
  <2>2. S[d + i] = s[i] /\ S[(d + i) + 1] = s[i + 1]
    BY <2>1, <1>1
  <2>3. i \in PreamblesIn(s) <=> s[i] = 1 /\ s[i + 1] = 2
    BY <1>1, PreamblesAre
  <2> DEFINE j == d + i
  <2>4. j \in PreamblesIn(S) <=> S[j] = 1 /\ S[j + 1] = 2
    <3>1. j \in 1..(Len(S) - 1)
      BY <2>1
    <3> HIDE DEF j
    <3> QED BY <3>1, PreamblesAre
  <2> QED BY <2>2, <2>3, <2>4
<1>3. PreamblesIn(s) \subseteq 1..(Len(s) - 1) /\ PreamblesIn(S) \subseteq 1..(Len(S) - 1)
  BY <1>1, PreamblesAre
<1>4. \A i \in Nat : i >= 1 /\ d + i \in PreamblesIn(S) => i \in 1..(Len(s) - 1)
  <2> SUFFICES ASSUME NEW i \in Nat, i >= 1, d + i \in PreamblesIn(S) PROVE i \in 1..(Len(s) - 1)
    OBVIOUS
  <2>1. d + i \in 1..(Len(S) - 1)
    BY <1>3
  <2> QED BY <2>1, <1>1
<1> QED BY <1>2, <1>3, <1>4

\* A frame that begins where a round passes is handed on by it, or is a write
\* request, or is inside one.
Passed(kind, S, d, r, j) ==
    \/ r.take # 0 /\ r.skip < j /\ j <= r.skip + r.take
    \/ kind = "request" /\ S[(d + j) + 1] = WRITE
    \/ \E q \in 1..(d + j - 1) : FrameIn(kind, S, q) # 0 /\ d + j < q + FrameIn(kind, S, q)

LEMMA BmsPasses ==
    ASSUME NEW S \in Seq(Byte), NEW d \in Nat, d <= Len(S), NEW s, s = Rest(S, d + 1),
           NEW r, r = BmsRound(s), NEW j \in 1..(r.skip + r.take + r.over), FrameIn("bms", S, d + j) # 0
    PROVE  Passed("bms", S, d, r, j)
<1> DEFINE P == PreamblesIn(s)
<1>1. s \in Seq(Byte) /\ Len(s) = Len(S) - d /\ Len(S) \in Nat /\ Len(s) \in Nat
  BY FrontIs DEF FrontOf
<1>2. BmsTurn(s, P, r) /\ P \subseteq 1..(Len(s) - 1) /\ BmsLength \in Nat /\ BmsLength > 2
  BY <1>1, BmsTurns, PreamblesAre, StreamNumbers
<1>3. j \in Nat /\ j >= 1 /\ j <= r.skip + r.take + r.over
  <2>1. RoundOf("bms", s) = r /\ "bms" \in Kinds
    BY DEF RoundOf, Kinds
  <2>2. r \in RoundRow
    BY <2>1, <1>1, RoundFits
  <2> QED BY <2>2 DEF RoundRow
<1>4. /\ d + j \in PreamblesIn(S) /\ WholeIn(S, d + j, BmsLength)
      /\ ~\E q \in PreamblesIn(S) : d + j < q /\ q < d + j + BmsLength
  BY DEF FrameIn
<1>5. j \in P
  BY <1>3, <1>4, PreamblesOfRest
<1>6. \A i \in P : i \in Nat /\ i >= 1 /\ i <= Len(s) /\ ~(j < i /\ i < j + BmsLength)
  <2> SUFFICES ASSUME NEW i \in P PROVE i \in Nat /\ i >= 1 /\ i <= Len(s) /\ ~(j < i /\ i < j + BmsLength)
    OBVIOUS
  <2>1. i \in Nat /\ i >= 1 /\ i <= Len(s) /\ d + i \in PreamblesIn(S)
    BY <1>1, <1>2, PreamblesOfRest
  <2>2. ~(d + j < d + i /\ d + i < d + j + BmsLength)
    BY <2>1, <1>4
  <2> QED BY <2>1, <2>2, <1>2, <1>3
<1>7. Checks(SubSeq(s, j, j + BmsLength - 1))
  <2>1. d + j + BmsLength - 1 <= Len(S) /\ Checks(SubSeq(S, d + j, d + j + BmsLength - 1))
    BY <1>4 DEF WholeIn
  <2>2. PartOfTheRest(S, d, j, BmsLength)
    BY <2>1, <1>2, <1>3, PartOfRest
  <2> QED BY <2>1, <2>2 DEF PartOfTheRest
<1> HIDE DEF P
<1>8. PICK start \in P :
          /\ \A i \in P : start <= i
          /\ \/ \E next \in P : /\ start < next /\ next < start + BmsLength
                                /\ \A i \in P : start < i => next <= i
                                /\ r = Round(next - 1, 0, 0)
             \/ /\ \A i \in P : start < i => start + BmsLength <= i
                /\ \/ Len(s) < start + BmsLength - 1 /\ r = Wait(start - 1)
                   \/ /\ start + BmsLength - 1 <= Len(s)
                      /\ r = IF Checks(SubSeq(s, start, start + BmsLength - 1))
                             THEN Round(start - 1, BmsLength, 0) ELSE Round(start - 1, 0, BmsLength)
  BY <1>2, <1>5 DEF BmsTurn
<1>9. start \in Nat /\ start >= 1 /\ start <= j
  BY <1>5, <1>6, <1>8
<1>10. ASSUME NEW next \in P, start < next, next < start + BmsLength,
              \A i \in P : start < i => next <= i, r = Round(next - 1, 0, 0)
       PROVE  FALSE
  <2>1. next \in Nat /\ next >= 1 /\ ~(j < next /\ next < j + BmsLength)
    BY <1>6
  <2>2. r.skip = next - 1 /\ r.take = 0 /\ r.over = 0
    BY <1>10 DEF Round
  <2>3. j <= next - 1
    BY <2>1, <2>2, <1>3
  <2>4. ~(start < j)
    BY <2>1, <2>3, <1>3, <1>5, <1>10
  <2> QED BY <2>1, <2>3, <2>4, <1>2, <1>3, <1>9, <1>10
<1>11. ~(r = Wait(start - 1))
  <2> SUFFICES ASSUME r = Wait(start - 1) PROVE FALSE
    OBVIOUS
  <2>1. r.skip = start - 1 /\ r.take = 0 /\ r.over = 0
    BY DEF Wait
  <2> QED BY <2>1, <1>3, <1>9
<1>12. ASSUME \A i \in P : start < i => start + BmsLength <= i,
              r = IF Checks(SubSeq(s, start, start + BmsLength - 1))
                  THEN Round(start - 1, BmsLength, 0) ELSE Round(start - 1, 0, BmsLength)
       PROVE  Passed("bms", S, d, r, j)
  <2>1. r.skip + r.take + r.over = start - 1 + BmsLength
    <3>1. r = Round(start - 1, BmsLength, 0) \/ r = Round(start - 1, 0, BmsLength)
      BY <1>12
    <3>2. r.skip = start - 1 /\ ((r.take = BmsLength /\ r.over = 0) \/ (r.take = 0 /\ r.over = BmsLength))
      BY <3>1 DEF Round
    <3> QED BY <3>2, <1>2, <1>9
  <2>2. j = start
    <3>1. ~(start + BmsLength <= j)
      BY <2>1, <1>2, <1>3, <1>9
    <3>2. ~(start < j)
      BY <3>1, <1>5, <1>12
    <3> QED BY <3>2, <1>3, <1>9
  <2>3. r = Round(start - 1, BmsLength, 0)
    BY <2>2, <1>7, <1>12
  <2>4. r.take = BmsLength /\ r.skip = start - 1
    BY <2>3 DEF Round
  <2>5. r.take # 0 /\ r.skip < j /\ j <= r.skip + r.take
    BY <2>2, <2>4, <1>2, <1>9
  <2> QED BY <2>5 DEF Passed
<1> QED BY <1>8, <1>10, <1>11, <1>12

LEMMA RequestPasses ==
    ASSUME NEW S \in Seq(Byte), NEW d \in Nat, d <= Len(S), NEW s, s = Rest(S, d + 1),
           NEW r, r = RequestRound(s), NEW j \in 1..(r.skip + r.take + r.over), FrameIn("request", S, d + j) # 0
    PROVE  Passed("request", S, d, r, j)
<1> DEFINE n == IF s[2] = WRITE THEN Fixed + s[3] ELSE Fixed
           Bad == s[1] = 0 \/ s[2] \notin {READ, WRITE}
           p == d + 1
<1>1. /\ s \in Seq(Byte) /\ Len(s) = Len(S) - d /\ Len(S) \in Nat /\ Len(s) \in Nat
      /\ Len(s) >= 4 => /\ S[d + 1] = s[1] /\ S[(d + 1) + 1] = s[2] /\ S[(d + 1) + 2] = s[3]
                        /\ s[1] \in Nat /\ s[2] \in Nat /\ s[3] \in Nat
      /\ \A i \in Nat : i <= Len(s) => SubSeq(S, d + 1, d + 1 + i - 1) = SubSeq(s, 1, i)
  <2>1. FrontOf(S, d, s)
    BY FrontIs
  <2> QED BY <2>1 DEF FrontOf
<1>2. r = IF Len(s) < Fixed THEN Wait(0) ELSE IF Bad THEN Round(1, 0, 0)
        ELSE IF Len(s) < n THEN Wait(0) ELSE IF ~Checks(SubSeq(s, 1, n)) THEN Round(1, 0, 0)
        ELSE IF s[2] = READ THEN Round(0, n, 0) ELSE Round(0, 0, n)
  BY DEF RequestRound
<1>3. j \in Nat /\ j >= 1 /\ j <= r.skip + r.take + r.over
  <2>1. RoundOf("request", s) = r /\ "request" \in Kinds
    BY DEF RoundOf, Kinds
  <2>2. r \in RoundRow
    BY <2>1, <1>1, RoundFits
  <2> QED BY <2>2 DEF RoundRow
<1>4. ~(r = Wait(0))
  <2> SUFFICES ASSUME r = Wait(0) PROVE FALSE
    OBVIOUS
  <2>1. r.skip + r.take + r.over = 0
    BY DEF Wait
  <2> QED BY <2>1, <1>3
<1>5. Len(s) >= 4 /\ Fixed = 4
  <2>1. Fixed = 4
    BY DEF Fixed
  <2>2. ~(Len(s) < Fixed)
    <3> HIDE DEF n, Bad
    <3> QED BY <1>2, <1>4
  <2> QED BY <2>1, <2>2, <1>1
<1>6. p \in Nat /\ S[p] = s[1] /\ S[p + 1] = s[2] /\ S[p + 2] = s[3] /\ s[3] \in Nat
  BY <1>1, <1>5
<1>7. n \in Nat /\ n >= 4 /\ HeadLength("request", S, p) = n /\ (~Bad => HeadIn("request", S, p))
  <2>1. n \in Nat /\ n >= 4
    BY <1>5, <1>6
  <2>2. HeadLength("request", S, p) = n
    <3> HIDE DEF p
    <3> QED BY <1>6 DEF HeadLength
  <2>3. ~Bad => HeadIn("request", S, p)
    <3> HIDE DEF p
    <3> QED BY <1>6 DEF HeadIn
  <2> QED BY <2>1, <2>2, <2>3
<1>8. n <= Len(s) => SubSeq(S, p, p + n - 1) = SubSeq(s, 1, n)
  <2> HIDE DEF n
  <2> QED BY <1>1, <1>7
<1>9. ~(p + Fixed - 1 > Len(S)) /\ (n <= Len(s) => p + n - 1 <= Len(S))
  <2> HIDE DEF n
  <2> QED BY <1>1, <1>5, <1>7
<1>10. FrameIn("request", S, p) # 0 => HeadIn("request", S, p) /\ WholeIn(S, p, n)
  <2> HIDE DEF p, n
  <2> QED BY <1>7 DEF FrameIn
<1>11. HeadIn("request", S, p) /\ WholeIn(S, p, n) => FrameIn("request", S, p) = n
  <2>1. p + Fixed - 1 <= Len(S)
    BY <1>1, <1>5
  <2> HIDE DEF p, n
  <2> QED BY <2>1, <1>7 DEF FrameIn
<1>12. HeadIn("request", S, p) => ~Bad
  <2> HIDE DEF p
  <2> QED BY <1>6 DEF HeadIn
<1>13. ~(r = Round(1, 0, 0))
  <2> SUFFICES ASSUME r = Round(1, 0, 0) PROVE FALSE
    OBVIOUS
  <2>1. r.skip + r.take + r.over = 1
    BY DEF Round
  <2>2. j = 1
    BY <2>1, <1>3
  <2>3. HeadIn("request", S, p) /\ WholeIn(S, p, n)
    BY <2>2, <1>10
  <2>4. ~Bad /\ n <= Len(s) /\ Checks(SubSeq(s, 1, n))
    <3>1. p + n - 1 <= Len(S) /\ Checks(SubSeq(S, p, p + n - 1))
      BY <2>3 DEF WholeIn
    <3>2. n <= Len(s)
      <4> HIDE DEF n
      <4> QED BY <3>1, <1>1, <1>7
    <3> HIDE DEF n, p, Bad
    <3> QED BY <3>1, <3>2, <2>3, <1>8, <1>12
  <2>5. r = Round(0, n, 0) \/ r = Round(0, 0, n)
    <3> HIDE DEF n, Bad
    <3> QED BY <2>4, <1>1, <1>2, <1>5, <1>7
  <2>6. r.skip = 0
    BY <2>5 DEF Round
  <2> HIDE DEF n, Bad, p
  <2>7. r.skip = 1
    BY DEF Round
  <2> QED BY <2>6, <2>7
<1>14. ~Bad /\ n <= Len(s) /\ Checks(SubSeq(s, 1, n)) /\ r = IF s[2] = READ THEN Round(0, n, 0) ELSE Round(0, 0, n)
  <2> HIDE DEF n, Bad
  <2>1. ~(Len(s) < Fixed) /\ ~Bad /\ ~(Len(s) < n) /\ Checks(SubSeq(s, 1, n))
    BY <1>2, <1>4, <1>13
  <2> QED BY <2>1, <1>1, <1>2, <1>7
<1>15. CASE s[2] = READ
  <2>1. r = Round(0, n, 0)
    <3> HIDE DEF n
    <3> QED BY <1>14, <1>15
  <2>2. r.take = n /\ r.skip = 0 /\ r.over = 0
    BY <2>1 DEF Round
  <2>3. r.take # 0 /\ r.skip < j /\ j <= r.skip + r.take
    <3> HIDE DEF n
    <3> QED BY <2>2, <1>3, <1>7
  <2> QED BY <2>3 DEF Passed
<1>16. CASE s[2] # READ
  <2>1. r = Round(0, 0, n) /\ s[2] = WRITE
    <3>1. ~Bad => s[2] = WRITE
      BY <1>16
    <3> HIDE DEF n, Bad
    <3> QED BY <3>1, <1>14, <1>16
  <2>2. r.take = 0 /\ r.skip = 0 /\ r.over = n
    BY <2>1 DEF Round
  <2>3. j <= n
    <3> HIDE DEF n
    <3> QED BY <2>2, <1>3, <1>7
  <2>4. CASE j = 1
    <3>1. S[(d + j) + 1] = WRITE
      BY <2>1, <2>4, <1>6
    <3> QED BY <3>1 DEF Passed
  <2>5. CASE j # 1
    <3>1. WholeIn(S, p, n) /\ HeadIn("request", S, p)
      <4> HIDE DEF n, p, Bad
      <4> QED BY <1>7, <1>8, <1>9, <1>14 DEF WholeIn
    <3>2. FrameIn("request", S, p) = n
      BY <3>1, <1>11
    <3>3. p \in 1..(d + j - 1) /\ n # 0 /\ d + j < p + n
      <4> HIDE DEF n
      <4> QED BY <2>3, <2>5, <1>3, <1>7
    <3> HIDE DEF n, p
    <3> QED BY <3>2, <3>3 DEF Passed
  <2> QED BY <2>4, <2>5
<1> QED BY <1>15, <1>16

LEMMA ResponsePasses ==
    ASSUME NEW S \in Seq(Byte), NEW d \in Nat, d <= Len(S), NEW s, s = Rest(S, d + 1),
           NEW r, r = ResponseRound(s), NEW j \in 1..(r.skip + r.take + r.over), FrameIn("response", S, d + j) # 0
    PROVE  Passed("response", S, d, r, j)
<1> DEFINE n == Fixed + s[3]
           Bad == s[1] = 0 \/ s[2] # READ \/ s[3] = 0 \/ s[3] % 2 # 0
           p == d + 1
<1>1. /\ s \in Seq(Byte) /\ Len(s) = Len(S) - d /\ Len(S) \in Nat /\ Len(s) \in Nat
      /\ Len(s) >= 4 => /\ S[d + 1] = s[1] /\ S[(d + 1) + 1] = s[2] /\ S[(d + 1) + 2] = s[3]
                        /\ s[1] \in Nat /\ s[2] \in Nat /\ s[3] \in Nat
      /\ \A i \in Nat : i <= Len(s) => SubSeq(S, d + 1, d + 1 + i - 1) = SubSeq(s, 1, i)
  <2>1. FrontOf(S, d, s)
    BY FrontIs
  <2> QED BY <2>1 DEF FrontOf
<1>2. r = IF Len(s) < Fixed THEN Wait(0) ELSE IF Bad THEN Round(1, 0, 0)
        ELSE IF Len(s) < n THEN Wait(0)
        ELSE IF Checks(SubSeq(s, 1, n)) THEN Round(0, n, 0) ELSE Round(1, 0, 0)
  BY DEF ResponseRound
<1>3. j \in Nat /\ j >= 1 /\ j <= r.skip + r.take + r.over
  <2>1. RoundOf("response", s) = r /\ "response" \in Kinds
    BY DEF RoundOf, Kinds
  <2>2. r \in RoundRow
    BY <2>1, <1>1, RoundFits
  <2> QED BY <2>2 DEF RoundRow
<1>4. ~(r = Wait(0))
  <2> SUFFICES ASSUME r = Wait(0) PROVE FALSE
    OBVIOUS
  <2>1. r.skip + r.take + r.over = 0
    BY DEF Wait
  <2> QED BY <2>1, <1>3
<1>5. Len(s) >= 4 /\ Fixed = 4
  <2>1. Fixed = 4
    BY DEF Fixed
  <2>2. ~(Len(s) < Fixed)
    <3> HIDE DEF n, Bad
    <3> QED BY <1>2, <1>4
  <2> QED BY <2>1, <2>2, <1>1
<1>6. p \in Nat /\ S[p] = s[1] /\ S[p + 1] = s[2] /\ S[p + 2] = s[3] /\ s[3] \in Nat
  BY <1>1, <1>5
<1>7. n \in Nat /\ n >= 4 /\ HeadLength("response", S, p) = n
  <2>1. n \in Nat /\ n >= 4
    BY <1>5, <1>6
  <2>2. HeadLength("response", S, p) = n
    <3> HIDE DEF p
    <3> QED BY <1>6 DEF HeadLength
  <2> QED BY <2>1, <2>2
<1>8. n <= Len(s) => SubSeq(S, p, p + n - 1) = SubSeq(s, 1, n)
  <2> HIDE DEF n
  <2> QED BY <1>1, <1>7
<1>10. FrameIn("response", S, p) # 0 => HeadIn("response", S, p) /\ WholeIn(S, p, n)
  <2> HIDE DEF p, n
  <2> QED BY <1>7 DEF FrameIn
<1>12. HeadIn("response", S, p) => ~Bad
  <2> HIDE DEF p
  <2> QED BY <1>6 DEF HeadIn
<1>13. ~(r = Round(1, 0, 0))
  <2> SUFFICES ASSUME r = Round(1, 0, 0) PROVE FALSE
    OBVIOUS
  <2>1. r.skip + r.take + r.over = 1 /\ r.skip = 1
    BY DEF Round
  <2>2. j = 1
    BY <2>1, <1>3
  <2>3. HeadIn("response", S, p) /\ WholeIn(S, p, n)
    BY <2>2, <1>10
  <2>4. ~Bad /\ n <= Len(s) /\ Checks(SubSeq(s, 1, n))
    <3>1. p + n - 1 <= Len(S) /\ Checks(SubSeq(S, p, p + n - 1))
      BY <2>3 DEF WholeIn
    <3>2. n <= Len(s)
      <4> HIDE DEF n
      <4> QED BY <3>1, <1>1, <1>7
    <3> HIDE DEF n, p, Bad
    <3> QED BY <3>1, <3>2, <2>3, <1>8, <1>12
  <2>5. r = Round(0, n, 0)
    <3> HIDE DEF n, Bad
    <3> QED BY <2>4, <1>1, <1>2, <1>5, <1>7
  <2>6. r.skip = 0
    BY <2>5 DEF Round
  <2> QED BY <2>1, <2>6
<1>14. r = Round(0, n, 0)
  <2> HIDE DEF n, Bad
  <2> QED BY <1>2, <1>4, <1>13
<1>15. r.take = n /\ r.skip = 0 /\ r.over = 0
  BY <1>14 DEF Round
<1>16. r.take # 0 /\ r.skip < j /\ j <= r.skip + r.take
  <2> HIDE DEF n
  <2> QED BY <1>3, <1>7, <1>15
<1> QED BY <1>16 DEF Passed

LEMMA RoundPasses ==
    ASSUME NEW kind \in Kinds, NEW S \in Seq(Byte), NEW d \in Nat, d <= Len(S), NEW s, s = Rest(S, d + 1),
           NEW r, r = RoundOf(kind, s), NEW j \in 1..(r.skip + r.take + r.over), FrameIn(kind, S, d + j) # 0
    PROVE  Passed(kind, S, d, r, j)
<1>1. CASE kind = "bms"
  <2>1. r = BmsRound(s)
    BY <1>1 DEF RoundOf
  <2> QED BY <2>1, <1>1, BmsPasses
<1>2. CASE kind = "request"
  <2>1. r = RequestRound(s)
    BY <1>2 DEF RoundOf
  <2> QED BY <2>1, <1>2, RequestPasses
<1>3. CASE kind = "response"
  <2>1. r = ResponseRound(s)
    BY <1>3 DEF RoundOf
  <2> QED BY <2>1, <1>3, ResponsePasses
<1>4. CASE kind = "logger"
  BY <1>4 DEF FrameIn
<1> QED BY <1>1, <1>2, <1>3, <1>4 DEF Kinds

\* A frame handed on has the byte at p, or one of the other reasons holds.
Covered(kind, S, frames, p) ==
    \/ \E i \in 1..Len(frames) : frames[i].at <= p /\ p < frames[i].at + frames[i].length
    \/ kind = "request" /\ S[p + 1] = WRITE
    \/ \E q \in 1..(p - 1) : FrameIn(kind, S, q) # 0 /\ p < q + FrameIn(kind, S, q)

CoveredTo(kind, S, x) ==
    \A p \in 1..x.done : FrameIn(kind, S, p) # 0 => Covered(kind, S, x.frames, p)

FromStart(S) == [rest |-> S, done |-> 0, frames |-> <<>>, again |-> TRUE]

LEMMA RoundCovers ==
    ASSUME NEW kind \in Kinds, NEW S \in Seq(Byte), NEW x \in Looped, x.done <= Len(S),
           x.rest = Rest(S, x.done + 1), x.again, CoveredTo(kind, S, x)
    PROVE  CoveredTo(kind, S, AfterRound(kind, x))
<1> DEFINE r == RoundOf(kind, x.rest)
           n == r.skip + r.take + r.over
           d == x.done
           e == [at |-> d + r.skip + 1, length |-> r.take]
           g == IF r.take = 0 THEN x.frames ELSE Append(x.frames, e)
           y == AfterRound(kind, x)
<1>1. x.rest \in Seq(Byte) /\ d \in Nat /\ x.frames \in Seq(FoundFrame) /\ Len(x.frames) \in Nat
  BY DEF Looped
<1>2. /\ y = RoundMakes(x, n, r.skip, r.take, r.again)
      /\ r.skip \in Nat /\ r.take \in Nat /\ r.over \in Nat /\ n \in Nat
  BY MadeBy
<1>3. y.done = d + n /\ y.frames = g
  <2> HIDE DEF r, n, y
  <2> QED BY <1>2 DEF RoundMakes
<1>4. r.take # 0 => /\ Len(g) = Len(x.frames) + 1 /\ g[Len(x.frames) + 1] = e
                    /\ \A i \in 1..Len(x.frames) : g[i] = x.frames[i]
  <2> HIDE DEF e, r
  <2> QED BY <1>1
<1>5. r.take = 0 => g = x.frames
  OBVIOUS
<1>6. \A i \in 1..Len(x.frames) : i \in 1..Len(g) /\ g[i] = x.frames[i]
  <2> HIDE DEF g, r
  <2> QED BY <1>1, <1>4, <1>5
<1> SUFFICES ASSUME NEW p \in 1..y.done, FrameIn(kind, S, p) # 0 PROVE Covered(kind, S, y.frames, p)
  BY DEF CoveredTo
<1>7. p \in Nat /\ p >= 1 /\ p <= d + n
  BY <1>1, <1>2, <1>3
<1>8. CASE p <= d
  <2>1. p \in 1..d
    BY <1>1, <1>7, <1>8
  <2>2. Covered(kind, S, x.frames, p)
    BY <2>1 DEF CoveredTo
  <2> HIDE DEF y, g, r, n, d
  <2> QED BY <2>2, <1>3, <1>6 DEF Covered
<1>9. CASE ~(p <= d)
  <2> DEFINE j == p - d
  <2>1. j \in 1..n /\ d + j = p /\ j \in Nat
    <3> HIDE DEF n, d
    <3> QED BY <1>1, <1>2, <1>7, <1>9
  <2> HIDE DEF j
  <2>2. FrameIn(kind, S, d + j) # 0
    BY <2>1
  <2>3. Passed(kind, S, d, r, j)
    <3> DEFINE s == x.rest
    <3>1. s = Rest(S, d + 1) /\ d <= Len(S) /\ d \in Nat /\ r = RoundOf(kind, s) /\ j \in 1..(r.skip + r.take + r.over)
      BY <1>1, <2>1
    <3> HIDE DEF s, d, r, y, g
    <3> QED BY <3>1, <2>2, RoundPasses
  <2>4. CASE r.take # 0 /\ r.skip < j /\ j <= r.skip + r.take
    <3>1. Len(x.frames) + 1 \in 1..Len(g) /\ g[Len(x.frames) + 1] = e
      BY <2>4, <1>1, <1>4
    <3>2. e.at = d + r.skip + 1 /\ e.length = r.take
      OBVIOUS
    <3>3. e.at <= p /\ p < e.at + e.length
      <4> HIDE DEF r, e, d
      <4> QED BY <3>2, <2>1, <2>4, <1>1, <1>2
    <3> HIDE DEF g, e, r, y
    <3> QED BY <3>1, <3>3, <1>3 DEF Covered
  <2>5. CASE kind = "request" /\ S[(d + j) + 1] = WRITE
    BY <2>1, <2>5 DEF Covered
  <2>6. CASE \E q \in 1..(d + j - 1) : FrameIn(kind, S, q) # 0 /\ d + j < q + FrameIn(kind, S, q)
    <3>1. PICK q \in 1..(d + j - 1) : FrameIn(kind, S, q) # 0 /\ d + j < q + FrameIn(kind, S, q)
      BY <2>6
    <3>2. q \in 1..(p - 1) /\ FrameIn(kind, S, q) # 0 /\ p < q + FrameIn(kind, S, q)
      <4>1. d + j - 1 = p - 1
        <5> HIDE DEF d
        <5> QED BY <2>1, <1>1, <1>7
      <4>2. q \in 1..(p - 1)
        BY <3>1, <4>1
      <4> HIDE DEF d, r, n, y, g, e
      <4>3. p < q + FrameIn(kind, S, q)
        BY <2>1, <3>1
      <4> QED BY <3>1, <4>2, <4>3
    <3> QED BY <3>2 DEF Covered
  <2> QED BY <2>3, <2>4, <2>5, <2>6 DEF Passed
<1> QED BY <1>8, <1>9

LEMMA LoopCovers ==
    ASSUME NEW kind \in Kinds, NEW S \in Seq(Byte)
    PROVE  CoveredTo(kind, S, LoopEnd(kind, FromStart(S)))
<1> DEFINE x == FromStart(S)
           R == Rounds(kind, x)
           T == {n \in Nat : CoveredTo(kind, S, R[n])}
<1>1. x \in Looped /\ x.rest = S /\ x.done = 0 /\ Len(S) \in Nat
  <2>1. <<>> \in Seq(FoundFrame)
    OBVIOUS
  <2> QED BY <2>1 DEF FromStart, Looped
<1> HIDE DEF x
<1>2. R[0] = x /\ \A n \in Nat : R[n] \in Looped /\ R[n + 1] = AfterRound(kind, R[n])
  BY <1>1, LoopRounds
<1>3. \A n \in Nat : \E k \in Nat : k <= Len(S) /\ R[n].rest = Rest(S, k + 1) /\ R[n].done = 0 + k
  BY <1>1, LoopLeaves
<1>4. LoopEnd(kind, x) = R[Len(S) + 1]
  BY <1>1 DEF LoopEnd
<1> HIDE DEF R
<1>5. 0 \in T
  <2>1. CoveredTo(kind, S, x)
    BY <1>1 DEF CoveredTo
  <2> QED BY <2>1, <1>2
<1>6. ASSUME NEW n \in Nat, n \in T
      PROVE  n + 1 \in T
  <2>1. PICK k \in Nat : k <= Len(S) /\ R[n].rest = Rest(S, k + 1) /\ R[n].done = 0 + k
    BY <1>3
  <2>2. R[n].done <= Len(S) /\ R[n].rest = Rest(S, R[n].done + 1)
    BY <2>1
  <2>3. R[n] \in Looped /\ R[n + 1] = AfterRound(kind, R[n]) /\ CoveredTo(kind, S, R[n])
    BY <1>2, <1>6
  <2>4. CASE R[n].again
    BY <2>2, <2>3, <2>4, RoundCovers
  <2>5. CASE ~R[n].again
    BY <2>3, <2>5, RoundMade
  <2> QED BY <2>4, <2>5
<1> HIDE DEF T
<1>7. Nat \subseteq T
  BY <1>5, <1>6, Numbers
<1>8. Len(S) + 1 \in Nat
  BY <1>1
<1> QED BY <1>4, <1>7, <1>8 DEF T, x

-----------------------------------------------------------------------------
(* The stream.                                                              *)
StoppedAt(b, d, f) == [rest |-> b, done |-> d, frames |-> f, again |-> FALSE]

FramesInv ==
    /\ parser \in Kinds /\ stream \in Seq(Byte) /\ buffer \in Seq(Byte) /\ found \in Seq(FoundFrame)
    /\ Len(buffer) <= Len(stream) /\ buffer = Rest(stream, Len(stream) - Len(buffer) + 1)
    /\ ~Crossed => StoppedAt(buffer, Len(stream) - Len(buffer), found) = LoopEnd(parser, FromStart(stream))

LEMMA CrossedIs == Crossed <=> parser = "bms" /\ HeadCrossed(stream)
BY DEF Crossed, HeadCrossed

LEMMA FramesKeep == FramesInv => FramesAreOfTheStream
<1> SUFFICES ASSUME FramesInv, ~Crossed PROVE
       /\ buffer = Loop(parser, stream, 0, <<>>).rest
       /\ found = Loop(parser, stream, 0, <<>>).frames
       /\ \A p \in 1..(Len(stream) - Len(buffer)) : FrameAt(p) # 0 =>
             \/ At(p) # {}
             \/ parser = "request" /\ stream[p + 1] = WRITE
             \/ \E q \in 1..(p - 1) : FrameAt(q) # 0 /\ p < q + FrameAt(q)
  BY DEF FramesAreOfTheStream
<1> DEFINE d == Len(stream) - Len(buffer)
           e == LoopEnd(parser, FromStart(stream))
<1>1. Loop(parser, stream, 0, <<>>) = e
  BY DEF Loop, LoopEnd, FromStart
<1>2. parser \in Kinds /\ stream \in Seq(Byte) /\ StoppedAt(buffer, d, found) = e
  BY DEF FramesInv
<1>3. buffer = e.rest /\ d = e.done /\ found = e.frames
  <2> HIDE DEF e, d
  <2> QED BY <1>2 DEF StoppedAt
<1>4. CoveredTo(parser, stream, e)
  BY <1>2, LoopCovers
<1> HIDE DEF e
<1>5. ASSUME NEW p \in 1..d, FrameAt(p) # 0
      PROVE  \/ At(p) # {}
             \/ parser = "request" /\ stream[p + 1] = WRITE
             \/ \E q \in 1..(p - 1) : FrameAt(q) # 0 /\ p < q + FrameAt(q)
  <2>1. Covered(parser, stream, found, p)
    <3> HIDE DEF d
    <3> QED BY <1>3, <1>4, <1>5, FrameAtIs DEF CoveredTo
  <2>2. CASE \E i \in 1..Len(found) : found[i].at <= p /\ p < found[i].at + found[i].length
    <3>1. PICK i \in 1..Len(found) : found[i].at <= p /\ p < found[i].at + found[i].length
      BY <2>2
    <3>2. found \in Seq(FoundFrame)
      BY DEF FramesInv
    <3>3. found[i] \in ToSet(found)
      BY <3>2 DEF ToSet
    <3>4. found[i] \in At(p)
      BY <3>1, <3>3 DEF At
    <3> QED BY <3>4
  <2>3. (\E q \in 1..(p - 1) : FrameIn(parser, stream, q) # 0 /\ p < q + FrameIn(parser, stream, q))
          => \E q \in 1..(p - 1) : FrameAt(q) # 0 /\ p < q + FrameAt(q)
    BY FrameAtIs
  <2> QED BY <2>1, <2>2, <2>3 DEF Covered
<1> QED BY <1>1, <1>3, <1>5

LEMMA FramesInvInit == StreamInit => FramesInv
<1> SUFFICES ASSUME StreamInit PROVE FramesInv
  OBVIOUS
<1>1. parser \in Kinds /\ stream = <<>> /\ buffer = <<>> /\ found = <<>>
  BY DEF StreamInit, Kinds
<1>2. Len(stream) = 0 /\ Len(buffer) = 0 /\ <<>> \in Seq(Byte) /\ <<>> \in Seq(FoundFrame)
  BY <1>1
<1>3. Rest(stream, 0 + 1) = stream
  <2>1. stream \in Seq(Byte)
    BY <1>1, <1>2
  <2>2. Rest(stream, 1) = stream
    BY <2>1, RestWhole
  <2> QED BY <2>2
<1>4. buffer = Rest(stream, Len(stream) - Len(buffer) + 1) /\ Len(buffer) <= Len(stream)
  BY <1>1, <1>2, <1>3
<1> DEFINE S == <<>>
           x == FromStart(S)
           r == RoundOf(parser, S)
           y == AfterRound(parser, x)
<1>5. x \in Looped /\ x.rest = S /\ x.again /\ x.done = 0 /\ x.frames = <<>> /\ S \in Seq(Byte) /\ Len(S) = 0
  BY <1>2 DEF FromStart, Looped
<1>6. /\ r.skip \in Nat /\ r.take \in Nat /\ r.over \in Nat /\ r.again \in BOOLEAN
      /\ r.skip + r.take + r.over <= 0 /\ (r.again => r.skip + r.take + r.over >= 1)
  <2> HIDE DEF S
  <2>1. r \in RoundRow /\ r.skip + r.take + r.over <= Len(S) /\ (r.again => r.skip + r.take + r.over >= 1)
    BY <1>1, <1>5, RoundFits
  <2>2. r.skip \in Nat /\ r.take \in Nat /\ r.over \in Nat /\ r.again \in BOOLEAN
    BY <2>1 DEF RoundRow
  <2> HIDE DEF r
  <2> QED BY <2>1, <2>2, <1>5
<1>7. r.skip = 0 /\ r.take = 0 /\ r.over = 0 /\ r.again = FALSE
  <2> HIDE DEF r
  <2> QED BY <1>6
<1>8. y = StoppedAt(S, 0, <<>>)
  <2>1. y = RoundMakes(x, r.skip + r.take + r.over, r.skip, r.take, r.again)
    <3> HIDE DEF S, x
    <3> QED BY <1>1, <1>5, MadeBy
  <2>2. Rest(S, 0 + 1) = S
    BY <1>1, <1>3
  <2> HIDE DEF S, x, r, y
  <2>3. y = RoundMakes(x, 0, 0, 0, FALSE)
    <3>1. r.skip + r.take + r.over = 0
      BY <1>7
    <3> QED BY <2>1, <3>1, <1>7
  <2>4. x.done + 0 = 0
    BY <1>5
  <2> QED BY <2>2, <2>3, <2>4, <1>5 DEF RoundMakes, StoppedAt
<1>9. LoopEnd(parser, x) = y
  <2>1. Rounds(parser, x)[0] = x /\ Rounds(parser, x)[0 + 1] = AfterRound(parser, Rounds(parser, x)[0])
    <3> HIDE DEF x, S
    <3> QED BY <1>1, <1>5, LoopRounds
  <2>2. LoopEnd(parser, x) = Rounds(parser, x)[0 + 1]
    <3> HIDE DEF S
    <3> QED BY <1>5 DEF LoopEnd
  <2> QED BY <2>1, <2>2
<1>10. StoppedAt(buffer, Len(stream) - Len(buffer), found) = LoopEnd(parser, FromStart(stream))
  BY <1>1, <1>2, <1>8, <1>9
<1> QED BY <1>1, <1>2, <1>4, <1>10 DEF FramesInv

LEMMA CutOfMore ==
    ASSUME NEW s \in Seq(Byte), NEW c \in Seq(Byte), HeadCrossed(s)
    PROVE  HeadCrossed(s \o c)
<1>1. PreamblesIn(s) \subseteq 1..(Len(s) - 1)
  BY PreamblesAre
<1>2. \A i \in PreamblesIn(s) : i \in PreamblesIn(s \o c)
  BY <1>1, PreamblesOfMore
<1> QED BY <1>2 DEF HeadCrossed

LEMMA FramesPush ==
    ASSUME FramesInv, NEW chunk \in Seq(Byte), Len(chunk) >= 1, push(chunk)
    PROVE  FramesInv'
<1> DEFINE d == Len(stream) - Len(buffer)
           b == buffer \o chunk
           S == stream \o chunk
           x == [rest |-> b, done |-> d, frames |-> found, again |-> TRUE]
           after == LoopEnd(parser, x)
<1>1. /\ parser \in Kinds /\ stream \in Seq(Byte) /\ buffer \in Seq(Byte) /\ found \in Seq(FoundFrame)
      /\ Len(buffer) <= Len(stream) /\ buffer = Rest(stream, d + 1)
      /\ ~Crossed => StoppedAt(buffer, d, found) = LoopEnd(parser, FromStart(stream))
  BY DEF FramesInv
<1>2. stream' = S /\ buffer' = after.rest /\ found' = after.frames /\ parser' = parser
  <2>1. Loop(parser, buffer \o chunk, Len(stream) - Len(buffer), found) = after
    BY DEF Loop, LoopEnd
  <2> HIDE DEF after, S
  <2> QED BY <2>1 DEF push, S
<1>3. d \in Nat /\ Len(stream) \in Nat /\ Len(buffer) \in Nat /\ d <= Len(stream)
  BY <1>1
<1>4. S \in Seq(Byte) /\ Len(S) = Len(stream) + Len(chunk) /\ b \in Seq(Byte)
  BY <1>1, MoreHas
<1>5. b = Rest(S, d + 1)
  <2> HIDE DEF d
  <2>1. Rest(stream \o chunk, d + 1) = Rest(stream, d + 1) \o chunk
    BY <1>1, <1>3, RestOfMore
  <2> QED BY <2>1, <1>1
<1>6. Len(b) = Len(S) - d /\ d <= Len(S) /\ Len(S) \in Nat
  <2>1. d <= Len(S) /\ Len(S) \in Nat
    BY <1>3, <1>4
  <2> HIDE DEF d, S, b
  <2>2. Len(Rest(S, d + 1)) = Len(S) - d
    BY <2>1, <1>3, <1>4, RestIs
  <2> QED BY <2>1, <2>2, <1>5
<1>7. x \in Looped /\ x.rest = b /\ x.done = d
  <2> HIDE DEF d, b
  <2> QED BY <1>1, <1>3, <1>4 DEF Looped
<1>8. WithMore(StoppedAt(buffer, d, found), chunk) = x
  BY DEF WithMore, StoppedAt
<1> HIDE DEF x
<1>9. after \in Looped /\ ~after.again
  BY <1>1, <1>7, LoopStops
<1>10. PICK k \in Nat : k <= Len(b) /\ after.rest = Rest(b, k + 1) /\ after.done = d + k
  <2>1. Len(b) + 1 \in Nat /\ after = Rounds(parser, x)[Len(b) + 1]
    BY <1>4, <1>7 DEF LoopEnd
  <2> HIDE DEF after, b, d
  <2> QED BY <2>1, <1>1, <1>7, LoopLeaves
<1> HIDE DEF after
<1>11. /\ after.rest \in Seq(Byte) /\ after.frames \in Seq(FoundFrame) /\ after.done \in Nat /\ after.again = FALSE
       /\ after = [rest |-> after.rest, done |-> after.done, frames |-> after.frames, again |-> after.again]
  BY <1>9 DEF Looped
<1> HIDE DEF b, d, S
<1>12. d + k \in Nat /\ d + k <= Len(S)
  BY <1>3, <1>6, <1>10
<1>13. after.rest = Rest(S, d + k + 1)
  <2>1. Rest(Rest(S, d + 1), k + 1) = Rest(S, d + k + 1)
    BY <1>3, <1>4, <1>12, RestOfRest
  <2> QED BY <2>1, <1>5, <1>10
<1>14. Len(after.rest) = Len(S) - (d + k)
  <2> DEFINE i == d + k
  <2>1. i \in Nat /\ i <= Len(S) /\ after.rest = Rest(S, i + 1)
    BY <1>12, <1>13
  <2> HIDE DEF i
  <2>2. Len(Rest(S, i + 1)) = Len(S) - i
    BY <2>1, <1>4, RestIs
  <2> QED BY <2>1, <2>2 DEF i
<1>15. Len(S) - Len(after.rest) = d + k /\ Len(after.rest) <= Len(S)
  BY <1>6, <1>12, <1>14
<1>16. Len(stream') - Len(buffer') = after.done /\ Len(buffer') <= Len(stream')
  BY <1>2, <1>10, <1>15
<1>17. buffer' = Rest(stream', Len(stream') - Len(buffer') + 1)
  BY <1>2, <1>13, <1>15
<1>18. ASSUME ~Crossed'
       PROVE  StoppedAt(buffer, Len(stream) - Len(buffer), found)' = LoopEnd(parser, FromStart(stream))'
  <2>1. parser = "bms" => ~HeadCrossed(S)
    BY <1>2, <1>18 DEF Crossed, HeadCrossed
  <2>2. parser = "bms" => ~HeadCrossed(stream)
    BY <2>1, <1>1, CutOfMore DEF S
  <2>3. ~Crossed
    BY <2>2, CrossedIs
  <2>4. StoppedAt(buffer, d, found) = LoopEnd(parser, FromStart(stream))
    BY <2>3, <1>1
  <2>5. WithMore(FromStart(stream), chunk) = FromStart(S)
    BY DEF WithMore, FromStart, S
  <2> DEFINE w == FromStart(stream)
  <2>6. w \in Looped /\ w.again /\ w.rest = stream
    <3>1. <<>> \in Seq(FoundFrame)
      OBVIOUS
    <3> QED BY <3>1, <1>1 DEF FromStart, Looped
  <2>10. w.rest \o chunk = S
    BY <2>6 DEF S
  <2> HIDE DEF w
  <2>7. LoopEnd(parser, WithMore(w, chunk)) = LoopEnd(parser, WithMore(LoopEnd(parser, w), chunk))
    <3>1. parser = "bms" => ~HeadCrossed(w.rest \o chunk)
      BY <2>1, <2>10
    <3> QED BY <3>1, <2>6, <1>1, LoopResumed
  <2>8. LoopEnd(parser, FromStart(S)) = after
    BY <2>4, <2>5, <2>7, <1>8 DEF w, after
  <2>9. StoppedAt(buffer', after.done, found') = after
    BY <1>2, <1>11 DEF StoppedAt
  <2>11. LoopEnd(parser, FromStart(stream))' = LoopEnd(parser, FromStart(S))
    <3>1. LoopEnd(parser, FromStart(stream))' = LoopEnd(parser', FromStart(stream'))
      BY DEF LoopEnd, FromStart, Rounds, AfterRound, RoundOf
    <3> QED BY <3>1, <1>2
  <2>12. StoppedAt(buffer, Len(stream) - Len(buffer), found)' = StoppedAt(buffer', Len(stream') - Len(buffer'), found')
    BY DEF StoppedAt
  <2> QED BY <2>8, <2>9, <2>11, <2>12, <1>16
<1>19. parser' \in Kinds /\ stream' \in Seq(Byte) /\ buffer' \in Seq(Byte) /\ found' \in Seq(FoundFrame)
  BY <1>1, <1>2, <1>4, <1>11
<1> QED BY <1>16, <1>17, <1>18, <1>19 DEF FramesInv

LEMMA FramesInvStep ==
    ASSUME FramesInv, StreamNext
    PROVE  FramesInv'
<1>0. PICK n \in 1..MaxChunk : \E chunk \in [1..n -> Byte] : push(chunk)
  BY DEF StreamNext
<1>1. PICK chunk \in [1..n -> Byte] : push(chunk)
  BY <1>0
<1>2. MaxChunk \in Nat
  BY StreamAssumption
<1>3. n \in Nat /\ n >= 1
  BY <1>2
<1>4. chunk \in Seq(Byte) /\ Len(chunk) = n
  BY <1>3
<1> QED BY <1>1, <1>3, <1>4, FramesPush

------------------------------------------------------------------------------
(* The capture of a serial line (SerialCapture).                             *)

CaptureSpec == CaptureInit /\ [][CaptureNext]_captureVars

TapFrame == [run : Nat, port : Ports, no : Nat]
CaptureRecord == [port : 0..2, state : {"frames", "open", "reconnecting"}, frames : SUBSET TapFrame]
CaptureRow == [run : Nat, records : Seq(CaptureRecord)]

CaptureTyped ==
    /\ run \in Nat /\ capture \in Nat /\ capture <= Len(file)
    /\ file \in Seq(CaptureRow)
    /\ ports \in [Ports -> [state : {"none", "closed", "open", "reconnecting"}, tap : Nat, timer : Nat]]
    /\ taps \subseteq Ports \X Nat /\ reopening \subseteq Ports \X Nat
    /\ unmatched \in Seq(TapFrame)
    /\ calls \in [Callers -> [kind : {"none", "start", "stop"}, at : {"idle", "closing", "opening"},
                              port : 0..2, of : Nat]]
    /\ caught \in Nat /\ asked \in Nat /\ trouble \in Nat
    /\ forgotten \subseteq TapFrame /\ overlapped \in BOOLEAN

\* A port has a tap while it is open, and then no timer; what refers to a run
\* refers to one that began.
Numbered ==
    /\ \A n \in Ports : /\ ports[n].tap <= run /\ ports[n].timer <= run
                        /\ ports[n].state = "open" <=> ports[n].tap # 0
                        /\ ports[n].tap # 0 => ports[n].timer = 0
    /\ \A n \in Ports, r \in Nat : <<n, r>> \in taps \union reopening => 1 <= r /\ r <= run
    /\ \A c \in Callers : /\ calls[c].of <= run
                          /\ calls[c].at # "idle" => calls[c].of # 0 /\ calls[c].port # 0 /\ calls[c].kind # "none"
    /\ capture # 0 => 1 <= file[capture].run /\ file[capture].run <= run

\* The port of the run is to be opened by the start that began it, or is on
\* its way by other means.
StartsOn(n) == \E c \in Callers : calls[c].at = "opening" /\ calls[c].of = run /\ calls[c].port <= n
PortServed(n) ==
        /\ run # 0
        /\ ports[n].tap = run \/ ports[n].timer = run \/ <<n, run>> \in reopening \/ StartsOn(n)

OneWay ==
    /\ \A c, d \in Callers : calls[c].at = "opening" /\ calls[c].of = run
                             /\ calls[d].at = "opening" /\ calls[d].of = run => c = d
    /\ \A n \in Ports : StartsOn(n) => ports[n] = newPort /\ <<n, run>> \notin reopening
    /\ \A n \in Ports : <<n, run>> \in reopening => ports[n].tap = 0 /\ ports[n].timer = 0
    /\ capture # 0 => \A n \in Ports : PortServed(n) => file[capture].run = run

LastOfPort(records, n, i) == records[i].port = n /\ \A m \in DOMAIN records : i < m => records[m].port # n
RecordsTell ==
           capture # 0 => \A n \in Ports : PortServed(n) =>
               \A i \in DOMAIN file[capture].records :
                   LastOfPort(file[capture].records, n, i) => file[capture].records[i].state = ports[n].state

RetryPending ==
         /\ \A i, j \in DOMAIN unmatched : i # j => unmatched[i] # unmatched[j]
         /\ \A i \in DOMAIN unmatched : unmatched[i].no <= caught
         /\ capture # 0 => \A i \in DOMAIN unmatched : /\ unmatched[i].run = file[capture].run
                                                       /\ unmatched[i] \notin Frames(capture)
         /\ \A k \in DOMAIN file : \A f \in Frames(k) : f.no <= caught

Closing == \E c \in Callers : calls[c].at = "closing"
Serially ==
    ~overlapped =>
       /\ \A c, d \in Callers : UnderWay(c) /\ UnderWay(d) => c = d
       /\ \A n \in Ports, r \in Nat : <<n, r>> \in taps <=>
             \/ r # 0 /\ ports[n].tap = r
             \/ \E c \in Callers : calls[c].at = "closing" /\ calls[c].port = n /\ calls[c].of = r
       /\ \A c \in Callers : calls[c].at = "closing" =>
             \A n \in Ports : n <= calls[c].port => ports[n].tap = 0
       /\ Closing => capture # 0
       /\ \A c \in Callers : calls[c].at = "opening" => calls[c].of = run /\ capture # 0
       /\ Closing \/ capture = 0 => unmatched = <<>> /\ \A n \in Ports : ~PortServed(n)
       /\ capture = 0 => \A n \in Ports : ports[n].tap = 0
       /\ ~Closing /\ capture # 0 => \A n \in Ports : PortServed(n) /\ ports[n].tap \in {0, run}

CaptureInv == CaptureTyped /\ Numbered /\ OneWay /\ RecordsTell /\ RetryPending /\ Serially
              /\ RecordsItsOwn /\ NoFrameLost

\* What the records of a capture hold.
FramesIn(records) == UNION {records[i].frames : i \in DOMAIN records}
OwnRecords(k) == /\ \A f \in FramesIn(k.records) : f.run = k.run
                 /\ OnceEach(k.records) /\ RealChanges(k.records)
AllFrames(f) == UNION {FramesIn(f[k].records) : k \in DOMAIN f}

\* Writing records to the capture running adds them at its end.
LEMMA RecordsAdded ==
    ASSUME CaptureTyped, NEW e \in Seq(CaptureRecord), NEW f, f = record(e)
    PROVE  /\ f \in Seq(CaptureRow) /\ Len(f) = Len(file) /\ DOMAIN f = DOMAIN file
           /\ capture = 0 => f = file
           /\ capture # 0 => capture \in DOMAIN file /\ f[capture].records = file[capture].records \o e
           /\ \A k \in DOMAIN file : f[k].run = file[k].run
           /\ \A k \in DOMAIN file : k # capture => f[k] = file[k]
<1>1. CASE capture = 0
  BY <1>1 DEF record, CaptureTyped
<1>2. CASE capture # 0
  <2>1. capture \in DOMAIN file /\ DOMAIN file = 1..Len(file) /\ file[capture] \in CaptureRow
    BY <1>2 DEF CaptureTyped
  <2>2. file[capture].records \o e \in Seq(CaptureRecord)
    BY <2>1 DEF CaptureRow
  <2> DEFINE g == [file[capture] EXCEPT !.records = file[capture].records \o e]
  <2>3. g \in CaptureRow /\ g.records = file[capture].records \o e /\ g.run = file[capture].run
    BY <2>1, <2>2 DEF CaptureRow
  <2>4. f = [file EXCEPT ![capture] = g]
    BY <1>2 DEF record
  <2> HIDE DEF g
  <2> QED BY <1>2, <2>1, <2>3, <2>4 DEF CaptureTyped
<1> QED BY <1>1, <1>2

\* Records of frames not written yet leave each frame written once, change no
\* port, and what was last said of a port.
LEMMA FramesAdded ==
    ASSUME NEW r \in Seq(CaptureRecord), NEW e \in Seq(CaptureRecord), OnceEach(r), RealChanges(r),
           \A i \in DOMAIN e : e[i].port = 0 /\ e[i].frames \intersect FramesIn(r) = {},
           OnceEach(e)
    PROVE  /\ OnceEach(r \o e) /\ RealChanges(r \o e)
           /\ FramesIn(r \o e) = FramesIn(r) \union FramesIn(e)
           /\ \A n \in Ports : \A i \in DOMAIN (r \o e) : LastOfPort(r \o e, n, i) =>
                 i \in DOMAIN r /\ LastOfPort(r, n, i) /\ (r \o e)[i] = r[i]
<1> DEFINE s == r \o e
<1>1. /\ Len(s) = Len(r) + Len(e) /\ DOMAIN s = 1..Len(s) /\ DOMAIN r = 1..Len(r) /\ DOMAIN e = 1..Len(e)
      /\ \A i \in DOMAIN r : s[i] = r[i] /\ i \in DOMAIN s
      /\ \A i \in DOMAIN e : s[Len(r) + i] = e[i] /\ Len(r) + i \in DOMAIN s
      /\ Len(r) \in Nat /\ Len(e) \in Nat
  OBVIOUS
<1> HIDE DEF s
<1>2. \A i \in DOMAIN s : i \in DOMAIN r \/ (i - Len(r) \in DOMAIN e /\ i = Len(r) + (i - Len(r)))
  BY <1>1
<1>3. \A i \in DOMAIN s : i \notin DOMAIN r => s[i] = e[i - Len(r)] /\ s[i].port = 0
                                              /\ s[i].frames \intersect FramesIn(r) = {}
  BY <1>1, <1>2
<1>4. \A i \in DOMAIN r : r[i].frames \subseteq FramesIn(r)
  BY DEF FramesIn
<1>5. OnceEach(s)
  <2> SUFFICES ASSUME NEW i \in DOMAIN s, NEW j \in DOMAIN s, i # j
               PROVE  s[i].frames \intersect s[j].frames = {}
    BY DEF OnceEach
  <2>1. CASE i \in DOMAIN r /\ j \in DOMAIN r
    BY <2>1, <1>1 DEF OnceEach
  <2>2. CASE i \in DOMAIN r /\ j \notin DOMAIN r
    BY <2>2, <1>1, <1>3, <1>4
  <2>3. CASE i \notin DOMAIN r /\ j \in DOMAIN r
    BY <2>3, <1>1, <1>3, <1>4
  <2>4. CASE i \notin DOMAIN r /\ j \notin DOMAIN r
    <3>1. i - Len(r) \in DOMAIN e /\ j - Len(r) \in DOMAIN e /\ i - Len(r) # j - Len(r)
      BY <2>4, <1>1, <1>2
    <3> QED BY <3>1, <2>4, <1>3 DEF OnceEach
  <2> QED BY <2>1, <2>2, <2>3, <2>4
<1>6. RealChanges(s)
  <2> SUFFICES ASSUME NEW i \in DOMAIN s, NEW j \in DOMAIN s,
                      i < j, s[i].port = s[j].port, s[i].port # 0,
                      \A m \in (i + 1)..(j - 1) : s[m].port # s[i].port
               PROVE  s[i].state # s[j].state
    BY DEF RealChanges
  <2>1. i \in DOMAIN r /\ j \in DOMAIN r
    BY <1>3
  <2>2. ASSUME NEW m \in (i + 1)..(j - 1)
        PROVE  r[m].port # r[i].port
    <3>1. m \in DOMAIN r
      BY <2>1, <1>1
    <3> QED BY <3>1, <2>1, <1>1
  <2> QED BY <2>1, <2>2, <1>1 DEF RealChanges
<1>7. FramesIn(s) = FramesIn(r) \union FramesIn(e)
  <2>1. ASSUME NEW x \in FramesIn(s)
        PROVE  x \in FramesIn(r) \union FramesIn(e)
    BY <2>1, <1>1, <1>2, <1>3 DEF FramesIn
  <2>2. ASSUME NEW x \in FramesIn(r)
        PROVE  x \in FramesIn(s)
    BY <2>2, <1>1 DEF FramesIn
  <2>3. ASSUME NEW x \in FramesIn(e)
        PROVE  x \in FramesIn(s)
    BY <2>3, <1>1 DEF FramesIn
  <2> QED BY <2>1, <2>2, <2>3
<1>8. ASSUME NEW n \in Ports, NEW i \in DOMAIN s, LastOfPort(s, n, i)
      PROVE  i \in DOMAIN r /\ LastOfPort(r, n, i) /\ s[i] = r[i]
  <2>1. i \in DOMAIN r
    BY <1>8, <1>3 DEF LastOfPort, Ports
  <2> QED BY <2>1, <1>8, <1>1 DEF LastOfPort
<1> QED BY <1>5, <1>6, <1>7, <1>8 DEF s

\* A port's record that says something new of it.
StateChanged(r, n, state, l, s) ==
         /\ r \in Seq(CaptureRecord) /\ OnceEach(r) /\ RealChanges(r) /\ n \in Ports
         /\ \A i \in DOMAIN r : LastOfPort(r, n, i) => r[i].state # state
         /\ l \in Nat /\ DOMAIN s = 1..l /\ DOMAIN r = 1..(l - 1) /\ l >= 1
         /\ s[l] = PortRecord(n, state) /\ \A i \in DOMAIN r : s[i] = r[i]
LEMMA ChangeAdded ==
    ASSUME NEW r, NEW n, NEW state, NEW l, NEW s, StateChanged(r, n, state, l, s)
    PROVE  /\ OnceEach(s) /\ RealChanges(s) /\ FramesIn(s) = FramesIn(r)
           /\ \A i \in DOMAIN s : LastOfPort(s, n, i) => s[i].state = state
           /\ \A m \in Ports \ {n} : \A i \in DOMAIN s :
                 LastOfPort(s, m, i) => i \in DOMAIN r /\ LastOfPort(r, m, i) /\ s[i] = r[i]
<1>1. /\ l \in Nat /\ l >= 1 /\ DOMAIN s = 1..l /\ DOMAIN r = 1..(l - 1)
      /\ s[l] = PortRecord(n, state)
      /\ \A i \in DOMAIN r : s[i] = r[i]
      /\ r \in Seq(CaptureRecord) /\ OnceEach(r) /\ RealChanges(r) /\ n \in Ports
      /\ \A i \in DOMAIN r : LastOfPort(r, n, i) => r[i].state # state
  BY DEF StateChanged
<1>2. s[l].port = n /\ s[l].state = state /\ s[l].frames = {}
  BY <1>1 DEF PortRecord
<1>3. OnceEach(s)
  BY <1>1, <1>2 DEF OnceEach
<1>4. RealChanges(s)
  <2> SUFFICES ASSUME NEW i \in DOMAIN s, NEW j \in DOMAIN s,
                      i < j, s[i].port = s[j].port, s[i].port # 0,
                      \A m \in (i + 1)..(j - 1) : s[m].port # s[i].port
               PROVE  s[i].state # s[j].state
    BY DEF RealChanges
  <2>1. i \in DOMAIN r
    BY <1>1
  <2>2. CASE j = l
    <3>1. ASSUME NEW m \in DOMAIN r, i < m
          PROVE  r[m].port # n
      <4>1. m \in (i + 1)..(j - 1)
        BY <2>1, <2>2, <3>1, <1>1
      <4>2. s[m] = r[m] /\ s[i].port = n
        BY <2>2, <1>1, <1>2
      <4> QED BY <4>1, <4>2
    <3>2. r[i].port = n
      BY <2>1, <2>2, <1>1, <1>2
    <3>3. LastOfPort(r, n, i)
      BY <3>1, <3>2 DEF LastOfPort
    <3> QED BY <3>3, <2>1, <2>2, <1>1, <1>2
  <2>3. CASE j # l
    <3>1. j \in DOMAIN r
      BY <2>3, <1>1
    <3>2. \A m \in (i + 1)..(j - 1) : r[m].port # r[i].port
      BY <2>1, <3>1, <1>1
    <3> QED BY <2>1, <3>1, <3>2, <1>1 DEF RealChanges
  <2> QED BY <2>2, <2>3
<1>5. FramesIn(s) = FramesIn(r)
  <2>1. FramesIn(s) \subseteq FramesIn(r)
    BY <1>1, <1>2 DEF FramesIn
  <2>2. FramesIn(r) \subseteq FramesIn(s)
    BY <1>1 DEF FramesIn
  <2> QED BY <2>1, <2>2
<1>6. ASSUME NEW i \in DOMAIN s, LastOfPort(s, n, i)
      PROVE  s[i].state = state
  BY <1>6, <1>1, <1>2 DEF LastOfPort
<1>7. ASSUME NEW m \in Ports \ {n}, NEW i \in DOMAIN s, LastOfPort(s, m, i)
      PROVE  i \in DOMAIN r /\ LastOfPort(r, m, i) /\ s[i] = r[i]
  <2>1. i \in DOMAIN r
    BY <1>7, <1>1, <1>2 DEF LastOfPort
  <2> QED BY <2>1, <1>7, <1>1 DEF LastOfPort
<1> QED BY <1>3, <1>4, <1>5, <1>6, <1>7

-----------------------------------------------------------------------------
(* Types.                                                                   *)
LEMMA FlushType ==
    ASSUME CaptureTyped
    PROVE  /\ flush \in Seq(CaptureRecord) /\ DOMAIN flush = DOMAIN unmatched
           /\ \A i \in DOMAIN flush : flush[i].port = 0 /\ flush[i].frames = {unmatched[i]}
           /\ FramesIn(flush) = ToSet(unmatched)
<1>1. unmatched \in [1..Len(unmatched) -> TapFrame] /\ Len(unmatched) \in Nat /\ DOMAIN unmatched = 1..Len(unmatched)
  BY DEF CaptureTyped
<1>2. \A i \in DOMAIN unmatched : FrameRecord({unmatched[i]}) \in CaptureRecord
  BY <1>1 DEF FrameRecord, CaptureRecord
<1>3. flush \in [1..Len(unmatched) -> CaptureRecord]
  BY <1>1, <1>2 DEF flush
<1>4. flush \in Seq(CaptureRecord) /\ DOMAIN flush = DOMAIN unmatched
  BY <1>1, <1>3
<1>5. \A i \in DOMAIN flush : flush[i].port = 0 /\ flush[i].frames = {unmatched[i]}
  BY <1>4 DEF flush, FrameRecord
<1>6. FramesIn(flush) = ToSet(unmatched)
  BY <1>4, <1>5 DEF FramesIn, ToSet
<1> QED BY <1>4, <1>5, <1>6

LEMMA ClosedType ==
    ASSUME CaptureTyped, NEW S
    PROVE  /\ Closed(S) \in [Ports -> [state : {"none", "closed", "open", "reconnecting"}, tap : Nat, timer : Nat]]
           /\ \A n \in Ports : Closed(S)[n] = ports[n] \/ Closed(S)[n] = newPort
           /\ \A n \in Ports : n \notin S => Closed(S)[n] = ports[n]
           /\ \A n \in Ports : n \in S => Closed(S)[n].tap = 0 \/ (ports[n].state = "none" /\ Closed(S)[n] = ports[n])
<1>1. \A n \in Ports : Closed(S)[n] = IF n \in S /\ ports[n].state # "none" THEN newPort ELSE ports[n]
  BY DEF Closed
<1>2. newPort \in [state : {"none", "closed", "open", "reconnecting"}, tap : Nat, timer : Nat] /\ newPort.tap = 0
  BY DEF newPort
<1>3. \A n \in Ports : Closed(S)[n] \in [state : {"none", "closed", "open", "reconnecting"}, tap : Nat, timer : Nat]
  BY <1>1, <1>2 DEF CaptureTyped
<1>4. Closed(S) \in [Ports -> [state : {"none", "closed", "open", "reconnecting"}, tap : Nat, timer : Nat]]
  BY <1>3 DEF Closed
<1>5. ASSUME NEW n \in Ports
      PROVE  /\ Closed(S)[n] = ports[n] \/ Closed(S)[n] = newPort
             /\ n \notin S => Closed(S)[n] = ports[n]
             /\ n \in S => Closed(S)[n].tap = 0 \/ (ports[n].state = "none" /\ Closed(S)[n] = ports[n])
  <2>1. CASE n \in S /\ ports[n].state # "none"
    <3>1. Closed(S)[n] = newPort
      BY <2>1, <1>1
    <3>2. Closed(S)[n].tap = 0
      BY <3>1, <1>2
    <3> QED BY <3>1, <3>2, <2>1
  <2>2. CASE ~(n \in S /\ ports[n].state # "none")
    <3>1. Closed(S)[n] = ports[n]
      BY <2>2, <1>1
    <3> QED BY <3>1, <2>2
  <2> QED BY <2>1, <2>2
<1> QED BY <1>4, <1>5

\* What closing the ports from one on comes to.
CallCloses(c, kind, from, p, r, f, w) ==
        /\ p \in from..2 /\ ports[p].tap # 0 /\ \A n \in Ports : from <= n /\ n < p => ports[n].tap = 0
        /\ ports' = Closed(from..p)
        /\ calls' = [calls EXCEPT ![c] = [kind |-> kind, at |-> "closing", port |-> p, of |-> ports[p].tap]]
        /\ run' = r /\ file' = f /\ unmatched' = w /\ capture' = capture
CallEnds(c, kind, from, r, f, w) ==
        /\ \A n \in Ports : from <= n => ports[n].tap = 0
        /\ kind = "stop" /\ ports' = Closed(from..2) /\ capture' = 0
        /\ calls' = [calls EXCEPT ![c] = Idle]
        /\ run' = r /\ file' = f /\ unmatched' = w
CallBegins(c, kind, from, r, f) ==
        /\ \A n \in Ports : from <= n => ports[n].tap = 0
        /\ kind = "start" /\ Begin(c, r, f)

LEMMA CloseCases ==
    ASSUME CaptureTyped, NEW c \in Callers, NEW kind \in {"start", "stop"}, NEW from \in 1..3,
           NEW r, NEW f, NEW w, CloseFrom(c, kind, from, r, f, w)
    PROVE  \/ \E p \in Ports : CallCloses(c, kind, from, p, r, f, w)
           \/ CallEnds(c, kind, from, r, f, w)
           \/ CallBegins(c, kind, from, r, f)
<1> DEFINE T == {n \in from..2 : ports[n].tap # 0}
<1>1. CASE T = {}
  <2>1. \A n \in Ports : from <= n => ports[n].tap = 0
    BY <1>1 DEF Ports
  <2>2. \/ /\ kind = "stop" /\ ports' = Closed(from..2) /\ capture' = 0
           /\ calls' = [calls EXCEPT ![c] = Idle]
           /\ run' = r /\ file' = f /\ unmatched' = w
        \/ kind = "start" /\ Begin(c, r, f)
    BY <1>1 DEF CloseFrom
  <2> QED BY <2>1, <2>2 DEF CallEnds, CallBegins
<1>2. CASE T # {}
  <2>1. T \subseteq Ports /\ T \subseteq from..2
    BY DEF Ports
  <2>2. \E x \in T : \A y \in T : x <= y
    <3>1. CASE 1 \in T
      BY <3>1, <2>1 DEF Ports
    <3>2. CASE 1 \notin T
      <4>1. T = {2}
        BY <3>2, <1>2, <2>1 DEF Ports
      <4> QED BY <4>1
    <3> QED BY <3>1, <3>2
  <2>3. Min(T) \in T /\ \A y \in T : Min(T) <= y
    BY <2>2 DEF Min
  <2> DEFINE p == Min(T)
  <2>4. /\ ports' = Closed(from..p)
        /\ calls' = [calls EXCEPT ![c] = [kind |-> kind, at |-> "closing", port |-> p, of |-> ports[p].tap]]
        /\ run' = r /\ file' = f /\ unmatched' = w /\ capture' = capture
    BY <1>2 DEF CloseFrom
  <2> HIDE DEF p
  <2>5. p \in T /\ \A y \in T : p <= y
    BY <2>3 DEF p
  <2>6. p \in Ports /\ p \in from..2 /\ ports[p].tap # 0
    BY <2>5, <2>1
  <2>7. ASSUME NEW n \in Ports, from <= n, n < p
        PROVE  ports[n].tap = 0
    <3>1. n \in from..2
      BY <2>7 DEF Ports
    <3>2. n \notin T
      BY <2>7, <2>5, <2>6 DEF Ports
    <3> QED BY <3>1, <3>2
  <2>8. CallCloses(c, kind, from, p, r, f, w)
    BY <2>4, <2>6, <2>7 DEF CallCloses
  <2> QED BY <2>6, <2>8
<1> QED BY <1>1, <1>2

-----------------------------------------------------------------------------
(* What is written.                                                         *)

\* A step that writes nothing and serves no port in another state.
LEMMA NothingWritten ==
    ASSUME CaptureInv, UNCHANGED <<run, capture, file, unmatched, caught, forgotten, overlapped>>,
           \A n \in Ports : PortServed(n)' => PortServed(n) /\ ports'[n].state = ports[n].state
    PROVE  RecordsTell' /\ RetryPending' /\ RecordsItsOwn' /\ NoFrameLost'
<1>1. RecordsTell'
  BY DEF RecordsTell, CaptureInv, LastOfPort
<1>2. RetryPending'
  BY DEF RetryPending, CaptureInv, Frames
<1>3. RecordsItsOwn'
  BY DEF RecordsItsOwn, CaptureInv, Frames
<1>4. NoFrameLost'
  BY DEF NoFrameLost, CaptureInv, Frames
<1> QED BY <1>1, <1>2, <1>3, <1>4

LEMMA CallRephrased ==
    /\ RecordsItsOwn <=> \A k \in DOMAIN file : OwnRecords(file[k])
    /\ NoFrameLost <=> (~overlapped => {f.no : f \in ToSet(unmatched) \union forgotten \union AllFrames(file)} = 1..caught)
    /\ \A k \in DOMAIN file : Frames(k) = FramesIn(file[k].records)
  BY DEF RecordsItsOwn, OwnRecords, NoFrameLost, AllFrames, Frames, FramesIn

LEMMA AllTyped ==
    ASSUME CaptureTyped
    PROVE  AllFrames(file) \subseteq TapFrame
<1> SUFFICES ASSUME NEW k \in DOMAIN file, NEW i \in DOMAIN file[k].records
             PROVE  file[k].records[i].frames \subseteq TapFrame
  BY DEF AllFrames, FramesIn
<1>1. file[k] \in CaptureRow
  BY DEF CaptureTyped
<1>2. file[k].records \in Seq(CaptureRecord)
  BY <1>1 DEF CaptureRow
<1>3. file[k].records[i] \in CaptureRecord
  BY <1>2
<1> QED BY <1>3 DEF CaptureRecord

LEMMA CallRephrasedNext ==
    /\ RecordsItsOwn' <=> \A k \in DOMAIN file' : OwnRecords(file'[k])
    /\ NoFrameLost' <=> (~overlapped' => {f.no : f \in ToSet(unmatched') \union forgotten' \union AllFrames(file')} = 1..caught')
    /\ \A k \in DOMAIN file' : Frames(k)' = FramesIn(file'[k].records)
  BY DEF RecordsItsOwn, OwnRecords, NoFrameLost, AllFrames, Frames, FramesIn

LEMMA ConcatLength ==
    ASSUME NEW r \in Seq(CaptureRecord), NEW e \in Seq(CaptureRecord)
    PROVE  Len(r \o e) = Len(r) + Len(e)
  OBVIOUS

LEMMA OneMore ==
    ASSUME NEW r \in Seq(CaptureRecord), NEW e \in Seq(CaptureRecord), Len(e) = 1
    PROVE  /\ Len(r \o e) \in Nat /\ Len(r \o e) >= 1
           /\ DOMAIN (r \o e) = 1..Len(r \o e) /\ DOMAIN r = 1..(Len(r \o e) - 1)
           /\ (r \o e)[Len(r \o e)] = e[1] /\ \A i \in DOMAIN r : (r \o e)[i] = r[i]
<1>0. Len(r) \in Nat /\ DOMAIN r = 1..Len(r)
  OBVIOUS
<1>4. Len(r \o e) = Len(r) + 1
  <2>1. Len(r \o e) = Len(r) + Len(e)
    BY ConcatLength
  <2> QED BY <2>1
<1>5. DOMAIN (r \o e) = 1..Len(r \o e)
  OBVIOUS
<1>1. Len(r) \in Nat /\ DOMAIN r = 1..Len(r) /\ Len(r \o e) = Len(r) + 1 /\ DOMAIN (r \o e) = 1..Len(r \o e)
  BY <1>0, <1>4, <1>5
<1>2. (r \o e)[Len(r) + 1] = e[1]
  <2>1. /\ Len(r) + 1 \in 1..(Len(r) + Len(e)) /\ ~(Len(r) + 1 <= Len(r))
        /\ Len(r) + 1 - Len(r) = 1
    BY <1>0
  <2>2. (r \o e)[Len(r) + 1] = e[Len(r) + 1 - Len(r)]
    BY <2>1
  <2> QED BY <2>1, <2>2
<1>3. \A i \in DOMAIN r : (r \o e)[i] = r[i]
  OBVIOUS
<1> QED BY <1>1, <1>2, <1>3

\* A step that brings a served port to a state, and says so if that is new.
LEMMA PortWritten ==
    ASSUME CaptureInv, UNCHANGED <<run, capture, unmatched, caught, forgotten, overlapped>>,
           NEW n \in Ports, NEW state \in {"open", "reconnecting"}, PortServed(n),
           file' = IF ports[n].state = state THEN file ELSE record(<<PortRecord(n, state)>>),
           ports'[n].state = state,
           \A m \in Ports : PortServed(m)' => PortServed(m),
           \A m \in Ports \ {n} : ports'[m].state = ports[m].state
    PROVE  /\ RecordsTell' /\ RetryPending' /\ RecordsItsOwn' /\ NoFrameLost'
           /\ file' \in Seq(CaptureRow) /\ Len(file') = Len(file)
           /\ \A k \in DOMAIN file : file'[k].run = file[k].run
<1>0. CaptureTyped /\ RecordsTell /\ RetryPending /\ RecordsItsOwn /\ NoFrameLost
  BY DEF CaptureInv
<1>1. CASE ports[n].state = state
  <2>1. \A m \in Ports : PortServed(m)' => PortServed(m) /\ ports'[m].state = ports[m].state
    BY <1>1
  <2>2. UNCHANGED <<run, capture, file, unmatched, caught, forgotten, overlapped>>
    BY <1>1
  <2>3. RecordsTell' /\ RetryPending' /\ RecordsItsOwn' /\ NoFrameLost'
    BY <2>1, <2>2, NothingWritten
  <2> QED BY <2>3, <2>2, <1>0 DEF CaptureTyped
<1>2. CASE ports[n].state # state
  <2> DEFINE e == <<PortRecord(n, state)>>
  <2>1. e \in Seq(CaptureRecord) /\ file' = record(e) /\ Len(e) = 1 /\ e[1] = PortRecord(n, state)
    <3>1. PortRecord(n, state) \in CaptureRecord
      BY DEF PortRecord, CaptureRecord, Ports
    <3> QED BY <3>1, <1>2
  <2> HIDE DEF e
  <2>2. /\ file' \in Seq(CaptureRow) /\ Len(file') = Len(file) /\ DOMAIN file' = DOMAIN file
        /\ capture = 0 => file' = file
        /\ capture # 0 => capture \in DOMAIN file /\ file'[capture].records = file[capture].records \o e
        /\ \A k \in DOMAIN file : file'[k].run = file[k].run
        /\ \A k \in DOMAIN file : k # capture => file'[k] = file[k]
    BY <2>1, <1>0, RecordsAdded
  <2>3. CASE capture = 0
    <3>1. file' = file
      BY <2>2, <2>3
    <3>2. RecordsTell'
      BY <2>3 DEF RecordsTell
    <3>3. RetryPending'
      BY <3>1, <2>3, <1>0 DEF RetryPending, Frames
    <3>4. RecordsItsOwn' /\ NoFrameLost'
      BY <3>1, <1>0 DEF RecordsItsOwn, NoFrameLost, Frames
    <3> QED BY <3>2, <3>3, <3>4, <2>2
  <2>4. CASE capture # 0
    <3> DEFINE r == file[capture].records
               q == file'[capture].records
    <3>0. capture \in DOMAIN file /\ file[capture] \in CaptureRow
      BY <2>2, <2>4, <1>0 DEF CaptureTyped
    <3>1. r \in Seq(CaptureRecord) /\ capture \in DOMAIN file /\ q = r \o e
      BY <3>0, <2>2, <2>4 DEF CaptureRow
    <3>2. OwnRecords(file[capture]) /\ OnceEach(r) /\ RealChanges(r)
      BY <3>1, <1>0, CallRephrased DEF OwnRecords
    <3>3. \A i \in DOMAIN r : LastOfPort(r, n, i) => r[i].state # state
      BY <1>0, <1>2, <2>4 DEF RecordsTell
    <3> HIDE DEF r, q
    <3> DEFINE l == Len(q)
    <3>13. /\ l \in Nat /\ l >= 1 /\ DOMAIN q = 1..l /\ DOMAIN r = 1..(l - 1)
           /\ q[l] = e[1] /\ \A i \in DOMAIN r : q[i] = r[i]
      <4>1. /\ Len(r \o e) \in Nat /\ Len(r \o e) >= 1
            /\ DOMAIN (r \o e) = 1..Len(r \o e) /\ DOMAIN r = 1..(Len(r \o e) - 1)
            /\ (r \o e)[Len(r \o e)] = e[1] /\ \A i \in DOMAIN r : (r \o e)[i] = r[i]
        BY <3>1, <2>1, OneMore
      <4> QED BY <4>1, <3>1
    <3> HIDE DEF l
    <3>14. StateChanged(r, n, state, l, q)
      BY <2>1, <3>1, <3>2, <3>3, <3>13 DEF StateChanged
    <3>4. /\ OnceEach(q) /\ RealChanges(q) /\ FramesIn(q) = FramesIn(r)
          /\ \A i \in DOMAIN q : LastOfPort(q, n, i) => q[i].state = state
          /\ \A m \in Ports \ {n} : \A i \in DOMAIN q :
                LastOfPort(q, m, i) => i \in DOMAIN r /\ LastOfPort(r, m, i) /\ q[i] = r[i]
      BY <3>14, ChangeAdded
    <3>5. \A k \in DOMAIN file : FramesIn(file'[k].records) = FramesIn(file[k].records)
      BY <2>2, <3>4 DEF q, r
    <3>6. \A k \in DOMAIN file : Frames(k)' = Frames(k)
      BY <3>5, <2>2, CallRephrased, CallRephrasedNext
    <3>7. OwnRecords(file'[capture])
      BY <3>4, <3>2, <2>2, <3>1 DEF OwnRecords, q, r
    <3>8. \A k \in DOMAIN file' : OwnRecords(file'[k])
      BY <3>7, <2>2, <1>0, CallRephrased
    <3>9. AllFrames(file') = AllFrames(file)
      BY <3>5, <2>2 DEF AllFrames
    <3>10. RecordsItsOwn' /\ NoFrameLost'
      BY <3>8, <3>9, <1>0, CallRephrased, CallRephrasedNext
    <3>11. RetryPending'
      BY <3>6, <2>2, <3>1, <1>0 DEF RetryPending
    <3>12. RecordsTell'
      <4> SUFFICES ASSUME NEW m \in Ports, PortServed(m)', NEW i \in DOMAIN q, LastOfPort(q, m, i)
                   PROVE  q[i].state = ports'[m].state
        BY DEF RecordsTell, q
      <4>1. CASE m = n
        BY <4>1, <3>4
      <4>2. CASE m # n
        <5>1. i \in DOMAIN r /\ LastOfPort(r, m, i) /\ q[i] = r[i]
          BY <4>2, <3>4
        <5>2. r[i].state = ports[m].state
          BY <5>1, <1>0, <2>4 DEF RecordsTell, r
        <5> QED BY <4>2, <5>1, <5>2
      <4> QED BY <4>1, <4>2
    <3> QED BY <3>10, <3>11, <3>12, <2>2
  <2> QED BY <2>3, <2>4
<1> QED BY <1>1, <1>2

\* Frames of the capture's run, not written yet, written: each once.
NewFrames(e) ==
       /\ e \in Seq(CaptureRecord) /\ OnceEach(e) /\ \A i \in DOMAIN e : e[i].port = 0
       /\ capture # 0 => \A g \in FramesIn(e) : /\ g.run = file[capture].run
                                                /\ g \notin FramesIn(file[capture].records)
\* The file f is the file with the records e, which tell of no port, written to it.
Grown(f, e) ==
    /\ f \in Seq(CaptureRow) /\ Len(f) = Len(file) /\ DOMAIN f = DOMAIN file
    /\ \A k \in DOMAIN file : f[k].run = file[k].run /\ OwnRecords(f[k])
    /\ AllFrames(f) = IF capture = 0 THEN AllFrames(file) ELSE AllFrames(file) \union FramesIn(e)
    /\ \A k \in DOMAIN file : FramesIn(f[k].records) =
          IF k = capture THEN FramesIn(file[k].records) \union FramesIn(e) ELSE FramesIn(file[k].records)
    /\ capture # 0 => \A n \in Ports : \A i \in DOMAIN f[capture].records :
          LastOfPort(f[capture].records, n, i) =>
             /\ i \in DOMAIN file[capture].records /\ LastOfPort(file[capture].records, n, i)
             /\ f[capture].records[i] = file[capture].records[i]

LEMMA FramesWritten ==
    ASSUME CaptureInv, NEW e, NewFrames(e), NEW f, f = record(e)
    PROVE  Grown(f, e)
<1>0. CaptureTyped /\ RecordsItsOwn
  BY DEF CaptureInv
<1>1. e \in Seq(CaptureRecord) /\ OnceEach(e) /\ \A i \in DOMAIN e : e[i].port = 0
  BY DEF NewFrames
<1>2. /\ f \in Seq(CaptureRow) /\ Len(f) = Len(file) /\ DOMAIN f = DOMAIN file
      /\ capture = 0 => f = file
      /\ capture # 0 => capture \in DOMAIN file /\ f[capture].records = file[capture].records \o e
      /\ \A k \in DOMAIN file : f[k].run = file[k].run
      /\ \A k \in DOMAIN file : k # capture => f[k] = file[k]
  BY <1>0, <1>1, RecordsAdded
<1>3. \A k \in DOMAIN file : OwnRecords(file[k])
  BY <1>0, CallRephrased
<1>5. CASE capture = 0
  <2>1. 0 \notin DOMAIN file
    BY <1>0 DEF CaptureTyped
  <2> QED BY <2>1, <1>2, <1>3, <1>5 DEF Grown
<1>6. CASE capture # 0
  <2> DEFINE r == file[capture].records
             q == f[capture].records
  <2>0. capture \in DOMAIN file /\ file[capture] \in CaptureRow
    BY <1>2, <1>6, <1>0 DEF CaptureTyped
  <2>1. r \in Seq(CaptureRecord) /\ q = r \o e /\ capture \in DOMAIN file
    BY <2>0, <1>2, <1>6 DEF CaptureRow
  <2>2. OnceEach(r) /\ RealChanges(r)
    BY <2>1, <1>3 DEF OwnRecords
  <2>3. \A g \in FramesIn(e) : g.run = file[capture].run /\ g \notin FramesIn(r)
    BY <1>6 DEF NewFrames
  <2>4. \A i \in DOMAIN e : e[i].port = 0 /\ e[i].frames \intersect FramesIn(r) = {}
    BY <1>1, <2>3 DEF FramesIn
  <2> HIDE DEF r, q
  <2>6. /\ OnceEach(q) /\ RealChanges(q) /\ FramesIn(q) = FramesIn(r) \union FramesIn(e)
        /\ \A n \in Ports : \A i \in DOMAIN q : LastOfPort(q, n, i) =>
              i \in DOMAIN r /\ LastOfPort(r, n, i) /\ q[i] = r[i]
    BY <2>1, <2>2, <2>4, <1>1, FramesAdded
  <2>7. OwnRecords(f[capture])
    <3>1. \A g \in FramesIn(r) : g.run = file[capture].run
      BY <1>3, <2>1 DEF OwnRecords, r
    <3>2. \A g \in FramesIn(q) : g.run = f[capture].run
      BY <3>1, <2>3, <2>6, <1>2, <2>1
    <3> QED BY <3>2, <2>6 DEF OwnRecords, q
  <2>5. \A k \in DOMAIN file : FramesIn(f[k].records) =
           IF k = capture THEN FramesIn(file[k].records) \union FramesIn(e) ELSE FramesIn(file[k].records)
    BY <2>6, <1>2 DEF q, r
  <2>8. AllFrames(f) = AllFrames(file) \union FramesIn(e)
    <3>2. ASSUME NEW g \in AllFrames(f)
          PROVE  g \in AllFrames(file) \union FramesIn(e)
      <4>1. PICK k \in DOMAIN file : g \in FramesIn(f[k].records)
        BY <3>2, <1>2 DEF AllFrames
      <4>2. g \in FramesIn(file[k].records) \/ g \in FramesIn(e)
        BY <4>1, <2>5
      <4> QED BY <4>2 DEF AllFrames
    <3>3. ASSUME NEW g \in AllFrames(file)
          PROVE  g \in AllFrames(f)
      <4>1. PICK k \in DOMAIN file : g \in FramesIn(file[k].records)
        BY <3>3 DEF AllFrames
      <4>2. g \in FramesIn(f[k].records) /\ k \in DOMAIN f
        BY <4>1, <2>5, <1>2
      <4> QED BY <4>2 DEF AllFrames
    <3>4. ASSUME NEW g \in FramesIn(e)
          PROVE  g \in AllFrames(f)
      <4>1. g \in FramesIn(f[capture].records) /\ capture \in DOMAIN f
        BY <3>4, <2>5, <1>2, <2>1
      <4> QED BY <4>1 DEF AllFrames
    <3> QED BY <3>2, <3>3, <3>4
  <2>11. \A k \in DOMAIN file : f[k].run = file[k].run /\ OwnRecords(f[k])
    BY <2>7, <1>2, <1>3
  <2> QED BY <1>2, <1>6, <2>5, <2>6, <2>8, <2>11 DEF q, r, Grown
<1> QED BY <1>5, <1>6

\* What the pairer holds, written: each frame once, and none is left.
LEMMA FlushWritten ==
    ASSUME CaptureInv, NEW f, f = record(flush)
    PROVE  /\ f \in Seq(CaptureRow) /\ Len(f) = Len(file) /\ DOMAIN f = DOMAIN file
           /\ \A k \in DOMAIN file : f[k].run = file[k].run /\ OwnRecords(f[k])
           /\ \A g \in AllFrames(f) : g.no <= caught
           /\ AllFrames(f) = IF capture = 0 THEN AllFrames(file) ELSE AllFrames(file) \union ToSet(unmatched)
           /\ capture # 0 => \A n \in Ports : \A i \in DOMAIN f[capture].records :
                 LastOfPort(f[capture].records, n, i) =>
                    /\ i \in DOMAIN file[capture].records /\ LastOfPort(file[capture].records, n, i)
                    /\ f[capture].records[i] = file[capture].records[i]
<1>0. CaptureTyped /\ RetryPending
  BY DEF CaptureInv
<1>1. /\ flush \in Seq(CaptureRecord) /\ DOMAIN flush = DOMAIN unmatched
      /\ \A i \in DOMAIN flush : flush[i].port = 0 /\ flush[i].frames = {unmatched[i]}
      /\ FramesIn(flush) = ToSet(unmatched)
  BY <1>0, FlushType
<1>2. OnceEach(flush)
  BY <1>0, <1>1 DEF RetryPending, OnceEach
<1>3. capture # 0 => capture \in DOMAIN file
  BY <1>0 DEF CaptureTyped
<1>4. capture # 0 => \A g \in ToSet(unmatched) : g.run = file[capture].run /\ g \notin FramesIn(file[capture].records)
  BY <1>0, <1>3, CallRephrased DEF RetryPending, ToSet
<1>5. NewFrames(flush)
  BY <1>1, <1>2, <1>4 DEF NewFrames
<1>6. \A g \in AllFrames(file) : g.no <= caught
  BY <1>0, CallRephrased DEF RetryPending, AllFrames
<1>7. \A g \in ToSet(unmatched) : g.no <= caught
  BY <1>0 DEF ToSet, RetryPending
<1>8. /\ f \in Seq(CaptureRow) /\ Len(f) = Len(file) /\ DOMAIN f = DOMAIN file
      /\ \A k \in DOMAIN file : f[k].run = file[k].run /\ OwnRecords(f[k])
      /\ AllFrames(f) = IF capture = 0 THEN AllFrames(file) ELSE AllFrames(file) \union FramesIn(flush)
      /\ capture # 0 => \A n \in Ports : \A i \in DOMAIN f[capture].records :
            LastOfPort(f[capture].records, n, i) =>
               /\ i \in DOMAIN file[capture].records /\ LastOfPort(file[capture].records, n, i)
               /\ f[capture].records[i] = file[capture].records[i]
  <2>1. Grown(f, flush)
    BY <1>5, FramesWritten
  <2> QED BY <2>1 DEF Grown
<1>9. \A g \in AllFrames(f) : g.no <= caught
  BY <1>1, <1>6, <1>7, <1>8
<1> QED BY <1>1, <1>8, <1>9

LEMMA Concatenated ==
    ASSUME NEW S, NEW a \in Seq(S), NEW b \in Seq(S)
    PROVE  /\ a \o b \in Seq(S) /\ Len(a \o b) = Len(a) + Len(b) /\ DOMAIN (a \o b) = 1..(Len(a) + Len(b))
           /\ \A j \in DOMAIN (a \o b) : (a \o b)[j] = IF j <= Len(a) THEN a[j] ELSE b[j - Len(a)]
<1>1. a \o b \in Seq(S) /\ Len(a \o b) = Len(a) + Len(b)
  OBVIOUS
<1>2. DOMAIN (a \o b) = 1..(Len(a) + Len(b))
  OBVIOUS
<1>3. \A j \in DOMAIN (a \o b) : (a \o b)[j] = IF j <= Len(a) THEN a[j] ELSE b[j - Len(a)]
  OBVIOUS
<1> QED BY <1>1, <1>2, <1>3

\* A waiting frame taken out: the others stay.
LEMMA TakenAt ==
    ASSUME NEW w \in Seq(TapFrame), NEW i \in DOMAIN w,
           \A j, k \in DOMAIN w : j # k => w[j] # w[k]
    PROVE  /\ RemoveAt(w, i) \in Seq(TapFrame)
           /\ ToSet(RemoveAt(w, i)) = ToSet(w) \ {w[i]}
           /\ \A j, k \in DOMAIN RemoveAt(w, i) : j # k => RemoveAt(w, i)[j] # RemoveAt(w, i)[k]
<1> DEFINE a == SubSeq(w, 1, i - 1)
           b == SubSeq(w, i + 1, Len(w))
           q == RemoveAt(w, i)
<1>0. Len(w) \in Nat /\ DOMAIN w = 1..Len(w) /\ i \in 1..Len(w)
  OBVIOUS
<1>1. a \in Seq(TapFrame) /\ Len(a) = i - 1 /\ \A j \in 1..(i - 1) : a[j] = w[j]
  BY <1>0
<1>2. b \in Seq(TapFrame) /\ Len(b) = Len(w) - i /\ \A j \in 1..(Len(w) - i) : b[j] = w[i + j]
  BY <1>0
<1>3. q = a \o b
  BY DEF RemoveAt
<1> HIDE DEF a, b, q
<1>9. /\ a \o b \in Seq(TapFrame) /\ Len(a \o b) = Len(a) + Len(b) /\ DOMAIN (a \o b) = 1..(Len(a) + Len(b))
      /\ \A j \in DOMAIN (a \o b) : (a \o b)[j] = IF j <= Len(a) THEN a[j] ELSE b[j - Len(a)]
  BY <1>1, <1>2, Concatenated
<1>4. /\ q \in Seq(TapFrame) /\ Len(q) = Len(a) + Len(b) /\ DOMAIN q = 1..(Len(a) + Len(b))
      /\ \A j \in DOMAIN q : q[j] = IF j <= Len(a) THEN a[j] ELSE b[j - Len(a)]
  BY <1>9, <1>3
<1>5. \A j \in DOMAIN q : q[j] = IF j < i THEN w[j] ELSE w[j + 1]
  <2> SUFFICES ASSUME NEW j \in DOMAIN q PROVE q[j] = IF j < i THEN w[j] ELSE w[j + 1]
    OBVIOUS
  <2>1. j \in 1..(Len(w) - 1) /\ q[j] = IF j <= Len(a) THEN a[j] ELSE b[j - Len(a)]
    BY <1>0, <1>1, <1>2, <1>4
  <2>2. CASE j < i
    BY <2>1, <2>2, <1>0, <1>1
  <2>3. CASE ~(j < i)
    <3>1. j - Len(a) \in 1..(Len(w) - i) /\ ~(j <= Len(a)) /\ i + (j - Len(a)) = j + 1
      BY <2>1, <2>3, <1>0, <1>1
    <3> QED BY <3>1, <2>1, <2>3, <1>2
  <2> QED BY <2>2, <2>3
<1>6. DOMAIN q = 1..(Len(w) - 1)
  BY <1>0, <1>1, <1>2, <1>4
<1>7. \A j, k \in DOMAIN q : j # k => q[j] # q[k]
  <2> SUFFICES ASSUME NEW j \in DOMAIN q, NEW k \in DOMAIN q, j # k PROVE q[j] # q[k]
    OBVIOUS
  <2> DEFINE p(m) == IF m < i THEN m ELSE m + 1
  <2>1. p(j) \in DOMAIN w /\ p(k) \in DOMAIN w /\ p(j) # p(k)
    BY <1>0, <1>6
  <2>2. q[j] = w[p(j)] /\ q[k] = w[p(k)]
    BY <1>5
  <2> QED BY <2>1, <2>2
<1>8. ToSet(q) = ToSet(w) \ {w[i]}
  <2>1. ASSUME NEW x \in ToSet(q)
        PROVE  x \in ToSet(w) \ {w[i]}
    <3>1. PICK j \in DOMAIN q : x = q[j]
      BY DEF ToSet
    <3> DEFINE p == IF j < i THEN j ELSE j + 1
    <3>2. p \in DOMAIN w /\ p # i
      BY <1>0, <1>6
    <3>3. x = w[p]
      BY <3>1, <1>5
    <3> QED BY <3>2, <3>3 DEF ToSet
  <2>2. ASSUME NEW x \in ToSet(w) \ {w[i]}
        PROVE  x \in ToSet(q)
    <3>1. PICK j \in DOMAIN w : x = w[j] /\ j # i
      BY DEF ToSet
    <3> DEFINE p == IF j < i THEN j ELSE j - 1
    <3>2. p \in DOMAIN q /\ (IF p < i THEN p ELSE p + 1) = j
      BY <3>1, <1>0, <1>6
    <3>3. q[p] = x
      BY <3>1, <3>2, <1>5
    <3> QED BY <3>2, <3>3 DEF ToSet
  <2> QED BY <2>1, <2>2
<1> QED BY <1>4, <1>7, <1>8 DEF q

-----------------------------------------------------------------------------
(* The steps.                                                               *)
LEMMA CaptureInvInit ==
    ASSUME CaptureInit
    PROVE  CaptureInv
<1>1. /\ run = 0 /\ capture = 0 /\ file = <<>> /\ taps = {} /\ reopening = {} /\ unmatched = <<>>
      /\ caught = 0 /\ asked = 0 /\ forgotten = {} /\ overlapped = FALSE /\ trouble = 0
      /\ ports = [n \in Ports |-> NoPort] /\ calls = [c \in Callers |-> Idle]
  BY DEF CaptureInit
<1>2. \A n \in Ports : ports[n].state = "none" /\ ports[n].tap = 0 /\ ports[n].timer = 0
  BY <1>1 DEF NoPort
<1>3. \A c \in Callers : calls[c] = Idle /\ calls[c].at = "idle" /\ calls[c].of = 0
  BY <1>1 DEF Idle
<1>4. CaptureTyped
  <2>1. ports \in [Ports -> [state : {"none", "closed", "open", "reconnecting"}, tap : Nat, timer : Nat]]
    BY <1>1 DEF NoPort
  <2>2. calls \in [Callers -> [kind : {"none", "start", "stop"}, at : {"idle", "closing", "opening"}, port : 0..2, of : Nat]]
    BY <1>1 DEF Idle
  <2>3. file \in Seq(CaptureRow) /\ unmatched \in Seq(TapFrame) /\ Len(file) = 0
    BY <1>1
  <2>4. run \in Nat /\ capture \in Nat /\ capture <= Len(file)
    BY <1>1, <2>3
  <2>5. caught \in Nat /\ asked \in Nat /\ trouble \in Nat /\ overlapped \in BOOLEAN
    BY <1>1
  <2>6. taps \subseteq Ports \X Nat /\ reopening \subseteq Ports \X Nat /\ forgotten \subseteq TapFrame
    BY <1>1
  <2> QED BY <2>1, <2>2, <2>3, <2>4, <2>5, <2>6 DEF CaptureTyped
<1>5. Numbered
  BY <1>1, <1>2, <1>3 DEF Numbered
<1>6. \A n \in Ports : ~StartsOn(n) /\ ~PortServed(n)
  BY <1>1, <1>3 DEF StartsOn, PortServed
<1>7. OneWay
  BY <1>1, <1>3, <1>6 DEF OneWay
<1>8. RecordsTell /\ RetryPending
  BY <1>1 DEF RecordsTell, RetryPending
<1>9. Serially
  BY <1>1, <1>2, <1>3, <1>6 DEF Serially, UnderWay, Closing
<1>10. RecordsItsOwn
  BY <1>1 DEF RecordsItsOwn
<1>11. NoFrameLost
  BY <1>1 DEF NoFrameLost, ToSet
<1> QED BY <1>4, <1>5, <1>7, <1>8, <1>9, <1>10, <1>11 DEF CaptureInv

LEMMA RetryStep ==
    ASSUME CaptureInv, NEW n \in Ports, RetryFires(n)
    PROVE  CaptureInv'
<1>0. CaptureTyped /\ Numbered /\ OneWay /\ Serially
  BY DEF CaptureInv
<1>1. /\ ports[n].timer # 0 /\ UNCHANGED <<run, capture, file, taps, unmatched, calls, caught, asked, forgotten, overlapped, trouble>>
      /\ reopening' = IF ports[n].timer = run THEN reopening \union {<<n, run>>} ELSE reopening
      /\ ports' = [ports EXCEPT ![n].timer = 0]
  BY DEF RetryFires
<1>2. ports' \in [Ports -> [state : {"none", "closed", "open", "reconnecting"}, tap : Nat, timer : Nat]]
  BY <1>0, <1>1 DEF CaptureTyped
<1>3. \A m \in Ports : /\ ports'[m].tap = ports[m].tap /\ ports'[m].state = ports[m].state
                       /\ ports'[m].timer = IF m = n THEN 0 ELSE ports[m].timer
                       /\ m # n => ports'[m] = ports[m]
  BY <1>0, <1>1 DEF CaptureTyped
<1>4. CaptureTyped'
  BY <1>0, <1>1, <1>2 DEF CaptureTyped
<1>5. \A m \in Ports : StartsOn(m)' <=> StartsOn(m)
  BY <1>1 DEF StartsOn
<1>6. \A m \in Ports : PortServed(m)' <=> PortServed(m)
  BY <1>1, <1>3, <1>5, <1>0 DEF PortServed, CaptureTyped
<1>7. RecordsTell' /\ RetryPending' /\ RecordsItsOwn' /\ NoFrameLost'
  BY <1>1, <1>3, <1>6, NothingWritten
<1>8. run \in Nat /\ run # 0 /\ ports[n].timer <= run /\ ports[n].tap = 0 /\ \A m \in Ports : ports[m].timer \in Nat
  BY <1>0, <1>1 DEF CaptureTyped, Numbered
<1>9. Numbered'
  <2>1. \A m \in Ports : /\ ports'[m].tap <= run /\ ports'[m].timer <= run
                         /\ ports'[m].state = "open" <=> ports'[m].tap # 0
                         /\ ports'[m].tap # 0 => ports'[m].timer = 0
    BY <1>0, <1>3, <1>8 DEF Numbered
  <2>2. \A m \in Ports, r \in Nat : <<m, r>> \in taps \union reopening' => 1 <= r /\ r <= run
    BY <1>0, <1>1, <1>8 DEF Numbered
  <2> QED BY <1>0, <1>1, <2>1, <2>2 DEF Numbered
<1>10. OneWay'
  <2>1. ~StartsOn(n)
    <3>1. newPort.timer = 0
      BY DEF newPort
    <3> QED BY <3>1, <1>0, <1>1 DEF OneWay
  <2>2. \A m \in Ports : StartsOn(m)' => ports'[m] = newPort /\ <<m, run>> \notin reopening'
    BY <2>1, <1>0, <1>1, <1>3, <1>5 DEF OneWay
  <2>3. \A m \in Ports : <<m, run>> \in reopening' => ports'[m].tap = 0 /\ ports'[m].timer = 0
    BY <1>0, <1>1, <1>3, <1>8 DEF OneWay
  <2> QED BY <1>0, <1>1, <1>6, <2>2, <2>3 DEF OneWay
<1>11. Serially'
  BY <1>0, <1>1, <1>3, <1>6 DEF Serially, UnderWay, Closing
<1> QED BY <1>4, <1>7, <1>9, <1>10, <1>11 DEF CaptureInv

LEMMA FlushStep ==
    ASSUME CaptureInv, FlushTimer
    PROVE  CaptureInv'
<1>0. CaptureTyped /\ Numbered /\ OneWay /\ Serially /\ RecordsTell /\ RetryPending /\ NoFrameLost
  BY DEF CaptureInv
<1>1. /\ unmatched # <<>> /\ file' = record(flush) /\ unmatched' = <<>>
      /\ UNCHANGED <<run, capture, ports, taps, reopening, calls, caught, asked, forgotten, overlapped, trouble>>
  BY DEF FlushTimer
<1>2. /\ file' \in Seq(CaptureRow) /\ Len(file') = Len(file) /\ DOMAIN file' = DOMAIN file
      /\ \A k \in DOMAIN file : file'[k].run = file[k].run /\ OwnRecords(file'[k])
      /\ \A g \in AllFrames(file') : g.no <= caught
      /\ AllFrames(file') = IF capture = 0 THEN AllFrames(file) ELSE AllFrames(file) \union ToSet(unmatched)
      /\ capture # 0 => \A n \in Ports : \A i \in DOMAIN file'[capture].records :
            LastOfPort(file'[capture].records, n, i) =>
               /\ i \in DOMAIN file[capture].records /\ LastOfPort(file[capture].records, n, i)
               /\ file'[capture].records[i] = file[capture].records[i]
  BY <1>1, FlushWritten
<1>3. capture \in Nat /\ (capture # 0 => capture \in DOMAIN file)
  BY <1>0 DEF CaptureTyped
<1>4. CaptureTyped'
  BY <1>0, <1>1, <1>2 DEF CaptureTyped
<1>5. \A m \in Ports : (StartsOn(m)' <=> StartsOn(m)) /\ (PortServed(m)' <=> PortServed(m))
  BY <1>1 DEF StartsOn, PortServed
<1>6. Numbered'
  BY <1>0, <1>1, <1>2, <1>3 DEF Numbered
<1>7. OneWay'
  BY <1>0, <1>1, <1>2, <1>3, <1>5 DEF OneWay
<1>8. Serially'
  BY <1>0, <1>1, <1>5 DEF Serially, UnderWay, Closing
<1>9. RecordsTell'
  BY <1>0, <1>1, <1>2, <1>5 DEF RecordsTell
<1>10. RetryPending'
  <2>1. \A k \in DOMAIN file' : Frames(k)' \subseteq AllFrames(file')
    BY CallRephrasedNext DEF AllFrames
  <2> QED BY <2>1, <1>1, <1>2 DEF RetryPending
<1>11. RecordsItsOwn'
  BY <1>2, CallRephrasedNext
<1>12. NoFrameLost'
  <2>1. ~overlapped => capture # 0
    BY <1>0, <1>1 DEF Serially
  <2>2. ToSet(unmatched') = {}
    BY <1>1 DEF ToSet
  <2>3. ~overlapped => ToSet(unmatched') \union forgotten' \union AllFrames(file')
                       = ToSet(unmatched) \union forgotten \union AllFrames(file)
    BY <2>1, <2>2, <1>1, <1>2
  <2> QED BY <2>3, <1>0, <1>1, CallRephrased, CallRephrasedNext
<1> QED BY <1>4, <1>6, <1>7, <1>8, <1>9, <1>10, <1>11, <1>12 DEF CaptureInv

LEMMA HearStep ==
    ASSUME CaptureInv, NEW n \in Ports, Hear(n)
    PROVE  CaptureInv'
<1> DEFINE h == [run |-> run, port |-> n, no |-> caught + 1]
<1>0. CaptureTyped /\ Numbered /\ OneWay /\ Serially /\ RecordsTell /\ RetryPending /\ NoFrameLost /\ RecordsItsOwn
  BY DEF CaptureInv
<1>1. /\ ports[n].tap = run /\ <<n, run>> \in taps /\ caught' = caught + 1
      /\ UNCHANGED <<run, capture, ports, taps, reopening, calls, asked, forgotten, overlapped, trouble>>
      /\ \/ \E i \in DOMAIN unmatched : /\ file' = record(<<FrameRecord({unmatched[i], h})>>)
                                        /\ unmatched' = RemoveAt(unmatched, i)
         \/ file' = file /\ unmatched' = Append(unmatched, h)
  BY DEF Hear
<1>2. /\ h \in TapFrame /\ run # 0 /\ caught \in Nat /\ capture \in Nat /\ (capture # 0 => capture \in DOMAIN file)
      /\ h.no = caught + 1 /\ h.run = run /\ unmatched \in Seq(TapFrame)
  BY <1>0, <1>1 DEF CaptureTyped, Numbered, TapFrame
<1> HIDE DEF h
<1>3. PortServed(n) /\ (capture # 0 => file[capture].run = run)
  BY <1>0, <1>1, <1>2 DEF PortServed, OneWay
<1>4. ~overlapped => capture # 0
  BY <1>0, <1>3 DEF Serially
<1>5. \A m \in Ports : (StartsOn(m)' <=> StartsOn(m)) /\ (PortServed(m)' <=> PortServed(m))
  BY <1>1 DEF StartsOn, PortServed
<1>6. \A g \in ToSet(unmatched) : g.no <= caught /\ g # h
  <2>1. \A g \in ToSet(unmatched) : g.no <= caught
    BY <1>0 DEF ToSet, RetryPending
  <2> QED BY <2>1, <1>2
<1>7. \A g \in AllFrames(file) : g.no <= caught /\ g # h
  <2>1. \A g \in AllFrames(file) : g.no <= caught
    BY <1>0, CallRephrased DEF AllFrames, RetryPending
  <2> QED BY <2>1, <1>2
<1>8. \A k \in DOMAIN file : FramesIn(file[k].records) \subseteq AllFrames(file)
  BY DEF AllFrames
<1>9. /\ file' \in Seq(CaptureRow) /\ Len(file') = Len(file) /\ DOMAIN file' = DOMAIN file
      /\ unmatched' \in Seq(TapFrame)
      /\ \A k \in DOMAIN file : file'[k].run = file[k].run /\ OwnRecords(file'[k])
      /\ \A g \in AllFrames(file') : g.no <= caught + 1
      /\ ToSet(unmatched') \subseteq ToSet(unmatched) \union {h}
      /\ capture # 0 => ToSet(unmatched') \union AllFrames(file') = ToSet(unmatched) \union AllFrames(file) \union {h}
      /\ capture # 0 => ToSet(unmatched') \intersect FramesIn(file'[capture].records) = {}
      /\ \A i, j \in DOMAIN unmatched' : i # j => unmatched'[i] # unmatched'[j]
      /\ capture # 0 => \A m \in Ports : \A i \in DOMAIN file'[capture].records :
            LastOfPort(file'[capture].records, m, i) =>
               /\ i \in DOMAIN file[capture].records /\ LastOfPort(file[capture].records, m, i)
               /\ file'[capture].records[i] = file[capture].records[i]
  <2>1. CASE \E i \in DOMAIN unmatched : /\ file' = record(<<FrameRecord({unmatched[i], h})>>)
                                         /\ unmatched' = RemoveAt(unmatched, i)
    <3>1. PICK i \in DOMAIN unmatched : /\ file' = record(<<FrameRecord({unmatched[i], h})>>)
                                        /\ unmatched' = RemoveAt(unmatched, i)
      BY <2>1
    <3> DEFINE x == unmatched[i]
               e == <<FrameRecord({x, h})>>
    <3>2. x \in TapFrame /\ x \in ToSet(unmatched)
      BY <1>2 DEF ToSet
    <3>3. e \in Seq(CaptureRecord) /\ DOMAIN e = {1} /\ e[1].port = 0 /\ e[1].frames = {x, h} /\ file' = record(e)
      BY <3>1, <3>2, <1>2 DEF FrameRecord, CaptureRecord
    <3>4. capture # 0 => x.run = file[capture].run /\ x \notin FramesIn(file[capture].records)
      BY <1>0, <1>2, CallRephrased DEF RetryPending
    <3> HIDE DEF x, e
    <3>5. FramesIn(e) = {x, h}
      BY <3>3 DEF FramesIn
    <3>6. capture # 0 => h \notin FramesIn(file[capture].records)
      BY <1>2, <1>7, <1>8
    <3>7. \A g \in FramesIn(e) : capture # 0 => g.run = file[capture].run /\ g \notin FramesIn(file[capture].records)
      BY <3>4, <3>5, <3>6, <1>2, <1>3
    <3>8. OnceEach(e)
      BY <3>3 DEF OnceEach
    <3>9. NewFrames(e)
      BY <3>3, <3>7, <3>8 DEF NewFrames
    <3>10. /\ file' \in Seq(CaptureRow) /\ Len(file') = Len(file) /\ DOMAIN file' = DOMAIN file
           /\ \A k \in DOMAIN file : file'[k].run = file[k].run /\ OwnRecords(file'[k])
           /\ AllFrames(file') = IF capture = 0 THEN AllFrames(file) ELSE AllFrames(file) \union FramesIn(e)
           /\ \A k \in DOMAIN file : FramesIn(file'[k].records) =
                 IF k = capture THEN FramesIn(file[k].records) \union FramesIn(e) ELSE FramesIn(file[k].records)
           /\ capture # 0 => \A m \in Ports : \A j \in DOMAIN file'[capture].records :
                 LastOfPort(file'[capture].records, m, j) =>
                    /\ j \in DOMAIN file[capture].records /\ LastOfPort(file[capture].records, m, j)
                    /\ file'[capture].records[j] = file[capture].records[j]
      <4>1. ASSUME NEW f, f = record(e)
            PROVE  Grown(f, e)
        BY <4>1, <3>9, FramesWritten
      <4>2. Grown(file', e)
        BY <3>3, <4>1
      <4> QED BY <4>2 DEF Grown
    <3>11. /\ unmatched' \in Seq(TapFrame) /\ ToSet(unmatched') = ToSet(unmatched) \ {x}
           /\ \A j, k \in DOMAIN unmatched' : j # k => unmatched'[j] # unmatched'[k]
      BY <3>1, <1>0, <1>2, TakenAt DEF RetryPending, x
    <3>12. \A g \in AllFrames(file') : g.no <= caught + 1
      <4>1. \A g \in FramesIn(e) : g.no <= caught + 1
        BY <3>2, <3>5, <1>2, <1>6 DEF TapFrame
      <4>2. \A g \in AllFrames(file) : g.no \in Nat => g.no <= caught + 1
        BY <1>7, <1>2
      <4>3. \A g \in AllFrames(file) : g.no <= caught
        BY <1>7
      <4>4. \A g \in AllFrames(file) : g.no \in Nat
        BY <1>0, AllTyped DEF TapFrame
      <4> QED BY <4>1, <4>2, <4>4, <3>10
    <3>13. capture # 0 => ToSet(unmatched') \union AllFrames(file') = ToSet(unmatched) \union AllFrames(file) \union {h}
      BY <3>2, <3>5, <3>10, <3>11
    <3>14. capture # 0 => ToSet(unmatched') \intersect FramesIn(file'[capture].records) = {}
      <4>1. capture # 0 => ToSet(unmatched) \intersect FramesIn(file[capture].records) = {}
        BY <1>0, <1>2, CallRephrased DEF RetryPending, ToSet
      <4> QED BY <4>1, <3>5, <3>10, <3>11, <1>2, <1>6
    <3> QED BY <3>10, <3>11, <3>12, <3>13, <3>14
  <2>2. CASE file' = file /\ unmatched' = Append(unmatched, h)
    <3>1. /\ unmatched' \in Seq(TapFrame) /\ DOMAIN unmatched' = 1..(Len(unmatched) + 1) /\ Len(unmatched) \in Nat
          /\ DOMAIN unmatched = 1..Len(unmatched)
          /\ unmatched'[Len(unmatched) + 1] = h /\ \A i \in DOMAIN unmatched : unmatched'[i] = unmatched[i]
      BY <2>2, <1>2
    <3>2. ToSet(unmatched') = ToSet(unmatched) \union {h}
      <4>1. ASSUME NEW g \in ToSet(unmatched') PROVE g \in ToSet(unmatched) \union {h}
        BY <4>1, <3>1 DEF ToSet
      <4>2. ASSUME NEW g \in ToSet(unmatched) PROVE g \in ToSet(unmatched')
        BY <4>2, <3>1 DEF ToSet
      <4>3. h \in ToSet(unmatched')
        BY <3>1 DEF ToSet
      <4> QED BY <4>1, <4>2, <4>3
    <3>3. \A i, j \in DOMAIN unmatched' : i # j => unmatched'[i] # unmatched'[j]
      <4>1. \A i \in DOMAIN unmatched : unmatched[i] \in ToSet(unmatched)
        BY DEF ToSet
      <4> QED BY <4>1, <3>1, <1>0, <1>6 DEF RetryPending
    <3>4. \A k \in DOMAIN file : OwnRecords(file[k])
      BY <1>0, CallRephrased
    <3>5. capture # 0 => ToSet(unmatched') \intersect FramesIn(file'[capture].records) = {}
      <4>1. capture # 0 => ToSet(unmatched) \intersect FramesIn(file[capture].records) = {}
        BY <1>0, <1>2, CallRephrased DEF RetryPending, ToSet
      <4>2. capture # 0 => h \notin FramesIn(file[capture].records)
        BY <1>2, <1>7, <1>8
      <4> QED BY <4>1, <4>2, <3>2, <2>2
    <3>6. \A g \in AllFrames(file') : g.no <= caught + 1
      <4>1. \A g \in AllFrames(file) : g.no \in Nat
        BY <1>0, AllTyped DEF TapFrame
      <4> QED BY <4>1, <2>2, <1>2, <1>7
    <3>7. file \in Seq(CaptureRow)
      BY <1>0 DEF CaptureTyped
    <3> QED BY <2>2, <3>1, <3>2, <3>3, <3>4, <3>5, <3>6, <3>7
  <2> QED BY <2>1, <2>2, <1>1
<1>10. CaptureTyped'
  BY <1>0, <1>1, <1>9 DEF CaptureTyped
<1>11. Numbered'
  BY <1>0, <1>1, <1>2, <1>9 DEF Numbered
<1>12. OneWay'
  BY <1>0, <1>1, <1>2, <1>9, <1>5 DEF OneWay
<1>13. Serially'
  <2>1. ~overlapped => ~Closing
    BY <1>0, <1>3 DEF Serially
  <2> QED BY <2>1, <1>0, <1>1, <1>3, <1>4, <1>5 DEF Serially, UnderWay, Closing
<1>14. RecordsTell'
  BY <1>0, <1>1, <1>9, <1>5 DEF RecordsTell
<1>15. RetryPending'
  <2>1. \A k \in DOMAIN file' : Frames(k)' \subseteq AllFrames(file')
    BY CallRephrasedNext DEF AllFrames
  <2>2. \A i \in DOMAIN unmatched' : unmatched'[i] \in ToSet(unmatched')
    BY DEF ToSet
  <2>3. \A g \in ToSet(unmatched) \union {h} : g.no <= caught + 1
    <3>1. \A g \in ToSet(unmatched) : g \in TapFrame
      BY <1>2 DEF ToSet
    <3> QED BY <3>1, <1>2, <1>6 DEF TapFrame
  <2>4. \A i \in DOMAIN unmatched' : unmatched'[i].no <= caught + 1
    BY <2>2, <2>3, <1>9
  <2>5. capture # 0 => \A i \in DOMAIN unmatched' : unmatched'[i].run = file'[capture].run
    <3>1. capture # 0 => \A g \in ToSet(unmatched) \union {h} : g.run = file[capture].run
      BY <1>0, <1>2, <1>3 DEF RetryPending, ToSet
    <3> QED BY <3>1, <2>2, <1>2, <1>9
  <2>6. capture # 0 => \A i \in DOMAIN unmatched' : unmatched'[i] \notin Frames(capture)'
    BY <2>2, <1>1, <1>2, <1>9, CallRephrasedNext
  <2> QED BY <2>1, <2>4, <2>5, <2>6, <1>1, <1>9 DEF RetryPending
<1>16. RecordsItsOwn'
  BY <1>9, CallRephrasedNext
<1>17. NoFrameLost'
  <2> SUFFICES ASSUME ~overlapped
               PROVE  {f.no : f \in ToSet(unmatched') \union forgotten' \union AllFrames(file')} = 1..caught'
    BY <1>1, CallRephrasedNext
  <2> DEFINE old == ToSet(unmatched) \union forgotten \union AllFrames(file)
  <2>1. {f.no : f \in old} = 1..caught
    BY <1>0, CallRephrased
  <2>2. ToSet(unmatched') \union forgotten' \union AllFrames(file') = old \union {h}
    BY <1>1, <1>4, <1>9
  <2> HIDE DEF old
  <2>3. {f.no : f \in old \union {h}} = {f.no : f \in old} \union {h.no}
    OBVIOUS
  <2>4. 1..(caught + 1) = (1..caught) \union {caught + 1}
    BY <1>2
  <2> QED BY <2>1, <2>2, <2>3, <2>4, <1>1, <1>2
<1> QED BY <1>10, <1>11, <1>12, <1>13, <1>14, <1>15, <1>16, <1>17 DEF CaptureInv

LEMMA LostStep ==
    ASSUME CaptureInv, CaptureLost
    PROVE  CaptureInv'
<1>0. CaptureTyped /\ Numbered /\ OneWay /\ Serially /\ RecordsTell /\ RetryPending /\ NoFrameLost /\ RecordsItsOwn
  BY DEF CaptureInv
<1>1. /\ run' = 0 /\ capture' = 0 /\ ports' = [n \in Ports |-> NoPort] /\ taps' = {} /\ reopening' = {}
      /\ unmatched' = <<>> /\ calls' = [c \in Callers |-> Idle] /\ trouble' = trouble + 1
      /\ forgotten' = forgotten \union ToSet(unmatched) /\ UNCHANGED <<file, caught, asked, overlapped>>
  BY DEF CaptureLost, Trouble
<1>2. \A n \in Ports : ports'[n].state = "none" /\ ports'[n].tap = 0 /\ ports'[n].timer = 0
  BY <1>1 DEF NoPort
<1>3. \A c \in Callers : calls'[c] = Idle /\ calls'[c].at = "idle" /\ calls'[c].of = 0
  BY <1>1 DEF Idle
<1>4. CaptureTyped'
  <2>1. ports' \in [Ports -> [state : {"none", "closed", "open", "reconnecting"}, tap : Nat, timer : Nat]]
    BY <1>1 DEF NoPort
  <2>2. calls' \in [Callers -> [kind : {"none", "start", "stop"}, at : {"idle", "closing", "opening"}, port : 0..2, of : Nat]]
    BY <1>1 DEF Idle
  <2>3. ToSet(unmatched) \subseteq TapFrame /\ unmatched' \in Seq(TapFrame) /\ Len(file) \in Nat
    BY <1>0, <1>1 DEF CaptureTyped, ToSet
  <2>4. run' \in Nat /\ capture' \in Nat /\ capture' <= Len(file') /\ file' \in Seq(CaptureRow)
    BY <1>0, <1>1, <2>3 DEF CaptureTyped
  <2>5. caught' \in Nat /\ asked' \in Nat /\ trouble' \in Nat /\ overlapped' \in BOOLEAN
    BY <1>0, <1>1 DEF CaptureTyped
  <2>6. taps' \subseteq Ports \X Nat /\ reopening' \subseteq Ports \X Nat /\ forgotten' \subseteq TapFrame
    BY <1>0, <1>1, <2>3 DEF CaptureTyped
  <2> QED BY <2>1, <2>2, <2>3, <2>4, <2>5, <2>6 DEF CaptureTyped
<1>5. Numbered'
  BY <1>1, <1>2, <1>3 DEF Numbered
<1>6. \A n \in Ports : ~StartsOn(n)' /\ ~PortServed(n)'
  BY <1>1, <1>3 DEF StartsOn, PortServed
<1>7. OneWay'
  BY <1>1, <1>3, <1>6 DEF OneWay
<1>8. RecordsTell' /\ RetryPending'
  BY <1>0, <1>1 DEF RecordsTell, RetryPending, Frames
<1>9. Serially'
  BY <1>1, <1>2, <1>3, <1>6 DEF Serially, UnderWay, Closing
<1>10. RecordsItsOwn'
  BY <1>0, <1>1 DEF RecordsItsOwn, Frames
<1>11. NoFrameLost'
  <2>1. ToSet(unmatched') = {}
    BY <1>1 DEF ToSet
  <2>2. ToSet(unmatched') \union forgotten' \union AllFrames(file') = ToSet(unmatched) \union forgotten \union AllFrames(file)
    BY <2>1, <1>1
  <2> QED BY <2>2, <1>0, <1>1, CallRephrased, CallRephrasedNext
<1> QED BY <1>4, <1>5, <1>7, <1>8, <1>9, <1>10, <1>11 DEF CaptureInv

\* What a served port comes to: open with the run's tap, or waiting for its timer.
PortSettled(st, tp, tm) == \/ st = "open" /\ tp = run /\ tm = 0
                           \/ st = "reconnecting" /\ tp = 0 /\ tm = run
\* The calls go on as they were, or past the opening of the port.
CallsGoOn(n) ==
    /\ calls' \in [Callers -> [kind : {"none", "start", "stop"}, at : {"idle", "closing", "opening"}, port : 0..2, of : Nat]]
    /\ \A c \in Callers : /\ calls'[c].at # "idle" => /\ calls'[c].at = calls[c].at /\ calls'[c].of = calls[c].of
                                                      /\ calls'[c].kind = calls[c].kind /\ calls'[c].port # 0
                          /\ calls'[c].at = "idle" => calls'[c].of <= run
                          /\ calls'[c].at = "closing" => calls'[c] = calls[c]
                          /\ calls[c].at = "closing" => calls'[c] = calls[c]
    /\ \A m \in Ports : StartsOn(m)' <=> (StartsOn(m) /\ m # n)

LEMMA PortStep ==
    ASSUME CaptureInv, NEW n \in Ports, NEW st \in {"open", "reconnecting"}, NEW tp, NEW tm, PortSettled(st, tp, tm),
           PortServed(n), ports' = [ports EXCEPT ![n] = [state |-> st, tap |-> tp, timer |-> tm]],
           file' = IF ports[n].state = st THEN file ELSE record(<<PortRecord(n, st)>>),
           UNCHANGED <<run, capture, unmatched, caught, asked, forgotten, overlapped>>, trouble' \in Nat,
           reopening' = reopening \ {<<n, run>>}, taps' \subseteq taps \union {<<n, run>>},
           CallsGoOn(n),
           ~overlapped => /\ \A r \in Nat : <<n, r>> \in taps' <=> (r # 0 /\ tp = r)
                          /\ \A m \in Ports \ {n}, r \in Nat : <<m, r>> \in taps' <=> <<m, r>> \in taps
    PROVE  CaptureInv'
<1>0. CaptureTyped /\ Numbered /\ OneWay /\ Serially /\ RecordsTell /\ RetryPending /\ NoFrameLost /\ RecordsItsOwn
  BY DEF CaptureInv
<1>1. run \in Nat /\ run # 0 /\ tp \in {0, run} /\ tm \in {0, run} /\ (st = "open" <=> tp # 0) /\ (tp # 0 => tm = 0)
      /\ (tp = run \/ tm = run)
  BY <1>0 DEF CaptureTyped, PortServed, PortSettled
<1>2. ports' \in [Ports -> [state : {"none", "closed", "open", "reconnecting"}, tap : Nat, timer : Nat]]
  BY <1>0, <1>1 DEF CaptureTyped
<1>3. /\ ports'[n].state = st /\ ports'[n].tap = tp /\ ports'[n].timer = tm
      /\ \A m \in Ports \ {n} : ports'[m] = ports[m]
  BY <1>0 DEF CaptureTyped
<1>4. \A m \in Ports : StartsOn(m)' <=> (StartsOn(m) /\ m # n)
  BY DEF CallsGoOn
<1>5. \A m \in Ports \ {n} : <<m, run>> \in reopening' <=> <<m, run>> \in reopening
  OBVIOUS
<1>6. \A m \in Ports : PortServed(m)' <=> PortServed(m)
  <2>1. PortServed(n)'
    BY <1>1, <1>3 DEF PortServed
  <2>2. \A m \in Ports \ {n} : PortServed(m)' <=> PortServed(m)
    BY <1>3, <1>4, <1>5 DEF PortServed
  <2> QED BY <2>1, <2>2
<1>7. /\ RecordsTell' /\ RetryPending' /\ RecordsItsOwn' /\ NoFrameLost'
      /\ file' \in Seq(CaptureRow) /\ Len(file') = Len(file)
      /\ \A k \in DOMAIN file : file'[k].run = file[k].run
  BY <1>3, <1>6, PortWritten
<1>8. capture \in Nat /\ (capture # 0 => capture \in DOMAIN file)
  BY <1>0 DEF CaptureTyped
<1>9. CaptureTyped'
  <2>1. taps' \subseteq Ports \X Nat /\ reopening' \subseteq Ports \X Nat
    BY <1>0, <1>1 DEF CaptureTyped
  <2> QED BY <2>1, <1>0, <1>2, <1>7 DEF CaptureTyped, CallsGoOn
<1>10. Numbered'
  <2>1. \A m \in Ports : /\ ports'[m].tap <= run /\ ports'[m].timer <= run
                         /\ ports'[m].state = "open" <=> ports'[m].tap # 0
                         /\ ports'[m].tap # 0 => ports'[m].timer = 0
    BY <1>0, <1>1, <1>3 DEF Numbered
  <2>2. \A m \in Ports, r \in Nat : <<m, r>> \in taps' \union reopening' => 1 <= r /\ r <= run
    BY <1>0, <1>1 DEF Numbered
  <2>3. \A c \in Callers : /\ calls'[c].of <= run
                           /\ calls'[c].at # "idle" => calls'[c].of # 0 /\ calls'[c].port # 0 /\ calls'[c].kind # "none"
    BY <1>0 DEF Numbered, CallsGoOn
  <2>4. capture # 0 => 1 <= file'[capture].run /\ file'[capture].run <= run
    BY <1>0, <1>7, <1>8 DEF Numbered
  <2> QED BY <2>1, <2>2, <2>3, <2>4 DEF Numbered
<1>11. OneWay'
  <2>1. \A c, d \in Callers : calls'[c].at = "opening" /\ calls'[c].of = run
                              /\ calls'[d].at = "opening" /\ calls'[d].of = run => c = d
    BY <1>0 DEF OneWay, CallsGoOn
  <2>2. \A m \in Ports : StartsOn(m)' => ports'[m] = newPort /\ <<m, run>> \notin reopening'
    BY <1>0, <1>3, <1>4, <1>5 DEF OneWay
  <2>3. \A m \in Ports : <<m, run>> \in reopening' => ports'[m].tap = 0 /\ ports'[m].timer = 0
    BY <1>0, <1>3, <1>5 DEF OneWay
  <2>4. capture # 0 => \A m \in Ports : PortServed(m)' => file'[capture].run = run
    BY <1>0, <1>6, <1>7, <1>8 DEF OneWay
  <2> QED BY <2>1, <2>2, <2>3, <2>4 DEF OneWay
<1>12. Serially'
  <2> SUFFICES ASSUME ~overlapped PROVE Serially'
    BY DEF Serially
  <2>1. capture # 0 /\ ~Closing
    BY <1>0 DEF Serially
  <2>2. ~Closing'
    BY <2>1 DEF Closing, CallsGoOn
  <2>3. \A c, d \in Callers : UnderWay(c)' /\ UnderWay(d)' => c = d
    BY <1>0 DEF Serially, UnderWay, CallsGoOn
  <2>4. \A m \in Ports, r \in Nat : <<m, r>> \in taps <=> (r # 0 /\ ports[m].tap = r)
    <3>1. \A m \in Ports, r \in Nat : <<m, r>> \in taps <=>
             \/ r # 0 /\ ports[m].tap = r
             \/ \E c \in Callers : calls[c].at = "closing" /\ calls[c].port = m /\ calls[c].of = r
      BY <1>0 DEF Serially
    <3>2. \A c \in Callers : calls[c].at # "closing"
      BY <2>1 DEF Closing
    <3>3. ASSUME NEW m \in Ports, NEW r \in Nat
          PROVE  <<m, r>> \in taps <=> (r # 0 /\ ports[m].tap = r)
      <4>1. ~(\E c \in Callers : calls[c].at = "closing" /\ calls[c].port = m /\ calls[c].of = r)
        BY <3>2
      <4> QED BY <4>1, <3>1
    <3> QED BY <3>3
  <2>5. \A m \in Ports, r \in Nat : <<m, r>> \in taps' <=> (r # 0 /\ ports'[m].tap = r)
    <3>1. \A r \in Nat : <<n, r>> \in taps' <=> (r # 0 /\ tp = r)
      OBVIOUS
    <3>2. \A m \in Ports \ {n}, r \in Nat : <<m, r>> \in taps' <=> <<m, r>> \in taps
      OBVIOUS
    <3>3. \A r \in Nat : <<n, r>> \in taps' <=> (r # 0 /\ ports'[n].tap = r)
      BY <3>1, <1>3
    <3>4. ASSUME NEW m \in Ports \ {n}, NEW r \in Nat
          PROVE  <<m, r>> \in taps' <=> (r # 0 /\ ports'[m].tap = r)
      BY <3>2, <2>4, <1>3
    <3> QED BY <3>3, <3>4
  <2>6. \A c \in Callers : calls'[c].at # "closing"
    BY <2>2 DEF Closing
  <2>7. \A c \in Callers : calls'[c].at = "opening" => calls'[c].of = run /\ capture # 0
    BY <1>0, <2>1 DEF Serially, CallsGoOn
  <2>8. \A m \in Ports : PortServed(m)' /\ ports'[m].tap \in {0, run}
    BY <1>0, <2>1, <1>1, <1>3, <1>6 DEF Serially
  <2> QED BY <2>1, <2>2, <2>3, <2>5, <2>6, <2>7, <2>8 DEF Serially
<1> QED BY <1>7, <1>9, <1>10, <1>11, <1>12 DEF CaptureInv

LEMMA TapFailsStep ==
    ASSUME CaptureInv, NEW n \in Ports, TapFails(n)
    PROVE  CaptureInv'
<1>0. CaptureTyped /\ Numbered /\ OneWay /\ Serially
  BY DEF CaptureInv
<1>1. /\ ports[n].tap = run /\ <<n, run>> \in taps /\ trouble' = trouble + 1
      /\ taps' = taps \ {<<n, run>>}
      /\ UNCHANGED <<run, capture, reopening, unmatched, calls, caught, asked, forgotten, overlapped>>
      /\ file' = IF ports[n].state = "reconnecting" THEN file ELSE record(<<PortRecord(n, "reconnecting")>>)
      /\ ports' = [ports EXCEPT ![n] = [state |-> "reconnecting", tap |-> 0, timer |-> run]]
  BY DEF TapFails, Trouble, retry
<1>2. run \in Nat /\ run # 0 /\ PortServed(n) /\ trouble' \in Nat
  BY <1>0, <1>1 DEF CaptureTyped, Numbered, PortServed
<1>3. reopening' = reopening \ {<<n, run>>}
  BY <1>0, <1>1, <1>2 DEF OneWay
<1>4. ~StartsOn(n)
  <2>1. newPort.tap = 0
    BY DEF newPort
  <2> QED BY <2>1, <1>0, <1>1, <1>2 DEF OneWay
<1>5. CallsGoOn(n)
  <2>1. \A m \in Ports : StartsOn(m)' <=> (StartsOn(m) /\ m # n)
    BY <1>1, <1>4 DEF StartsOn
  <2> QED BY <2>1, <1>0, <1>1 DEF CallsGoOn, CaptureTyped, Numbered
<1>6. ~overlapped => /\ \A r \in Nat : <<n, r>> \in taps' <=> (r # 0 /\ 0 = r)
                     /\ \A m \in Ports \ {n}, r \in Nat : <<m, r>> \in taps' <=> <<m, r>> \in taps
  <2>1. ~overlapped => ~Closing
    BY <1>0, <1>2 DEF Serially
  <2>2. ~overlapped => \A r \in Nat : <<n, r>> \in taps => r = run
    BY <2>1, <1>0, <1>1 DEF Serially, Closing
  <2> QED BY <2>2, <1>1
<1>7. PortSettled("reconnecting", 0, run)
  BY DEF PortSettled
<1>8. taps' \subseteq taps \union {<<n, run>>}
  BY <1>1
<1> QED BY <1>1, <1>2, <1>3, <1>5, <1>6, <1>7, <1>8, PortStep

LEMMA ReopensStep ==
    ASSUME CaptureInv, NEW n \in Ports, NEW r \in Nat, Reopens(n, r)
    PROVE  CaptureInv'
<1>0. CaptureTyped /\ Numbered /\ OneWay /\ Serially
  BY DEF CaptureInv
<1>1. /\ <<n, r>> \in reopening /\ reopening' = reopening \ {<<n, r>>} /\ OpenEnds(n, r)
      /\ UNCHANGED <<run, capture, unmatched, calls, caught, asked, forgotten, overlapped>>
  BY DEF Reopens
<1>2. CASE r # run
  <2>1. UNCHANGED <<ports, taps, file, trouble>>
    BY <1>1, <1>2 DEF OpenEnds
  <2>2. \A m \in Ports : (StartsOn(m)' <=> StartsOn(m)) /\ (PortServed(m)' <=> PortServed(m))
    BY <1>1, <1>2, <2>1 DEF StartsOn, PortServed
  <2>3. RecordsTell' /\ RetryPending' /\ RecordsItsOwn' /\ NoFrameLost'
    BY <1>1, <2>1, <2>2, NothingWritten
  <2>4. CaptureTyped'
    BY <1>0, <1>1, <2>1 DEF CaptureTyped
  <2>5. Numbered'
    BY <1>0, <1>1, <2>1 DEF Numbered
  <2>6. OneWay'
    BY <1>0, <1>1, <2>1, <2>2 DEF OneWay
  <2>7. Serially'
    BY <1>0, <1>1, <2>1, <2>2 DEF Serially, UnderWay, Closing
  <2> QED BY <2>3, <2>4, <2>5, <2>6, <2>7 DEF CaptureInv
<1>3. CASE r = run
  <2>1. run \in Nat /\ run # 0 /\ PortServed(n) /\ trouble \in Nat
    BY <1>0, <1>1, <1>3 DEF CaptureTyped, Numbered, PortServed
  <2>2. ports[n].tap = 0 /\ ports[n].timer = 0 /\ ports[n].state # "open" /\ ~StartsOn(n)
    BY <1>0, <1>1, <1>3 DEF OneWay, Numbered
  <2>3. CallsGoOn(n)
    <3>1. \A m \in Ports : StartsOn(m)' <=> (StartsOn(m) /\ m # n)
      BY <1>1, <2>2 DEF StartsOn
    <3> QED BY <3>1, <1>0, <1>1 DEF CallsGoOn, CaptureTyped, Numbered
  <2>4. ~overlapped => \A q \in Nat : <<n, q>> \notin taps
    <3>1. ~overlapped => ~Closing
      BY <1>0, <2>1 DEF Serially
    <3> QED BY <3>1, <1>0, <2>2 DEF Serially, Closing
  <2>5. CASE Install(n, r) /\ UNCHANGED trouble
    <3>1. /\ ports' = [ports EXCEPT ![n] = [state |-> "open", tap |-> run, timer |-> 0]]
          /\ taps' = taps \union {<<n, run>>}
          /\ file' = IF ports[n].state = "open" THEN file ELSE record(<<PortRecord(n, "open")>>)
      BY <2>5, <1>3, <2>2 DEF Install
    <3>2. ~overlapped => /\ \A q \in Nat : <<n, q>> \in taps' <=> (q # 0 /\ run = q)
                         /\ \A m \in Ports \ {n}, q \in Nat : <<m, q>> \in taps' <=> <<m, q>> \in taps
      BY <3>1, <2>1, <2>4
    <3>3. PortSettled("open", run, 0)
      BY DEF PortSettled
    <3> QED BY <1>1, <1>3, <2>1, <2>3, <2>5, <3>1, <3>2, <3>3, PortStep
  <2>6. CASE Trouble /\ retry(n) /\ UNCHANGED taps
    <3>1. /\ ports' = [ports EXCEPT ![n] = [state |-> "reconnecting", tap |-> 0, timer |-> run]]
          /\ trouble' \in Nat /\ taps' = taps
          /\ file' = IF ports[n].state = "reconnecting" THEN file ELSE record(<<PortRecord(n, "reconnecting")>>)
      BY <2>1, <2>6 DEF retry, Trouble
    <3>2. ~overlapped => /\ \A q \in Nat : <<n, q>> \in taps' <=> (q # 0 /\ 0 = q)
                         /\ \A m \in Ports \ {n}, q \in Nat : <<m, q>> \in taps' <=> <<m, q>> \in taps
      BY <3>1, <2>4
    <3>3. PortSettled("reconnecting", 0, run)
      BY DEF PortSettled
    <3> QED BY <1>1, <1>3, <2>1, <2>3, <3>1, <3>2, <3>3, PortStep
  <2> QED BY <1>1, <1>3, <2>5, <2>6 DEF OpenEnds
<1> QED BY <1>2, <1>3

LEMMA StartOpensStep ==
    ASSUME CaptureInv, NEW c \in Callers, StartOpens(c)
    PROVE  CaptureInv'
<1> DEFINE k == calls[c]
           n == k.port
           next == IF n = 1 THEN [k EXCEPT !.port = 2] ELSE Idle
<1>0. CaptureTyped /\ Numbered /\ OneWay /\ Serially
  BY DEF CaptureInv
<1>1. /\ k.at = "opening" /\ OpenEnds(n, k.of) /\ calls' = [calls EXCEPT ![c] = next]
      /\ UNCHANGED <<run, capture, reopening, unmatched, caught, asked, forgotten, overlapped>>
  BY DEF StartOpens
<1>2. /\ k \in [kind : {"none", "start", "stop"}, at : {"idle", "closing", "opening"}, port : 0..2, of : Nat]
      /\ k.of # 0 /\ k.of <= run /\ k.kind # "none" /\ n \in Ports /\ run \in Nat /\ run # 0
  BY <1>0, <1>1 DEF CaptureTyped, Numbered, Ports
<1>3. /\ next \in [kind : {"none", "start", "stop"}, at : {"idle", "closing", "opening"}, port : 0..2, of : Nat]
      /\ n = 1 => next.kind = k.kind /\ next.at = k.at /\ next.port = 2 /\ next.of = k.of
      /\ n # 1 => next.at = "idle" /\ next.of = 0
  BY <1>2 DEF Idle
<1> HIDE DEF next, k
<1>4. /\ calls'[c] = next /\ \A d \in Callers : d # c => calls'[d] = calls[d]
      /\ calls' \in [Callers -> [kind : {"none", "start", "stop"}, at : {"idle", "closing", "opening"}, port : 0..2, of : Nat]]
      /\ calls[c] = k
  BY <1>0, <1>1, <1>3 DEF CaptureTyped, k
<1>5. CASE k.of # run
  <2>1. UNCHANGED <<ports, taps, file, trouble>> /\ overlapped
    <3>1. overlapped
      BY <1>0, <1>1, <1>4, <1>5 DEF Serially, CaptureTyped
    <3> QED BY <3>1, <1>1, <1>5 DEF OpenEnds
  <2>2. \A m \in Ports : (StartsOn(m)' <=> StartsOn(m))
    <3>1. \A d \in Callers, m \in Ports : (calls'[d].at = "opening" /\ calls'[d].of = run /\ calls'[d].port <= m)
             <=> (calls[d].at = "opening" /\ calls[d].of = run /\ calls[d].port <= m)
      BY <1>1, <1>2, <1>3, <1>4, <1>5 DEF Ports
    <3> QED BY <3>1, <1>1 DEF StartsOn
  <2>3. \A m \in Ports : (PortServed(m)' <=> PortServed(m))
    BY <1>1, <2>1, <2>2 DEF PortServed
  <2>4. RecordsTell' /\ RetryPending' /\ RecordsItsOwn' /\ NoFrameLost'
    BY <1>1, <2>1, <2>3, NothingWritten
  <2>5. CaptureTyped'
    BY <1>0, <1>1, <1>4, <2>1 DEF CaptureTyped
  <2>6. Numbered'
    <3>1. \A d \in Callers : /\ calls'[d].of <= run
                             /\ calls'[d].at # "idle" => calls'[d].of # 0 /\ calls'[d].port # 0 /\ calls'[d].kind # "none"
      BY <1>0, <1>1, <1>2, <1>3, <1>4 DEF Numbered, Ports
    <3> QED BY <3>1, <1>0, <1>1, <2>1 DEF Numbered
  <2>7. OneWay'
    <3>1. \A d \in Callers : (calls'[d].at = "opening" /\ calls'[d].of = run)
             <=> (calls[d].at = "opening" /\ calls[d].of = run)
      BY <1>1, <1>2, <1>3, <1>4, <1>5 DEF Ports
    <3>2. \A d, e \in Callers : calls'[d].at = "opening" /\ calls'[d].of = run
                                /\ calls'[e].at = "opening" /\ calls'[e].of = run => d = e
      BY <3>1, <1>0 DEF OneWay
    <3> QED BY <3>2, <1>0, <1>1, <2>1, <2>2, <2>3 DEF OneWay
  <2>8. Serially'
    BY <1>1, <2>1 DEF Serially
  <2> QED BY <2>4, <2>5, <2>6, <2>7, <2>8 DEF CaptureInv
<1>6. CASE k.of = run
  <2>1. StartsOn(n) /\ PortServed(n) /\ trouble \in Nat
    <3>1. n <= n
      BY <1>2 DEF Ports
    <3>2. StartsOn(n)
      BY <3>1, <1>1, <1>4, <1>6 DEF StartsOn
    <3> QED BY <3>2, <1>0, <1>2 DEF PortServed, CaptureTyped
  <2>2. ports[n] = newPort /\ newPort.tap = 0 /\ newPort.state = "closed" /\ <<n, run>> \notin reopening
    BY <1>0, <1>2, <2>1 DEF OneWay, newPort
  <2>3. reopening' = reopening \ {<<n, run>>}
    BY <1>1, <2>2
  <2>4. CallsGoOn(n)
    <3>1. \A d \in Callers : calls[d].at = "opening" /\ calls[d].of = run => d = c
      BY <1>0, <1>1, <1>4, <1>6 DEF OneWay
    <3>2. \A m \in Ports : StartsOn(m) <=> n <= m
      BY <3>1, <1>1, <1>4, <1>6 DEF StartsOn
    <3>3. \A d \in Callers : calls'[d].at = "opening" /\ calls'[d].of = run => d = c
      BY <3>1, <1>4
    <3>4. \A m \in Ports : StartsOn(m)' <=> (n = 1 /\ 2 <= m)
      BY <3>3, <1>1, <1>3, <1>4, <1>6 DEF StartsOn
    <3>5. \A m \in Ports : StartsOn(m)' <=> (StartsOn(m) /\ m # n)
      BY <3>2, <3>4, <1>2 DEF Ports
    <3>6. \A d \in Callers : /\ calls'[d].at # "idle" => /\ calls'[d].at = calls[d].at /\ calls'[d].of = calls[d].of
                                                         /\ calls'[d].kind = calls[d].kind /\ calls'[d].port # 0
                             /\ calls'[d].at = "idle" => calls'[d].of <= run
                             /\ calls'[d].at = "closing" => calls'[d] = calls[d]
                             /\ calls[d].at = "closing" => calls'[d] = calls[d]
      BY <1>0, <1>1, <1>2, <1>3, <1>4 DEF Numbered
    <3> QED BY <3>5, <3>6, <1>4 DEF CallsGoOn
  <2>5. ~overlapped => \A q \in Nat : <<n, q>> \notin taps
    <3>1. ~overlapped => ~Closing
      BY <1>0, <1>2, <2>1 DEF Serially
    <3> QED BY <3>1, <1>0, <1>2, <2>2 DEF Serially, Closing
  <2>6. CASE Install(n, k.of) /\ UNCHANGED trouble
    <3>1. /\ ports' = [ports EXCEPT ![n] = [state |-> "open", tap |-> run, timer |-> 0]]
          /\ taps' = taps \union {<<n, run>>}
          /\ file' = IF ports[n].state = "open" THEN file ELSE record(<<PortRecord(n, "open")>>)
      BY <2>6, <1>6, <2>2 DEF Install
    <3>2. ~overlapped => /\ \A q \in Nat : <<n, q>> \in taps' <=> (q # 0 /\ run = q)
                         /\ \A m \in Ports \ {n}, q \in Nat : <<m, q>> \in taps' <=> <<m, q>> \in taps
      BY <3>1, <1>2, <2>5
    <3>3. PortSettled("open", run, 0)
      BY DEF PortSettled
    <3> QED BY <1>1, <1>2, <2>1, <2>3, <2>4, <2>6, <3>1, <3>2, <3>3, PortStep
  <2>7. CASE Trouble /\ retry(n) /\ UNCHANGED taps
    <3>1. /\ ports' = [ports EXCEPT ![n] = [state |-> "reconnecting", tap |-> 0, timer |-> run]]
          /\ trouble' \in Nat /\ taps' = taps
          /\ file' = IF ports[n].state = "reconnecting" THEN file ELSE record(<<PortRecord(n, "reconnecting")>>)
      BY <2>1, <2>7 DEF retry, Trouble
    <3>2. ~overlapped => /\ \A q \in Nat : <<n, q>> \in taps' <=> (q # 0 /\ 0 = q)
                         /\ \A m \in Ports \ {n}, q \in Nat : <<m, q>> \in taps' <=> <<m, q>> \in taps
      BY <3>1, <2>5
    <3>3. PortSettled("reconnecting", 0, run)
      BY DEF PortSettled
    <3> QED BY <1>1, <1>2, <2>1, <2>3, <2>4, <3>1, <3>2, <3>3, PortStep
  <2> QED BY <1>1, <1>6, <2>6, <2>7 DEF OpenEnds
<1> QED BY <1>5, <1>6

-----------------------------------------------------------------------------
(* Stops and starts.                                                        *)

\* A call that closes the ports from one on, as it begins or after a close.
CallGoes(c, kind, from, r, f, w) ==
       /\ kind \in {"start", "stop"} /\ from \in 1..3
       /\ \/ r = run + 1 /\ from = 1 /\ (capture # 0 => w = <<>>)
          \/ r = run /\ 2 <= from /\ f = file /\ w = unmatched
       /\ f \in Seq(CaptureRow) /\ Len(f) = Len(file) /\ w \in Seq(TapFrame)
       /\ \A k \in DOMAIN file : f[k].run = file[k].run /\ OwnRecords(f[k])
       /\ \A g \in AllFrames(f) : g.no <= caught
       /\ \A i, j \in DOMAIN w : i # j => w[i] # w[j]
       /\ \A i \in DOMAIN w : w[i].no <= caught
       /\ calls[c].at # "opening"
       /\ UNCHANGED <<reopening, caught, forgotten, trouble>> /\ asked' \in Nat /\ taps' \subseteq taps
       /\ overlapped' \in BOOLEAN /\ (overlapped => overlapped')
       /\ ~overlapped' =>
             /\ w = <<>> /\ AllFrames(f) = ToSet(unmatched) \union AllFrames(file)
             /\ \A d \in Callers : d # c => calls[d].at = "idle"
             /\ \A m \in Ports, q \in Nat : <<m, q>> \in taps' <=> (q # 0 /\ ports[m].tap = q)
             /\ \A m \in Ports : m < from => ports[m].tap = 0
             /\ capture = 0 => \A m \in Ports : ports[m].tap = 0
             /\ 2 <= from => capture # 0 /\ \A m \in Ports : ~PortServed(m)

\* A run that has just begun serves no port yet.
LEMMA NotYetServed ==
    ASSUME CaptureInv
    PROVE  /\ \A n \in Ports : /\ ports[n].tap # run + 1 /\ ports[n].timer # run + 1 /\ <<n, run + 1>> \notin reopening
                               /\ ports[n].tap # run + 2 /\ ports[n].timer # run + 2 /\ <<n, run + 2>> \notin reopening
           /\ \A d \in Callers : calls[d].of # run + 1 /\ calls[d].of # run + 2
<1>1. CaptureTyped /\ Numbered
  BY DEF CaptureInv
<1>2. run \in Nat
  BY <1>1 DEF CaptureTyped
<1>3. \A n \in Ports : ports[n].tap \in Nat /\ ports[n].timer \in Nat /\ ports[n].tap <= run /\ ports[n].timer <= run
  BY <1>1 DEF CaptureTyped, Numbered
<1>4. \A d \in Callers : calls[d].of \in Nat /\ calls[d].of <= run
  BY <1>1 DEF CaptureTyped, Numbered
<1>5. \A n \in Ports, q \in Nat : <<n, q>> \in reopening => q <= run
  BY <1>1 DEF Numbered
<1> QED BY <1>2, <1>3, <1>4, <1>5

LEMMA ClosesStep ==
    ASSUME CaptureInv, NEW c \in Callers, NEW kind, NEW from, NEW r, NEW f, NEW w, NEW p \in Ports,
           CallGoes(c, kind, from, r, f, w), CallCloses(c, kind, from, p, r, f, w)
    PROVE  CaptureInv'
<1> DEFINE call == [kind |-> kind, at |-> "closing", port |-> p, of |-> ports[p].tap]
<1>0. CaptureTyped /\ Numbered /\ OneWay /\ Serially /\ RecordsTell /\ RetryPending /\ NoFrameLost /\ RecordsItsOwn
  BY DEF CaptureInv
<1>1. /\ p \in from..2 /\ ports[p].tap # 0 /\ \A n \in Ports : from <= n /\ n < p => ports[n].tap = 0
      /\ ports' = Closed(from..p)
      /\ calls' = [calls EXCEPT ![c] = call]
      /\ run' = r /\ file' = f /\ unmatched' = w /\ capture' = capture
  BY DEF CallCloses
<1>2. /\ kind \in {"start", "stop"} /\ from \in 1..3
      /\ \/ r = run + 1 /\ from = 1 /\ (capture # 0 => w = <<>>)
         \/ r = run /\ 2 <= from /\ f = file /\ w = unmatched
      /\ f \in Seq(CaptureRow) /\ Len(f) = Len(file) /\ w \in Seq(TapFrame)
      /\ \A k \in DOMAIN file : f[k].run = file[k].run /\ OwnRecords(f[k])
      /\ \A g \in AllFrames(f) : g.no <= caught
      /\ \A i, j \in DOMAIN w : i # j => w[i] # w[j]
      /\ \A i \in DOMAIN w : w[i].no <= caught
      /\ calls[c].at # "opening"
      /\ UNCHANGED <<reopening, caught, forgotten, trouble>> /\ asked' \in Nat /\ taps' \subseteq taps
      /\ overlapped' \in BOOLEAN /\ (overlapped => overlapped')
  BY DEF CallGoes
<1>3. ~overlapped' =>
          /\ w = <<>> /\ AllFrames(f) = ToSet(unmatched) \union AllFrames(file)
          /\ \A d \in Callers : d # c => calls[d].at = "idle"
          /\ \A m \in Ports, q \in Nat : <<m, q>> \in taps' <=> (q # 0 /\ ports[m].tap = q)
          /\ \A m \in Ports : m < from => ports[m].tap = 0
          /\ capture = 0 => \A m \in Ports : ports[m].tap = 0
          /\ 2 <= from => capture # 0 /\ \A m \in Ports : ~PortServed(m)
  BY DEF CallGoes
<1>4. run \in Nat /\ r \in Nat /\ run <= r /\ capture \in Nat /\ (capture # 0 => capture \in DOMAIN file)
      /\ DOMAIN f = DOMAIN file
  BY <1>0, <1>2 DEF CaptureTyped
<1>5. /\ ports' \in [Ports -> [state : {"none", "closed", "open", "reconnecting"}, tap : Nat, timer : Nat]]
      /\ \A n \in Ports : ports'[n] = ports[n] \/ ports'[n] = newPort
      /\ \A n \in Ports : n \notin from..p => ports'[n] = ports[n]
      /\ \A n \in Ports : n \in from..p => ports'[n].tap = 0 \/ (ports[n].state = "none" /\ ports'[n] = ports[n])
  BY <1>0, <1>1, ClosedType
<1>6. newPort.tap = 0 /\ newPort.timer = 0 /\ newPort.state = "closed"
  BY DEF newPort
<1>7. \A n \in Ports : ports[n].state = "open" <=> ports[n].tap # 0
  BY <1>0 DEF Numbered
<1>8. \A n \in Ports : n \in from..p => ports'[n].tap = 0
  BY <1>5, <1>7
<1>9. call \in [kind : {"none", "start", "stop"}, at : {"idle", "closing", "opening"}, port : 0..2, of : Nat]
      /\ call.at = "closing" /\ call.port = p /\ call.of = ports[p].tap /\ call.kind = kind
  <2>1. ports[p].tap \in Nat
    BY <1>0 DEF CaptureTyped
  <2> QED BY <2>1, <1>2 DEF Ports
<1> HIDE DEF call
<1>10. /\ calls'[c] = call /\ \A d \in Callers : d # c => calls'[d] = calls[d]
       /\ calls' \in [Callers -> [kind : {"none", "start", "stop"}, at : {"idle", "closing", "opening"}, port : 0..2, of : Nat]]
  BY <1>0, <1>1, <1>9 DEF CaptureTyped
<1>11. CaptureTyped'
  <2>1. taps' \subseteq Ports \X Nat /\ reopening' \subseteq Ports \X Nat /\ forgotten' \subseteq TapFrame
    BY <1>0, <1>2 DEF CaptureTyped
  <2>2. capture' <= Len(file') /\ caught' \in Nat /\ trouble' \in Nat
    BY <1>0, <1>1, <1>2 DEF CaptureTyped
  <2> QED BY <2>1, <2>2, <1>1, <1>2, <1>4, <1>5, <1>10 DEF CaptureTyped
<1>12. Numbered'
  <2>1. \A m \in Ports : ports[m].tap \in Nat /\ ports[m].timer \in Nat /\ ports[m].tap <= run /\ ports[m].timer <= run
    BY <1>0 DEF CaptureTyped, Numbered
  <2>2. \A m \in Ports : /\ ports'[m].tap <= run' /\ ports'[m].timer <= run'
                         /\ ports'[m].state = "open" <=> ports'[m].tap # 0
                         /\ ports'[m].tap # 0 => ports'[m].timer = 0
    BY <2>1, <1>0, <1>1, <1>4, <1>5, <1>6 DEF Numbered
  <2>3. \A m \in Ports, q \in Nat : <<m, q>> \in taps' \union reopening' => 1 <= q /\ q <= run'
    <3>1. \A m \in Ports, q \in Nat : <<m, q>> \in taps \union reopening => 1 <= q /\ q <= run
      BY <1>0 DEF Numbered
    <3> QED BY <3>1, <1>1, <1>2, <1>4
  <2>4. \A d \in Callers : /\ calls'[d].of <= run'
                           /\ calls'[d].at # "idle" => calls'[d].of # 0 /\ calls'[d].port # 0 /\ calls'[d].kind # "none"
    <3>1. \A d \in Callers : calls[d].of \in Nat /\ calls[d].of <= run
      BY <1>0 DEF CaptureTyped, Numbered
    <3>2. \A d \in Callers \ {c} : calls'[d].of <= run' /\ (calls'[d].at # "idle" => calls'[d].of # 0 /\ calls'[d].port # 0 /\ calls'[d].kind # "none")
      BY <3>1, <1>0, <1>1, <1>4, <1>10 DEF Numbered
    <3>3. calls'[c].of <= run' /\ calls'[c].of # 0 /\ calls'[c].port # 0 /\ calls'[c].kind # "none"
      BY <2>1, <1>1, <1>2, <1>4, <1>9, <1>10 DEF Ports
    <3> QED BY <3>2, <3>3
  <2>5. capture # 0 => 1 <= file'[capture].run /\ file'[capture].run <= run'
    <3>0. capture # 0 => file[capture] \in CaptureRow
      BY <1>0, <1>4 DEF CaptureTyped
    <3>1. capture # 0 => file[capture].run \in Nat /\ 1 <= file[capture].run /\ file[capture].run <= run
      BY <3>0, <1>0 DEF Numbered, CaptureRow
    <3> QED BY <3>1, <1>1, <1>2, <1>4
  <2> QED BY <2>2, <2>3, <2>4, <2>5, <1>1 DEF Numbered
<1>13. \A m \in Ports : StartsOn(m)' => r = run /\ StartsOn(m)
  <2>1. CASE r = run
    BY <2>1, <1>1, <1>9, <1>10 DEF StartsOn
  <2>2. CASE r = run + 1
    <3>1. \A d \in Callers : calls[d].of # run + 1
      BY NotYetServed
    <3> QED BY <3>1, <2>2, <1>1, <1>9, <1>10 DEF StartsOn
  <2> QED BY <2>1, <2>2, <1>2
<1>14. \A m \in Ports : PortServed(m)' => r = run /\ PortServed(m) /\ ports'[m].state = ports[m].state
  <2>1. CASE r = run + 1
    <3>1. \A m \in Ports : ports'[m].tap # run' /\ ports'[m].timer # run' /\ <<m, run'>> \notin reopening'
      <4>1. \A m \in Ports : ports[m].tap # run + 1 /\ ports[m].timer # run + 1 /\ <<m, run + 1>> \notin reopening
        BY NotYetServed
      <4>2. run' = run + 1 /\ run' # 0 /\ reopening' = reopening
        BY <2>1, <1>1, <1>2, <1>4
      <4>3. ASSUME NEW m \in Ports PROVE ports'[m].tap # run' /\ ports'[m].timer # run'
        <5>1. CASE ports'[m] = ports[m]
          BY <5>1, <4>1, <4>2
        <5>2. CASE ports'[m] = newPort
          BY <5>2, <4>2, <1>6
        <5> QED BY <5>1, <5>2, <1>5
      <4> QED BY <4>1, <4>2, <4>3
    <3> QED BY <3>1, <2>1, <1>4, <1>13 DEF PortServed
  <2>2. CASE r = run
    <3> SUFFICES ASSUME NEW m \in Ports, PortServed(m)' PROVE PortServed(m) /\ ports'[m].state = ports[m].state
      BY <2>2
    <3>1. from = 2 /\ p = 2
      BY <2>2, <1>1, <1>2, <1>4 DEF Ports
    <3>2. CASE m = 2
      <4>1. ports'[2].tap = 0 /\ ports'[2].timer = 0
        BY <3>1, <1>1, <1>5, <1>6, <1>8
      <4>2. ~StartsOn(2) /\ <<2, run>> \notin reopening
        BY <3>1, <1>0, <1>1, <1>6 DEF OneWay
      <4> QED BY <4>1, <4>2, <3>2, <2>2, <1>1, <1>2, <1>13 DEF PortServed
    <3>3. CASE m = 1
      <4>1. ports'[1] = ports[1]
        BY <3>1, <3>3, <1>5
      <4> QED BY <4>1, <3>3, <2>2, <1>1, <1>2, <1>13 DEF PortServed
    <3> QED BY <3>2, <3>3 DEF Ports
  <2> QED BY <2>1, <2>2, <1>2
<1>15. OneWay'
  <2>1. \A d, e \in Callers : calls'[d].at = "opening" /\ calls'[d].of = run'
                              /\ calls'[e].at = "opening" /\ calls'[e].of = run' => d = e
    <3>1. \A d \in Callers : calls'[d].at = "opening" /\ calls'[d].of = run'
             => r = run /\ calls[d].at = "opening" /\ calls[d].of = run
      <4>1. \A d \in Callers : calls[d].of # run + 1
        BY NotYetServed
      <4> QED BY <4>1, <1>1, <1>2, <1>9, <1>10
    <3> QED BY <3>1, <1>0 DEF OneWay
  <2>2. \A m \in Ports : StartsOn(m)' => ports'[m] = newPort /\ <<m, run'>> \notin reopening'
    BY <1>0, <1>1, <1>2, <1>5, <1>13 DEF OneWay
  <2>3. \A m \in Ports : <<m, run'>> \in reopening' => ports'[m].tap = 0 /\ ports'[m].timer = 0
    <3>1. \A m \in Ports : <<m, run'>> \in reopening' => r = run
      BY <1>1, <1>2, NotYetServed
    <3> QED BY <3>1, <1>0, <1>1, <1>2, <1>5, <1>6 DEF OneWay
  <2>4. capture # 0 => \A m \in Ports : PortServed(m)' => file'[capture].run = run'
    BY <1>0, <1>1, <1>2, <1>4, <1>14 DEF OneWay
  <2> QED BY <2>1, <2>2, <2>3, <2>4, <1>1 DEF OneWay
<1>21. r = run => f = file /\ 2 <= from
  BY <1>2, <1>4
<1>16. RecordsTell'
  BY <1>0, <1>1, <1>14, <1>21 DEF RecordsTell
<1>17. RetryPending'
  <2>1. \A k \in DOMAIN file' : Frames(k)' \subseteq AllFrames(file')
    BY CallRephrasedNext DEF AllFrames
  <2>2. capture # 0 => \A i \in DOMAIN unmatched' : unmatched'[i].run = file'[capture].run /\ unmatched'[i] \notin Frames(capture)'
    <3>1. CASE r = run + 1
      BY <3>1, <1>1, <1>2, <1>4
    <3>2. CASE r = run
      BY <3>2, <1>0, <1>1, <1>2, <1>4 DEF RetryPending, Frames
    <3> QED BY <3>1, <3>2, <1>2
  <2> QED BY <2>1, <2>2, <1>1, <1>2 DEF RetryPending
<1>18. RecordsItsOwn'
  BY <1>1, <1>2, <1>4, CallRephrasedNext
<1>19. NoFrameLost'
  <2>1. ~overlapped' => ToSet(unmatched') = {}
    BY <1>1, <1>3 DEF ToSet
  <2>2. ~overlapped' => ToSet(unmatched') \union forgotten' \union AllFrames(file')
                        = ToSet(unmatched) \union forgotten \union AllFrames(file)
    BY <2>1, <1>1, <1>2, <1>3
  <2> QED BY <2>2, <1>0, <1>2, CallRephrased, CallRephrasedNext
<1>20. Serially'
  <2> SUFFICES ASSUME ~overlapped' PROVE Serially'
    BY DEF Serially
  <2>1. \A d \in Callers : d # c => calls'[d].at = "idle"
    BY <1>3, <1>10
  <2>2. \A m \in Ports : m < from => ports[m].tap = 0
    BY <1>3
  <2>3. \A m \in Ports : m <= p => ports'[m].tap = 0
    <3>1. \A m \in Ports : m <= p => m < from \/ m \in from..p
      BY <1>1, <1>2 DEF Ports
    <3> QED BY <3>1, <2>2, <1>5, <1>6, <1>8
  <2>4. \A m \in Ports : m > p => ports'[m] = ports[m]
    BY <1>5, <1>1, <1>2 DEF Ports
  <2>5. capture # 0
    BY <1>1, <1>3
  <2>6. \A m \in Ports : ~PortServed(m)'
    BY <1>3, <1>14, <1>21
  <2>7. \A m \in Ports : m < p => ports[m].tap = 0
    BY <2>2, <1>1, <1>2 DEF Ports
  <2>8. ASSUME NEW m \in Ports, NEW q \in Nat
        PROVE  <<m, q>> \in taps' <=> \/ q # 0 /\ ports'[m].tap = q
                                      \/ \E d \in Callers : calls'[d].at = "closing" /\ calls'[d].port = m /\ calls'[d].of = q
    <3>1. <<m, q>> \in taps' <=> (q # 0 /\ ports[m].tap = q)
      BY <1>3
    <3>2. (\E d \in Callers : calls'[d].at = "closing" /\ calls'[d].port = m /\ calls'[d].of = q) <=> m = p /\ q = ports[p].tap
      BY <2>1, <1>9, <1>10
    <3>3. CASE m = p
      <4>1. ports'[m].tap = 0
        BY <3>3, <2>3 DEF Ports
      <4> QED BY <4>1, <3>1, <3>2, <3>3, <1>1
    <3>4. CASE m < p
      <4>1. m <= p /\ m # p
        BY <3>4 DEF Ports
      <4>2. ports'[m].tap = 0 /\ ports[m].tap = 0
        BY <4>1, <3>4, <2>3, <2>7
      <4> QED BY <4>1, <4>2, <3>1, <3>2
    <3>5. CASE m > p
      <4>1. m # p
        BY <3>5 DEF Ports
      <4> QED BY <4>1, <3>5, <3>1, <3>2, <2>4
    <3> QED BY <3>3, <3>4, <3>5 DEF Ports
  <2>9. \A d, e \in Callers : UnderWay(d)' /\ UnderWay(e)' => d = e
    BY <2>1 DEF UnderWay
  <2>10. \A d \in Callers : calls'[d].at = "closing" => \A m \in Ports : m <= calls'[d].port => ports'[m].tap = 0
    BY <2>1, <2>3, <1>9, <1>10
  <2>11. Closing' /\ \A d \in Callers : calls'[d].at # "opening"
    BY <2>1, <1>9, <1>10 DEF Closing
  <2> QED BY <2>5, <2>6, <2>8, <2>9, <2>10, <2>11, <1>1, <1>3 DEF Serially
<1> QED BY <1>11, <1>12, <1>15, <1>16, <1>17, <1>18, <1>19, <1>20 DEF CaptureInv

LEMMA EndsStep ==
    ASSUME CaptureInv, NEW c \in Callers, NEW kind, NEW from, NEW r, NEW f, NEW w,
           CallGoes(c, kind, from, r, f, w), CallEnds(c, kind, from, r, f, w)
    PROVE  CaptureInv'
<1>0. CaptureTyped /\ Numbered /\ OneWay /\ Serially /\ RecordsTell /\ RetryPending /\ NoFrameLost /\ RecordsItsOwn
  BY DEF CaptureInv
<1>2. /\ kind \in {"start", "stop"} /\ from \in 1..3
      /\ \/ r = run + 1 /\ from = 1 /\ (capture # 0 => w = <<>>)
         \/ r = run /\ 2 <= from /\ f = file /\ w = unmatched
      /\ f \in Seq(CaptureRow) /\ Len(f) = Len(file) /\ w \in Seq(TapFrame)
      /\ \A k \in DOMAIN file : f[k].run = file[k].run /\ OwnRecords(f[k])
      /\ \A g \in AllFrames(f) : g.no <= caught
      /\ \A i, j \in DOMAIN w : i # j => w[i] # w[j]
      /\ \A i \in DOMAIN w : w[i].no <= caught
      /\ calls[c].at # "opening"
      /\ UNCHANGED <<reopening, caught, forgotten, trouble>> /\ asked' \in Nat /\ taps' \subseteq taps
      /\ overlapped' \in BOOLEAN /\ (overlapped => overlapped')
  BY DEF CallGoes
<1>3. ~overlapped' =>
          /\ w = <<>> /\ AllFrames(f) = ToSet(unmatched) \union AllFrames(file)
          /\ \A d \in Callers : d # c => calls[d].at = "idle"
          /\ \A m \in Ports, q \in Nat : <<m, q>> \in taps' <=> (q # 0 /\ ports[m].tap = q)
          /\ \A m \in Ports : m < from => ports[m].tap = 0
          /\ capture = 0 => \A m \in Ports : ports[m].tap = 0
          /\ 2 <= from => capture # 0 /\ \A m \in Ports : ~PortServed(m)
  BY DEF CallGoes
<1>4. run \in Nat /\ r \in Nat /\ run <= r /\ capture \in Nat /\ (capture # 0 => capture \in DOMAIN file)
      /\ DOMAIN f = DOMAIN file /\ DOMAIN file = 1..Len(file) /\ Len(file) \in Nat
  BY <1>0, <1>2 DEF CaptureTyped
<1>6. newPort.tap = 0 /\ newPort.timer = 0 /\ newPort.state = "closed"
  BY DEF newPort
<1>1. /\ \A n \in Ports : from <= n => ports[n].tap = 0
      /\ ports' = Closed(from..2) /\ capture' = 0
      /\ calls' = [calls EXCEPT ![c] = Idle]
      /\ run' = r /\ file' = f /\ unmatched' = w
  BY DEF CallEnds
<1>5. /\ ports' \in [Ports -> [state : {"none", "closed", "open", "reconnecting"}, tap : Nat, timer : Nat]]
      /\ \A n \in Ports : ports'[n] = ports[n] \/ ports'[n] = newPort
      /\ \A n \in Ports : n \notin from..2 => ports'[n] = ports[n]
  BY <1>0, <1>1, ClosedType
<1>9. Idle \in [kind : {"none", "start", "stop"}, at : {"idle", "closing", "opening"}, port : 0..2, of : Nat]
      /\ Idle.at = "idle" /\ Idle.of = 0
  BY DEF Idle
<1>10. /\ calls'[c] = Idle /\ \A d \in Callers : d # c => calls'[d] = calls[d]
       /\ calls' \in [Callers -> [kind : {"none", "start", "stop"}, at : {"idle", "closing", "opening"}, port : 0..2, of : Nat]]
  BY <1>0, <1>1, <1>9 DEF CaptureTyped
<1>11. CaptureTyped'
  <2>1. taps' \subseteq Ports \X Nat /\ reopening' \subseteq Ports \X Nat /\ forgotten' \subseteq TapFrame
    BY <1>0, <1>2 DEF CaptureTyped
  <2>2. capture' \in Nat /\ capture' <= Len(file') /\ caught' \in Nat /\ trouble' \in Nat
    BY <1>0, <1>1, <1>2, <1>4 DEF CaptureTyped
  <2> QED BY <2>1, <2>2, <1>1, <1>2, <1>4, <1>5, <1>10 DEF CaptureTyped
<1>12. Numbered'
  <2>1. \A m \in Ports : ports[m].tap \in Nat /\ ports[m].timer \in Nat /\ ports[m].tap <= run /\ ports[m].timer <= run
    BY <1>0 DEF CaptureTyped, Numbered
  <2>2. \A m \in Ports : /\ ports'[m].tap <= run' /\ ports'[m].timer <= run'
                         /\ ports'[m].state = "open" <=> ports'[m].tap # 0
                         /\ ports'[m].tap # 0 => ports'[m].timer = 0
    BY <2>1, <1>0, <1>1, <1>4, <1>5, <1>6 DEF Numbered
  <2>3. \A m \in Ports, q \in Nat : <<m, q>> \in taps' \union reopening' => 1 <= q /\ q <= run'
    <3>1. \A m \in Ports, q \in Nat : <<m, q>> \in taps \union reopening => 1 <= q /\ q <= run
      BY <1>0 DEF Numbered
    <3> QED BY <3>1, <1>1, <1>2, <1>4
  <2>4. \A d \in Callers : /\ calls'[d].of <= run'
                           /\ calls'[d].at # "idle" => calls'[d].of # 0 /\ calls'[d].port # 0 /\ calls'[d].kind # "none"
    <3>1. \A d \in Callers : calls[d].of \in Nat /\ calls[d].of <= run
      BY <1>0 DEF CaptureTyped, Numbered
    <3>2. \A d \in Callers \ {c} : calls'[d].of <= run' /\ (calls'[d].at # "idle" => calls'[d].of # 0 /\ calls'[d].port # 0 /\ calls'[d].kind # "none")
      BY <3>1, <1>0, <1>1, <1>4, <1>10 DEF Numbered
    <3>3. calls'[c].of <= run' /\ calls'[c].at = "idle"
      BY <1>1, <1>4, <1>9, <1>10
    <3> QED BY <3>2, <3>3
  <2> QED BY <2>2, <2>3, <2>4, <1>1 DEF Numbered
<1>13. \A m \in Ports : StartsOn(m)' => r = run /\ StartsOn(m)
  <2>1. CASE r = run
    BY <2>1, <1>1, <1>9, <1>10 DEF StartsOn
  <2>2. CASE r = run + 1
    <3>1. \A d \in Callers : calls[d].of # run + 1
      BY NotYetServed
    <3> QED BY <3>1, <2>2, <1>1, <1>9, <1>10 DEF StartsOn
  <2> QED BY <2>1, <2>2, <1>2
<1>21. r = run => f = file /\ 2 <= from
  BY <1>2, <1>4
<1>14. \A m \in Ports : PortServed(m)' => r = run /\ PortServed(m)
  <2>1. CASE r = run + 1
    <3>1. \A m \in Ports : ports'[m].tap # run' /\ ports'[m].timer # run' /\ <<m, run'>> \notin reopening'
      <4>1. \A m \in Ports : ports[m].tap # run + 1 /\ ports[m].timer # run + 1 /\ <<m, run + 1>> \notin reopening
        BY NotYetServed
      <4>2. run' = run + 1 /\ run' # 0 /\ reopening' = reopening
        BY <2>1, <1>1, <1>2, <1>4
      <4>3. ASSUME NEW m \in Ports PROVE ports'[m].tap # run' /\ ports'[m].timer # run'
        <5>1. CASE ports'[m] = ports[m]
          BY <5>1, <4>1, <4>2
        <5>2. CASE ports'[m] = newPort
          BY <5>2, <4>2, <1>6
        <5> QED BY <5>1, <5>2, <1>5
      <4> QED BY <4>1, <4>2, <4>3
    <3> QED BY <3>1, <2>1, <1>4, <1>13 DEF PortServed
  <2>2. CASE r = run
    <3> SUFFICES ASSUME NEW m \in Ports, PortServed(m)' PROVE PortServed(m)
      BY <2>2
    <3>1. run' = run /\ run # 0 /\ reopening' = reopening
      BY <2>2, <1>1, <1>2 DEF PortServed
    <3>2. CASE ports'[m] = ports[m]
      BY <3>1, <3>2, <1>13 DEF PortServed
    <3>3. CASE ports'[m] = newPort
      BY <3>1, <3>3, <1>6, <1>13 DEF PortServed
    <3> QED BY <3>2, <3>3, <1>5
  <2> QED BY <2>1, <2>2, <1>2
<1>15. OneWay'
  <2>1. \A d, e \in Callers : calls'[d].at = "opening" /\ calls'[d].of = run'
                              /\ calls'[e].at = "opening" /\ calls'[e].of = run' => d = e
    <3>1. \A d \in Callers : calls'[d].at = "opening" /\ calls'[d].of = run'
             => r = run /\ calls[d].at = "opening" /\ calls[d].of = run
      <4>1. \A d \in Callers : calls[d].of # run + 1
        BY NotYetServed
      <4> QED BY <4>1, <1>1, <1>2, <1>9, <1>10
    <3> QED BY <3>1, <1>0 DEF OneWay
  <2>2. \A m \in Ports : StartsOn(m)' => ports'[m] = newPort /\ <<m, run'>> \notin reopening'
    BY <1>0, <1>1, <1>2, <1>5, <1>13 DEF OneWay
  <2>3. \A m \in Ports : <<m, run'>> \in reopening' => ports'[m].tap = 0 /\ ports'[m].timer = 0
    <3>1. \A m \in Ports : <<m, run'>> \in reopening' => r = run
      BY <1>1, <1>2, NotYetServed
    <3> QED BY <3>1, <1>0, <1>1, <1>2, <1>5, <1>6 DEF OneWay
  <2> QED BY <2>1, <2>2, <2>3, <1>1 DEF OneWay
<1>16. RecordsTell'
  BY <1>1 DEF RecordsTell
<1>17. RetryPending'
  <2>1. \A k \in DOMAIN file' : Frames(k)' \subseteq AllFrames(file')
    BY CallRephrasedNext DEF AllFrames
  <2> QED BY <2>1, <1>1, <1>2 DEF RetryPending
<1>18. RecordsItsOwn'
  BY <1>1, <1>2, <1>4, CallRephrasedNext
<1>19. NoFrameLost'
  <2>1. ~overlapped' => ToSet(unmatched') = {}
    BY <1>1, <1>3 DEF ToSet
  <2>2. ~overlapped' => ToSet(unmatched') \union forgotten' \union AllFrames(file')
                        = ToSet(unmatched) \union forgotten \union AllFrames(file)
    BY <2>1, <1>1, <1>2, <1>3
  <2> QED BY <2>2, <1>0, <1>2, CallRephrased, CallRephrasedNext
<1>20. Serially'
  <2> SUFFICES ASSUME ~overlapped' PROVE Serially'
    BY DEF Serially
  <2>1. \A d \in Callers : calls'[d].at = "idle"
    BY <1>3, <1>9, <1>10
  <2>2. \A m \in Ports : ports[m].tap = 0
    BY <1>1, <1>2, <1>3 DEF Ports
  <2>3. \A m \in Ports : ports'[m].tap = 0
    BY <2>2, <1>5, <1>6
  <2>4. \A m \in Ports : ~PortServed(m)'
    BY <1>3, <1>14, <1>21
  <2>5. ASSUME NEW m \in Ports, NEW q \in Nat
        PROVE  <<m, q>> \in taps' <=> \/ q # 0 /\ ports'[m].tap = q
                                      \/ \E d \in Callers : calls'[d].at = "closing" /\ calls'[d].port = m /\ calls'[d].of = q
    <3>1. <<m, q>> \in taps' <=> (q # 0 /\ ports[m].tap = q)
      BY <1>3
    <3>2. ~(\E d \in Callers : calls'[d].at = "closing" /\ calls'[d].port = m /\ calls'[d].of = q)
      BY <2>1
    <3> QED BY <3>1, <3>2, <2>2, <2>3
  <2> QED BY <2>1, <2>3, <2>4, <2>5, <1>1, <1>3 DEF Serially, UnderWay, Closing
<1> QED BY <1>11, <1>12, <1>15, <1>16, <1>17, <1>18, <1>19, <1>20 DEF CaptureInv

LEMMA BeginsStep ==
    ASSUME CaptureInv, NEW c \in Callers, NEW kind, NEW from, NEW r, NEW f, NEW w,
           CallGoes(c, kind, from, r, f, w), CallBegins(c, kind, from, r, f)
    PROVE  CaptureInv'
<1> DEFINE call == [kind |-> "start", at |-> "opening", port |-> 1, of |-> run']
           begun == [run |-> run', records |-> <<>>]
           last == Len(file) + 1
<1>0. CaptureTyped /\ Numbered /\ OneWay /\ Serially /\ RecordsTell /\ RetryPending /\ NoFrameLost /\ RecordsItsOwn
  BY DEF CaptureInv
<1>2. /\ kind \in {"start", "stop"} /\ from \in 1..3
      /\ \/ r = run + 1 /\ from = 1 /\ (capture # 0 => w = <<>>)
         \/ r = run /\ 2 <= from /\ f = file /\ w = unmatched
      /\ f \in Seq(CaptureRow) /\ Len(f) = Len(file) /\ w \in Seq(TapFrame)
      /\ \A k \in DOMAIN file : f[k].run = file[k].run /\ OwnRecords(f[k])
      /\ \A g \in AllFrames(f) : g.no <= caught
      /\ \A i, j \in DOMAIN w : i # j => w[i] # w[j]
      /\ \A i \in DOMAIN w : w[i].no <= caught
      /\ calls[c].at # "opening"
      /\ UNCHANGED <<reopening, caught, forgotten, trouble>> /\ asked' \in Nat /\ taps' \subseteq taps
      /\ overlapped' \in BOOLEAN /\ (overlapped => overlapped')
  BY DEF CallGoes
<1>3. ~overlapped' =>
          /\ w = <<>> /\ AllFrames(f) = ToSet(unmatched) \union AllFrames(file)
          /\ \A d \in Callers : d # c => calls[d].at = "idle"
          /\ \A m \in Ports, q \in Nat : <<m, q>> \in taps' <=> (q # 0 /\ ports[m].tap = q)
          /\ \A m \in Ports : m < from => ports[m].tap = 0
          /\ capture = 0 => \A m \in Ports : ports[m].tap = 0
          /\ 2 <= from => capture # 0 /\ \A m \in Ports : ~PortServed(m)
  BY DEF CallGoes
<1>4. run \in Nat /\ r \in Nat /\ run <= r /\ capture \in Nat /\ (capture # 0 => capture \in DOMAIN file)
      /\ DOMAIN f = DOMAIN file /\ DOMAIN file = 1..Len(file) /\ Len(file) \in Nat
  BY <1>0, <1>2 DEF CaptureTyped
<1>6. newPort.tap = 0 /\ newPort.timer = 0 /\ newPort.state = "closed"
  BY DEF newPort
<1>1. /\ \A n \in Ports : from <= n => ports[n].tap = 0
      /\ run' = r + 1 /\ capture' = last /\ file' = Append(f, begun)
      /\ ports' = [n \in Ports |-> newPort] /\ unmatched' = <<>>
      /\ calls' = [calls EXCEPT ![c] = call]
  BY DEF CallBegins, Begin
<1>5. /\ ports' \in [Ports -> [state : {"none", "closed", "open", "reconnecting"}, tap : Nat, timer : Nat]]
      /\ \A n \in Ports : ports'[n] = newPort
  <2>1. newPort \in [state : {"none", "closed", "open", "reconnecting"}, tap : Nat, timer : Nat]
    BY DEF newPort
  <2> QED BY <2>1, <1>1
<1>7. /\ run' \in Nat /\ run < run' /\ (run' = run + 1 \/ run' = run + 2) /\ run' # 0
      /\ last \in Nat /\ last # 0
  BY <1>1, <1>2, <1>4
<1>8. begun \in CaptureRow /\ begun.run = run' /\ begun.records = <<>>
  BY <1>7 DEF CaptureRow
<1>9. call \in [kind : {"none", "start", "stop"}, at : {"idle", "closing", "opening"}, port : 0..2, of : Nat]
      /\ call.at = "opening" /\ call.of = run' /\ call.port = 1 /\ call.kind = "start"
  BY <1>7
<1> HIDE DEF call, begun
<1>10. /\ calls'[c] = call /\ \A d \in Callers : d # c => calls'[d] = calls[d]
       /\ calls' \in [Callers -> [kind : {"none", "start", "stop"}, at : {"idle", "closing", "opening"}, port : 0..2, of : Nat]]
  BY <1>0, <1>1, <1>9 DEF CaptureTyped
<1>22. /\ file' \in Seq(CaptureRow) /\ Len(file') = last /\ DOMAIN file' = 1..last
       /\ file'[last] = begun /\ \A k \in DOMAIN file : file'[k] = f[k]
       /\ DOMAIN file' = DOMAIN file \union {last}
  <2>1. file' \in Seq(CaptureRow) /\ Len(file') = last /\ DOMAIN file' = 1..last
    BY <1>1, <1>2, <1>8
  <2>2. file'[last] = begun /\ \A k \in DOMAIN file : file'[k] = f[k]
    BY <1>1, <1>2, <1>4, <1>8
  <2> QED BY <2>1, <2>2, <1>4
<1>11. CaptureTyped'
  <2>1. taps' \subseteq Ports \X Nat /\ reopening' \subseteq Ports \X Nat /\ forgotten' \subseteq TapFrame
    BY <1>0, <1>2 DEF CaptureTyped
  <2>2. capture' \in Nat /\ capture' <= Len(file') /\ caught' \in Nat /\ trouble' \in Nat /\ unmatched' \in Seq(TapFrame)
    BY <1>0, <1>1, <1>2, <1>7, <1>22 DEF CaptureTyped
  <2> QED BY <2>1, <2>2, <1>2, <1>5, <1>7, <1>10, <1>22 DEF CaptureTyped
<1>12. Numbered'
  <2>2. \A m \in Ports : /\ ports'[m].tap <= run' /\ ports'[m].timer <= run'
                         /\ ports'[m].state = "open" <=> ports'[m].tap # 0
                         /\ ports'[m].tap # 0 => ports'[m].timer = 0
    BY <1>5, <1>6, <1>7
  <2>3. \A m \in Ports, q \in Nat : <<m, q>> \in taps' \union reopening' => 1 <= q /\ q <= run'
    <3>1. \A m \in Ports, q \in Nat : <<m, q>> \in taps \union reopening => 1 <= q /\ q <= run
      BY <1>0 DEF Numbered
    <3> QED BY <3>1, <1>2, <1>4, <1>7
  <2>4. \A d \in Callers : /\ calls'[d].of <= run'
                           /\ calls'[d].at # "idle" => calls'[d].of # 0 /\ calls'[d].port # 0 /\ calls'[d].kind # "none"
    <3>1. \A d \in Callers : calls[d].of \in Nat /\ calls[d].of <= run
      BY <1>0 DEF CaptureTyped, Numbered
    <3>2. \A d \in Callers \ {c} : calls'[d].of <= run' /\ (calls'[d].at # "idle" => calls'[d].of # 0 /\ calls'[d].port # 0 /\ calls'[d].kind # "none")
      BY <3>1, <1>0, <1>4, <1>7, <1>10 DEF Numbered
    <3>3. calls'[c].of <= run' /\ calls'[c].of # 0 /\ calls'[c].port # 0 /\ calls'[c].kind # "none"
      BY <1>7, <1>9, <1>10
    <3> QED BY <3>2, <3>3
  <2>5. 1 <= file'[last].run /\ file'[last].run <= run'
    BY <1>7, <1>8, <1>22
  <2> QED BY <2>2, <2>3, <2>4, <2>5, <1>1 DEF Numbered
<1>13. /\ \A d \in Callers : calls'[d].at = "opening" /\ calls'[d].of = run' => d = c
       /\ \A m \in Ports : <<m, run'>> \notin reopening'
  <2>1. \A d \in Callers : calls[d].of # run + 1 /\ calls[d].of # run + 2
    BY NotYetServed
  <2>2. \A m \in Ports : <<m, run + 1>> \notin reopening /\ <<m, run + 2>> \notin reopening
    BY NotYetServed
  <2> QED BY <2>1, <2>2, <1>2, <1>7, <1>10
<1>14. \A m \in Ports : StartsOn(m)' /\ PortServed(m)'
  BY <1>7, <1>9, <1>10 DEF StartsOn, PortServed, Ports
<1>15. OneWay'
  BY <1>1, <1>5, <1>6, <1>8, <1>13, <1>22 DEF OneWay
<1>23. file'[last].records = <<>> /\ DOMAIN file'[last].records = {} /\ FramesIn(file'[last].records) = {}
  BY <1>8, <1>22 DEF FramesIn
<1>16. RecordsTell'
  BY <1>1, <1>23 DEF RecordsTell
<1>24. AllFrames(file') = AllFrames(f)
  BY <1>4, <1>22, <1>23 DEF AllFrames
<1>17. RetryPending'
  <2>1. \A k \in DOMAIN file' : Frames(k)' \subseteq AllFrames(file')
    BY CallRephrasedNext DEF AllFrames
  <2> QED BY <2>1, <1>1, <1>2, <1>24 DEF RetryPending
<1>18. RecordsItsOwn'
  <2>1. OwnRecords(file'[last])
    BY <1>23 DEF OwnRecords, OnceEach, RealChanges
  <2> QED BY <2>1, <1>2, <1>22, CallRephrasedNext
<1>19. NoFrameLost'
  <2>1. ToSet(unmatched') = {}
    BY <1>1 DEF ToSet
  <2>2. ~overlapped' => ToSet(unmatched') \union forgotten' \union AllFrames(file')
                        = ToSet(unmatched) \union forgotten \union AllFrames(file)
    BY <2>1, <1>2, <1>3, <1>24
  <2> QED BY <2>2, <1>0, <1>2, CallRephrased, CallRephrasedNext
<1>20. Serially'
  <2> SUFFICES ASSUME ~overlapped' PROVE Serially'
    BY DEF Serially
  <2>1. \A d \in Callers : d # c => calls'[d].at = "idle"
    BY <1>3, <1>10
  <2>2. \A m \in Ports : ports[m].tap = 0
    BY <1>1, <1>2, <1>3 DEF Ports
  <2>3. \A m \in Ports : ports'[m].tap = 0
    BY <1>5, <1>6
  <2>4. ~Closing'
    BY <2>1, <1>9, <1>10 DEF Closing
  <2>5. ASSUME NEW m \in Ports, NEW q \in Nat
        PROVE  <<m, q>> \in taps' <=> \/ q # 0 /\ ports'[m].tap = q
                                      \/ \E d \in Callers : calls'[d].at = "closing" /\ calls'[d].port = m /\ calls'[d].of = q
    <3>1. <<m, q>> \in taps' <=> (q # 0 /\ ports[m].tap = q)
      BY <1>3
    <3>2. ~(\E d \in Callers : calls'[d].at = "closing" /\ calls'[d].port = m /\ calls'[d].of = q)
      BY <2>4 DEF Closing
    <3> QED BY <3>1, <3>2, <2>2, <2>3
  <2>6. \A d, e \in Callers : UnderWay(d)' /\ UnderWay(e)' => d = e
    BY <2>1 DEF UnderWay
  <2>7. \A d \in Callers : calls'[d].at # "closing"
    BY <2>4 DEF Closing
  <2>8. \A d \in Callers : calls'[d].at = "opening" => calls'[d].of = run'
    BY <2>1, <1>9, <1>10
  <2> QED BY <2>3, <2>4, <2>5, <2>6, <2>7, <2>8, <1>1, <1>7, <1>14 DEF Serially
<1> QED BY <1>11, <1>12, <1>15, <1>16, <1>17, <1>18, <1>19, <1>20 DEF CaptureInv

LEMMA WindsStep ==
    ASSUME CaptureInv, NEW c \in Callers, NEW kind, NEW from, NEW r, NEW f, NEW w,
           CallGoes(c, kind, from, r, f, w), CloseFrom(c, kind, from, r, f, w)
    PROVE  CaptureInv'
<1>1. CaptureTyped /\ kind \in {"start", "stop"} /\ from \in 1..3
  BY DEF CaptureInv, CallGoes
<1>2. \/ \E p \in Ports : CallCloses(c, kind, from, p, r, f, w)
      \/ CallEnds(c, kind, from, r, f, w)
      \/ CallBegins(c, kind, from, r, f)
  BY <1>1, CloseCases
<1> QED BY <1>2, ClosesStep, EndsStep, BeginsStep

LEMMA CallStep ==
    ASSUME CaptureInv, NEW c \in Callers, NEW kind \in {"start", "stop"}, Call(c, kind)
    PROVE  CaptureInv'
<1> DEFINE f == record(flush)
           w == IF capture = 0 THEN unmatched ELSE <<>>
<1>0. CaptureTyped /\ Serially /\ RetryPending
  BY DEF CaptureInv
<1>1. /\ calls[c].at = "idle" /\ asked' = asked + 1 /\ CloseFrom(c, kind, 1, run + 1, f, w)
      /\ overlapped' = (overlapped \/ \E o \in Callers \ {c} : UnderWay(o))
      /\ UNCHANGED <<taps, reopening, caught, forgotten, trouble>>
  BY DEF Call
<1>2. /\ f \in Seq(CaptureRow) /\ Len(f) = Len(file)
      /\ \A k \in DOMAIN file : f[k].run = file[k].run /\ OwnRecords(f[k])
      /\ \A g \in AllFrames(f) : g.no <= caught
      /\ AllFrames(f) = IF capture = 0 THEN AllFrames(file) ELSE AllFrames(file) \union ToSet(unmatched)
  BY FlushWritten
<1>3. /\ w \in Seq(TapFrame) /\ (capture # 0 => w = <<>>)
      /\ \A i, j \in DOMAIN w : i # j => w[i] # w[j]
      /\ \A i \in DOMAIN w : w[i].no <= caught
  BY <1>0 DEF CaptureTyped, RetryPending
<1>4. capture = 0 => w = unmatched
  OBVIOUS
<1> HIDE DEF f, w
<1>5. ASSUME ~overlapped'
      PROVE  /\ w = <<>> /\ AllFrames(f) = ToSet(unmatched) \union AllFrames(file)
             /\ \A d \in Callers : d # c => calls[d].at = "idle"
             /\ \A m \in Ports, q \in Nat : <<m, q>> \in taps' <=> (q # 0 /\ ports[m].tap = q)
             /\ capture = 0 => \A m \in Ports : ports[m].tap = 0
  <2>1. ~overlapped /\ \A d \in Callers : d # c => calls[d].at = "idle"
    BY <1>1, <1>5 DEF UnderWay
  <2>2. ~Closing /\ \A d \in Callers : calls[d].at # "closing"
    BY <2>1, <1>1 DEF Closing
  <2>3. capture = 0 => unmatched = <<>> /\ \A m \in Ports : ports[m].tap = 0
    BY <2>1, <1>0 DEF Serially
  <2>4. w = <<>> /\ AllFrames(f) = ToSet(unmatched) \union AllFrames(file)
    BY <2>3, <1>2, <1>3, <1>4 DEF ToSet
  <2>5. \A m \in Ports, q \in Nat : <<m, q>> \in taps <=>
           \/ q # 0 /\ ports[m].tap = q
           \/ \E d \in Callers : calls[d].at = "closing" /\ calls[d].port = m /\ calls[d].of = q
    BY <2>1, <1>0 DEF Serially
  <2>6. ASSUME NEW m \in Ports, NEW q \in Nat
        PROVE  <<m, q>> \in taps' <=> (q # 0 /\ ports[m].tap = q)
    <3>1. ~(\E d \in Callers : calls[d].at = "closing" /\ calls[d].port = m /\ calls[d].of = q)
      BY <2>2
    <3> QED BY <3>1, <2>5, <1>1
  <2> QED BY <2>1, <2>3, <2>4, <2>6
<1>6. CallGoes(c, kind, 1, run + 1, f, w)
  <2>1. asked' \in Nat /\ overlapped' \in BOOLEAN /\ (overlapped => overlapped')
    BY <1>0, <1>1 DEF CaptureTyped
  <2>2. \A m \in Ports : ~(m < 1)
    BY DEF Ports
  <2>3. ~(2 <= 1) /\ 1 \in 1..3 /\ calls[c].at # "opening"
    BY <1>1
  <2> QED BY <2>1, <2>2, <2>3, <1>1, <1>2, <1>3, <1>5 DEF CallGoes
<1> QED BY <1>1, <1>6, WindsStep

LEMMA TapClosesStep ==
    ASSUME CaptureInv, NEW c \in Callers, TapCloses(c)
    PROVE  CaptureInv'
<1> DEFINE k == calls[c]
           from == k.port + 1
<1>0. CaptureTyped /\ Numbered /\ Serially /\ RetryPending /\ RecordsItsOwn
  BY DEF CaptureInv
<1>1. /\ k.at = "closing" /\ taps' = taps \ {<<k.port, k.of>>}
      /\ CloseFrom(c, k.kind, from, run, file, unmatched)
      /\ UNCHANGED <<reopening, caught, asked, forgotten, overlapped, trouble>>
  BY DEF TapCloses
<1>2. k.kind \in {"start", "stop"} /\ k.port \in Ports /\ from \in 2..3 /\ k.of \in Nat /\ k.of # 0
  BY <1>0, <1>1 DEF CaptureTyped, Numbered, Ports
<1> HIDE DEF from
<1>3. ASSUME ~overlapped
      PROVE  /\ unmatched = <<>> /\ ToSet(unmatched) = {} /\ capture # 0 /\ \A m \in Ports : ~PortServed(m)
             /\ \A d \in Callers : d # c => calls[d].at = "idle"
             /\ \A m \in Ports : m < from => ports[m].tap = 0
             /\ \A m \in Ports, q \in Nat : <<m, q>> \in taps' <=> (q # 0 /\ ports[m].tap = q)
  <2>1. Closing
    BY <1>1 DEF Closing
  <2>2. capture # 0 /\ unmatched = <<>> /\ \A m \in Ports : ~PortServed(m)
    BY <2>1, <1>0, <1>3 DEF Serially
  <2>3. \A d \in Callers : d # c => calls[d].at = "idle"
    BY <1>0, <1>1, <1>3 DEF Serially, UnderWay
  <2>4. \A m \in Ports : m <= k.port => ports[m].tap = 0
    BY <1>0, <1>1, <1>3 DEF Serially
  <2>5. \A m \in Ports : m < from => ports[m].tap = 0
    BY <2>4, <1>2 DEF from, Ports
  <2>6. \A m \in Ports, q \in Nat : <<m, q>> \in taps <=>
           \/ q # 0 /\ ports[m].tap = q
           \/ \E d \in Callers : calls[d].at = "closing" /\ calls[d].port = m /\ calls[d].of = q
    BY <1>0, <1>3 DEF Serially
  <2>7. ASSUME NEW m \in Ports, NEW q \in Nat
        PROVE  <<m, q>> \in taps' <=> (q # 0 /\ ports[m].tap = q)
    <3>1. (\E d \in Callers : calls[d].at = "closing" /\ calls[d].port = m /\ calls[d].of = q) <=> (k.port = m /\ k.of = q)
      BY <2>3, <1>1
    <3>2. <<m, q>> \in taps' <=> <<m, q>> \in taps /\ ~(k.port = m /\ k.of = q)
      BY <1>1
    <3>3. k.port = m => ports[m].tap = 0
      BY <2>4, <1>2 DEF Ports
    <3> QED BY <3>1, <3>2, <3>3, <2>6
  <2>8. ToSet(unmatched) = {}
    BY <2>2 DEF ToSet
  <2> QED BY <2>2, <2>3, <2>5, <2>7, <2>8
<1> HIDE DEF k
<1>4. CallGoes(c, k.kind, from, run, file, unmatched)
  <2>1. /\ file \in Seq(CaptureRow) /\ unmatched \in Seq(TapFrame) /\ asked' \in Nat /\ overlapped' \in BOOLEAN
        /\ from \in 1..3 /\ 2 <= from /\ taps' \subseteq taps
    BY <1>0, <1>1, <1>2 DEF CaptureTyped
  <2>2. \A i \in DOMAIN file : OwnRecords(file[i])
    BY <1>0, CallRephrased
  <2>3. \A g \in AllFrames(file) : g.no <= caught
    BY <1>0, CallRephrased DEF RetryPending, AllFrames
  <2>4. \A i, j \in DOMAIN unmatched : i # j => unmatched[i] # unmatched[j]
    BY <1>0 DEF RetryPending
  <2>5. \A i \in DOMAIN unmatched : unmatched[i].no <= caught
    BY <1>0 DEF RetryPending
  <2>6. calls[c].at # "opening"
    BY <1>1 DEF k
  <2> QED BY <2>1, <2>2, <2>3, <2>4, <2>5, <2>6, <1>1, <1>2, <1>3 DEF CallGoes
<1> QED BY <1>1, <1>4, WindsStep

LEMMA CaptureInvStep ==
    ASSUME CaptureInv, CaptureNext
    PROVE  CaptureInv'
<1>1. ASSUME NEW open \in reopening, Reopens(open[1], open[2])
      PROVE  CaptureInv'
  <2>1. open[1] \in Ports /\ open[2] \in Nat
    BY DEF CaptureInv, CaptureTyped
  <2> QED BY <1>1, <2>1, ReopensStep
<1> QED BY <1>1, CallStep, TapClosesStep, StartOpensStep, RetryStep, TapFailsStep, HearStep, FlushStep,
           LostStep DEF CaptureNext

\* What is checked of a capture follows.
LEMMA CaptureKeeps ==
    ASSUME CaptureInv
    PROVE  CaptureTypeOK /\ CaptureKept
<1>0. CaptureTyped /\ Numbered /\ OneWay /\ Serially /\ NoFrameLost /\ RecordsItsOwn
  BY DEF CaptureInv
<1>1. CaptureTypeOK
  <2>1. capture \in 0..Len(file)
    BY <1>0 DEF CaptureTyped
  <2>2. \A n \in Ports : ports[n].state \in {"none", "closed", "open", "reconnecting"}
    BY <1>0 DEF CaptureTyped
  <2> QED BY <2>1, <2>2, <1>0 DEF CaptureTypeOK, CaptureTyped
<1>2. NoTapLeaks
  <2> SUFFICES ASSUME CaptureQuiet, ~overlapped
               PROVE  /\ taps = IF capture = 0 THEN {}
                                ELSE {<<n, run>> : n \in {m \in Ports : ports[m].tap # 0}}
                      /\ capture # 0 => \A n \in Ports :
                            ports[n].tap = run \/ ports[n].timer = run \/ <<n, run>> \in reopening
    BY DEF NoTapLeaks
  <2>1. \A d \in Callers : calls[d].at = "idle"
    BY DEF CaptureQuiet, UnderWay
  <2>2. ~Closing /\ \A m \in Ports : ~StartsOn(m)
    BY <2>1 DEF Closing, StartsOn
  <2>3. taps \subseteq Ports \X Nat /\ run \in Nat
    BY <1>0 DEF CaptureTyped
  <2>4. \A m \in Ports, q \in Nat : <<m, q>> \in taps <=>
           \/ q # 0 /\ ports[m].tap = q
           \/ \E d \in Callers : calls[d].at = "closing" /\ calls[d].port = m /\ calls[d].of = q
    BY <1>0 DEF Serially
  <2>5. ASSUME NEW m \in Ports, NEW q \in Nat
        PROVE  <<m, q>> \in taps <=> (q # 0 /\ ports[m].tap = q)
    <3>1. ~(\E d \in Callers : calls[d].at = "closing" /\ calls[d].port = m /\ calls[d].of = q)
      BY <2>1
    <3> QED BY <3>1, <2>4
  <2>6. CASE capture = 0
    <3>1. \A m \in Ports : ports[m].tap = 0
      BY <2>6, <1>0 DEF Serially
    <3>2. taps = {}
      BY <3>1, <2>3, <2>5
    <3> QED BY <3>2, <2>6
  <2>7. CASE capture # 0
    <3>1. \A m \in Ports : PortServed(m) /\ ports[m].tap \in {0, run}
      BY <2>2, <2>7, <1>0 DEF Serially
    <3>2. \A m \in Ports : ports[m].tap = run \/ ports[m].timer = run \/ <<m, run>> \in reopening
      BY <3>1, <2>2 DEF PortServed
    <3>3. taps \subseteq {<<n, run>> : n \in {m \in Ports : ports[m].tap # 0}}
      BY <3>1, <2>3, <2>5
    <3>4. {<<n, run>> : n \in {m \in Ports : ports[m].tap # 0}} \subseteq taps
      BY <3>1, <2>3, <2>5
    <3>5. taps = {<<n, run>> : n \in {m \in Ports : ports[m].tap # 0}}
      BY <3>3, <3>4
    <3> QED BY <3>2, <3>5, <2>7
  <2> QED BY <2>6, <2>7
<1> QED BY <1>0, <1>1, <1>2 DEF CaptureKept

------------------------------------------------------------------------------
(* The page that follows a capture (DevSerialSniff).                         *)

PollRow == [since : Nat \union {-1}, answered : BOOLEAN, running : BOOLEAN, records : SUBSET Nat]
PageRow == [running : BOOLEAN, busy : {"no", "start", "stop", "runs", "stopped"}, lastSeq : Nat, shown : Seq(Nat)]

SniffTyped ==
    /\ taken \in Seq(Nat) /\ live \in BOOLEAN /\ mixed \in BOOLEAN /\ upsets \in Nat
    /\ kept \in Nat /\ kept <= Len(taken) /\ (live => kept = Len(taken) /\ kept # 0)
    /\ view \in PageRow /\ polls \in [1..MaxSlots -> PollRow]
    /\ \A s \in 1..MaxSlots : IsFiniteSet(polls[s].records)

\* A sequence goes up, and its last is l, or nothing is shown yet.
Climbs(s) == \A i \in 1..(Len(s) - 1) : s[i] < s[i + 1]
EndsWith(s, l) == IF s = <<>> THEN l = 0 ELSE s[Len(s)] = l
IsShown(s, q) == \E i \in 1..Len(s) : s[i] = q

\* How many records the capture followed has, and those kept of t.
RecordCount == IF kept = 0 THEN 0 ELSE taken[kept]
RecordsTo(t) == {q \in Nat : 1 <= q /\ t - MaxRecent < q /\ q <= t}

\* While the page follows one capture, it is behind it, and so is each poll.
PageBehind ==
        /\ taken # <<>> => kept = Len(taken)
        /\ view.lastSeq <= RecordCount
        /\ \A q \in Nat : 1 <= q /\ RecordCount - MaxRecent < q /\ q <= view.lastSeq => IsShown(view.shown, q)
        /\ \A s \in 1..MaxSlots :
              /\ polls[s].since <= view.lastSeq
              /\ polls[s].answered =>
                    \E t \in Nat : t <= RecordCount /\ polls[s].records = {q \in RecordsTo(t) : q > polls[s].since}

SniffInv ==
    /\ SniffTyped
    /\ Climbs(view.shown) /\ EndsWith(view.shown, view.lastSeq)
    /\ ~mixed => PageBehind

LEMMA SniffNumbers ==
    MaxRecords \in Nat /\ MaxStarts \in Nat /\ MaxSlots \in Nat /\ MaxUpsets \in Nat
    /\ MaxRecent \in Nat /\ MaxRecent # 0
BY PageAssumption

LEMMA MaxOfTwo ==
    ASSUME NEW a \in Int
    PROVE  Max({1, a}) = IF a < 1 THEN 1 ELSE a
<1> DEFINE b == IF a < 1 THEN 1 ELSE a
<1>1. b \in {1, a} /\ \A y \in {1, a} : b >= y
  OBVIOUS
<1>2. \A x \in {1, a} : (\A y \in {1, a} : x >= y) => x = b
  OBVIOUS
<1> HIDE DEF b
<1>3. (CHOOSE x \in {1, a} : \A y \in {1, a} : x >= y) = b
  BY <1>1, <1>2
<1> QED BY <1>3 DEF Max, b

\* The numbers of a set in their order.
LEMMA Ascends ==
    ASSUME NEW S \in SUBSET Nat, IsFiniteSet(S)
    PROVE  /\ Ascending(S) \in Seq(Nat) /\ Climbs(Ascending(S))
           /\ \A i \in 1..Len(Ascending(S)) : Ascending(S)[i] \in S
           /\ \A q \in S : IsShown(Ascending(S), q)
           /\ Ascending(S) = <<>> <=> S = {}
<1>1. StrictOn(S, Less)
  BY DEF StrictOn, Less
<1>2. Cardinality(S) \in Nat
  BY FS_CardinalityType
<1>3. \A q \in S : {o \in S : o < q} = Below(S, Less, q)
  BY DEF Below, Less
<1> DEFINE n == Cardinality(S)
           a == Ascending(S)
<1>4. a = [i \in 1..n |-> CHOOSE q \in S : Cardinality(Below(S, Less, q)) = i - 1]
  <2>1. \A i \in 1..n : (CHOOSE q \in S : Cardinality({o \in S : o < q}) = i - 1)
                        = CHOOSE q \in S : Cardinality(Below(S, Less, q)) = i - 1
    BY <1>3
  <2>2. a = [i \in 1..n |-> CHOOSE q \in S : Cardinality({o \in S : o < q}) = i - 1]
    BY Zenon DEF Ascending
  <2> DEFINE p(i) == CHOOSE q \in S : Cardinality({o \in S : o < q}) = i - 1
             r(i) == CHOOSE q \in S : Cardinality(Below(S, Less, q)) = i - 1
  <2>3. \A i \in 1..n : p(i) = r(i)
    BY <2>1
  <2>4. a = [i \in 1..n |-> p(i)]
    BY <2>2
  <2>5. a = [i \in 1..n |-> r(i)]
    <3> HIDE DEF a, n, p, r
    <3> QED BY <2>3, <2>4
  <2> HIDE DEF a, n
  <2> QED BY <2>5
<1> HIDE DEF a
<1>5. /\ a \in Seq(S) /\ Len(a) = n /\ DOMAIN a = 1..n
      /\ \A i, j \in 1..n : i < j => <<a[i], a[j]>> \in Less
      /\ \A x \in S : (\E i \in 1..n : a[i] = x) \/ (n < n /\ \A i \in 1..n : <<a[i], x>> \in Less)
  <2>1. n \in Nat /\ n <= Cardinality(S)
    BY <1>2
  <2>2. a = Chosen(S, Less, n)
    BY <1>4 DEF Chosen
  <2>3. n = Cardinality(S)
    OBVIOUS
  <2> HIDE DEF n
  <2>4. /\ a \in Seq(S) /\ Len(a) = n /\ DOMAIN a = 1..n
        /\ \A i, j \in 1..n : i < j => <<a[i], a[j]>> \in Less
        /\ \A x \in S : (\E i \in 1..n : a[i] = x) \/ (n < Cardinality(S) /\ \A i \in 1..n : <<a[i], x>> \in Less)
    BY <2>1, <1>1, <2>2, ListedInOrder
  <2> QED BY <2>3, <2>4
<1> HIDE DEF n
<1>6. n \in Nat
  BY <1>2 DEF n
<1>12. \A i \in 1..n : a[i] \in S
  BY <1>5
<1>7. a \in Seq(Nat)
  <2>1. a \in [1..n -> Nat]
    <3>1. a \in [1..n -> S]
      BY <1>5
    <3> QED BY <3>1
  <2> QED BY <2>1, <1>6
<1>8. Climbs(a)
  <2> SUFFICES ASSUME NEW i \in 1..(Len(a) - 1) PROVE a[i] < a[i + 1]
    BY DEF Climbs
  <2>1. i \in 1..n /\ i + 1 \in 1..n /\ i < i + 1
    BY <1>5, <1>6
  <2>2. <<a[i], a[i + 1]>> \in Less
    BY <2>1, <1>5
  <2> QED BY <2>2 DEF Less
<1>9. \A q \in S : IsShown(a, q)
  BY <1>5, <1>6 DEF IsShown
<1>10. a = <<>> <=> S = {}
  <2>1. a = <<>> <=> n = 0
    BY <1>5, <1>7
  <2>2. n = 0 => S = {}
    BY <1>5, <1>9 DEF IsShown
  <2>3. n # 0 => S # {}
    <3>1. n # 0 => 1 \in 1..n
      BY <1>6
    <3> QED BY <3>1, <1>12
  <2> QED BY <2>1, <2>2, <2>3
<1>11. \A i \in 1..Len(a) : a[i] \in S
  BY <1>5, <1>12
<1> QED BY <1>7, <1>8, <1>9, <1>10, <1>11 DEF a

\* The end of a sequence that goes up holds every number near its last.
LEMMA CutShort ==
    ASSUME NEW m \in Seq(Nat), Climbs(m), NEW e \in Nat, EndsWith(m, e),
           NEW k \in Nat, 1 <= k, k <= Len(m) + 1, Len(m) # 0 => k <= Len(m)
    PROVE  /\ SubSeq(m, k, Len(m)) \in Seq(Nat) /\ Climbs(SubSeq(m, k, Len(m))) /\ EndsWith(SubSeq(m, k, Len(m)), e)
           /\ \A q \in Nat : IsShown(m, q) /\ e - Len(m) + k <= q => IsShown(SubSeq(m, k, Len(m)), q)
<1> DEFINE n == Len(m)
           r == SubSeq(m, k, n)
           c == n - k + 1
<1>1. n \in Nat /\ c \in Nat /\ (m = <<>> <=> n = 0) /\ \A i \in 1..n : m[i] \in Nat
  OBVIOUS
<1>2. r \in Seq(Nat) /\ Len(r) = c /\ (r = <<>> <=> c = 0)
  <2>1. r \in Seq(Nat)
    OBVIOUS
  <2>2. Len(r) = c
    OBVIOUS
  <2> HIDE DEF r, c
  <2> QED BY <2>1, <2>2
<1>3. \A i \in 1..c : r[i] = m[k + i - 1]
  OBVIOUS
<1>4. \A i \in 1..(n - 1) : m[i] < m[i + 1]
  BY DEF Climbs
<1>5. n # 0 => m[n] = e
  BY <1>1 DEF EndsWith
<1>6. \A i, j \in 1..n : i <= j => j - i <= m[j] - m[i]
  BY <1>4, StepsUp
<1>7. k + c = n + 1 /\ (n # 0 => c # 0) /\ (n = 0 => c = 0)
  BY <1>1
<1> HIDE DEF n, r, c
<1>8. Climbs(r)
  <2> SUFFICES ASSUME NEW i \in 1..(c - 1) PROVE r[i] < r[i + 1]
    BY <1>2 DEF Climbs
  <2>1. i \in 1..c /\ i + 1 \in 1..c /\ k + (i + 1) - 1 = (k + i - 1) + 1 /\ k + i - 1 \in 1..(n - 1)
    BY <1>1, <1>7
  <2>2. r[i] = m[k + i - 1] /\ r[i + 1] = m[(k + i - 1) + 1]
    <3>1. r[i + 1] = m[k + (i + 1) - 1]
      BY <2>1, <1>3
    <3> QED BY <3>1, <2>1, <1>3
  <2> QED BY <2>1, <2>2, <1>4
<1>9. EndsWith(r, e)
  <2>1. CASE n = 0
    BY <2>1, <1>1, <1>2, <1>7 DEF EndsWith
  <2>2. CASE n # 0
    <3>1. c \in 1..c /\ k + c - 1 = n
      BY <2>2, <1>1, <1>7
    <3>2. r[c] = m[n]
      BY <3>1, <1>3
    <3> QED BY <3>2, <2>2, <1>2, <1>5, <1>7 DEF EndsWith
  <2> QED BY <2>1, <2>2
<1>10. ASSUME NEW q \in Nat, IsShown(m, q), e - n + k <= q
       PROVE  IsShown(r, q)
  <2>1. PICK i \in 1..n : m[i] = q
    BY <1>10 DEF IsShown, n
  <2>2. n \in 1..n /\ i <= n /\ i \in Nat
    BY <1>1
  <2>3. n - i <= e - q
    <3>1. n - i <= m[n] - m[i]
      BY <2>2, <1>6
    <3> QED BY <3>1, <2>1, <2>2, <1>5
  <2>4. k <= i
    BY <2>2, <2>3, <1>1, <1>10
  <2>5. i - k + 1 \in 1..c /\ k + (i - k + 1) - 1 = i
    BY <2>2, <2>4, <1>1, <1>7
  <2>6. r[i - k + 1] = q
    <3>1. r[i - k + 1] = m[k + (i - k + 1) - 1]
      BY <2>5, <1>3
    <3> QED BY <3>1, <2>1, <2>5
  <2> QED BY <2>5, <2>6, <1>2 DEF IsShown
<1> QED BY <1>2, <1>8, <1>9, <1>10 DEF n, r

\* What goes up from the last is put after it.
LEMMA PutAfter ==
    ASSUME NEW s \in Seq(Nat), Climbs(s), NEW t \in Seq(Nat), Climbs(t), NEW l \in Nat, EndsWith(s, l),
           \A i \in 1..Len(t) : l < t[i], NEW e, e = IF t = <<>> THEN l ELSE t[Len(t)]
    PROVE  /\ s \o t \in Seq(Nat) /\ Climbs(s \o t) /\ e \in Nat /\ l <= e /\ EndsWith(s \o t, e)
           /\ \A q : IsShown(s, q) \/ IsShown(t, q) => IsShown(s \o t, q)
<1> DEFINE a == Len(s)
           b == Len(t)
           m == s \o t
<1>0. /\ a \in Nat /\ b \in Nat /\ (s = <<>> <=> a = 0) /\ (t = <<>> <=> b = 0)
      /\ \A i \in 1..a : s[i] \in Nat
      /\ \A i \in 1..b : t[i] \in Nat
  OBVIOUS
<1>1. m \in Seq(Nat) /\ Len(m) = a + b
  OBVIOUS
<1>2. \A i \in 1..(a + b) : m[i] = IF i <= a THEN s[i] ELSE t[i - a]
  OBVIOUS
<1>3. (\A i \in 1..a : m[i] = s[i]) /\ \A i \in 1..b : m[a + i] = t[i]
  <2> HIDE DEF m, a, b
  <2>1. ASSUME NEW i \in 1..a
        PROVE  m[i] = s[i]
    <3>1. i \in 1..(a + b) /\ i <= a
      BY <1>0
    <3> QED BY <3>1, <1>2
  <2>2. ASSUME NEW i \in 1..b
        PROVE  m[a + i] = t[i]
    <3>1. a + i \in 1..(a + b) /\ ~(a + i <= a) /\ (a + i) - a = i
      BY <1>0
    <3> QED BY <3>1, <1>2
  <2> QED BY <2>1, <2>2
<1>4. m = <<>> <=> a + b = 0
  BY <1>0, <1>1
<1>5. (a # 0 => s[a] = l) /\ (a = 0 => l = 0) /\ (b = 0 => e = l) /\ (b # 0 => e = t[b])
  BY <1>0 DEF EndsWith
<1>6. (\A i \in 1..(a - 1) : s[i] < s[i + 1]) /\ (\A i \in 1..(b - 1) : t[i] < t[i + 1]) /\ \A i \in 1..b : l < t[i]
  BY DEF Climbs
<1>11. b = 0 => m = s
  BY <1>0
<1> HIDE DEF m, a, b
<1>7. Climbs(m)
  <2> SUFFICES ASSUME NEW i \in 1..(Len(m) - 1) PROVE m[i] < m[i + 1]
    BY DEF Climbs
  <2>0. i \in 1..(a + b - 1)
    BY <1>0, <1>1
  <2>1. CASE i < a
    <3>1. i \in 1..(a - 1) /\ i \in 1..a /\ i + 1 \in 1..a
      BY <2>0, <2>1, <1>0
    <3> QED BY <3>1, <1>3, <1>6
  <2>2. CASE i = a
    <3>1. a \in 1..a /\ 1 \in 1..b
      BY <2>0, <2>2, <1>0
    <3> QED BY <3>1, <2>2, <1>3, <1>5, <1>6
  <2>3. CASE i > a
    <3>1. i - a \in 1..(b - 1) /\ i - a \in 1..b /\ (i - a) + 1 \in 1..b /\ a + (i - a) = i /\ a + ((i - a) + 1) = i + 1
      BY <2>0, <2>3, <1>0
    <3>2. m[a + (i - a)] = t[i - a] /\ m[a + ((i - a) + 1)] = t[(i - a) + 1]
      BY <3>1, <1>3
    <3> QED BY <3>1, <3>2, <1>6
  <2> QED BY <2>1, <2>2, <2>3, <1>0
<1>8. e \in Nat /\ l <= e /\ EndsWith(m, e)
  <2>1. CASE b = 0
    <3>1. m = s /\ e = l
      BY <2>1, <1>5, <1>11
    <3> QED BY <3>1
  <2>2. CASE b # 0
    <3>1. b \in 1..b /\ a + b # 0
      BY <2>2, <1>0
    <3>2. m[a + b] = t[b] /\ t[b] \in Nat /\ l < t[b]
      BY <3>1, <1>0, <1>3, <1>6
    <3> QED BY <3>1, <3>2, <2>2, <1>1, <1>4, <1>5 DEF EndsWith
  <2> QED BY <2>1, <2>2
<1>9. ASSUME NEW q, IsShown(s, q)
      PROVE  IsShown(m, q)
  <2>1. PICK i \in 1..a : s[i] = q
    BY <1>9 DEF IsShown, a
  <2>2. i \in 1..(a + b)
    BY <1>0
  <2> QED BY <2>1, <2>2, <1>1, <1>3 DEF IsShown
<1>10. ASSUME NEW q, IsShown(t, q)
       PROVE  IsShown(m, q)
  <2>1. PICK i \in 1..b : t[i] = q
    BY <1>10 DEF IsShown, b
  <2>2. a + i \in 1..(a + b)
    BY <1>0
  <2> QED BY <2>1, <2>2, <1>1, <1>3 DEF IsShown
<1> QED BY <1>1, <1>7, <1>8, <1>9, <1>10 DEF m

LastOf(t, l) == IF t = <<>> THEN l ELSE t[Len(t)]
KeptOf(m) == SubSeq(m, Max({1, Len(m) - MaxRecent + 1}), Len(m))

\* What follows the last is joined to what is shown; the last of both are
\* kept, and with them every number near the end.
LEMMA Joined ==
    ASSUME NEW s \in Seq(Nat), Climbs(s), NEW t \in Seq(Nat), Climbs(t), NEW l \in Nat, EndsWith(s, l),
           \A i \in 1..Len(t) : l < t[i]
    PROVE  /\ KeptOf(s \o t) \in Seq(Nat) /\ Climbs(KeptOf(s \o t))
           /\ LastOf(t, l) \in Nat /\ l <= LastOf(t, l) /\ EndsWith(KeptOf(s \o t), LastOf(t, l))
           /\ \A q \in Nat : (IsShown(s, q) \/ IsShown(t, q)) /\ LastOf(t, l) - MaxRecent < q => IsShown(KeptOf(s \o t), q)
<1> DEFINE m == s \o t
           n == Len(m)
           k == Max({1, n - MaxRecent + 1})
           e == LastOf(t, l)
           r == KeptOf(m)
<1>1. /\ m \in Seq(Nat) /\ Climbs(m) /\ e \in Nat /\ l <= e /\ EndsWith(m, e)
      /\ \A q : IsShown(s, q) \/ IsShown(t, q) => IsShown(m, q)
  <2>1. e = IF t = <<>> THEN l ELSE t[Len(t)]
    BY DEF LastOf
  <2> HIDE DEF e
  <2> QED BY <2>1, PutAfter
<1> HIDE DEF e
<1>2. r = SubSeq(m, k, n)
  BY DEF KeptOf
<1> HIDE DEF m
<1>3. n \in Nat
  BY <1>1
<1> HIDE DEF n
<1>4. MaxRecent \in Nat /\ MaxRecent # 0 /\ n - MaxRecent + 1 \in Int
  BY <1>3, SniffNumbers
<1>5. k = IF n - MaxRecent + 1 < 1 THEN 1 ELSE n - MaxRecent + 1
  BY <1>4, MaxOfTwo
<1> HIDE DEF k
<1>6. k \in Nat /\ 1 <= k /\ k <= n + 1 /\ (n # 0 => k <= n)
  BY <1>3, <1>4, <1>5
<1>8. \A q \in Nat : e - MaxRecent < q /\ k # 1 => e - n + k <= q
  BY <1>1, <1>3, <1>4, <1>5
<1>7. /\ SubSeq(m, k, n) \in Seq(Nat) /\ Climbs(SubSeq(m, k, n)) /\ EndsWith(SubSeq(m, k, n), e)
      /\ \A q \in Nat : IsShown(m, q) /\ e - n + k <= q => IsShown(SubSeq(m, k, n), q)
  BY <1>1, <1>6, CutShort DEF n
<1>9. k = 1 => SubSeq(m, k, n) = m
  BY <1>1 DEF n
<1>10. ASSUME NEW q \in Nat, IsShown(s, q) \/ IsShown(t, q), e - MaxRecent < q
       PROVE  IsShown(SubSeq(m, k, n), q)
  <2>1. IsShown(m, q)
    BY <1>1, <1>10
  <2> QED BY <2>1, <1>7, <1>8, <1>9, <1>10
<1>11. /\ r \in Seq(Nat) /\ Climbs(r) /\ e \in Nat /\ l <= e /\ EndsWith(r, e)
       /\ \A q \in Nat : (IsShown(s, q) \/ IsShown(t, q)) /\ e - MaxRecent < q => IsShown(r, q)
  <2> HIDE DEF r
  <2> QED BY <1>1, <1>2, <1>7, <1>10
<1> QED BY <1>11 DEF r, e, m

LEMMA RecordCountType ==
    ASSUME SniffTyped
    PROVE  RecordCount \in Nat
BY DEF SniffTyped, RecordCount

LEMMA RecordCountTypeNext ==
    ASSUME SniffTyped'
    PROVE  RecordCount' \in Nat
BY DEF SniffTyped, RecordCount

\* A step that leaves the page's records and the answers alone, and the
\* capture it follows no shorter.
LEMMA Grows ==
    ASSUME SniffInv, SniffTyped', view'.lastSeq = view.lastSeq, view'.shown = view.shown,
           ~mixed' => /\ ~mixed /\ RecordCount <= RecordCount'
                      /\ taken' # <<>> => kept' = Len(taken'),
           \A s \in 1..MaxSlots :
              polls'[s] = polls[s] \/ (polls'[s].since <= view.lastSeq /\ polls'[s].answered = FALSE)
    PROVE  SniffInv'
<1>0. SniffTyped /\ Climbs(view.shown) /\ EndsWith(view.shown, view.lastSeq) /\ (~mixed => PageBehind)
  BY DEF SniffInv
<1>1. Climbs(view'.shown) /\ EndsWith(view'.shown, view'.lastSeq)
  BY <1>0
<1>2. ASSUME ~mixed'
      PROVE  PageBehind'
  <2>1. PageBehind /\ RecordCount <= RecordCount' /\ (taken' # <<>> => kept' = Len(taken'))
    BY <1>0, <1>2
  <2>2. RecordCount \in Nat /\ RecordCount' \in Nat /\ MaxRecent \in Nat /\ view.lastSeq \in Nat
    <3>1. view.lastSeq \in Nat
      BY <1>0 DEF SniffTyped, PageRow
    <3>2. RecordCount \in Nat
      BY <1>0, RecordCountType
    <3>3. RecordCount' \in Nat
      BY RecordCountTypeNext
    <3> QED BY <3>1, <3>2, <3>3, SniffNumbers
  <2>3. view'.lastSeq <= RecordCount'
    BY <2>1, <2>2 DEF PageBehind
  <2>4. \A q \in Nat : 1 <= q /\ RecordCount' - MaxRecent < q /\ q <= view'.lastSeq => IsShown(view'.shown, q)
    <3> SUFFICES ASSUME NEW q \in Nat, 1 <= q, RecordCount' - MaxRecent < q, q <= view.lastSeq
                 PROVE  IsShown(view.shown, q)
      OBVIOUS
    <3>1. RecordCount - MaxRecent < q
      <4> DEFINE c == RecordCount
                 d == RecordCount'
      <4>1. c <= d /\ c \in Nat /\ d \in Nat /\ MaxRecent \in Nat /\ d - MaxRecent < q
        BY <2>1, <2>2
      <4> HIDE DEF c, d
      <4>2. c - MaxRecent < q
        BY <4>1
      <4> QED BY <4>2 DEF c
    <3> QED BY <3>1, <2>1 DEF PageBehind
  <2>5. ASSUME NEW s \in 1..MaxSlots
        PROVE  /\ polls'[s].since <= view'.lastSeq
               /\ polls'[s].answered =>
                     \E t \in Nat : t <= RecordCount' /\ polls'[s].records = {q \in RecordsTo(t) : q > polls'[s].since}
    <3>1. CASE polls'[s] = polls[s]
      <4>1. polls'[s].since <= view'.lastSeq
        BY <3>1, <2>1 DEF PageBehind
      <4>2. ASSUME polls'[s].answered
            PROVE  \E t \in Nat : t <= RecordCount' /\ polls'[s].records = {q \in RecordsTo(t) : q > polls'[s].since}
        <5>1. PICK t \in Nat : t <= RecordCount /\ polls[s].records = {q \in RecordsTo(t) : q > polls[s].since}
          BY <3>1, <4>2, <2>1 DEF PageBehind
        <5>2. t <= RecordCount'
          BY <5>1, <2>1, <2>2
        <5> QED BY <5>1, <5>2, <3>1
      <4> QED BY <4>1, <4>2
    <3>2. CASE polls'[s].since <= view.lastSeq /\ polls'[s].answered = FALSE
      BY <3>2
    <3> QED BY <3>1, <3>2
  <2>6. taken' # <<>> => kept' = Len(taken')
    BY <2>1
  <2> QED BY <2>3, <2>4, <2>5, <2>6 DEF PageBehind, RecordsTo
<1> QED BY <1>1, <1>2 DEF SniffInv

LEMMA SniffInvInit ==
    ASSUME SniffInit
    PROVE  SniffInv
<1>1. /\ taken = <<>> /\ live = FALSE /\ kept = 0 /\ mixed = FALSE /\ upsets = 0
      /\ view = NewPage /\ polls = [s \in 1..MaxSlots |-> NoPoll]
  BY DEF SniffInit
<1>2. NewPage \in PageRow /\ NewPage.lastSeq = 0 /\ NewPage.shown = <<>>
  BY DEF NewPage, PageRow
<1>3. NoPoll \in PollRow /\ NoPoll.since = -1 /\ NoPoll.answered = FALSE /\ NoPoll.records = {}
  BY DEF NoPoll, PollRow
<1>4. SniffTyped
  <2>1. \A s \in 1..MaxSlots : IsFiniteSet(polls[s].records)
    BY <1>1, <1>3, FS_EmptySet
  <2>2. taken \in Seq(Nat) /\ kept \in Nat /\ kept <= Len(taken) /\ upsets \in Nat
    BY <1>1
  <2>3. live \in BOOLEAN /\ mixed \in BOOLEAN /\ ~live
    BY <1>1
  <2>4. view \in PageRow /\ polls \in [1..MaxSlots -> PollRow]
    BY <1>1, <1>2, <1>3
  <2> QED BY <2>1, <2>2, <2>3, <2>4 DEF SniffTyped
<1>5. Climbs(<<>>) /\ EndsWith(<<>>, 0)
  BY DEF Climbs, EndsWith
<1>6. PageBehind
  <2>1. \A s \in 1..MaxSlots : polls[s].since <= 0 /\ ~polls[s].answered
    BY <1>1, <1>3
  <2> QED BY <2>1, <1>1, <1>2 DEF PageBehind, RecordCount
<1> QED BY <1>1, <1>2, <1>4, <1>5, <1>6 DEF SniffInv

LEMMA RecordedStep ==
    ASSUME SniffTyped, Recorded
    PROVE  /\ taken' \in Seq(Nat) /\ live' = live /\ kept' = kept /\ mixed' = mixed
           /\ kept = Len(taken) /\ kept # 0 /\ Len(taken') = Len(taken)
           /\ RecordCount <= RecordCount' /\ (taken' # <<>> => kept' = Len(taken'))
<1>1. live /\ taken' = [taken EXCEPT ![kept] = @ + 1] /\ live' = live /\ kept' = kept /\ mixed' = mixed
  BY DEF Recorded
<1>2. kept = Len(taken) /\ kept # 0 /\ kept \in 1..Len(taken) /\ taken \in Seq(Nat)
  BY <1>1 DEF SniffTyped
<1>3. taken' \in Seq(Nat) /\ Len(taken') = Len(taken) /\ taken'[kept] = taken[kept] + 1 /\ taken[kept] \in Nat
  BY <1>1, <1>2
<1> QED BY <1>1, <1>2, <1>3 DEF RecordCount

LEMMA BegunStep ==
    ASSUME SniffTyped, ~mixed => PageBehind, Begun
    PROVE  /\ taken' \in Seq(Nat) /\ live' = TRUE /\ kept' = Len(taken') /\ kept' # 0 /\ kept' \in Nat /\ mixed' \in BOOLEAN
           /\ ~mixed' => ~mixed /\ RecordCount <= RecordCount'
<1>1. taken' = Append(taken, 0) /\ live' = TRUE /\ kept' = Len(taken) + 1 /\ mixed' = (mixed \/ taken # <<>>)
  BY DEF Begun
<1>2. taken \in Seq(Nat) /\ mixed \in BOOLEAN /\ kept \in Nat /\ kept <= Len(taken) /\ Len(taken) \in Nat
  BY DEF SniffTyped
<1>3. taken' \in Seq(Nat) /\ Len(taken') = Len(taken) + 1 /\ taken'[Len(taken) + 1] = 0
  BY <1>1, <1>2
<1>4. ASSUME ~mixed'
      PROVE  ~mixed /\ RecordCount <= RecordCount'
  <2>1. ~mixed /\ taken = <<>> /\ kept = 0
    <3>1. ~mixed /\ taken = <<>>
      BY <1>1, <1>4
    <3>2. Len(taken) = 0
      BY <3>1
    <3> QED BY <3>1, <3>2, <1>2
  <2>2. RecordCount = 0 /\ RecordCount' = 0
    BY <2>1, <1>1, <1>2, <1>3 DEF RecordCount
  <2> QED BY <2>1, <2>2
<1> QED BY <1>1, <1>2, <1>3, <1>4

LEMMA EndedStep ==
    ASSUME SniffTyped, Ended
    PROVE  /\ taken' = taken /\ live' = FALSE /\ kept' = kept /\ mixed' = mixed /\ RecordCount' = RecordCount
BY DEF Ended, RecordCount

LEMMA UpsetCounts == ASSUME SniffTyped, Upset PROVE upsets' \in Nat
BY DEF SniffTyped, Upset

LEMMA ElsewhereStep ==
    ASSUME SniffInv, Elsewhere
    PROVE  SniffInv'
<1>0. SniffTyped /\ (~mixed => PageBehind)
  BY DEF SniffInv
<1>1. (Recorded \/ Begun \/ (live /\ Ended)) /\ view' = view /\ polls' = polls /\ upsets' = upsets
  BY DEF Elsewhere
<1>2. /\ taken' \in Seq(Nat) /\ live' \in BOOLEAN /\ mixed' \in BOOLEAN /\ kept' \in Nat /\ kept' <= Len(taken')
      /\ live' => kept' = Len(taken') /\ kept' # 0
      /\ ~mixed' => ~mixed /\ RecordCount <= RecordCount' /\ (taken' # <<>> => kept' = Len(taken'))
  <2>1. CASE Recorded
    BY <2>1, <1>0, RecordedStep DEF SniffTyped
  <2>2. CASE Begun
    <3>1. /\ taken' \in Seq(Nat) /\ live' = TRUE /\ kept' = Len(taken') /\ kept' # 0 /\ kept' \in Nat /\ mixed' \in BOOLEAN
          /\ ~mixed' => ~mixed /\ RecordCount <= RecordCount'
      BY <2>2, <1>0, BegunStep
    <3> QED BY <3>1
  <2>3. CASE Ended
    <3>1. taken' = taken /\ live' = FALSE /\ kept' = kept /\ mixed' = mixed /\ RecordCount' = RecordCount
      BY <2>3, <1>0, EndedStep
    <3>2. RecordCount \in Nat
      BY <1>0, RecordCountType
    <3>3. ~live' /\ taken' \in Seq(Nat) /\ mixed' \in BOOLEAN /\ kept' \in Nat /\ kept' <= Len(taken') /\ live' \in BOOLEAN
      BY <3>1, <1>0 DEF SniffTyped
    <3>4. ~mixed' => ~mixed /\ RecordCount <= RecordCount' /\ (taken' # <<>> => kept' = Len(taken'))
      BY <3>1, <3>2, <1>0 DEF PageBehind
    <3> QED BY <3>3, <3>4
  <2> QED BY <2>1, <2>2, <2>3, <1>1
<1>3. SniffTyped'
  BY <1>0, <1>1, <1>2 DEF SniffTyped
<1> QED BY <1>1, <1>2, <1>3, Grows

LEMMA ServerStopsStep ==
    ASSUME SniffInv, ServerStops
    PROVE  SniffInv'
<1>0. SniffTyped
  BY DEF SniffInv
<1>1. /\ live' = FALSE /\ kept' = 0 /\ mixed' = TRUE /\ taken' = taken /\ Upset
      /\ polls' = [s \in 1..MaxSlots |-> IF polls[s].answered THEN polls[s] ELSE NoPoll]
      /\ view' = [view EXCEPT !.busy = IF @ \in {"start", "stop"} THEN "no" ELSE @]
  BY DEF ServerStops
<1>2. NoPoll \in PollRow /\ NoPoll.since = -1 /\ NoPoll.answered = FALSE /\ NoPoll.records = {}
  BY DEF NoPoll, PollRow
<1>3. view' \in PageRow /\ view'.lastSeq = view.lastSeq /\ view'.shown = view.shown
  BY <1>0, <1>1 DEF SniffTyped, PageRow
<1>4. polls' \in [1..MaxSlots -> PollRow] /\ \A s \in 1..MaxSlots : polls'[s] = polls[s] \/ polls'[s] = NoPoll
  BY <1>0, <1>1, <1>2 DEF SniffTyped
<1>5. \A s \in 1..MaxSlots : IsFiniteSet(polls'[s].records)
  BY <1>0, <1>2, <1>4, FS_EmptySet DEF SniffTyped
<1>6. upsets' \in Nat
  BY <1>0, <1>1, UpsetCounts
<1>7. SniffTyped'
  <2>1. ~live' /\ live' \in BOOLEAN /\ mixed' \in BOOLEAN
    BY <1>1
  <2>2. taken' \in Seq(Nat) /\ kept' \in Nat /\ kept' <= Len(taken')
    BY <1>0, <1>1 DEF SniffTyped
  <2> QED BY <2>1, <2>2, <1>3, <1>4, <1>5, <1>6 DEF SniffTyped
<1>8. \A s \in 1..MaxSlots : polls'[s] = polls[s] \/ (polls'[s].since <= view.lastSeq /\ polls'[s].answered = FALSE)
  <2>1. -1 <= view.lastSeq
    BY <1>0 DEF SniffTyped, PageRow
  <2> QED BY <2>1, <1>2, <1>4
<1> QED BY <1>1, <1>3, <1>7, <1>8, Grows

LEMMA SniffReloadStep ==
    ASSUME SniffInv, SniffReload
    PROVE  SniffInv'
<1>0. SniffTyped
  BY DEF SniffInv
<1>1. /\ Upset /\ view' = NewPage /\ polls' = [s \in 1..MaxSlots |-> NoPoll]
      /\ mixed' = (taken # <<>> /\ kept # Len(taken)) /\ taken' = taken /\ live' = live /\ kept' = kept
  BY DEF SniffReload
<1>2. NewPage \in PageRow /\ NewPage.lastSeq = 0 /\ NewPage.shown = <<>>
  BY DEF NewPage, PageRow
<1>3. NoPoll \in PollRow /\ NoPoll.since = -1 /\ NoPoll.answered = FALSE /\ NoPoll.records = {}
  BY DEF NoPoll, PollRow
<1>4. SniffTyped'
  <2>1. \A s \in 1..MaxSlots : IsFiniteSet(polls'[s].records)
    BY <1>1, <1>3, FS_EmptySet
  <2>2. upsets' \in Nat
    BY <1>0, <1>1, UpsetCounts
  <2> QED BY <1>0, <1>1, <1>2, <1>3, <2>1, <2>2 DEF SniffTyped
<1>5. Climbs(<<>>) /\ EndsWith(<<>>, 0)
  BY DEF Climbs, EndsWith
<1>6. ~mixed' => PageBehind'
  <2>1. \A s \in 1..MaxSlots : polls'[s].since <= 0 /\ ~polls'[s].answered
    BY <1>1, <1>3
  <2>2. 0 <= RecordCount'
    <3>1. RecordCount \in Nat /\ RecordCount' = RecordCount
      BY <1>0, <1>1, RecordCountType DEF RecordCount
    <3> QED BY <3>1
  <2>3. view'.lastSeq = 0 /\ \A q \in Nat : ~(1 <= q /\ q <= 0)
    BY <1>1, <1>2
  <2> QED BY <2>1, <2>2, <2>3, <1>1 DEF PageBehind
<1> QED BY <1>1, <1>2, <1>4, <1>5, <1>6 DEF SniffInv

\* The page's buttons and their calls.
LEMMA CallsStep ==
    ASSUME SniffInv, handleStart \/ handleStop \/ CallServed \/ CallAnswered \/ CallFails
    PROVE  SniffInv'
<1>0. SniffTyped /\ (~mixed => PageBehind)
  BY DEF SniffInv
<1>1. polls' = polls /\ view' \in PageRow /\ view'.lastSeq = view.lastSeq /\ view'.shown = view.shown
  BY <1>0 DEF handleStart, handleStop, CallServed, CallAnswered, CallFails, SniffTyped, PageRow
<1>2. upsets' \in Nat
  BY <1>0 DEF handleStart, handleStop, CallServed, CallAnswered, CallFails, SniffTyped, Upset
<1>3. (Begun \/ Ended) \/ captured' = captured
  BY DEF handleStart, handleStop, CallServed, CallAnswered, CallFails
<1>4. /\ taken' \in Seq(Nat) /\ live' \in BOOLEAN /\ mixed' \in BOOLEAN /\ kept' \in Nat /\ kept' <= Len(taken')
      /\ live' => kept' = Len(taken') /\ kept' # 0
      /\ ~mixed' => ~mixed /\ RecordCount <= RecordCount' /\ (taken' # <<>> => kept' = Len(taken'))
  <2>1. CASE captured' = captured
    <3>1. RecordCount' = RecordCount /\ RecordCount \in Nat
      BY <2>1, <1>0, RecordCountType DEF RecordCount, captured
    <3> QED BY <3>1, <2>1, <1>0 DEF captured, SniffTyped, PageBehind
  <2>2. CASE Begun
    <3>1. /\ taken' \in Seq(Nat) /\ live' = TRUE /\ kept' = Len(taken') /\ kept' # 0 /\ kept' \in Nat /\ mixed' \in BOOLEAN
          /\ ~mixed' => ~mixed /\ RecordCount <= RecordCount'
      BY <2>2, <1>0, BegunStep
    <3> QED BY <3>1
  <2>3. CASE Ended
    <3>1. taken' = taken /\ live' = FALSE /\ kept' = kept /\ mixed' = mixed /\ RecordCount' = RecordCount
      BY <2>3, <1>0, EndedStep
    <3>2. RecordCount \in Nat
      BY <1>0, RecordCountType
    <3>3. ~live' /\ taken' \in Seq(Nat) /\ mixed' \in BOOLEAN /\ kept' \in Nat /\ kept' <= Len(taken') /\ live' \in BOOLEAN
      BY <3>1, <1>0 DEF SniffTyped
    <3>4. ~mixed' => ~mixed /\ RecordCount <= RecordCount' /\ (taken' # <<>> => kept' = Len(taken'))
      BY <3>1, <3>2, <1>0 DEF PageBehind
    <3> QED BY <3>3, <3>4
  <2> QED BY <2>1, <2>2, <2>3, <1>3
<1>5. SniffTyped'
  BY <1>0, <1>1, <1>2, <1>4 DEF SniffTyped
<1> QED BY <1>1, <1>4, <1>5, Grows

LEMMA PollStep ==
    ASSUME SniffInv, NEW s \in 1..MaxSlots, Poll(s) \/ PollFails(s)
    PROVE  SniffInv'
<1>0. SniffTyped
  BY DEF SniffInv
<1>1. captured' = captured /\ view' = view
  BY DEF Poll, PollFails
<1>2. upsets' \in Nat
  BY <1>0 DEF Poll, PollFails, SniffTyped, Upset
<1>3. NoPoll \in PollRow /\ NoPoll.since = -1 /\ NoPoll.answered = FALSE /\ NoPoll.records = {}
  BY DEF NoPoll, PollRow
<1> DEFINE p == [NoPoll EXCEPT !.since = view.lastSeq]
<1>4. p \in PollRow /\ p.since = view.lastSeq /\ p.answered = FALSE /\ p.records = {} /\ view.lastSeq \in Nat
  BY <1>0 DEF SniffTyped, PageRow, NoPoll, PollRow
<1>5. polls' = [polls EXCEPT ![s] = NoPoll] \/ polls' = [polls EXCEPT ![s] = p]
  <2>1. CASE Poll(s)
    <3>1. polls[s] = NoPoll /\ polls' = [polls EXCEPT ![s].since = view.lastSeq]
      BY <2>1 DEF Poll
    <3> QED BY <3>1
  <2>2. CASE PollFails(s)
    BY <2>2 DEF PollFails
  <2> QED BY <2>1, <2>2
<1> HIDE DEF p
<1>6. /\ polls' \in [1..MaxSlots -> PollRow]
      /\ \A o \in 1..MaxSlots : polls'[o] = polls[o] \/ polls'[o] = NoPoll \/ polls'[o] = p
  BY <1>0, <1>3, <1>4, <1>5 DEF SniffTyped
<1>7. \A o \in 1..MaxSlots : IsFiniteSet(polls'[o].records)
  BY <1>0, <1>3, <1>4, <1>6, FS_EmptySet DEF SniffTyped
<1>8. SniffTyped'
  BY <1>0, <1>1, <1>2, <1>6, <1>7 DEF SniffTyped, captured
<1>9. \A o \in 1..MaxSlots : polls'[o] = polls[o] \/ (polls'[o].since <= view.lastSeq /\ polls'[o].answered = FALSE)
  BY <1>3, <1>4, <1>6
<1>10. ~mixed' => ~mixed /\ RecordCount <= RecordCount' /\ (taken' # <<>> => kept' = Len(taken'))
  <2>1. RecordCount' = RecordCount /\ RecordCount \in Nat
    BY <1>0, <1>1, RecordCountType DEF RecordCount, captured
  <2> QED BY <2>1, <1>1 DEF captured, SniffInv, PageBehind
<1> QED BY <1>1, <1>8, <1>9, <1>10, Grows

\* The answer holds what is kept past the last asked for.
LEMMA PollServedStep ==
    ASSUME SniffInv, NEW s \in 1..MaxSlots, PollServed(s)
    PROVE  SniffInv'
<1>0. SniffTyped /\ (~mixed => PageBehind) /\ Climbs(view.shown) /\ EndsWith(view.shown, view.lastSeq)
  BY DEF SniffInv
<1> DEFINE R == {q \in Recent : q > polls[s].since}
           p == [since |-> polls[s].since, answered |-> TRUE, running |-> live, records |-> R]
<1>1. captured' = captured /\ view' = view /\ upsets' = upsets /\ polls' = [polls EXCEPT ![s] = p]
  BY DEF PollServed
<1>2. RecordCount \in Nat /\ MaxRecent \in Nat /\ MaxRecent # 0
  BY <1>0, RecordCountType, SniffNumbers
<1>3. Recent = RecordsTo(RecordCount)
  <2>1. CASE kept = 0
    <3>1. RecordCount = 0 /\ Recent = {}
      BY <2>1 DEF RecordCount, Recent
    <3>2. \A q \in Nat : ~(1 <= q /\ q <= 0)
      OBVIOUS
    <3> QED BY <3>1, <3>2 DEF RecordsTo
  <2>2. CASE kept # 0
    <3> DEFINE c == RecordCount
    <3>1. c = taken[kept] /\ c \in Nat
      BY <2>2, <1>2 DEF RecordCount
    <3> HIDE DEF c
    <3>2. c - MaxRecent + 1 \in Int
      BY <3>1, <1>2
    <3>3. Recent = Max({1, c - MaxRecent + 1})..c
      BY <2>2, <3>1 DEF Recent
    <3>4. Recent = (IF c - MaxRecent + 1 < 1 THEN 1 ELSE c - MaxRecent + 1)..c
      BY <3>2, <3>3, MaxOfTwo
    <3>5. (IF c - MaxRecent + 1 < 1 THEN 1 ELSE c - MaxRecent + 1)..c = {q \in Nat : 1 <= q /\ c - MaxRecent < q /\ q <= c}
      BY <3>1, <1>2
    <3> QED BY <3>4, <3>5 DEF RecordsTo, c
  <2> QED BY <2>1, <2>2
<1>4. R = {q \in RecordsTo(RecordCount) : q > polls[s].since} /\ R \subseteq 0..RecordCount
  BY <1>2, <1>3 DEF RecordsTo
<1>5. IsFiniteSet(R) /\ R \subseteq Nat
  <2>1. IsFiniteSet(0..RecordCount)
    BY <1>2, FS_Interval
  <2> QED BY <2>1, <1>2, <1>4, FS_Subset
<1> HIDE DEF R
<1>6. p \in PollRow /\ p.since = polls[s].since /\ p.records = R
  BY <1>0, <1>5 DEF SniffTyped, PollRow
<1> HIDE DEF p
<1>7. /\ polls' \in [1..MaxSlots -> PollRow] /\ polls'[s] = p
      /\ \A o \in 1..MaxSlots : o # s => polls'[o] = polls[o]
  BY <1>0, <1>1, <1>6 DEF SniffTyped
<1>8. SniffTyped'
  <2>1. \A o \in 1..MaxSlots : IsFiniteSet(polls'[o].records)
    BY <1>0, <1>5, <1>6, <1>7 DEF SniffTyped
  <2> QED BY <2>1, <1>0, <1>1, <1>7 DEF SniffTyped, captured
<1>9. ~mixed' => PageBehind'
  <2> SUFFICES ASSUME ~mixed' PROVE PageBehind'
    OBVIOUS
  <2>1. PageBehind /\ RecordCount' = RecordCount
    BY <1>0, <1>1 DEF captured, RecordCount
  <2>2. \A o \in 1..MaxSlots : polls'[o].since <= view.lastSeq
    BY <2>1, <1>6, <1>7 DEF PageBehind
  <2>3. \A o \in 1..MaxSlots : polls'[o].answered =>
           \E t \in Nat : t <= RecordCount /\ polls'[o].records = {q \in RecordsTo(t) : q > polls'[o].since}
    <3> SUFFICES ASSUME NEW o \in 1..MaxSlots, polls'[o].answered
                 PROVE  \E t \in Nat : t <= RecordCount /\ polls'[o].records = {q \in RecordsTo(t) : q > polls'[o].since}
      OBVIOUS
    <3>1. CASE o = s
      BY <3>1, <1>2, <1>4, <1>6, <1>7
    <3>2. CASE o # s
      BY <3>2, <2>1, <1>7 DEF PageBehind
    <3> QED BY <3>1, <3>2
  <2> QED BY <2>1, <2>2, <2>3, <1>1 DEF PageBehind, captured, RecordsTo
<1> QED BY <1>0, <1>1, <1>8, <1>9 DEF SniffInv

\* What the page does not have yet of an answer is put after what it shows.
LEMMA PollAnsweredStep ==
    ASSUME SniffInv, NEW s \in 1..MaxSlots, PollAnswered(s)
    PROVE  SniffInv'
<1>0. SniffTyped /\ (~mixed => PageBehind) /\ Climbs(view.shown) /\ EndsWith(view.shown, view.lastSeq)
  BY DEF SniffInv
<1> DEFINE F == {q \in polls[s].records : q > view.lastSeq}
           fresh == Fresh(polls[s])
           last == IF fresh = <<>> THEN view.lastSeq ELSE fresh[Len(fresh)]
           merged == view.shown \o fresh
           shown == SubSeq(merged, Max({1, Len(merged) - MaxRecent + 1}), Len(merged))
<1>1. /\ captured' = captured /\ upsets' = upsets /\ polls[s].answered /\ polls' = [polls EXCEPT ![s] = NoPoll]
      /\ view' = [view EXCEPT !.running = polls[s].running, !.lastSeq = last, !.shown = shown]
  BY DEF PollAnswered, Last
<1>2. /\ view.shown \in Seq(Nat) /\ view.lastSeq \in Nat /\ polls[s].records \subseteq Nat /\ polls[s].running \in BOOLEAN
      /\ IsFiniteSet(polls[s].records)
  BY <1>0 DEF SniffTyped, PageRow, PollRow
<1>3. F \in SUBSET Nat /\ IsFiniteSet(F)
  <2>1. F \in SUBSET polls[s].records
    OBVIOUS
  <2> QED BY <2>1, <1>2, FS_Subset
<1>4. /\ fresh \in Seq(Nat) /\ Climbs(fresh) /\ (\A i \in 1..Len(fresh) : fresh[i] \in F)
      /\ (\A q \in F : IsShown(fresh, q)) /\ (fresh = <<>> <=> F = {})
  <2>1. fresh = Ascending(F)
    BY DEF Fresh
  <2> HIDE DEF fresh, F
  <2> QED BY <2>1, <1>3, Ascends
<1>5. \A i \in 1..Len(fresh) : view.lastSeq < fresh[i]
  <2>1. \A q \in F : view.lastSeq < q
    BY <1>2
  <2> HIDE DEF F, fresh
  <2> QED BY <2>1, <1>4
<1> HIDE DEF fresh
<1>6. /\ shown \in Seq(Nat) /\ Climbs(shown) /\ last \in Nat /\ view.lastSeq <= last /\ EndsWith(shown, last)
      /\ \A q \in Nat : (IsShown(view.shown, q) \/ IsShown(fresh, q)) /\ last - MaxRecent < q => IsShown(shown, q)
  <2>1. last = LastOf(fresh, view.lastSeq)
    BY DEF LastOf
  <2>2. shown = KeptOf(view.shown \o fresh)
    BY DEF KeptOf
  <2>3. /\ view.shown \in Seq(Nat) /\ Climbs(view.shown) /\ EndsWith(view.shown, view.lastSeq) /\ view.lastSeq \in Nat
        /\ fresh \in Seq(Nat) /\ Climbs(fresh)
    BY <1>0, <1>2, <1>4
  <2> HIDE DEF last, shown, merged, F
  <2> QED BY <2>1, <2>2, <2>3, <1>5, Joined
<1>11. fresh # <<>> => last \in F
  <2>1. fresh # <<>> => Len(fresh) \in 1..Len(fresh)
    BY <1>4
  <2> HIDE DEF F
  <2> QED BY <2>1, <1>4
<1>12. fresh = <<>> => last = view.lastSeq
  OBVIOUS
<1> HIDE DEF last, merged, shown
<1>7. view' \in PageRow /\ view'.lastSeq = last /\ view'.shown = shown
  BY <1>0, <1>1, <1>2, <1>6 DEF SniffTyped, PageRow
<1>8. NoPoll \in PollRow /\ NoPoll.since = -1 /\ NoPoll.answered = FALSE /\ NoPoll.records = {}
  BY DEF NoPoll, PollRow
<1>9. /\ polls' \in [1..MaxSlots -> PollRow]
      /\ \A o \in 1..MaxSlots : polls'[o] = polls[o] \/ polls'[o] = NoPoll
  BY <1>0, <1>1, <1>8 DEF SniffTyped
<1>10. SniffTyped'
  <2>1. \A o \in 1..MaxSlots : IsFiniteSet(polls'[o].records)
    BY <1>0, <1>8, <1>9, FS_EmptySet DEF SniffTyped
  <2> QED BY <2>1, <1>0, <1>1, <1>7, <1>9 DEF SniffTyped, captured
<1>13. ~mixed' => PageBehind'
  <2> SUFFICES ASSUME ~mixed' PROVE PageBehind'
    OBVIOUS
  <2>1. PageBehind /\ RecordCount' = RecordCount /\ taken' = taken /\ kept' = kept
    BY <1>0, <1>1 DEF captured, RecordCount
  <2>2. RecordCount \in Nat /\ MaxRecent \in Nat /\ MaxRecent # 0
    BY <1>0, RecordCountType, SniffNumbers
  <2>3. PICK t \in Nat : t <= RecordCount /\ polls[s].records = {q \in RecordsTo(t) : q > polls[s].since}
    BY <2>1, <1>1 DEF PageBehind
  <2>4. polls[s].since <= view.lastSeq /\ view.lastSeq <= RecordCount /\ polls[s].since \in Nat \union {-1}
    BY <2>1, <1>0 DEF PageBehind, SniffTyped, PollRow
  <2>5. \A q \in Nat : q \in F <=> 1 <= q /\ t - MaxRecent < q /\ q <= t /\ view.lastSeq < q
    BY <2>3, <2>4, <1>2 DEF RecordsTo
  <2> HIDE DEF F
  <2>6. fresh # <<>> => last = t
    <3> SUFFICES ASSUME fresh # <<>> PROVE last = t
      OBVIOUS
    <3>1. last \in F /\ last \in Nat
      BY <1>6, <1>11
    <3>2. t \in F
      BY <3>1, <2>2, <2>3, <2>5, <1>2
    <3>3. last <= t
      BY <3>1, <2>5
    <3>4. PICK i \in 1..Len(fresh) : fresh[i] = t
      BY <3>2, <1>4 DEF IsShown
    <3>5. Len(fresh) \in 1..Len(fresh) /\ fresh[Len(fresh)] \in Nat /\ i <= Len(fresh) /\ fresh[i] \in Nat
      BY <1>4
    <3>6. Len(fresh) - i <= fresh[Len(fresh)] - fresh[i]
      BY <3>5, <1>4, StepsUp DEF Climbs
    <3>7. last = fresh[Len(fresh)]
      BY DEF last
    <3>8. Len(fresh) - i \in Nat
      BY <3>5
    <3>9. t <= last
      BY <3>4, <3>5, <3>6, <3>7, <3>8
    <3> QED BY <3>1, <3>3, <3>9
  <2>7. view'.lastSeq <= RecordCount'
    BY <2>1, <2>3, <2>4, <2>6, <1>7, <1>12
  <2>8. \A q \in Nat : 1 <= q /\ RecordCount' - MaxRecent < q /\ q <= view'.lastSeq => IsShown(view'.shown, q)
    <3> DEFINE c == RecordCount
    <3> SUFFICES ASSUME NEW q \in Nat, 1 <= q, c - MaxRecent < q, q <= last PROVE IsShown(shown, q)
      BY <2>1, <1>7
    <3>0. c \in Nat /\ t <= c /\ last <= c /\ \A x \in Nat : 1 <= x /\ c - MaxRecent < x /\ x <= view.lastSeq => IsShown(view.shown, x)
      BY <2>1, <2>2, <2>3, <2>7, <1>7 DEF PageBehind
    <3> HIDE DEF c
    <3>1. last - MaxRecent < q
      BY <3>0, <2>2, <1>6
    <3>2. CASE q <= view.lastSeq
      BY <3>0, <3>1, <3>2, <1>6
    <3>3. CASE ~(q <= view.lastSeq)
      <4>1. fresh # <<>>
        BY <3>3, <1>12
      <4>2. q \in F
        BY <4>1, <3>0, <3>3, <2>2, <2>5, <2>6, <1>2
      <4> QED BY <4>2, <3>1, <1>4, <1>6
    <3> QED BY <3>2, <3>3
  <2>9. \A o \in 1..MaxSlots :
           /\ polls'[o].since <= view'.lastSeq
           /\ polls'[o].answered =>
                 \E u \in Nat : u <= RecordCount' /\ polls'[o].records = {q \in RecordsTo(u) : q > polls'[o].since}
    <3> SUFFICES ASSUME NEW o \in 1..MaxSlots
                 PROVE  /\ polls'[o].since <= last
                        /\ polls'[o].answered =>
                              \E u \in Nat : u <= RecordCount /\ polls'[o].records = {q \in RecordsTo(u) : q > polls'[o].since}
      BY <2>1, <1>7
    <3>1. CASE polls'[o] = NoPoll
      BY <3>1, <1>6, <1>8
    <3>2. CASE polls'[o] = polls[o]
      <4>1. polls[o].since <= view.lastSeq /\ polls[o].since \in Nat \union {-1}
        BY <2>1, <1>0 DEF PageBehind, SniffTyped, PollRow
      <4>2. polls[o].since <= last
        BY <4>1, <1>2, <1>6
      <4>3. polls[o].answered =>
              \E u \in Nat : u <= RecordCount /\ polls[o].records = {q \in RecordsTo(u) : q > polls[o].since}
        BY <2>1 DEF PageBehind
      <4> QED BY <3>2, <4>2, <4>3
    <3> QED BY <3>1, <3>2, <1>9
  <2> QED BY <2>1, <2>7, <2>8, <2>9 DEF PageBehind, RecordsTo
<1> QED BY <1>6, <1>7, <1>10, <1>13 DEF SniffInv

LEMMA SniffInvStep == ASSUME SniffInv, SniffNext PROVE SniffInv'
BY ElsewhereStep, ServerStopsStep, SniffReloadStep, CallsStep, PollStep, PollServedStep, PollAnsweredStep
   DEF SniffNext

\* What is checked of the page follows.
LEMMA SniffKeeps ==
    ASSUME SniffInv
    PROVE  SniffTypeOK /\ ShownInTurn
<1>0. SniffTyped /\ (~mixed => PageBehind) /\ Climbs(view.shown)
  BY DEF SniffInv
<1>1. SniffTypeOK
  <2>1. kept \in 0..Len(taken) /\ (live => kept = Len(taken))
    BY <1>0 DEF SniffTyped
  <2>2. view.busy \in {"no", "start", "stop", "runs", "stopped"} /\ view.lastSeq \in Nat
    BY <1>0 DEF SniffTyped, PageRow
  <2>3. \A s \in 1..MaxSlots : polls[s].since \in Nat \union {-1}
    BY <1>0 DEF SniffTyped, PollRow
  <2> QED BY <2>1, <2>2, <2>3 DEF SniffTypeOK
<1>2. ASSUME ~mixed, NEW q \in Recent, q <= view.lastSeq
      PROVE  q \in ToSet(view.shown)
  <2>1. kept # 0 /\ RecordCount \in Nat /\ MaxRecent \in Nat
    BY <1>0, RecordCountType, SniffNumbers, <1>2 DEF Recent
  <2> DEFINE c == RecordCount
  <2>2. c = taken[kept] /\ c \in Nat
    BY <2>1 DEF RecordCount
  <2>3. q \in Max({1, c - MaxRecent + 1})..c
    BY <2>1, <2>2 DEF Recent
  <2>6. \A x \in Nat : 1 <= x /\ c - MaxRecent < x /\ x <= view.lastSeq => IsShown(view.shown, x)
    BY <1>0, <1>2 DEF PageBehind
  <2> HIDE DEF c
  <2>4. c - MaxRecent + 1 \in Int
    BY <2>1, <2>2
  <2>5. q \in Nat /\ 1 <= q /\ c - MaxRecent < q
    BY <2>1, <2>2, <2>3, <2>4, MaxOfTwo
  <2>7. IsShown(view.shown, q)
    BY <2>5, <2>6, <1>2
  <2>8. DOMAIN view.shown = 1..Len(view.shown)
    BY <1>0 DEF SniffTyped, PageRow
  <2> QED BY <2>7, <2>8 DEF IsShown, ToSet
<1> QED BY <1>0, <1>1, <1>2 DEF ShownInTurn, Climbs

------------------------------------------------------------------------------
(* Stored readings taken out (StoredReadings).                               *)

ExportRows == {id \in 1..Len(table) : From <= table[id] /\ table[id] < To}
OneOf(s, x) == \E i \in 1..Len(s) : s[i] = x
TakenRow == [state : {"no", "reading", "more", "done"}, ids : Seq(Nat), present : SUBSET Nat]

\* No row that was present is missed by what is taken and what is still to come.
StillToCome(id) ==
    \/ OneOf(exported.ids, id)
    \/ exported.state = "reading" /\ (exported.ids = <<>> \/ Past(id, exported.ids[Len(exported.ids)]))
PagedPast(id) ==
       \/ OneOf(browsed.ids, id)
       \/ browsed.state = "more" /\ table[id] < table[browsed.ids[Len(browsed.ids)]]
       \/ series = "inverter" /\ \E i \in 1..Len(browsed.ids) : table[browsed.ids[i]] = table[id]

ReadingsTyped ==
    /\ series \in {"inverter", "bms"} /\ table \in Seq(Nat) /\ clock \in Nat /\ gone \in BOOLEAN
    /\ exported \in TakenRow /\ browsed \in TakenRow
    /\ exported.state # "more" /\ browsed.state # "reading"
    /\ \A i \in 1..Len(exported.ids) : exported.ids[i] \in ExportRows
    /\ \A i \in 1..Len(browsed.ids) : browsed.ids[i] \in ExportRows
    /\ exported.present \subseteq ExportRows /\ browsed.present \subseteq ExportRows
    /\ browsed.state = "more" => browsed.ids # <<>>
    /\ exported.state = "no" => exported = NotAsked
    /\ browsed.state = "no" => browsed = NotAsked

ReadingsInv ==
    /\ ReadingsTyped
    /\ series = "bms" => \A i, j \in 1..Len(table) : table[i] = table[j] => i = j
    /\ \A i \in 1..(Len(exported.ids) - 1) : Before(exported.ids[i], exported.ids[i + 1])
    /\ \A i \in 1..(Len(browsed.ids) - 1) : Before(browsed.ids[i + 1], browsed.ids[i])
    /\ ~gone => \A id \in exported.present : StillToCome(id)
    /\ \A id \in browsed.present : PagedPast(id)

-----------------------------------------------------------------------------
LEMMA ReadingsNumbers ==
    From \in Nat /\ To \in Nat /\ MaxRows \in Nat /\ MaxSetBacks \in Nat /\ Batch \in Nat /\ Batch # 0
BY ReadingsAssumption

\* The first n of a finite set in a strict order: they stand in it, and when
\* there are fewer than n of them they are all there are.
LEMMA Firsts ==
    ASSUME NEW S, IsFiniteSet(S), NEW R, StrictOn(S, R), NEW n \in Nat, n # 0,
           NEW f, f = FirstOf(S, n, R)
    PROVE  /\ f \in Seq(S) /\ Len(f) <= n /\ \A i \in 1..Len(f) : f[i] \in S
           /\ \A i \in 1..(Len(f) - 1) : <<f[i], f[i + 1]>> \in R
           /\ Len(f) = n => f # <<>> /\ \A x \in S : OneOf(f, x) \/ <<f[Len(f)], x>> \in R
           /\ Len(f) # n => \A x \in S : OneOf(f, x)
<1> DEFINE c == Cardinality(S)
           k == IF n < c THEN n ELSE c
<1>1. c \in Nat
  BY FS_CardinalityType
<1>2. k \in Nat /\ k <= c /\ k <= n /\ (k # n => k = c)
  BY <1>1
<1>3. f = Chosen(S, R, k)
  <2>1. \A x : {y \in S : <<y, x>> \in R} = Below(S, R, x)
    BY DEF Below
  <2>2. f = [i \in 1..k |-> CHOOSE x \in S : Cardinality({y \in S : <<y, x>> \in R}) = i - 1]
    BY Zenon DEF FirstOf
  <2>3. Chosen(S, R, k) = [i \in 1..k |-> CHOOSE x \in S : Cardinality({y \in S : <<y, x>> \in R}) = i - 1]
    BY Zenon DEF Chosen, Below
  <2> HIDE DEF k
  <2> QED BY <2>2, <2>3
<1> HIDE DEF k
<1>4. /\ f \in Seq(S) /\ Len(f) = k /\ DOMAIN f = 1..k
      /\ \A i, j \in 1..k : i < j => <<f[i], f[j]>> \in R
      /\ \A x \in S : (\E i \in 1..k : f[i] = x) \/ (k < c /\ \A i \in 1..k : <<f[i], x>> \in R)
  BY <1>2, <1>3, ListedInOrder
<1> HIDE DEF c
<1>5. \A i \in 1..(Len(f) - 1) : <<f[i], f[i + 1]>> \in R
  BY <1>2, <1>4
<1>6. \A i \in 1..Len(f) : f[i] \in S
  BY <1>4
<1>7. Len(f) = n => f # <<>> /\ \A x \in S : OneOf(f, x) \/ <<f[Len(f)], x>> \in R
  <2> SUFFICES ASSUME Len(f) = n PROVE f # <<>> /\ \A x \in S : OneOf(f, x) \/ <<f[Len(f)], x>> \in R
    OBVIOUS
  <2>1. k = n /\ k \in 1..k
    BY <1>2, <1>4
  <2>2. f # <<>>
    BY <2>1, <1>4
  <2>3. \A x \in S : OneOf(f, x) \/ <<f[k], x>> \in R
    BY <2>1, <1>4 DEF OneOf
  <2> QED BY <2>2, <2>3, <1>4
<1>8. Len(f) # n => \A x \in S : OneOf(f, x)
  <2> SUFFICES ASSUME Len(f) # n, NEW x \in S PROVE OneOf(f, x)
    OBVIOUS
  <2>1. ~(k < c)
    BY <1>1, <1>2, <1>4
  <2> QED BY <2>1, <1>4 DEF OneOf
<1> QED BY <1>2, <1>4, <1>5, <1>6, <1>7, <1>8

\* What follows the last of a sequence is put after it.
LEMMA Continued ==
    ASSUME NEW S, NEW s \in Seq(S), NEW t \in Seq(S), NEW R,
           \A i \in 1..(Len(s) - 1) : <<s[i], s[i + 1]>> \in R,
           \A i \in 1..(Len(t) - 1) : <<t[i], t[i + 1]>> \in R,
           s # <<>> => \A i \in 1..Len(t) : <<s[Len(s)], t[i]>> \in R
    PROVE  /\ s \o t \in Seq(S)
           /\ \A i \in 1..(Len(s \o t) - 1) : <<(s \o t)[i], (s \o t)[i + 1]>> \in R
           /\ \A x : OneOf(s \o t, x) <=> OneOf(s, x) \/ OneOf(t, x)
           /\ t = <<>> => s \o t = s
           /\ t # <<>> => s \o t # <<>> /\ (s \o t)[Len(s \o t)] = t[Len(t)]
<1> DEFINE a == Len(s)
           b == Len(t)
           m == s \o t
<1>0. a \in Nat /\ b \in Nat /\ (s = <<>> <=> a = 0) /\ (t = <<>> <=> b = 0)
  OBVIOUS
<1>1. m \in Seq(S) /\ Len(m) = a + b
  OBVIOUS
<1>2. \A i \in 1..(a + b) : m[i] = IF i <= a THEN s[i] ELSE t[i - a]
  OBVIOUS
<1>4. m = <<>> <=> a + b = 0
  BY <1>0, <1>1
<1>5. b = 0 => m = s
  BY <1>0
<1>6. /\ \A i \in 1..(a - 1) : <<s[i], s[i + 1]>> \in R
      /\ \A i \in 1..(b - 1) : <<t[i], t[i + 1]>> \in R
      /\ a # 0 => \A i \in 1..b : <<s[a], t[i]>> \in R
  BY <1>0
<1> HIDE DEF m, a, b
<1>3. (\A i \in 1..a : m[i] = s[i]) /\ \A i \in 1..b : m[a + i] = t[i]
  <2>1. ASSUME NEW i \in 1..a
        PROVE  m[i] = s[i]
    <3>1. i \in 1..(a + b) /\ i <= a
      BY <1>0
    <3> QED BY <3>1, <1>2
  <2>2. ASSUME NEW i \in 1..b
        PROVE  m[a + i] = t[i]
    <3>1. a + i \in 1..(a + b) /\ ~(a + i <= a) /\ (a + i) - a = i
      BY <1>0
    <3> QED BY <3>1, <1>2
  <2> QED BY <2>1, <2>2
<1>7. \A i \in 1..(Len(m) - 1) : <<m[i], m[i + 1]>> \in R
  <2> SUFFICES ASSUME NEW i \in 1..(Len(m) - 1) PROVE <<m[i], m[i + 1]>> \in R
    OBVIOUS
  <2>0. i \in 1..(a + b - 1)
    BY <1>0, <1>1
  <2>1. CASE i < a
    <3>1. i \in 1..(a - 1) /\ i \in 1..a /\ i + 1 \in 1..a
      BY <2>0, <2>1, <1>0
    <3>2. m[i] = s[i] /\ m[i + 1] = s[i + 1]
      BY <3>1, <1>3
    <3> QED BY <3>1, <3>2, <1>6
  <2>2. CASE i = a
    <3>1. a \in 1..a /\ 1 \in 1..b /\ a # 0
      BY <2>0, <2>2, <1>0
    <3>2. m[i] = s[a] /\ m[i + 1] = t[1]
      BY <3>1, <2>2, <1>3
    <3> QED BY <3>1, <3>2, <1>6
  <2>3. CASE i > a
    <3>1. i - a \in 1..(b - 1) /\ i - a \in 1..b /\ (i - a) + 1 \in 1..b /\ a + (i - a) = i /\ a + ((i - a) + 1) = i + 1
      BY <2>0, <2>3, <1>0
    <3>2. m[a + (i - a)] = t[i - a] /\ m[a + ((i - a) + 1)] = t[(i - a) + 1]
      BY <3>1, <1>3
    <3> QED BY <3>1, <3>2, <1>6
  <2> QED BY <2>0, <2>1, <2>2, <2>3, <1>0
<1>8. b # 0 => m # <<>> /\ m[Len(m)] = t[b]
  <2>1. b # 0 => b \in 1..b /\ a + b # 0
    BY <1>0
  <2> QED BY <2>1, <1>1, <1>3, <1>4
<1>9. ASSUME NEW x
      PROVE  OneOf(m, x) <=> OneOf(s, x) \/ OneOf(t, x)
  <2>1. ASSUME OneOf(m, x)
        PROVE  OneOf(s, x) \/ OneOf(t, x)
    <3>1. PICK i \in 1..(a + b) : m[i] = x
      BY <2>1, <1>1 DEF OneOf
    <3>2. CASE i <= a
      <4>1. i \in 1..a
        BY <3>2, <1>0
      <4> QED BY <4>1, <3>1, <1>3 DEF OneOf, a
    <3>3. CASE ~(i <= a)
      <4>1. i - a \in 1..b /\ a + (i - a) = i
        BY <3>3, <1>0
      <4>2. t[i - a] = x
        BY <4>1, <3>1, <1>3
      <4> QED BY <4>1, <4>2 DEF OneOf, b
    <3> QED BY <3>2, <3>3
  <2>2. ASSUME OneOf(s, x)
        PROVE  OneOf(m, x)
    <3>1. PICK i \in 1..a : s[i] = x
      BY <2>2 DEF OneOf, a
    <3>2. i \in 1..(a + b)
      BY <1>0
    <3> QED BY <3>1, <3>2, <1>1, <1>3 DEF OneOf
  <2>3. ASSUME OneOf(t, x)
        PROVE  OneOf(m, x)
    <3>1. PICK i \in 1..b : t[i] = x
      BY <2>3 DEF OneOf, b
    <3>2. a + i \in 1..(a + b)
      BY <1>0
    <3> QED BY <3>1, <3>2, <1>1, <1>3 DEF OneOf
  <2> QED BY <2>1, <2>2, <2>3
<1>10. /\ t = <<>> => m = s
       /\ t # <<>> => m # <<>> /\ m[Len(m)] = t[Len(t)]
  BY <1>0, <1>5, <1>8 DEF b
<1> QED BY <1>1, <1>7, <1>9, <1>10 DEF m

-----------------------------------------------------------------------------
\* Rows stand in the order of their times, then of their ids.
LEMMA RowsOrder ==
    ASSUME ReadingsTyped, NEW S \in SUBSET ExportRows,
           NEW up, up = {p \in S \X S : Before(p[1], p[2])},
           NEW down, down = {p \in S \X S : Before(p[2], p[1])}
    PROVE  IsFiniteSet(S) /\ StrictOn(S, up) /\ StrictOn(S, down)
<1>1. Len(table) \in Nat /\ S \subseteq 1..Len(table) /\ \A x \in S : x \in Nat /\ table[x] \in Nat
  BY DEF ReadingsTyped, ExportRows
<1>2. IsFiniteSet(S)
  <2>1. IsFiniteSet(1..Len(table))
    BY <1>1, FS_Interval
  <2> QED BY <2>1, <1>1, FS_Subset
<1>3. \A x, y \in S : (<<x, y>> \in up <=> Before(x, y)) /\ (<<x, y>> \in down <=> Before(y, x))
  OBVIOUS
<1>4. /\ \A x \in S : ~Before(x, x)
      /\ \A x, y, z \in S : Before(x, y) /\ Before(y, z) => Before(x, z)
      /\ \A x, y \in S : x # y => Before(x, y) \/ Before(y, x)
  BY <1>1 DEF Before
<1> HIDE DEF Before
<1>5. StrictOn(S, up)
  BY <1>3, <1>4 DEF StrictOn
<1>6. StrictOn(S, down)
  BY <1>3, <1>4 DEF StrictOn
<1> QED BY <1>2, <1>5, <1>6

LEMMA RowsIn ==
    ASSUME ReadingsTyped
    PROVE  InRange = (IF gone THEN {} ELSE ExportRows) /\ InRange \subseteq ExportRows /\ ExportRows \subseteq Nat
<1>1. DOMAIN table = 1..Len(table) /\ Len(table) \in Nat
  BY DEF ReadingsTyped
<1> QED BY <1>1 DEF InRange, ExportRows

\* What is oldest of some rows, and what is newest.
LEMMA OldestRows ==
    ASSUME ReadingsTyped, NEW S \in SUBSET ExportRows, NEW f, f = OldestOf(S, Batch)
    PROVE  /\ f \in Seq(Nat) /\ (\A i \in 1..Len(f) : f[i] \in S)
           /\ \A i \in 1..(Len(f) - 1) : Before(f[i], f[i + 1])
           /\ Full(f) => f # <<>> /\ \A x \in S : OneOf(f, x) \/ Before(f[Len(f)], x)
           /\ ~Full(f) => \A x \in S : OneOf(f, x)
<1> DEFINE R == {p \in S \X S : Before(p[1], p[2])}
<1>1. IsFiniteSet(S) /\ StrictOn(S, R)
  BY RowsOrder
<1>2. f = FirstOf(S, Batch, R)
  BY DEF OldestOf
<1>4. \A x, y : <<x, y>> \in R => Before(x, y)
  OBVIOUS
<1> HIDE DEF R
<1>3. /\ f \in Seq(S) /\ Len(f) <= Batch /\ \A i \in 1..Len(f) : f[i] \in S
      /\ \A i \in 1..(Len(f) - 1) : <<f[i], f[i + 1]>> \in R
      /\ Len(f) = Batch => f # <<>> /\ \A x \in S : OneOf(f, x) \/ <<f[Len(f)], x>> \in R
      /\ Len(f) # Batch => \A x \in S : OneOf(f, x)
  BY <1>1, <1>2, Firsts, ReadingsNumbers
<1>5. f \in Seq(Nat)
  <2>1. S \subseteq Nat
    BY RowsIn
  <2>2. Len(f) \in Nat /\ f \in [1..Len(f) -> S]
    BY <1>3
  <2>3. f \in [1..Len(f) -> Nat]
    BY <2>1, <2>2
  <2> QED BY <2>2, <2>3
<1> QED BY <1>3, <1>4, <1>5 DEF Full

LEMMA NewestRows ==
    ASSUME ReadingsTyped, NEW S \in SUBSET ExportRows, NEW f, f = NewestOf(S, Batch)
    PROVE  /\ f \in Seq(Nat) /\ (\A i \in 1..Len(f) : f[i] \in S)
           /\ \A i \in 1..(Len(f) - 1) : Before(f[i + 1], f[i])
           /\ Full(f) => f # <<>> /\ \A x \in S : OneOf(f, x) \/ Before(x, f[Len(f)])
           /\ ~Full(f) => \A x \in S : OneOf(f, x)
<1> DEFINE R == {p \in S \X S : Before(p[2], p[1])}
<1>1. IsFiniteSet(S) /\ StrictOn(S, R)
  BY RowsOrder
<1>2. f = FirstOf(S, Batch, R)
  BY DEF NewestOf
<1>4. \A x, y : <<x, y>> \in R => Before(y, x)
  OBVIOUS
<1> HIDE DEF R
<1>3. /\ f \in Seq(S) /\ Len(f) <= Batch /\ \A i \in 1..Len(f) : f[i] \in S
      /\ \A i \in 1..(Len(f) - 1) : <<f[i], f[i + 1]>> \in R
      /\ Len(f) = Batch => f # <<>> /\ \A x \in S : OneOf(f, x) \/ <<f[Len(f)], x>> \in R
      /\ Len(f) # Batch => \A x \in S : OneOf(f, x)
  BY <1>1, <1>2, Firsts, ReadingsNumbers
<1>5. f \in Seq(Nat)
  <2>1. S \subseteq Nat
    BY RowsIn
  <2>2. Len(f) \in Nat /\ f \in [1..Len(f) -> S]
    BY <1>3
  <2>3. f \in [1..Len(f) -> Nat]
    BY <2>1, <2>2
  <2> QED BY <2>2, <2>3
<1> QED BY <1>3, <1>4, <1>5 DEF Full

LEMMA ReadingsInvInit ==
    ASSUME ReadingsInit
    PROVE  ReadingsInv
<1>1. /\ series \in {"inverter", "bms"} /\ table = <<>> /\ clock = From /\ gone = FALSE
      /\ exported = NotAsked /\ browsed = NotAsked
  BY DEF ReadingsInit
<1>2. /\ NotAsked \in TakenRow /\ NotAsked.state = "no" /\ NotAsked.ids = <<>> /\ NotAsked.present = {}
  BY DEF NotAsked, TakenRow
<1>3. Len(<<>>) = 0 /\ Len(table) = 0 /\ table \in Seq(Nat)
  BY <1>1
<1>4. ReadingsTyped
  <2>1. series \in {"inverter", "bms"} /\ clock \in Nat /\ gone \in BOOLEAN
    BY <1>1, ReadingsNumbers
  <2>2. exported \in TakenRow /\ browsed \in TakenRow /\ exported.state = "no" /\ browsed.state = "no"
    BY <1>1, <1>2
  <2>3. exported.ids = <<>> /\ browsed.ids = <<>> /\ exported.present = {} /\ browsed.present = {}
    BY <1>1, <1>2
  <2>4. Len(exported.ids) = 0 /\ Len(browsed.ids) = 0
    BY <2>3
  <2> QED BY <2>1, <2>2, <2>3, <2>4, <1>1, <1>3 DEF ReadingsTyped
<1> QED BY <1>1, <1>2, <1>3, <1>4 DEF ReadingsInv

\* Rows that come change nothing of what was taken, nor does the clock, nor
\* that all of them are deleted.
LEMMA RowsCome ==
    ASSUME ReadingsInv, series' = series, exported' = exported, browsed' = browsed,
           clock' \in Nat, gone' \in BOOLEAN, gone => gone', table' \in Seq(Nat), Len(table) <= Len(table'),
           \A i \in 1..Len(table) : table'[i] = table[i],
           series = "bms" => \A i, j \in 1..Len(table') : table'[i] = table'[j] => i = j
    PROVE  ReadingsInv'
<1>0. ReadingsTyped
  BY DEF ReadingsInv
<1>1. Len(table) \in Nat /\ Len(table') \in Nat
  BY <1>0 DEF ReadingsTyped
<1>2. ExportRows \subseteq ExportRows' /\ \A x \in ExportRows : table'[x] = table[x]
  BY <1>1 DEF ExportRows
<1>3. ReadingsTyped'
  BY <1>0, <1>2 DEF ReadingsTyped
<1>4. \A x, y \in ExportRows : Before(x, y)' <=> Before(x, y)
  BY <1>2 DEF Before
<1>5. Len(exported.ids) \in Nat /\ Len(browsed.ids) \in Nat
  BY <1>0 DEF ReadingsTyped, TakenRow
<1>6. /\ \A i \in 1..Len(exported.ids) : exported.ids[i] \in ExportRows
      /\ \A i \in 1..Len(browsed.ids) : browsed.ids[i] \in ExportRows
      /\ exported.present \subseteq ExportRows /\ browsed.present \subseteq ExportRows
  BY <1>0 DEF ReadingsTyped
<1>7. \A i \in 1..(Len(exported.ids) - 1) : Before(exported.ids[i], exported.ids[i + 1])'
  <2> SUFFICES ASSUME NEW i \in 1..(Len(exported.ids) - 1) PROVE Before(exported.ids[i], exported.ids[i + 1])'
    OBVIOUS
  <2>1. i \in 1..Len(exported.ids) /\ i + 1 \in 1..Len(exported.ids)
    BY <1>5
  <2>2. Before(exported.ids[i], exported.ids[i + 1])
    BY DEF ReadingsInv
  <2>3. table'[exported.ids[i]] = table[exported.ids[i]] /\ table'[exported.ids[i + 1]] = table[exported.ids[i + 1]]
    BY <2>1, <1>2, <1>6
  <2> QED BY <2>2, <2>3 DEF Before
<1>8. \A i \in 1..(Len(browsed.ids) - 1) : Before(browsed.ids[i + 1], browsed.ids[i])'
  <2> SUFFICES ASSUME NEW i \in 1..(Len(browsed.ids) - 1) PROVE Before(browsed.ids[i + 1], browsed.ids[i])'
    OBVIOUS
  <2>1. i \in 1..Len(browsed.ids) /\ i + 1 \in 1..Len(browsed.ids)
    BY <1>5
  <2>2. Before(browsed.ids[i + 1], browsed.ids[i])
    BY DEF ReadingsInv
  <2>3. table'[browsed.ids[i]] = table[browsed.ids[i]] /\ table'[browsed.ids[i + 1]] = table[browsed.ids[i + 1]]
    BY <2>1, <1>2, <1>6
  <2> QED BY <2>2, <2>3 DEF Before
<1>9. ASSUME ~gone', NEW id \in exported.present
      PROVE  StillToCome(id)'
  <2>1. StillToCome(id) /\ id \in ExportRows
    BY <1>6, <1>9 DEF ReadingsInv
  <2>2. exported.ids # <<>> => exported.ids[Len(exported.ids)] \in ExportRows
    <3>1. exported.ids # <<>> => Len(exported.ids) \in 1..Len(exported.ids)
      BY <1>0 DEF ReadingsTyped, TakenRow
    <3> QED BY <3>1, <1>6
  <2>3. exported.ids # <<>> /\ Past(id, exported.ids[Len(exported.ids)]) => Past(id, exported.ids[Len(exported.ids)])'
    <3> DEFINE l == exported.ids[Len(exported.ids)]
    <3>1. exported.ids # <<>> => table'[l] = table[l] /\ table'[id] = table[id]
      BY <2>1, <2>2, <1>2
    <3> QED BY <3>1 DEF Past, Before
  <2> QED BY <2>1, <2>3 DEF StillToCome, OneOf
<1>10. ASSUME NEW id \in browsed.present
       PROVE  PagedPast(id)'
  <2>1. PagedPast(id) /\ id \in ExportRows
    BY <1>6, <1>10 DEF ReadingsInv
  <2>2. browsed.state = "more" => browsed.ids[Len(browsed.ids)] \in ExportRows
    <3>1. browsed.state = "more" => Len(browsed.ids) \in 1..Len(browsed.ids)
      BY <1>0 DEF ReadingsTyped, TakenRow
    <3> QED BY <3>1, <1>6
  <2>3. /\ table'[id] = table[id]
        /\ browsed.state = "more" => table'[browsed.ids[Len(browsed.ids)]] = table[browsed.ids[Len(browsed.ids)]]
        /\ \A i \in 1..Len(browsed.ids) : table'[browsed.ids[i]] = table[browsed.ids[i]]
    BY <2>1, <2>2, <1>2, <1>6
  <2> QED BY <2>1, <2>3 DEF PagedPast, OneOf
<1> QED BY <1>3, <1>7, <1>8, <1>9, <1>10 DEF ReadingsInv

LEMMA RecordStep ==
    ASSUME ReadingsInv, Record
    PROVE  ReadingsInv'
<1>0. table \in Seq(Nat) /\ clock \in Nat /\ gone \in BOOLEAN /\ Len(table) \in Nat
  BY DEF ReadingsInv, ReadingsTyped
<1>1. /\ table' = Append(table, clock) /\ series' = series /\ clock' = clock /\ gone' = gone
      /\ exported' = exported /\ browsed' = browsed
      /\ series = "bms" => clock \notin ToSet(table)
  BY DEF Record
<1>2. /\ table' \in Seq(Nat) /\ Len(table') = Len(table) + 1 /\ table'[Len(table) + 1] = clock
      /\ \A i \in 1..Len(table) : table'[i] = table[i]
  BY <1>0, <1>1
<1>3. ASSUME series = "bms", NEW i \in 1..Len(table'), NEW j \in 1..Len(table'), table'[i] = table'[j]
      PROVE  i = j
  <2>1. \A x \in 1..Len(table) : table[x] # clock
    <3>1. DOMAIN table = 1..Len(table)
      BY <1>0
    <3> QED BY <3>1, <1>1, <1>3 DEF ToSet
  <2>2. \A x, y \in 1..Len(table) : table[x] = table[y] => x = y
    BY <1>3 DEF ReadingsInv
  <2>3. (i \in 1..Len(table) \/ i = Len(table) + 1) /\ (j \in 1..Len(table) \/ j = Len(table) + 1)
    BY <1>0, <1>2
  <2> QED BY <2>1, <2>2, <2>3, <1>2, <1>3
<1>4. Len(table) <= Len(table')
  BY <1>0, <1>2
<1> QED BY <1>0, <1>1, <1>2, <1>3, <1>4, RowsCome

LEMMA ClockStep ==
    ASSUME ReadingsInv, ClockMoves \/ Deleted
    PROVE  ReadingsInv'
<1>0. table \in Seq(Nat) /\ clock \in Nat /\ gone \in BOOLEAN /\ Len(table) \in Nat
  BY DEF ReadingsInv, ReadingsTyped
<1>1. /\ table' = table /\ series' = series /\ exported' = exported /\ browsed' = browsed
      /\ gone' \in BOOLEAN /\ (gone => gone')
  BY <1>0 DEF ClockMoves, Deleted
<1>2. clock' \in Nat
  <2>1. CASE Deleted
    BY <2>1, <1>0 DEF Deleted
  <2>2. CASE ClockMoves
    BY <2>2, <1>0, ReadingsNumbers DEF ClockMoves
  <2> QED BY <2>1, <2>2
<1>3. Len(table) <= Len(table) /\ (series = "bms" => \A i, j \in 1..Len(table) : table[i] = table[j] => i = j)
  BY <1>0 DEF ReadingsInv
<1> QED BY <1>0, <1>1, <1>2, <1>3, RowsCome

\* What another part of the state says when only one of the two is taken.
LEMMA ExportKeeps ==
    ASSUME ReadingsInv, UNCHANGED <<series, table, clock, setBacks, gone, browsed>>,
           exported' \in TakenRow, exported'.state \in {"reading", "done"},
           \A i \in 1..Len(exported'.ids) : exported'.ids[i] \in ExportRows,
           exported'.present \subseteq ExportRows,
           \A i \in 1..(Len(exported'.ids) - 1) : Before(exported'.ids[i], exported'.ids[i + 1]),
           ~gone => \A id \in exported'.present :
              \/ OneOf(exported'.ids, id)
              \/ exported'.state = "reading"
                 /\ (exported'.ids = <<>> \/ Past(id, exported'.ids[Len(exported'.ids)]))
    PROVE  ReadingsInv'
<1>0. ReadingsTyped
  BY DEF ReadingsInv
<1>1. ReadingsTyped'
  BY <1>0 DEF ReadingsTyped, ExportRows
<1>2. \A i \in 1..(Len(exported'.ids) - 1) : Before(exported.ids[i], exported.ids[i + 1])'
  BY DEF Before
<1>3. \A i \in 1..(Len(browsed'.ids) - 1) : Before(browsed.ids[i + 1], browsed.ids[i])'
  BY DEF ReadingsInv, Before
<1>4. ~gone' => \A id \in exported'.present : StillToCome(id)'
  BY DEF StillToCome, Past, Before
<1>5. \A id \in browsed'.present : PagedPast(id)'
  BY DEF ReadingsInv, PagedPast
<1>6. series' = "bms" => \A i, j \in 1..Len(table') : table'[i] = table'[j] => i = j
  BY DEF ReadingsInv
<1> QED BY <1>1, <1>2, <1>3, <1>4, <1>5, <1>6 DEF ReadingsInv

LEMMA BrowseKeeps ==
    ASSUME ReadingsInv, UNCHANGED <<series, table, clock, setBacks, gone, exported>>,
           browsed' \in TakenRow, browsed'.state \in {"more", "done"}, browsed'.state = "more" => browsed'.ids # <<>>,
           \A i \in 1..Len(browsed'.ids) : browsed'.ids[i] \in ExportRows,
           browsed'.present \subseteq ExportRows,
           \A i \in 1..(Len(browsed'.ids) - 1) : Before(browsed'.ids[i + 1], browsed'.ids[i]),
           \A id \in browsed'.present :
              \/ OneOf(browsed'.ids, id)
              \/ browsed'.state = "more" /\ table[id] < table[browsed'.ids[Len(browsed'.ids)]]
              \/ series = "inverter" /\ \E i \in 1..Len(browsed'.ids) : table[browsed'.ids[i]] = table[id]
    PROVE  ReadingsInv'
<1>0. ReadingsTyped
  BY DEF ReadingsInv
<1>1. ReadingsTyped'
  BY <1>0 DEF ReadingsTyped, ExportRows
<1>2. \A i \in 1..(Len(exported'.ids) - 1) : Before(exported.ids[i], exported.ids[i + 1])'
  BY DEF ReadingsInv, Before
<1>3. \A i \in 1..(Len(browsed'.ids) - 1) : Before(browsed.ids[i + 1], browsed.ids[i])'
  BY DEF Before
<1>4. ~gone' => \A id \in exported'.present : StillToCome(id)'
  BY DEF ReadingsInv, StillToCome, Past, Before
<1>5. \A id \in browsed'.present : PagedPast(id)'
  BY DEF PagedPast
<1>6. series' = "bms" => \A i, j \in 1..Len(table') : table'[i] = table'[j] => i = j
  BY DEF ReadingsInv
<1> QED BY <1>1, <1>2, <1>3, <1>4, <1>5, <1>6 DEF ReadingsInv

LEMMA ExportStarts ==
    ASSUME ReadingsInv, exportReadings
    PROVE  ReadingsInv'
<1>1. /\ exported' = [state |-> "reading", ids |-> <<>>, present |-> InRange]
      /\ UNCHANGED <<series, table, clock, setBacks, gone, browsed>>
  BY DEF exportReadings
<1>2. InRange \subseteq ExportRows /\ ExportRows \subseteq Nat
  BY RowsIn DEF ReadingsInv
<1>3. exported' \in TakenRow /\ exported'.state = "reading" /\ exported'.ids = <<>> /\ exported'.present = InRange
  BY <1>1, <1>2 DEF TakenRow
<1>4. Len(exported'.ids) = 0
  BY <1>3
<1> QED BY <1>1, <1>2, <1>3, <1>4, ExportKeeps

LEMMA ExportReads ==
    ASSUME ReadingsInv, readingBatches
    PROVE  ReadingsInv'
<1>0. ReadingsTyped
  BY DEF ReadingsInv
<1> DEFINE ids == exported.ids
           left == IF ids = <<>> THEN InRange ELSE {id \in InRange : Past(id, ids[Len(ids)])}
           next == OldestOf(left, Batch)
           up == {p \in ExportRows \X ExportRows : Before(p[1], p[2])}
<1>1. /\ exported.state = "reading"
      /\ exported' = [exported EXCEPT !.ids = @ \o next, !.state = IF Full(next) THEN @ ELSE "done"]
      /\ UNCHANGED <<series, table, clock, setBacks, gone, browsed>>
  BY DEF readingBatches, Last
<1>2. InRange = (IF gone THEN {} ELSE ExportRows) /\ InRange \subseteq ExportRows /\ ExportRows \subseteq Nat
  BY <1>0, RowsIn
<1>3. left \in SUBSET ExportRows
  BY <1>2
<1>4. /\ ids \in Seq(Nat) /\ exported.present \subseteq ExportRows
      /\ (\A i \in 1..Len(ids) : ids[i] \in ExportRows) /\ exported.present \subseteq Nat
      /\ ids # <<>> => Len(ids) \in 1..Len(ids)
  BY <1>0 DEF ReadingsTyped, TakenRow
<1>5. /\ next \in Seq(Nat) /\ (\A i \in 1..Len(next) : next[i] \in left)
      /\ \A i \in 1..(Len(next) - 1) : Before(next[i], next[i + 1])
      /\ Full(next) => next # <<>> /\ \A x \in left : OneOf(next, x) \/ Before(next[Len(next)], x)
      /\ ~Full(next) => \A x \in left : OneOf(next, x)
  BY <1>0, <1>3, OldestRows
<1> HIDE DEF next
<1>6. \A x \in left : ids # <<>> => Before(ids[Len(ids)], x)
  BY DEF Past, Before
<1>10. \A id \in exported.present : ~gone => OneOf(ids, id) \/ id \in left
  <2> SUFFICES ASSUME NEW id \in exported.present, ~gone PROVE OneOf(ids, id) \/ id \in left
    OBVIOUS
  <2>1. StillToCome(id) /\ id \in InRange
    BY <1>2, <1>4 DEF ReadingsInv
  <2> QED BY <2>1 DEF StillToCome
<1>7. \A id \in left : next # <<>> /\ Before(next[Len(next)], id) => Past(id, next[Len(next)])
  <2> SUFFICES ASSUME NEW id \in left, next # <<>>, Before(next[Len(next)], id), series = "bms"
               PROVE  table[id] > table[next[Len(next)]]
    BY DEF Past
  <2>1. Len(next) \in 1..Len(next)
    BY <1>5
  <2>2. next[Len(next)] \in ExportRows /\ id \in ExportRows
    BY <2>1, <1>3, <1>5
  <2>3. table[id] = table[next[Len(next)]] => id = next[Len(next)]
    BY <2>2 DEF ReadingsInv, ExportRows
  <2>4. id \in Nat /\ next[Len(next)] \in Nat /\ table[id] \in Nat /\ table[next[Len(next)]] \in Nat
    BY <2>2, <1>0 DEF ReadingsTyped, ExportRows
  <2> QED BY <2>3, <2>4 DEF Before
<1> HIDE DEF left
<1>8. /\ Len(ids) \in Nat /\ Len(next) \in Nat
      /\ \A i \in 1..Len(next) : next[i] \in ExportRows
      /\ \A i \in 1..(Len(ids) - 1) : <<ids[i], ids[i + 1]>> \in up
      /\ \A i \in 1..(Len(next) - 1) : <<next[i], next[i + 1]>> \in up
      /\ ids # <<>> => \A i \in 1..Len(next) : <<ids[Len(ids)], next[i]>> \in up
  <2>1. Len(ids) \in Nat /\ Len(next) \in Nat /\ \A i \in 1..Len(next) : next[i] \in ExportRows
    BY <1>3, <1>4, <1>5
  <2>2. \A i \in 1..(Len(ids) - 1) : Before(ids[i], ids[i + 1])
    BY DEF ReadingsInv
  <2>3. \A i \in 1..(Len(ids) - 1) : i \in 1..Len(ids) /\ i + 1 \in 1..Len(ids)
    BY <2>1
  <2>4. \A i \in 1..(Len(next) - 1) : i \in 1..Len(next) /\ i + 1 \in 1..Len(next)
    BY <2>1
  <2>5. \A x, y \in ExportRows : Before(x, y) => <<x, y>> \in up
    OBVIOUS
  <2> HIDE DEF up, ids
  <2> QED BY <2>1, <2>2, <2>3, <2>4, <2>5, <1>4, <1>5, <1>6
<1>9. /\ ids \o next \in Seq(Nat)
      /\ \A i \in 1..(Len(ids \o next) - 1) : <<(ids \o next)[i], (ids \o next)[i + 1]>> \in up
      /\ \A x : OneOf(ids \o next, x) <=> OneOf(ids, x) \/ OneOf(next, x)
      /\ next = <<>> => ids \o next = ids
      /\ next # <<>> => ids \o next # <<>> /\ (ids \o next)[Len(ids \o next)] = next[Len(next)]
  <2> HIDE DEF up, ids
  <2> QED BY <1>4, <1>5, <1>8, Continued
<1>11. /\ exported' \in TakenRow /\ exported'.ids = ids \o next /\ exported'.present = exported.present
       /\ exported'.state = IF Full(next) THEN "reading" ELSE "done"
  BY <1>0, <1>1, <1>9 DEF ReadingsTyped, TakenRow
<1>12. \A x, y : <<x, y>> \in up => Before(x, y)
  OBVIOUS
<1> HIDE DEF up
<1>13. \A i \in 1..Len(ids \o next) : (ids \o next)[i] \in ExportRows
  <2> SUFFICES ASSUME NEW i \in 1..Len(ids \o next) PROVE (ids \o next)[i] \in ExportRows
    OBVIOUS
  <2>1. OneOf(ids \o next, (ids \o next)[i])
    BY DEF OneOf
  <2>2. OneOf(ids, (ids \o next)[i]) \/ OneOf(next, (ids \o next)[i])
    BY <2>1, <1>9
  <2> HIDE DEF ids
  <2> QED BY <2>2, <1>4, <1>8 DEF OneOf
<1>14. ~gone => \A id \in exported.present :
              \/ OneOf(ids \o next, id)
              \/ Full(next) /\ Past(id, (ids \o next)[Len(ids \o next)])
  <2> HIDE DEF ids
  <2> SUFFICES ASSUME ~gone, NEW id \in exported.present, ~OneOf(ids \o next, id)
               PROVE  Full(next) /\ Past(id, (ids \o next)[Len(ids \o next)])
    OBVIOUS
  <2>1. ~OneOf(ids, id) /\ ~OneOf(next, id)
    BY <1>9
  <2>2. id \in left
    BY <2>1, <1>10
  <2> QED BY <2>1, <2>2, <1>5, <1>7, <1>9
<1> HIDE DEF ids
<1> QED BY <1>1, <1>4, <1>9, <1>11, <1>12, <1>13, <1>14, ExportKeeps

LEMMA FirstPageStep ==
    ASSUME ReadingsInv, FirstPage
    PROVE  ReadingsInv'
<1>0. ReadingsTyped
  BY DEF ReadingsInv
<1> DEFINE next == NewestOf(InRange, Batch)
<1>1. /\ browsed' = [ids |-> next, present |-> InRange, state |-> IF Full(next) THEN "more" ELSE "done"]
      /\ UNCHANGED <<series, table, clock, setBacks, gone, exported>>
  BY DEF FirstPage
<1>2. InRange \subseteq ExportRows /\ ExportRows \subseteq Nat
  BY <1>0, RowsIn
<1>5. /\ next \in Seq(Nat) /\ (\A i \in 1..Len(next) : next[i] \in InRange)
      /\ \A i \in 1..(Len(next) - 1) : Before(next[i + 1], next[i])
      /\ Full(next) => next # <<>> /\ \A x \in InRange : OneOf(next, x) \/ Before(x, next[Len(next)])
      /\ ~Full(next) => \A x \in InRange : OneOf(next, x)
  BY <1>0, <1>2, NewestRows
<1> HIDE DEF next
<1>6. /\ browsed' \in TakenRow /\ browsed'.ids = next /\ browsed'.present = InRange
      /\ browsed'.state = IF Full(next) THEN "more" ELSE "done"
  BY <1>1, <1>2, <1>5 DEF TakenRow
<1>7. \A id \in InRange :
         \/ OneOf(next, id)
         \/ Full(next) /\ table[id] < table[next[Len(next)]]
         \/ series = "inverter" /\ \E i \in 1..Len(next) : table[next[i]] = table[id]
  <2> SUFFICES ASSUME NEW id \in InRange, ~OneOf(next, id), ~(table[id] < table[next[Len(next)]])
               PROVE  series = "inverter" /\ \E i \in 1..Len(next) : table[next[i]] = table[id]
    BY <1>5
  <2>1. next # <<>> /\ Before(id, next[Len(next)])
    BY <1>5
  <2>2. Len(next) \in 1..Len(next)
    BY <2>1, <1>5
  <2>3. next[Len(next)] \in ExportRows /\ id \in ExportRows /\ next[Len(next)] # id
    BY <2>2, <1>2, <1>5 DEF OneOf
  <2>4. table[id] = table[next[Len(next)]]
    BY <2>1 DEF Before
  <2>5. series # "bms"
    BY <2>3, <2>4 DEF ReadingsInv, ExportRows
  <2> QED BY <2>2, <2>4, <2>5, <1>0 DEF ReadingsTyped
<1> QED BY <1>1, <1>2, <1>5, <1>6, <1>7, BrowseKeeps

LEMMA LoadMoreStep ==
    ASSUME ReadingsInv, loadMore
    PROVE  ReadingsInv'
<1>0. ReadingsTyped
  BY DEF ReadingsInv
<1> DEFINE ids == browsed.ids
           left == {id \in InRange : table[id] < table[ids[Len(ids)]]}
           next == NewestOf(left, Batch)
           down == {p \in ExportRows \X ExportRows : Before(p[2], p[1])}
<1>1. /\ browsed.state = "more" /\ ~gone
      /\ browsed' = [browsed EXCEPT !.ids = @ \o next, !.state = IF Full(next) THEN @ ELSE "done"]
      /\ UNCHANGED <<series, table, clock, setBacks, gone, exported>>
  BY DEF loadMore, Last
<1>2. InRange = ExportRows /\ ExportRows \subseteq Nat
  BY <1>0, <1>1, RowsIn
<1>3. left \in SUBSET ExportRows
  BY <1>2
<1>4. /\ ids \in Seq(Nat) /\ browsed.present \subseteq ExportRows /\ ids # <<>>
      /\ (\A i \in 1..Len(ids) : ids[i] \in ExportRows) /\ browsed.present \subseteq Nat
      /\ Len(ids) \in 1..Len(ids)
  BY <1>0, <1>1 DEF ReadingsTyped, TakenRow
<1>5. /\ next \in Seq(Nat) /\ (\A i \in 1..Len(next) : next[i] \in left)
      /\ \A i \in 1..(Len(next) - 1) : Before(next[i + 1], next[i])
      /\ Full(next) => next # <<>> /\ \A x \in left : OneOf(next, x) \/ Before(x, next[Len(next)])
      /\ ~Full(next) => \A x \in left : OneOf(next, x)
  BY <1>0, <1>3, NewestRows
<1> HIDE DEF next
<1>6. \A x \in left : Before(x, ids[Len(ids)])
  BY DEF Before
<1>10. \A id \in browsed.present :
          \/ OneOf(ids, id) \/ id \in left
          \/ series = "inverter" /\ \E i \in 1..Len(ids) : table[ids[i]] = table[id]
  <2> SUFFICES ASSUME NEW id \in browsed.present
               PROVE  \/ OneOf(ids, id) \/ id \in left
                      \/ series = "inverter" /\ \E i \in 1..Len(ids) : table[ids[i]] = table[id]
    OBVIOUS
  <2>1. PagedPast(id) /\ id \in InRange
    BY <1>2, <1>4 DEF ReadingsInv
  <2> QED BY <2>1 DEF PagedPast
<1>7. \A id \in left : next # <<>> /\ ~OneOf(next, id) /\ Before(id, next[Len(next)]) =>
         \/ table[id] < table[next[Len(next)]]
         \/ series = "inverter" /\ \E i \in 1..Len(next) : table[next[i]] = table[id]
  <2> SUFFICES ASSUME NEW id \in left, next # <<>>, ~OneOf(next, id), Before(id, next[Len(next)]),
                      ~(table[id] < table[next[Len(next)]])
               PROVE  series = "inverter" /\ \E i \in 1..Len(next) : table[next[i]] = table[id]
    OBVIOUS
  <2>2. Len(next) \in 1..Len(next)
    BY <1>5
  <2>3. next[Len(next)] \in ExportRows /\ id \in ExportRows /\ next[Len(next)] # id
    BY <2>2, <1>3, <1>5 DEF OneOf
  <2>4. table[id] = table[next[Len(next)]]
    BY DEF Before
  <2>5. series # "bms"
    BY <2>3, <2>4 DEF ReadingsInv, ExportRows
  <2> QED BY <2>2, <2>4, <2>5, <1>0 DEF ReadingsTyped
<1> HIDE DEF left
<1>8. /\ Len(ids) \in Nat /\ Len(next) \in Nat
      /\ \A i \in 1..Len(next) : next[i] \in ExportRows
      /\ \A i \in 1..(Len(ids) - 1) : <<ids[i], ids[i + 1]>> \in down
      /\ \A i \in 1..(Len(next) - 1) : <<next[i], next[i + 1]>> \in down
      /\ ids # <<>> => \A i \in 1..Len(next) : <<ids[Len(ids)], next[i]>> \in down
  <2>1. Len(ids) \in Nat /\ Len(next) \in Nat /\ \A i \in 1..Len(next) : next[i] \in ExportRows
    BY <1>3, <1>4, <1>5
  <2>2. \A i \in 1..(Len(ids) - 1) : Before(ids[i + 1], ids[i])
    BY DEF ReadingsInv
  <2>3. \A i \in 1..(Len(ids) - 1) : i \in 1..Len(ids) /\ i + 1 \in 1..Len(ids)
    BY <2>1
  <2>4. \A i \in 1..(Len(next) - 1) : i \in 1..Len(next) /\ i + 1 \in 1..Len(next)
    BY <2>1
  <2>5. \A x, y \in ExportRows : Before(y, x) => <<x, y>> \in down
    OBVIOUS
  <2> HIDE DEF down, ids
  <2> QED BY <2>1, <2>2, <2>3, <2>4, <2>5, <1>4, <1>5, <1>6
<1>9. /\ ids \o next \in Seq(Nat)
      /\ \A i \in 1..(Len(ids \o next) - 1) : <<(ids \o next)[i], (ids \o next)[i + 1]>> \in down
      /\ \A x : OneOf(ids \o next, x) <=> OneOf(ids, x) \/ OneOf(next, x)
      /\ next = <<>> => ids \o next = ids
      /\ next # <<>> => ids \o next # <<>> /\ (ids \o next)[Len(ids \o next)] = next[Len(next)]
  <2> HIDE DEF down, ids
  <2> QED BY <1>4, <1>5, <1>8, Continued
<1>11. /\ browsed' \in TakenRow /\ browsed'.ids = ids \o next /\ browsed'.present = browsed.present
       /\ browsed'.state = IF Full(next) THEN "more" ELSE "done"
  BY <1>0, <1>1, <1>9 DEF ReadingsTyped, TakenRow
<1>12. \A x, y : <<x, y>> \in down => Before(y, x)
  OBVIOUS
<1> HIDE DEF down
<1>13. \A i \in 1..Len(ids \o next) : (ids \o next)[i] \in ExportRows
  <2> SUFFICES ASSUME NEW i \in 1..Len(ids \o next) PROVE (ids \o next)[i] \in ExportRows
    OBVIOUS
  <2>1. OneOf(ids \o next, (ids \o next)[i])
    BY DEF OneOf
  <2>2. OneOf(ids, (ids \o next)[i]) \/ OneOf(next, (ids \o next)[i])
    BY <2>1, <1>9
  <2> HIDE DEF ids
  <2> QED BY <2>2, <1>4, <1>8 DEF OneOf
<1>15. \A x : (\/ \E i \in 1..Len(ids) : table[ids[i]] = table[x]
               \/ \E i \in 1..Len(next) : table[next[i]] = table[x]) =>
              \E i \in 1..Len(ids \o next) : table[(ids \o next)[i]] = table[x]
  <2> HIDE DEF ids
  <2>1. ASSUME NEW x, NEW i \in 1..Len(ids), table[ids[i]] = table[x]
        PROVE  \E j \in 1..Len(ids \o next) : table[(ids \o next)[j]] = table[x]
    <3>1. OneOf(ids, ids[i])
      BY DEF OneOf
    <3>2. OneOf(ids \o next, ids[i])
      BY <3>1, <1>9
    <3> QED BY <3>2, <2>1 DEF OneOf
  <2>2. ASSUME NEW x, NEW i \in 1..Len(next), table[next[i]] = table[x]
        PROVE  \E j \in 1..Len(ids \o next) : table[(ids \o next)[j]] = table[x]
    <3>1. OneOf(next, next[i])
      BY DEF OneOf
    <3>2. OneOf(ids \o next, next[i])
      BY <3>1, <1>9
    <3> QED BY <3>2, <2>2 DEF OneOf
  <2> QED BY <2>1, <2>2
<1>14. \A id \in browsed.present :
          \/ OneOf(ids \o next, id)
          \/ Full(next) /\ table[id] < table[(ids \o next)[Len(ids \o next)]]
          \/ series = "inverter" /\ \E i \in 1..Len(ids \o next) : table[(ids \o next)[i]] = table[id]
  <2> HIDE DEF ids
  <2> SUFFICES ASSUME NEW id \in browsed.present, ~OneOf(ids \o next, id),
                      ~(series = "inverter" /\ \E i \in 1..Len(ids \o next) : table[(ids \o next)[i]] = table[id])
               PROVE  Full(next) /\ table[id] < table[(ids \o next)[Len(ids \o next)]]
    OBVIOUS
  <2>1. ~OneOf(ids, id) /\ ~OneOf(next, id)
    BY <1>9
  <2>2. id \in left
    BY <2>1, <1>10, <1>15
  <2>3. Full(next) /\ next # <<>> /\ Before(id, next[Len(next)])
    BY <2>1, <2>2, <1>5
  <2>4. table[id] < table[next[Len(next)]]
    BY <2>1, <2>2, <2>3, <1>7, <1>15
  <2> QED BY <2>3, <2>4, <1>9
<1>16. Full(next) => ids \o next # <<>>
  BY <1>5, <1>9
<1> HIDE DEF ids
<1>17. \A i \in 1..(Len(ids \o next) - 1) : Before((ids \o next)[i + 1], (ids \o next)[i])
  BY <1>9, <1>12
<1>18. browsed'.state \in {"more", "done"} /\ (browsed'.state = "more" => browsed'.ids # <<>>)
  BY <1>11, <1>16
<1>19. \A id \in browsed'.present :
          \/ OneOf(browsed'.ids, id)
          \/ browsed'.state = "more" /\ table[id] < table[browsed'.ids[Len(browsed'.ids)]]
          \/ series = "inverter" /\ \E i \in 1..Len(browsed'.ids) : table[browsed'.ids[i]] = table[id]
  BY <1>11, <1>14
<1> QED BY <1>1, <1>4, <1>11, <1>13, <1>17, <1>18, <1>19, BrowseKeeps

LEMMA ReadingsInvStep == ASSUME ReadingsInv, ReadingsNext PROVE ReadingsInv'
BY RecordStep, ClockStep, ExportStarts, ExportReads, FirstPageStep, LoadMoreStep DEF ReadingsNext

\* What is checked of the export and of the pages follows.
LEMMA ReadingsKeep ==
    ASSUME ReadingsInv
    PROVE  TakenOutWhole
<1>1. /\ DOMAIN exported.ids = 1..Len(exported.ids) /\ DOMAIN browsed.ids = 1..Len(browsed.ids)
      /\ series \in {"inverter", "bms"}
  BY DEF ReadingsInv, ReadingsTyped, TakenRow
<1>2. \A x : (OneOf(exported.ids, x) <=> x \in ToSet(exported.ids)) /\ (OneOf(browsed.ids, x) <=> x \in ToSet(browsed.ids))
  BY <1>1 DEF OneOf, ToSet
<1>3. exported.state = "done" /\ ~gone => exported.present \subseteq ToSet(exported.ids)
  BY <1>2 DEF ReadingsInv, StillToCome
<1>4. ASSUME browsed.state = "done", NEW id \in browsed.present
      PROVE  \/ id \in ToSet(browsed.ids)
             \/ series = "inverter" /\ \E s \in ToSet(browsed.ids) : table[s] = table[id]
  <2>1. PagedPast(id)
    BY <1>4 DEF ReadingsInv
  <2>2. \A i \in 1..Len(browsed.ids) : browsed.ids[i] \in ToSet(browsed.ids)
    BY <1>1 DEF ToSet
  <2> QED BY <2>1, <2>2, <1>2, <1>4 DEF PagedPast
<1> QED BY <1>3, <1>4 DEF ReadingsInv, TakenOutWhole
==============================================================================
