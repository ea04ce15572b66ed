--------------------------- MODULE HashMapProofs ---------------------------
(***************************************************************************)
(* Theorems about ConcurrentHashMap, for any keys, threads and nodes, and  *)
(* any size the table may grow to.                                         *)
(***************************************************************************)
EXTENDS ConcurrentHashMap, SequenceTheorems, WellFoundedInduction, TLAPS

(***************************************************************************)
(* Induction over the natural numbers, for a set; the least element.       *)
(***************************************************************************)

Less == {p \in Nat \X Nat : p[1] < p[2]}

LEMMA LessIsWellFounded == IsWellFoundedOn(Less, Nat)
  BY NatLessThanWellFounded DEF OpToRel, Less

LEMMA LeastElement ==
  ASSUME NEW S \in SUBSET Nat, S # {}
  PROVE  \E x \in S : \A y \in S : x <= y
<1>1. PICK x \in S : \A y \in S : <<y, x>> \notin Less
  BY LessIsWellFounded, WFMin
<1>2. \A y \in S : ~(y < x)
  BY <1>1 DEF Less
<1> QED  BY <1>2

LEMMA SetInduction ==
  ASSUME NEW S, 0 \in S, \A k \in Nat : k \in S => k + 1 \in S
  PROVE  Nat \subseteq S
<1> SUFFICES ASSUME Nat \ S # {} PROVE FALSE
  OBVIOUS
<1>1. PICK x \in Nat \ S : \A y \in Nat \ S : x <= y
  <2>1. Nat \ S \in SUBSET Nat
    OBVIOUS
  <2> QED  BY <2>1, LeastElement
<1>2. x # 0 /\ x - 1 \in Nat /\ x - 1 < x
  BY <1>1
<1>3. x - 1 \notin Nat \ S
  BY <1>1, <1>2
<1> QED  BY <1>1, <1>2, <1>3

(***************************************************************************)
(* Powers of two.                                                          *)
(***************************************************************************)

Doubles(f, w) == f[0] = 1 /\ \A i \in 1..w : f[i] = 2 * f[i - 1]

LEMMA DoublingExists == \A w \in Nat : \E f \in [0..w -> Nat] : Doubles(f, w)
<1> DEFINE S == {w \in Nat : \E f \in [0..w -> Nat] : Doubles(f, w)}
<1>1. 0 \in S
  <2> DEFINE g == [j \in 0..0 |-> 1]
  <2>1. g \in [0..0 -> Nat] /\ Doubles(g, 0)
    BY DEF Doubles
  <2> QED  BY <2>1
<1>2. ASSUME NEW w \in Nat, w \in S PROVE w + 1 \in S
  <2>1. PICK f \in [0..w -> Nat] : Doubles(f, w)
    BY <1>2
  <2> DEFINE g == [j \in 0..(w + 1) |-> IF j = w + 1 THEN 2 * f[w] ELSE f[j]]
  <2>2. g \in [0..(w + 1) -> Nat]
    BY <2>1
  <2>3. Doubles(g, w + 1)
    <3>1. \A j \in 0..w : g[j] = f[j]
      BY <2>1
    <3>2. g[w + 1] = 2 * f[w] /\ g[w] = f[w]
      BY <2>1
    <3> HIDE DEF g
    <3>3. g[0] = 1
      BY <2>1, <3>1 DEF Doubles
    <3>4. ASSUME NEW i \in 1..(w + 1) PROVE g[i] = 2 * g[i - 1]
      <4>1. CASE i = w + 1
        BY <3>2, <4>1
      <4>2. CASE i # w + 1
        <5>1. i \in 1..w /\ i \in 0..w /\ i - 1 \in 0..w
          BY <4>2
        <5> QED  BY <2>1, <3>1, <5>1 DEF Doubles
      <4> QED  BY <4>1, <4>2
    <3>5. \A i \in 1..(w + 1) : g[i] = 2 * g[i - 1]
      BY <3>4
    <3> QED  BY <3>3, <3>5, Zenon DEF Doubles
  <2> HIDE DEF g
  <2>4. \E h \in [0..(w + 1) -> Nat] : Doubles(h, w + 1)
    BY <2>2, <2>3, Zenon
  <2>5. w + 1 \in Nat
    OBVIOUS
  <2> QED  BY <2>4, <2>5, Zenon
<1> QED  BY <1>1, <1>2, SetInduction

LEMMA DoublingIsUnique ==
  ASSUME NEW w \in Nat, NEW k \in Nat, NEW f, NEW g, Doubles(f, w), Doubles(g, k)
  PROVE  \A i \in Nat : i <= w /\ i <= k => f[i] = g[i]
<1> DEFINE S == {i \in Nat : i <= w /\ i <= k => f[i] = g[i]}
<1>1. 0 \in S
  BY DEF Doubles
<1>2. ASSUME NEW i \in Nat, i \in S PROVE i + 1 \in S
  <2> SUFFICES ASSUME i + 1 <= w, i + 1 <= k PROVE f[i + 1] = g[i + 1]
    OBVIOUS
  <2>1. f[i] = g[i] /\ i + 1 \in 1..w /\ i + 1 \in 1..k /\ i + 1 - 1 = i
    BY <1>2
  <2> QED  BY <2>1 DEF Doubles
<1> QED  BY <1>1, <1>2, SetInduction

LEMMA Pow2Is ==
  /\ Pow2[0] = 1
  /\ \A i \in Nat : Pow2[i] \in Nat \ {0} /\ Pow2[i + 1] = 2 * Pow2[i]
<1> DEFINE Up == [w \in Nat |-> CHOOSE f \in [0..w -> Nat] : Doubles(f, w)]
           P == [w \in Nat |-> Up[w][w]]
<1>1. \A w \in Nat : Up[w] \in [0..w -> Nat] /\ Doubles(Up[w], w)
  <2> TAKE w \in Nat
  <2>1. Up[w] = CHOOSE f \in [0..w -> Nat] : Doubles(f, w)
    OBVIOUS
  <2> HIDE DEF Up
  <2>2. \E f \in [0..w -> Nat] : Doubles(f, w)
    BY DoublingExists
  <2> QED  BY <2>1, <2>2
<1> HIDE DEF Up
<1>2. \A w \in Nat : P[w] \in Nat /\ P[w] = Up[w][w]
  BY <1>1
<1>3. P[0] = 1
  BY <1>1, <1>2 DEF Doubles
<1>4. ASSUME NEW w \in Nat PROVE P[w + 1] = 2 * P[w]
  <2> DEFINE f == Up[w]
             g == Up[w + 1]
  <2>1. Doubles(f, w) /\ Doubles(g, w + 1)
    BY <1>1, w + 1 \in Nat
  <2>2. P[w] = f[w] /\ P[w + 1] = g[w + 1]
    BY <1>2, w + 1 \in Nat
  <2> HIDE DEF f, g, P
  <2>3. f[w] = g[w]
    BY <2>1, DoublingIsUnique
  <2>4. g[w + 1] = 2 * g[w]
    BY <2>1 DEF Doubles
  <2> QED  BY <2>2, <2>3, <2>4
<1>5. P = [i \in Nat |-> IF i = 0 THEN 1 ELSE 2 * P[i - 1]]
  <2>1. ASSUME NEW i \in Nat PROVE P[i] = IF i = 0 THEN 1 ELSE 2 * P[i - 1]
    <3>1. CASE i = 0
      BY <1>3, <3>1
    <3>2. CASE i # 0
      <4>1. i - 1 \in Nat /\ i - 1 + 1 = i
        BY <3>2
      <4> QED  BY <1>4, <3>2, <4>1
    <3> QED  BY <3>1, <3>2
  <2>2. P = [i \in Nat |-> P[i]]
    OBVIOUS
  <2> HIDE DEF P
  <2> QED  BY <2>1, <2>2, Zenon
<1> HIDE DEF P
<1>6. Pow2 = [i \in Nat |-> IF i = 0 THEN 1 ELSE 2 * Pow2[i - 1]]
  BY <1>5 DEF Pow2
<1> DEFINE S == {i \in Nat : Pow2[i] \in Nat \ {0}}
<1>7. Pow2[0] = 1
  BY <1>6
<1>8. ASSUME NEW i \in Nat PROVE Pow2[i + 1] = 2 * Pow2[i]
  BY <1>6
<1>9. 0 \in S /\ \A i \in Nat : i \in S => i + 1 \in S
  BY <1>7, <1>8
<1>10. Nat \subseteq S
  BY <1>9, SetInduction
<1> QED  BY <1>7, <1>8, <1>10

LEMMA Pow2Grows ==
  \A i, j \in Nat : /\ i < j => Pow2[i] < Pow2[j]
                    /\ i <= j => Pow2[i] <= Pow2[j]
                    /\ Pow2[i] < Pow2[j] => i < j
                    /\ Pow2[i] <= Pow2[j] => i <= j
                    /\ Pow2[i] = Pow2[j] => i = j
<1> DEFINE S == {d \in Nat : \A i \in Nat : Pow2[i] < Pow2[i + d + 1]}
<1>1. 0 \in S
  BY Pow2Is
<1>2. ASSUME NEW d \in Nat, d \in S PROVE d + 1 \in S
  <2> SUFFICES ASSUME NEW i \in Nat PROVE Pow2[i] < Pow2[i + (d + 1) + 1]
    OBVIOUS
  <2>1. i + d + 1 \in Nat /\ i + (d + 1) + 1 = (i + d + 1) + 1 /\ Pow2[i] < Pow2[i + d + 1]
    BY <1>2
  <2>2. /\ Pow2[(i + d + 1) + 1] = 2 * Pow2[i + d + 1]
        /\ Pow2[i + d + 1] \in Nat \ {0} /\ Pow2[i] \in Nat
    BY <2>1, Pow2Is
  <2> QED  BY <2>1, <2>2
<1>3. Nat \subseteq S
  BY <1>1, <1>2, SetInduction
<1>4. ASSUME NEW i \in Nat, NEW j \in Nat, i < j PROVE Pow2[i] < Pow2[j]
  <2>1. j - i - 1 \in Nat /\ i + (j - i - 1) + 1 = j
    BY <1>4
  <2>2. Pow2[i] < Pow2[i + (j - i - 1) + 1]
    BY <1>3, <2>1
  <2> QED  BY <2>1, <2>2
<1> HIDE DEF S
<1> QED  BY <1>4, Pow2Is

LEMMA Pow2Above == \A i \in Nat : i < Pow2[i]
<1> DEFINE S == {i \in Nat : i < Pow2[i]}
<1>1. 0 \in S /\ \A i \in Nat : i \in S => i + 1 \in S
  BY Pow2Is
<1> QED  BY <1>1, SetInduction

LEMMA LogIs ==
  ASSUME NEW h \in Nat \ {0}
  PROVE  /\ Log2(h) \in 0..h /\ Pow2[Log2(h)] <= h /\ h < Pow2[Log2(h) + 1]
         /\ \A i \in Nat : Pow2[i] <= h /\ h < Pow2[i + 1] => Log2(h) = i
<1> DEFINE A == {i \in Nat : h < Pow2[i + 1]}
           Is(i) == Pow2[i] <= h /\ h < Pow2[i + 1]
<1>1. A \in SUBSET Nat /\ h \in A
  BY Pow2Above, Pow2Is
<1>2. PICK x \in A : \A y \in A : x <= y
  BY <1>1, LeastElement
<1>3. Pow2[x] <= h
  <2>1. CASE x = 0
    BY <2>1, Pow2Is
  <2>2. CASE x # 0
    <3>1. x - 1 \in Nat /\ x - 1 + 1 = x /\ x - 1 \notin A
      BY <1>2, <2>2
    <3> QED  BY <3>1, Pow2Is
  <2> QED  BY <2>1, <2>2
<1>4. x \in 0..h /\ Is(x)
  BY <1>2, <1>3, Pow2Above
<1>5. Log2(h) \in 0..h /\ Is(Log2(h))
  BY <1>4 DEF Log2
<1>6. ASSUME NEW i \in Nat, NEW j \in Nat, Is(i), Is(j) PROVE ~(i < j)
  <2> SUFFICES ASSUME i < j PROVE FALSE
    OBVIOUS
  <2>1. Pow2[i + 1] <= Pow2[j]
    BY Pow2Grows
  <2> QED  BY <1>6, <2>1, Pow2Is
<1>7. ASSUME NEW i \in Nat, Is(i) PROVE Log2(h) = i
  <2>1. Log2(h) \in Nat
    BY <1>5
  <2>2. ~(i < Log2(h)) /\ ~(Log2(h) < i)
    BY <1>5, <1>6, <1>7, <2>1
  <2> QED  BY <2>1, <2>2
<1> QED  BY <1>5, <1>7

LEMMA LogOfPow2 == \A i \in Nat : Log2(Pow2[i]) = i
<1> TAKE i \in Nat
<1>1. Pow2[i] \in Nat \ {0} /\ Pow2[i] <= Pow2[i] /\ Pow2[i] < Pow2[i + 1]
  BY Pow2Is
<1> QED  BY <1>1, LogIs

(***************************************************************************)
(* Remainders.                                                             *)
(***************************************************************************)

LEMMA ModIs ==
  ASSUME NEW k \in Nat, NEW d \in Nat \ {0}
  PROVE  /\ k % d \in 0..(d - 1) /\ k \div d \in Nat /\ k = d * (k \div d) + (k % d)
         /\ k % d <= k /\ (k < d => k % d = k)
<1>1. k % d \in 0..(d - 1) /\ k \div d \in Nat
  OBVIOUS
<1>2. k = d * (k \div d) + (k % d)
  OBVIOUS
<1>3. k % d <= k
  <2>1. d * (k \div d) >= 0
    BY <1>1
  <2> QED  BY <1>1, <1>2, <2>1
<1>4. k < d => k % d = k
  OBVIOUS
<1> QED  BY <1>1, <1>2, <1>3, <1>4

LEMMA ModIsUnique ==
  ASSUME NEW d \in Nat \ {0}, NEW q \in Nat, NEW r \in 0..(d - 1)
  PROVE  (d * q + r) % d = r /\ (d * q + r) \div d = q
<1> DEFINE k == d * q + r
<1>1. k \in Nat
  OBVIOUS
<1>2. PICK p \in Nat, s \in 0..(d - 1) : k = d * p + s /\ p = k \div d /\ s = k % d
  BY <1>1, ModIs
<1>3. ASSUME NEW x \in Nat, NEW y \in Nat, NEW u \in 0..(d - 1), NEW v \in 0..(d - 1), x < y
      PROVE  d * x + u # d * y + v
  <2>1. PICK z \in Nat : y = x + 1 + z
    <3>1. y - x - 1 \in Nat /\ y = x + 1 + (y - x - 1)
      BY <1>3
    <3> QED  BY <3>1
  <2>2. d * y = d * x + d + d * z
    BY <2>1
  <2>3. d * z \in Nat /\ d * x \in Nat
    OBVIOUS
  <2> QED  BY <2>2, <2>3
<1>4. ~(p < q) /\ ~(q < p)
  BY <1>2, <1>3
<1>5. p = q
  BY <1>4
<1> QED  BY <1>2, <1>5

\* A remainder has one bit more under twice the divisor.
LEMMA ModDouble ==
  ASSUME NEW k \in Nat, NEW d \in Nat \ {0}
  PROVE  k % (2 * d) = (k % d) + d * ((k \div d) % 2)
<1>1. PICK q \in Nat, r \in 0..(d - 1) : k = d * q + r /\ q = k \div d /\ r = k % d
  BY ModIs
<1>2. PICK p \in Nat, b \in 0..1 : q = 2 * p + b /\ b = q % 2
  BY ModIs
<1>3. d * b \in 0..d
  <2>1. CASE b = 0
    BY <2>1
  <2>2. CASE b = 1
    BY <2>2
  <2> QED  BY <2>1, <2>2
<1>4. (d * b) + r \in 0..((2 * d) - 1)
  BY <1>3
<1>5. k = (2 * d) * p + ((d * b) + r)
  <2>1. d * q = (2 * d) * p + (d * b)
    BY <1>2
  <2> QED  BY <1>1, <2>1
<1>6. 2 * d \in Nat \ {0}
  OBVIOUS
<1>7. k % (2 * d) = (d * b) + r
  BY <1>4, <1>5, <1>6, ModIsUnique
<1>8. (k \div d) % 2 = b /\ k % d = r
  BY <1>1, <1>2
<1>9. d * ((k \div d) % 2) = d * b
  BY <1>8
<1>10. (d * b) + r = r + (d * b)
  BY <1>3
<1> QED  BY <1>7, <1>8, <1>9, <1>10, Zenon

\* The low bits of the low bits are the low bits.
LEMMA ModTwice ==
  \A i, j, k \in Nat : j <= i => (k % Pow2[i]) % Pow2[j] = k % Pow2[j]
<1> SUFFICES ASSUME NEW j \in Nat
             PROVE  \A i \in Nat : j <= i => \A k \in Nat : (k % Pow2[i]) % Pow2[j] = k % Pow2[j]
  OBVIOUS
<1> DEFINE S == {i \in Nat : j <= i => \A k \in Nat : (k % Pow2[i]) % Pow2[j] = k % Pow2[j]}
<1>0. ASSUME NEW i \in Nat, NEW k \in Nat
      PROVE  Pow2[i] \in Nat \ {0} /\ k % Pow2[i] \in 0..(Pow2[i] - 1)
  <2>1. Pow2[i] \in Nat \ {0}
    BY Pow2Is
  <2> QED  BY <2>1, ModIs
<1>1. ASSUME NEW k \in Nat PROVE (k % Pow2[j]) % Pow2[j] = k % Pow2[j]
  <2>1. PICK d \in Nat \ {0} : d = Pow2[j]
    BY Pow2Is
  <2>2. PICK r \in 0..(d - 1) : r = k % d
    BY ModIs
  <2>3. r \in Nat /\ r < d
    BY <2>1, <2>2
  <2>4. r % d = r
    BY <2>3, ModIs
  <2> QED  BY <2>1, <2>2, <2>4, Zenon
<1>2. 0 \in S
  BY <1>1
<1>3. ASSUME NEW i \in Nat, i \in S PROVE i + 1 \in S
  <2> SUFFICES ASSUME j <= i + 1, NEW k \in Nat
               PROVE  (k % Pow2[i + 1]) % Pow2[j] = k % Pow2[j]
    OBVIOUS
  <2>1. CASE j = i + 1
    BY <1>1, <2>1
  <2>2. CASE j # i + 1
    <3> DEFINE d == Pow2[i]
               r == k % Pow2[i + 1]
    <3>1. j <= i /\ d \in Nat \ {0} /\ Pow2[i + 1] = 2 * d
      BY <2>2, Pow2Is
    <3>2. r = (k % d) + d * ((k \div d) % 2) /\ k % d \in 0..(d - 1) /\ (k \div d) % 2 \in 0..1
      <4>1. k \div d \in Nat /\ k % d \in 0..(d - 1)
        BY <3>1, ModIs
      <4>2. (k \div d) % 2 \in 0..1
        BY <4>1
      <4>3. k % (2 * d) = (k % d) + d * ((k \div d) % 2)
        BY <3>1, ModDouble
      <4> QED  BY <3>1, <4>1, <4>2, <4>3
    <3>3. r \in Nat
      BY <1>0
    <3>4. r % d = k % d
      <4>1. PICK e, q, x, y : e = d /\ q = (k \div d) % 2 /\ x = k % d /\ y = r
        OBVIOUS
      <4> HIDE DEF r, d
      <4>2. e \in Nat \ {0} /\ q \in Nat /\ x \in 0..(e - 1) /\ y = x + e * q
        BY <3>1, <3>2, <4>1
      <4>3. (e * q + x) % e = x
        BY <4>2, ModIsUnique
      <4>4. e * q \in Nat
        BY <4>2
      <4>5. y = e * q + x
        BY <4>2, <4>4
      <4> QED  BY <4>1, <4>3, <4>5, Zenon
    <3>5. k % d \in Nat
      BY <3>2
    <3>6. (r % d) % Pow2[j] = r % Pow2[j] /\ (k % d) % Pow2[j] = k % Pow2[j]
      BY <1>3, <3>1, <3>3
    <3> QED  BY <3>4, <3>6
  <2> QED  BY <2>1, <2>2
<1> QED  BY <1>2, <1>3, SetInduction

(***************************************************************************)
(* The buckets a key passes through while the table grows: the remainders  *)
(* by powers of two.  Each one but 0 and 1 is split from the one before.   *)
(***************************************************************************)

OnPath(b, k) == \E i \in Nat \ {0} : b = k % Pow2[i]

LEMMA PathIsNat ==
  ASSUME NEW k \in Nat, NEW i \in Nat
  PROVE  /\ Pow2[i] \in Nat \ {0} /\ k % Pow2[i] \in Nat /\ k % Pow2[i] < Pow2[i]
         /\ k % Pow2[i] <= k /\ (k < Pow2[i] => k % Pow2[i] = k)
<1>1. PICK d \in Nat \ {0} : d = Pow2[i]
  BY Pow2Is
<1>2. k % d \in 0..(d - 1) /\ k % d <= k /\ (k < d => k % d = k)
  BY ModIs
<1>3. k % d \in Nat /\ k % d < d
  BY <1>2
<1> QED  BY <1>1, <1>2, <1>3

LEMMA PathGrows ==
  ASSUME NEW k \in Nat, NEW i \in Nat, NEW j \in Nat, j <= i
  PROVE  k % Pow2[j] <= k % Pow2[i]
<1>1. PICK r \in Nat : r = k % Pow2[i]
  BY PathIsNat
<1>2. r % Pow2[j] = k % Pow2[j]
  BY <1>1, ModTwice
<1>3. r % Pow2[j] <= r
  BY PathIsNat
<1> QED  BY <1>1, <1>2, <1>3

LEMMA OnOwnPath == \A b \in Nat : OnPath(b, b)
<1> TAKE b \in Nat
<1>1. b + 1 \in Nat \ {0} /\ b < Pow2[b + 1]
  BY Pow2Above, Pow2Is
<1>2. b = b % Pow2[b + 1]
  BY <1>1, PathIsNat
<1> QED  BY <1>1, <1>2 DEF OnPath

LEMMA OnPathIsNat ==
  ASSUME NEW k \in Nat, NEW b, OnPath(b, k)
  PROVE  b \in Nat /\ b <= k
  BY PathIsNat DEF OnPath

LEMMA EarlierOnPath ==
  ASSUME NEW k \in Nat, NEW b, NEW c, OnPath(b, k), OnPath(c, k), b <= c
  PROVE  OnPath(b, c)
<1>1. PICK i \in Nat \ {0} : b = k % Pow2[i]
  BY DEF OnPath
<1>2. PICK j \in Nat \ {0} : c = k % Pow2[j]
  BY DEF OnPath
<1>3. b \in Nat /\ c \in Nat
  BY OnPathIsNat
<1>4. CASE i <= j
  <2>1. b = c % Pow2[i]
    BY <1>1, <1>2, <1>4, ModTwice
  <2> QED  BY <2>1 DEF OnPath
<1>5. CASE ~(i <= j)
  <2>1. j <= i
    BY <1>5
  <2>2. c <= b
    BY <1>1, <1>2, <2>1, PathGrows
  <2>3. b = c
    BY <1>3, <2>2
  <2> QED  BY <1>3, <2>3, OnOwnPath
<1> QED  BY <1>4, <1>5

LEMMA PathOfPath ==
  ASSUME NEW k \in Nat, NEW b, NEW c, OnPath(b, c), OnPath(c, k)
  PROVE  OnPath(b, k)
<1>1. c \in Nat
  BY OnPathIsNat
<1>2. PICK i \in Nat \ {0} : b = c % Pow2[i]
  BY DEF OnPath
<1>3. PICK j \in Nat \ {0} : c = k % Pow2[j]
  BY DEF OnPath
<1>4. CASE i <= j
  <2>1. b = k % Pow2[i]
    BY <1>2, <1>3, <1>4, ModTwice
  <2> QED  BY <2>1 DEF OnPath
<1>5. CASE ~(i <= j)
  <2>1. j <= i
    BY <1>5
  <2>2. Pow2[j] <= Pow2[i] /\ c < Pow2[j] /\ Pow2[i] \in Nat /\ Pow2[j] \in Nat
    BY <1>3, <2>1, Pow2Grows, PathIsNat
  <2>3. c < Pow2[i]
    BY <1>1, <2>2
  <2>4. b = c
    BY <1>1, <1>2, <2>3, PathIsNat
  <2> QED  BY <2>4
<1> QED  BY <1>4, <1>5

\* A bucket b below Pow2[i] on the path of k comes no later than k % Pow2[i].
LEMMA BelowOnPath ==
  ASSUME NEW k \in Nat, NEW b, OnPath(b, k), NEW i \in Nat, b < Pow2[i]
  PROVE  b <= k % Pow2[i]
<1>1. PICK j \in Nat \ {0} : b = k % Pow2[j]
  BY DEF OnPath
<1>2. CASE j <= i
  BY <1>1, <1>2, PathGrows
<1>3. CASE ~(j <= i)
  <2>1. b \in Nat /\ i <= j
    BY <1>3, OnPathIsNat
  <2>2. b % Pow2[i] = k % Pow2[i]
    BY <1>1, <2>1, ModTwice
  <2>3. b % Pow2[i] = b
    BY <2>1, PathIsNat
  <2> QED  BY <2>1, <2>2, <2>3
<1> QED  BY <1>2, <1>3

LEMMA ParentIs ==
  ASSUME NEW h \in Nat, h > 1
  PROVE  /\ Parent(h) \in Nat /\ Parent(h) < h /\ OnPath(Parent(h), h)
         /\ \A a : OnPath(a, h) /\ a # h => OnPath(a, Parent(h)) /\ a <= Parent(h)
         /\ FullMask(h) + 1 = Pow2[Log2(h) + 1]
<1> DEFINE L == Log2(h)
<1>1. L \in Nat /\ Pow2[L] <= h /\ h < Pow2[L + 1]
  BY LogIs
<1> HIDE DEF L
<1>2. L # 0
  <2>1. Pow2[0 + 1] = 2
    BY Pow2Is
  <2> QED  BY <1>1, <2>1
<1>3. h % Pow2[L] \in Nat /\ h % Pow2[L] < Pow2[L] /\ Pow2[L] \in Nat
  BY <1>1, PathIsNat
<1>4. Parent(h) = h % Pow2[L]
  BY DEF Parent, L
<1>5. Parent(h) \in Nat /\ Parent(h) < h
  BY <1>1, <1>3, <1>4
<1>6. OnPath(Parent(h), h)
  BY <1>1, <1>2, <1>4 DEF OnPath
<1>7. ASSUME NEW a, OnPath(a, h), a # h
      PROVE  OnPath(a, Parent(h)) /\ a <= Parent(h)
  <2>1. PICK i \in Nat \ {0} : a = h % Pow2[i]
    BY <1>7 DEF OnPath
  <2>2. i <= L
    <3>1. SUFFICES ASSUME L + 1 <= i PROVE FALSE
      BY <1>1
    <3>2. Pow2[L + 1] <= Pow2[i] /\ Pow2[i] \in Nat /\ Pow2[L + 1] \in Nat
      BY <1>1, <3>1, Pow2Grows, Pow2Is
    <3>3. h < Pow2[i]
      BY <1>1, <3>2
    <3> QED  BY <1>7, <2>1, <3>3, PathIsNat
  <2>3. a = Parent(h) % Pow2[i]
    BY <1>1, <1>4, <2>1, <2>2, ModTwice
  <2>4. OnPath(a, Parent(h))
    BY <2>1, <2>3 DEF OnPath
  <2> QED  BY <1>5, <2>4, OnPathIsNat
<1>8. FullMask(h) + 1 = Pow2[L + 1]
  <2>1. FullMask(h) = Pow2[L + 1] - 1
    BY DEF FullMask, L
  <2>2. Pow2[L + 1] \in Nat
    BY <1>1, Pow2Is
  <2> QED  BY <2>1, <2>2
<1> QED  BY <1>5, <1>6, <1>7, <1>8 DEF L

\* Which keys move to a bucket h: those whose path it is on.
LEMMA MovesIfOnPath ==
  ASSUME NEW h \in Nat, h > 1, NEW k \in Nat
  PROVE  (Masked(k, FullMask(h)) = h) <=> OnPath(h, k)
<1> DEFINE L == Log2(h)
<1>1. L \in Nat /\ Pow2[L] <= h /\ h < Pow2[L + 1]
  BY LogIs
<1>2. FullMask(h) + 1 = Pow2[L + 1]
  BY ParentIs
<1> HIDE DEF L
<1>3. Masked(k, FullMask(h)) = k % Pow2[L + 1]
  BY <1>2 DEF Masked
<1>4. ASSUME OnPath(h, k) PROVE k % Pow2[L + 1] = h
  <2>1. PICK i \in Nat \ {0} : h = k % Pow2[i]
    BY <1>4 DEF OnPath
  <2>2. h % Pow2[L + 1] = h
    <3>1. PICK j \in Nat : j = L + 1 /\ h < Pow2[j]
      BY <1>1
    <3>2. h % Pow2[j] = h
      BY <3>1, PathIsNat
    <3> QED  BY <3>1, <3>2, Zenon
  <2>3. L + 1 <= i
    <3>1. SUFFICES ASSUME i <= L PROVE FALSE
      BY <1>1
    <3>2. Pow2[i] <= Pow2[L] /\ h < Pow2[i] /\ Pow2[i] \in Nat /\ Pow2[L] \in Nat
      BY <1>1, <2>1, <3>1, Pow2Grows, PathIsNat
    <3> QED  BY <1>1, <3>2
  <2>4. h % Pow2[L + 1] = k % Pow2[L + 1]
    BY <1>1, <2>1, <2>3, ModTwice
  <2> QED  BY <2>2, <2>4
<1>5. L + 1 \in Nat \ {0}
  BY <1>1
<1>6. ASSUME k % Pow2[L + 1] = h PROVE OnPath(h, k)
  BY <1>5, <1>6 DEF OnPath
<1> QED  BY <1>3, <1>4, <1>6

\* What check_rehashing_collision looks at: the first bucket on the path of h
\* after the one of the old mask.
Following(p, b, k) == \A c : OnPath(c, k) /\ b < c => OnPath(p, c)

LEMMA NextApplicableIs ==
  ASSUME NEW k \in Nat, NEW a \in Nat \ {0}, NEW b \in Nat, a < b,
         k % Pow2[a] # k % Pow2[b]
  PROVE  \E p \in Nat : /\ p = NextApplicable(k, Pow2[a] - 1)
                        /\ p < Pow2[b]
                        /\ OnPath(p, k)
                        /\ Following(p, k % Pow2[a], k)
<1> DEFINE IsSet(i) == Pow2[i] > Pow2[a] - 1 /\ (k \div Pow2[i]) % 2 = 1
           A == {i \in Nat : IsSet(i)}
           Bit(i) == i \in 0..k /\ IsSet(i) /\ \A j \in 0..(i - 1) : ~IsSet(j)
<1>1. ASSUME NEW i \in Nat
      PROVE  /\ Pow2[i] > Pow2[a] - 1 <=> a <= i
             /\ (k \div Pow2[i]) % 2 # 1 => k % Pow2[i + 1] = k % Pow2[i]
             /\ (k \div Pow2[i]) % 2 = 1 => i \in 0..k
  <2>1. PICK d \in Nat \ {0} : d = Pow2[i] /\ Pow2[i + 1] = 2 * d /\ i < d
    BY Pow2Is, Pow2Above
  <2>2. Pow2[i] > Pow2[a] - 1 <=> a <= i
    <3>1. Pow2[a] \in Nat
      BY Pow2Is
    <3>2. Pow2[i] > Pow2[a] - 1 <=> Pow2[a] <= Pow2[i]
      BY <2>1, <3>1
    <3>3. Pow2[a] <= Pow2[i] <=> a <= i
      BY Pow2Grows
    <3> QED  BY <3>2, <3>3
  <2>3. PICK q \in Nat, r \in 0..(d - 1) : q = k \div d /\ r = k % d /\ k = d * q + r
    <3>1. /\ k \div d \in Nat /\ k % d \in 0..(d - 1)
          /\ k = d * (k \div d) + (k % d)
      BY ModIs
    <3> QED  BY <3>1, Zenon
  <2>4. PICK bt \in 0..1 : bt = q % 2
    BY ModIs
  <2>5. k % (2 * d) = (k % d) + d * ((k \div d) % 2)
    BY ModDouble
  <2>6. k % (2 * d) = r + d * bt
    BY <2>3, <2>4, <2>5, Zenon
  <2>7. ASSUME (k \div d) % 2 # 1 PROVE k % (2 * d) = k % d
    <3>1. bt = 0
      BY <2>3, <2>4, <2>7
    <3>2. d * bt = 0 /\ r + 0 = r
      BY <3>1
    <3> QED  BY <2>3, <2>6, <3>2, Zenon
  <2>8. ASSUME (k \div d) % 2 = 1 PROVE i \in 0..k
    <3>1. q # 0
      <4>1. 0 % 2 = 0
        OBVIOUS
      <4> QED  BY <2>3, <2>4, <2>8, <4>1
    <3>2. d * q >= d
      BY <3>1
    <3>3. d * q \in Nat
      OBVIOUS
    <3> QED  BY <2>1, <2>3, <3>2, <3>3
  <2> QED  BY <2>1, <2>2, <2>7, <2>8
<1>2. ASSUME NEW c \in Nat, a <= c, \A i \in a..(c - 1) : i \notin A
      PROVE  k % Pow2[c] = k % Pow2[a]
  <2> DEFINE S == {i \in Nat : a + i <= c => k % Pow2[a + i] = k % Pow2[a]}
  <2>1. 0 \in S
    OBVIOUS
  <2>2. ASSUME NEW i \in Nat, i \in S PROVE i + 1 \in S
    <3> SUFFICES ASSUME a + (i + 1) <= c PROVE k % Pow2[a + (i + 1)] = k % Pow2[a]
      OBVIOUS
    <3>1. /\ a + i \in Nat /\ a + i \in a..(c - 1) /\ a + (i + 1) = (a + i) + 1
          /\ a <= a + i /\ k % Pow2[a + i] = k % Pow2[a]
      BY <2>2
    <3>2. (k \div Pow2[a + i]) % 2 # 1
      BY <1>1, <1>2, <3>1
    <3> QED  BY <1>1, <3>1, <3>2
  <2>3. c - a \in Nat /\ a + (c - a) = c
    BY <1>2
  <2>4. c - a \in S
    BY <2>1, <2>2, <2>3, SetInduction
  <2> QED  BY <2>3, <2>4
<1>3. PICK i \in a..(b - 1) : i \in A
  BY <1>2
<1>4. PICK bit \in A : \A j \in A : bit <= j
  <2>1. A \in SUBSET Nat /\ A # {}
    BY <1>3
  <2> HIDE DEF A
  <2> QED  BY <2>1, LeastElement
<1>5. Bit(bit)
  <2>1. \A j \in 0..(bit - 1) : j \notin A
    BY <1>4
  <2> QED  BY <1>1, <1>4, <2>1
<1>6. ASSUME NEW j, Bit(j) PROVE j = bit
  <2>1. j \in A
    BY <1>6
  <2>2. bit <= j /\ ~(bit < j)
    BY <1>4, <1>5, <1>6, <2>1
  <2> QED  BY <1>4, <2>1, <2>2
<1>7. NextApplicable(k, Pow2[a] - 1) = k % Pow2[bit + 1]
  <2>1. bit = CHOOSE j \in 0..k : IsSet(j) /\ \A x \in 0..(j - 1) : ~IsSet(x)
    BY <1>5, <1>6
  <2> QED  BY <2>1 DEF NextApplicable
<1> DEFINE p == k % Pow2[bit + 1]
<1>8. bit \in Nat /\ a <= bit /\ bit + 1 <= b /\ bit + 1 \in Nat \ {0}
  BY <1>1, <1>3, <1>4
<1>9. k % Pow2[bit] = k % Pow2[a]
  <2>1. \A j \in a..(bit - 1) : j \notin A
    BY <1>4
  <2> QED  BY <1>2, <1>8, <2>1
<1> HIDE DEF A, Bit, IsSet
<1>10. p \in Nat /\ p < Pow2[b]
  <2>1. p \in Nat /\ p < Pow2[bit + 1] /\ Pow2[bit + 1] <= Pow2[b]
    BY <1>8, PathIsNat, Pow2Grows
  <2>2. Pow2[bit + 1] \in Nat /\ Pow2[b] \in Nat
    BY <1>8, Pow2Is
  <2> QED  BY <2>1, <2>2
<1>11. OnPath(p, k)
  BY <1>8 DEF OnPath
<1>12. ASSUME NEW c, OnPath(c, k), k % Pow2[a] < c PROVE OnPath(p, c)
  <2>1. PICK j \in Nat \ {0} : c = k % Pow2[j]
    BY <1>12 DEF OnPath
  <2>2. ~(j <= bit)
    <3>1. SUFFICES ASSUME j <= bit PROVE FALSE
      OBVIOUS
    <3>2. c <= k % Pow2[bit]
      BY <1>8, <2>1, <3>1, PathGrows
    <3>3. c \in Nat /\ k % Pow2[a] \in Nat
      BY <2>1, PathIsNat
    <3> QED  BY <1>9, <1>12, <3>2, <3>3
  <2>3. bit + 1 <= j
    BY <1>8, <2>2
  <2>4. p <= c
    BY <1>8, <2>1, <2>3, PathGrows
  <2> QED  BY <1>11, <1>12, <2>4, EarlierOnPath
<1> QED  BY <1>7, <1>10, <1>11, <1>12 DEF Following

(***************************************************************************)
(* The invariant.                                                          *)
(***************************************************************************)

\* Where a thread has the lock of its top bucket, where it is about to get it,
\* and where it has no bucket at all.
Within  == {"rehash", "upgrade", "upgrading", "search", "again", "race",
            "collision", "link", "item"}
Before  == {"look", "try", "lock", "reacquire"}
Outside == {"idle", "grow", "release", "delete", "return"}

\* Where it is past rehashing.
Rehashed == {"search", "again", "race", "collision", "link", "item"}

Types ==
  /\ mask \in Nat /\ claimed \subseteq Nat
  /\ list \in [Bucket -> (SUBSET Node) \cup {RehashReq}]
  /\ lock \in [Bucket -> [readers : SUBSET Thread, writer : Thread \cup {None},
                          upgrading : Thread \cup {None}]]
  /\ nodeKey \in [Node -> Key \cup {None}]
  /\ item \in [Node -> Thread \cup {None}]
  /\ acc \in [Thread -> Node \cup {None}]
  /\ pc \in [Thread -> Within \cup Before \cup Outside]
  /\ call \in [Thread -> CallSet \cup {None}]
  /\ m \in [Thread -> Nat]
  /\ stack \in [Thread -> Seq(Bucket)]
  /\ n \in [Thread -> Node \cup {None}]
  /\ tmp \in [Thread -> Node \cup {None}]
  /\ probe \in [Thread -> Nat \cup {None}]
  /\ grow \in [Thread -> Nat]

Depth(t) == Len(stack[t])

\* The buckets of a thread: each the parent of the one before, the first one on
\* the path of the key, under the mask it knows until it looks for a race.
StackFits(t) ==
  /\ pc[t] \in Outside => stack[t] = <<>>
  /\ pc[t] \notin Outside => Depth(t) >= 1
  /\ pc[t] \in Rehashed => Depth(t) = 1
  /\ pc[t] = "rehash" => Depth(t) > 1
  /\ \A i \in 1..Depth(t) : stack[t][i] <= mask
  /\ \A i \in 1..(Depth(t) - 1) : stack[t][i] > 1 /\ stack[t][i + 1] = Parent(stack[t][i])
  /\ Depth(t) >= 1 => OnPath(stack[t][1], call[t].key)
  /\ Depth(t) >= 1 /\ pc[t] \notin {"collision", "link", "item"} =>
       stack[t][1] = Masked(call[t].key, m[t])

\* An insertion that found nothing, with its node.
Inserting(t) ==
  \/ pc[t] \in {"again", "link"}
  \/ pc[t] \in {"upgrade", "upgrading", "reacquire"} /\ Depth(t) = 1
  \/ pc[t] \in {"race", "collision"} /\ call[t].op = "insert"

\* What a thread has, by what it was asked and how far it is.
CallFits(t) ==
  /\ pc[t] = "idle" => call[t] = None
  /\ pc[t] # "idle" => call[t] \in CallSet
  /\ n[t] # None => pc[t] \in {"item", "delete"}
  /\ pc[t] \in {"item", "delete"} => n[t] # None
  /\ grow[t] # 0 => pc[t] \in {"item", "grow"}
  /\ grow[t] # 0 /\ pc[t] = "item" => call[t].answer = "yes"
  /\ tmp[t] # None => pc[t] \notin {"idle", "return"} /\ call[t].op = "insert"
  /\ Inserting(t) => call[t].op = "insert" /\ tmp[t] # None
  /\ pc[t] # "idle" /\ call[t].op = "erase" =>
       /\ pc[t] \notin {"again", "link", "item", "grow"}
       /\ pc[t] \in {"delete", "return"} => acc[t] = None
       /\ pc[t] \notin {"delete", "return"} => acc[t] # None
  /\ pc[t] # "idle" /\ call[t].op # "erase" =>
       /\ pc[t] \notin {"release", "delete"}
       /\ pc[t] \notin {"grow", "return"} => acc[t] = None
  /\ pc[t] \in (Within \cup Before) \ {"item"} => call[t].answer = "none"
  /\ pc[t] \in {"grow", "release", "delete", "return"} => call[t].answer # "none"
  /\ pc[t] = "item" /\ call[t].answer # "none" =>
       call[t].answer = "yes" /\ call[t].op = "insert"

\* A bucket's lock has one writer or any number of readers, one of which may be
\* upgrading.
LockFits(b) ==
  /\ lock[b].writer # None => lock[b].readers = {} /\ lock[b].upgrading = None
  /\ lock[b].upgrading # None => lock[b].upgrading \in lock[b].readers

\* How many buckets of its stack a thread has.
Held(t) == IF pc[t] \in Within THEN Depth(t) ELSE Depth(t) - 1

\* Where it has to be a writer.
Writes(t) ==
  \/ pc[t] \in {"again", "link"}
  \/ pc[t] \in {"race", "collision"} /\ call[t].op = "insert"
  \/ pc[t] \in Within /\ Depth(t) = 1 /\ call[t].op = "erase"
  \/ pc[t] = "item" /\ call[t].answer = "yes"

\* Stack and locks: what a thread is rehashing it has as a writer, and it has
\* no lock beyond those of its stack.
Locks(t) ==
  /\ \A i \in 1..(Depth(t) - 1) : lock[stack[t][i]].writer = t
  /\ pc[t] \in Within => lock[Top(t)].writer = t \/ t \in lock[Top(t)].readers
  /\ pc[t] \in {"upgrade", "upgrading"} => t \in lock[Top(t)].readers
  /\ Writes(t) => lock[Top(t)].writer = t
  /\ \A i, j \in 1..Held(t) : i # j => stack[t][i] # stack[t][j]
  /\ \A b \in Bucket :
       /\ lock[b].writer = t => \E i \in 1..Held(t) : stack[t][i] = b
       /\ t \in lock[b].readers => pc[t] \in Within /\ Top(t) = b
       /\ lock[b].upgrading = t => pc[t] = "upgrading"

\* What is rehashed is marked and still empty.
Marked(t) ==
  /\ pc[t] \in Within \cup {"lock", "reacquire"} => list[Top(t)] # RehashReq
  /\ \A i \in 1..(Depth(t) - 1) : list[stack[t][i]] = {}

\* A bucket that has got its nodes.
Complete(b) ==
  /\ b \in Bucket /\ list[b] # RehashReq
  /\ \A t \in Thread : \A i \in 1..(Depth(t) - 1) : stack[t][i] # b

\* The last complete bucket on the path of k.
IsHome(b, k) ==
  /\ Complete(b) /\ OnPath(b, k)
  /\ \A c \in Bucket : Complete(c) /\ OnPath(c, k) => c <= b

ListsFit ==
  /\ \A b \in Bucket : list[b] # RehashReq => b <= mask
  /\ \A b \in Bucket : b <= 1 => list[b] # RehashReq
  /\ \A b, c \in Bucket : Complete(c) /\ OnPath(b, c) => Complete(b)
  /\ \A b \in Bucket : list[b] # RehashReq =>
       \A i \in list[b] : nodeKey[i] # None /\ IsHome(b, nodeKey[i])
  /\ \A i, j \in Linked : nodeKey[i] = nodeKey[j] => i = j

\* The nodes that only thread t knows.
Private(t) == {i \in Node : \/ tmp[t] = i
                            \/ pc[t] = "release" /\ acc[t] = i
                            \/ pc[t] = "delete" /\ n[t] = i}

NodesFit(t) ==
  /\ \A i \in Private(t) : nodeKey[i] # None /\ i \notin Linked
  /\ \A u \in Thread : u # t => Private(t) \cap Private(u) = {}
  /\ acc[t] # None => /\ item[acc[t]] = t /\ nodeKey[acc[t]] # None
                      /\ pc[t] # "release" => acc[t] \in Linked
                      /\ pc[t] # "idle" /\ call[t].op = "erase" =>
                           nodeKey[acc[t]] = call[t].key
  /\ \A i \in Node : item[i] = t => acc[t] = i
  /\ tmp[t] # None => nodeKey[tmp[t]] = call[t].key
  /\ pc[t] = "item" => /\ n[t] \in list[Top(t)] /\ nodeKey[n[t]] = call[t].key
                       /\ call[t].answer = "yes" => item[n[t]] = None

\* What a thread knows of the bucket it has: its key is not there, the bucket to
\* look at is the next on the path, the bucket is the last one.
SearchFits(t) ==
  /\ \/ pc[t] \in {"race", "collision", "link"}
     \/ pc[t] \in {"upgrade", "upgrading"} /\ Depth(t) = 1
     => IF call[t].op = "erase" THEN acc[t] \notin list[Top(t)] ELSE Found(t) = {}
  /\ pc[t] = "collision" => /\ probe[t] \in Bucket
                            /\ OnPath(probe[t], call[t].key)
                            /\ Following(probe[t], Top(t), call[t].key)
  /\ pc[t] = "link" => IsHome(Top(t), call[t].key)

\* The masks there can be, and the segments claimed for them.
Masks == {1} \cup {Pow2[i] - 1 : i \in {j \in Nat : j >= 2 /\ j >= FirstBlock}}

GrowthFits ==
  /\ mask \in Masks /\ mask <= MaxMask
  /\ \A x \in Masks : x < mask => Log2(x + 1) \in claimed
  /\ \A k \in claimed : k \in Nat \ {0} /\ Pow2[k] <= MaxMask + 1
  /\ \A t \in Thread :
       /\ m[t] \in Masks /\ m[t] <= mask
       /\ grow[t] # 0 => /\ grow[t] = Log2(mask + 1) /\ grow[t] \in claimed
                         /\ Buckets(grow[t]) <= MaxMask + 1
                         /\ \A u \in Thread : grow[u] # 0 => u = t

HashMapInv ==
  /\ Types
  /\ GrowthFits
  /\ ListsFit
  /\ \A b \in Bucket : LockFits(b)
  /\ \A t \in Thread : /\ StackFits(t) /\ CallFits(t) /\ Locks(t) /\ Marked(t)
                       /\ NodesFit(t) /\ SearchFits(t)

(***************************************************************************)
(* What a step of one thread leaves as it is for the others.               *)
(***************************************************************************)

Others(t) ==
  \A u \in Thread : u # t =>
    /\ acc'[u] = acc[u] /\ pc'[u] = pc[u] /\ call'[u] = call[u] /\ m'[u] = m[u]
    /\ stack'[u] = stack[u] /\ n'[u] = n[u] /\ tmp'[u] = tmp[u]
    /\ probe'[u] = probe[u] /\ grow'[u] = grow[u]

Locked(b, u) == lock[b].writer = u \/ u \in lock[b].readers

LocksMine(t) ==
  \A b \in Bucket, u \in Thread : u # t =>
    /\ (lock'[b].writer = u <=> lock[b].writer = u)
    /\ (u \in lock'[b].readers <=> u \in lock[b].readers)
    /\ (lock'[b].upgrading = u <=> lock[b].upgrading = u)

ListsMine(t) ==
  \A b \in Bucket :
    /\ list[b] # RehashReq => list'[b] # RehashReq
    /\ \A u \in Thread : u # t /\ Locked(b, u) => list'[b] = list[b]

NodesMine(t) ==
  /\ \A i \in Node : nodeKey'[i] = nodeKey[i] \/ nodeKey[i] = None \/ i \in Private(t)
  /\ Linked' \subseteq Linked \cup Private(t)
  /\ \A i \in Linked : i \in Linked' \/ i = acc[t]
  /\ \A i \in Private(t)' : i \in Private(t) \/ nodeKey[i] = None \/ item[i] = t
  /\ \A i \in Node : \/ item'[i] = item[i]
                     \/ item[i] = t /\ item'[i] = None
                     \/ item[i] = None /\ item'[i] = t /\ pc[t] = "item" /\ i = n[t]

HomesMine(t) ==
  \A b \in Bucket, k \in Key : IsHome(b, k) => IsHome(b, k)' \/ Locked(b, t)

InvFor(u) == /\ StackFits(u) /\ CallFits(u) /\ Locks(u) /\ Marked(u)
             /\ NodesFit(u) /\ SearchFits(u)

LEMMA InvParts ==
  ASSUME HashMapInv
  PROVE  /\ Types /\ GrowthFits /\ ListsFit
         /\ \A b \in Bucket : LockFits(b)
         /\ \A u \in Thread : InvFor(u)
  BY DEF HashMapInv, InvFor

LEMMA Typed ==
  ASSUME Types, NEW u \in Thread
  PROVE  /\ Depth(u) \in Nat /\ \A i \in 1..Depth(u) : stack[u][i] \in Bucket
         /\ Depth(u) >= 1 => Top(u) \in Bucket /\ Top(u) = stack[u][Depth(u)]
         /\ \A b \in Bucket : b \in Nat /\ b <= MaxMask
         /\ \A b \in Bucket : /\ lock[b].readers \subseteq Thread
                              /\ lock[b].writer \in Thread \cup {None}
                              /\ lock[b].upgrading \in Thread \cup {None}
         /\ None \notin Thread /\ None \notin Node /\ None \notin Key
<1>1. stack[u] \in Seq(Bucket)
  BY DEF Types
<1>2. Len(stack[u]) \in Nat /\ \A i \in 1..Len(stack[u]) : stack[u][i] \in Bucket
  BY <1>1, LenProperties
<1>3. ASSUME NEW b \in Bucket
      PROVE  /\ b \in Nat /\ b <= MaxMask
             /\ lock[b] \in [readers : SUBSET Thread, writer : Thread \cup {None},
                             upgrading : Thread \cup {None}]
  BY HashMapAssumption DEF Types, Bucket
<1>4. None \notin Thread /\ None \notin Node /\ None \notin Key
  BY HashMapAssumption
<1>5. Depth(u) >= 1 => Top(u) \in Bucket /\ Top(u) = stack[u][Depth(u)]
  BY <1>2 DEF Depth, Top
<1> QED  BY <1>2, <1>3, <1>4, <1>5 DEF Depth

\* What a linked node is in.
LEMMA LinkedIs ==
  ASSUME NEW i
  PROVE  i \in Linked <=> \E b \in Bucket : list[b] # RehashReq /\ i \in list[b]
  BY DEF Linked

\* Two threads that have a bucket are both readers.
LEMMA Excluded ==
  ASSUME HashMapInv, NEW b \in Bucket, NEW t \in Thread, NEW u \in Thread, t # u,
         lock[b].writer = t
  PROVE  ~Locked(b, u)
  BY InvParts, Typed DEF LockFits, Locked

\* A node is in one list.
LEMMA OneList ==
  ASSUME HashMapInv, NEW b \in Bucket, NEW c \in Bucket, list[b] # RehashReq,
         list[c] # RehashReq, NEW i \in list[b], i \in list[c]
  PROVE  b = c
<1>1. IsHome(b, nodeKey[i]) /\ IsHome(c, nodeKey[i])
  BY InvParts DEF ListsFit
<1>2. b <= c /\ c <= b
  BY <1>1 DEF IsHome
<1>3. b \in Nat /\ c \in Nat
  BY DEF Bucket
<1> QED  BY <1>2, <1>3

LEMMA OthersStack ==
  ASSUME HashMapInv, Types', NEW t \in Thread, Others(t), mask <= mask',
         NEW u \in Thread, u # t
  PROVE  StackFits(u)' /\ CallFits(u)'
<1>1. StackFits(u) /\ CallFits(u)
  BY InvParts DEF InvFor
<1>2. /\ acc'[u] = acc[u] /\ pc'[u] = pc[u] /\ call'[u] = call[u] /\ m'[u] = m[u]
      /\ stack'[u] = stack[u] /\ n'[u] = n[u] /\ tmp'[u] = tmp[u] /\ grow'[u] = grow[u]
  BY DEF Others
<1>3. \A i \in 1..Depth(u) : stack[u][i] <= mask'
  <2>1. \A i \in 1..Depth(u) : stack[u][i] \in Nat
    BY InvParts, Typed
  <2>2. mask \in Nat /\ mask' \in Nat
    BY InvParts DEF Types
  <2> QED  BY <1>1, <2>1, <2>2 DEF StackFits
<1>4. StackFits(u)'
  BY <1>1, <1>2, <1>3 DEF StackFits, Depth
<1>5. CallFits(u)'
  BY <1>1, <1>2 DEF CallFits, Inserting, Depth
<1> QED  BY <1>4, <1>5

\* A thread that has a bucket has its lock.
LEMMA HasLock ==
  ASSUME HashMapInv, NEW u \in Thread
  PROVE  /\ \A i \in 1..Held(u) : stack[u][i] \in Bucket /\ Locked(stack[u][i], u)
         /\ \A i \in 1..(Depth(u) - 1) : stack[u][i] \in Bucket /\ lock[stack[u][i]].writer = u
         /\ pc[u] \in Within => Depth(u) >= 1 /\ Top(u) \in Bucket /\ Locked(Top(u), u)
<1>1. StackFits(u) /\ Locks(u) /\ Types
  BY InvParts DEF InvFor
<1>2. /\ Depth(u) \in Nat /\ \A i \in 1..Depth(u) : stack[u][i] \in Bucket
      /\ Depth(u) >= 1 => Top(u) \in Bucket /\ Top(u) = stack[u][Depth(u)]
  BY <1>1, Typed
<1>3. \A i \in 1..(Depth(u) - 1) : stack[u][i] \in Bucket /\ lock[stack[u][i]].writer = u
  BY <1>1, <1>2 DEF Locks
<1>4. pc[u] \in Within => Depth(u) >= 1 /\ Top(u) \in Bucket /\ Locked(Top(u), u)
  <2>1. pc[u] \in Within => pc[u] \notin Outside
    BY DEF Within, Outside
  <2> QED  BY <1>1, <1>2, <2>1 DEF StackFits, Locks, Locked
<1>5. ASSUME NEW i \in 1..Held(u) PROVE stack[u][i] \in Bucket /\ Locked(stack[u][i], u)
  <2>1. CASE i <= Depth(u) - 1
    <3>1. i \in 1..(Depth(u) - 1)
      BY <1>2, <1>5, <2>1 DEF Held
    <3> QED  BY <1>3, <3>1 DEF Locked
  <2>2. CASE ~(i <= Depth(u) - 1)
    <3>1. pc[u] \in Within /\ i = Depth(u)
      BY <1>2, <1>5, <2>2 DEF Held
    <3> QED  BY <1>2, <1>4, <3>1
  <2> QED  BY <2>1, <2>2
<1> QED  BY <1>3, <1>4, <1>5

LEMMA OthersLocks ==
  ASSUME HashMapInv, Types', NEW t \in Thread, Others(t), LocksMine(t), ListsMine(t),
         NEW u \in Thread, u # t
  PROVE  Locks(u)' /\ Marked(u)'
<1>1. Locks(u) /\ Marked(u) /\ Types /\ StackFits(u)
  BY InvParts DEF InvFor
<1>2. pc'[u] = pc[u] /\ call'[u] = call[u] /\ stack'[u] = stack[u]
  BY DEF Others
<1>3. /\ Depth(u)' = Depth(u) /\ Held(u)' = Held(u) /\ (Writes(u)' <=> Writes(u))
      /\ Top(u)' = Top(u)
  BY <1>2 DEF Depth, Held, Writes, Top
<1>4. ASSUME NEW b \in Bucket
      PROVE  /\ (lock'[b].writer = u <=> lock[b].writer = u)
             /\ (u \in lock'[b].readers <=> u \in lock[b].readers)
             /\ (lock'[b].upgrading = u <=> lock[b].upgrading = u)
             /\ (Locked(b, u) => list'[b] = list[b])
             /\ (list[b] # RehashReq => list'[b] # RehashReq)
  BY DEF LocksMine, ListsMine
<1>5. pc[u] \notin Outside => Top(u) \in Bucket
  BY <1>1, Typed DEF StackFits
<1>6. Writes(u) => pc[u] \in Within
  BY DEF Writes, Within
<1>7. Locks(u)'
  <2>1. \A i \in 1..(Depth(u) - 1) : lock'[stack[u][i]].writer = u
    BY <1>4, HasLock
  <2>2. pc[u] \in Within => lock'[Top(u)].writer = u \/ u \in lock'[Top(u)].readers
    BY <1>4, HasLock DEF Locked
  <2>3. pc[u] \in {"upgrade", "upgrading"} => u \in lock'[Top(u)].readers
    <3>1. pc[u] \in {"upgrade", "upgrading"} => pc[u] \in Within
      BY DEF Within
    <3> QED  BY <1>1, <1>4, <3>1, HasLock DEF Locks
  <2>4. Writes(u) => lock'[Top(u)].writer = u
    BY <1>1, <1>4, <1>6, HasLock DEF Locks
  <2>5. \A i, j \in 1..Held(u) : i # j => stack[u][i] # stack[u][j]
    BY <1>1 DEF Locks
  <2>6. \A b \in Bucket :
          /\ lock'[b].writer = u => \E i \in 1..Held(u) : stack[u][i] = b
          /\ u \in lock'[b].readers => pc[u] \in Within /\ Top(u) = b
          /\ lock'[b].upgrading = u => pc[u] = "upgrading"
    BY <1>1, <1>4 DEF Locks
  <2> QED  BY <1>2, <1>3, <2>1, <2>2, <2>3, <2>4, <2>5, <2>6 DEF Locks
<1>8. Marked(u)'
  <2>1. pc[u] \in Within \cup {"lock", "reacquire"} => list'[Top(u)] # RehashReq
    <3>1. pc[u] \in Within \cup {"lock", "reacquire"} => pc[u] \notin Outside
      BY DEF Within, Outside
    <3> QED  BY <1>1, <1>4, <1>5, <3>1 DEF Marked
  <2>2. \A i \in 1..(Depth(u) - 1) : list'[stack[u][i]] = {}
    <3> TAKE i \in 1..(Depth(u) - 1)
    <3>1. stack[u][i] \in Bucket /\ Locked(stack[u][i], u)
      BY HasLock DEF Locked
    <3> QED  BY <1>1, <1>4, <3>1 DEF Marked
  <2> QED  BY <1>2, <1>3, <2>1, <2>2 DEF Marked
<1> QED  BY <1>7, <1>8

\* Who waits for a node has its bucket, where no other thread has a node of
\* that list unless both only read it.
LEMMA OthersNodes ==
  ASSUME HashMapInv, Types', NEW t \in Thread, Others(t), ListsMine(t), NodesMine(t),
         NEW u \in Thread, u # t
  PROVE  NodesFit(u)'
<1>1. Types /\ NodesFit(u) /\ NodesFit(t) /\ ListsFit /\ Marked(u) /\ Marked(t)
  BY InvParts DEF InvFor
<1>2. /\ acc'[u] = acc[u] /\ pc'[u] = pc[u] /\ call'[u] = call[u] /\ stack'[u] = stack[u]
      /\ n'[u] = n[u] /\ tmp'[u] = tmp[u]
  BY DEF Others
<1>3. Private(u)' = Private(u) /\ Top(u)' = Top(u)
  BY <1>2 DEF Private, Top
<1>4. Private(u) \cap Private(t) = {}
  BY <1>1 DEF NodesFit
<1>5. ASSUME NEW i \in Linked PROVE i \in Node /\ nodeKey[i] # None
  <2>1. PICK b \in Bucket : list[b] # RehashReq /\ i \in list[b]
    BY LinkedIs
  <2>2. list[b] \in SUBSET Node
    BY <1>1, <2>1 DEF Types
  <2> QED  BY <1>1, <2>1, <2>2 DEF ListsFit
<1>6. ASSUME NEW i \in Private(u)
      PROVE  i \in Node /\ nodeKey'[i] = nodeKey[i] /\ nodeKey[i] # None /\ i \notin Linked'
  <2>1. i \in Node /\ nodeKey[i] # None /\ i \notin Linked /\ i \notin Private(t)
    BY <1>1, <1>4 DEF NodesFit, Private
  <2> QED  BY <2>1 DEF NodesMine
<1>7. ASSUME NEW i \in Linked
      PROVE  i \in Node /\ nodeKey'[i] = nodeKey[i] /\ nodeKey[i] # None
  <2>1. i \notin Private(t)
    BY <1>1 DEF NodesFit
  <2> QED  BY <1>5, <2>1 DEF NodesMine
<1>8. \A x \in Thread : x # u => Private(u)' \cap Private(x)' = {}
  <2> SUFFICES ASSUME NEW x \in Thread, x # u, NEW i \in Private(u), i \in Private(x)'
               PROVE  FALSE
    BY <1>3
  <2>1. nodeKey[i] # None /\ i \notin Private(t)
    BY <1>4, <1>6
  <2>2. CASE x = t
    <3>1. i \in Node /\ item[i] = t
      BY <1>6, <2>1, <2>2 DEF NodesMine
    <3>2. acc[t] = i
      BY <1>1, <3>1 DEF NodesFit
    <3>3. i \notin Linked
      BY <1>1 DEF NodesFit
    <3>4. pc[t] # "release" => i \in Linked
      BY <1>1, <3>1, <3>2, HashMapAssumption DEF NodesFit
    <3>5. pc[t] = "release" => i \in Private(t)
      BY <3>1, <3>2 DEF Private
    <3> QED  BY <2>1, <3>3, <3>4, <3>5
  <2>3. CASE x # t
    <3>1. Private(x)' = Private(x)
      BY <2>3 DEF Private, Others
    <3> QED  BY <1>1, <3>1 DEF NodesFit
  <2> QED  BY <2>2, <2>3
<1>9. acc[u] # None =>
        /\ item'[acc[u]] = u /\ nodeKey'[acc[u]] # None
        /\ pc[u] # "release" => acc[u] \in Linked'
        /\ pc[u] # "idle" /\ call[u].op = "erase" => nodeKey'[acc[u]] = call[u].key
  <2> SUFFICES ASSUME acc[u] # None
               PROVE  /\ item'[acc[u]] = u /\ nodeKey'[acc[u]] # None
                      /\ pc[u] # "release" => acc[u] \in Linked'
                      /\ pc[u] # "idle" /\ call[u].op = "erase" => nodeKey'[acc[u]] = call[u].key
    OBVIOUS
  <2>1. /\ acc[u] \in Node /\ item[acc[u]] = u /\ nodeKey[acc[u]] # None
        /\ pc[u] # "release" => acc[u] \in Linked
        /\ pc[u] # "idle" /\ call[u].op = "erase" => nodeKey[acc[u]] = call[u].key
    BY <1>1 DEF NodesFit, Types
  <2>2. item'[acc[u]] = u
    <3>1. u # None /\ item[acc[u]] # t /\ item[acc[u]] # None
      BY <2>1, HashMapAssumption
    <3> QED  BY <2>1, <3>1 DEF NodesMine
  <2>3. nodeKey'[acc[u]] = nodeKey[acc[u]]
    <3>1. CASE pc[u] = "release"
      <4>1. acc[u] \in Private(u)
        BY <2>1, <3>1 DEF Private
      <4> QED  BY <1>6, <4>1
    <3>2. CASE pc[u] # "release"
      BY <1>7, <2>1, <3>2
    <3> QED  BY <3>1, <3>2
  <2>4. acc[u] \in Linked => acc[u] \in Linked'
    <3>1. acc[u] # acc[t]
      BY <1>1, <2>1, HashMapAssumption DEF NodesFit
    <3> QED  BY <3>1 DEF NodesMine
  <2> QED  BY <2>1, <2>2, <2>3, <2>4
<1>10. \A i \in Node : item'[i] = u => acc[u] = i
  <2> SUFFICES ASSUME NEW i \in Node, item'[i] = u PROVE acc[u] = i
    OBVIOUS
  <2>1. item'[i] # None /\ item'[i] # t
    BY HashMapAssumption
  <2>2. item[i] = u
    BY <2>1 DEF NodesMine
  <2> QED  BY <1>1, <2>2 DEF NodesFit
<1>11. tmp[u] # None => nodeKey'[tmp[u]] = call[u].key
  <2> SUFFICES ASSUME tmp[u] # None PROVE nodeKey'[tmp[u]] = call[u].key
    OBVIOUS
  <2>1. tmp[u] \in Private(u)
    BY <1>1 DEF Private, Types
  <2> QED  BY <1>1, <1>6, <2>1 DEF NodesFit
<1>12. pc[u] = "item" => /\ n[u] \in list'[Top(u)] /\ nodeKey'[n[u]] = call[u].key
                         /\ call[u].answer = "yes" => item'[n[u]] = None
  <2> SUFFICES ASSUME pc[u] = "item"
               PROVE  /\ n[u] \in list'[Top(u)] /\ nodeKey'[n[u]] = call[u].key
                      /\ call[u].answer = "yes" => item'[n[u]] = None
    OBVIOUS
  <2>1. /\ Top(u) \in Bucket /\ Locked(Top(u), u) /\ list[Top(u)] # RehashReq
    <3>1. pc[u] \in Within
      BY DEF Within
    <3> QED  BY <1>1, <3>1, HasLock DEF Marked
  <2>2. n[u] \in list[Top(u)] /\ nodeKey[n[u]] = call[u].key
    BY <1>1 DEF NodesFit
  <2>3. list'[Top(u)] = list[Top(u)]
    BY <2>1 DEF ListsMine
  <2>4. n[u] \in Linked
    BY <2>1, <2>2, LinkedIs
  <2>5. ASSUME call[u].answer = "yes" PROVE item'[n[u]] = None
    <3>1. n[u] \in Node /\ item[n[u]] = None /\ t # None
      BY <1>1, <1>7, <2>4, <2>5, HashMapAssumption DEF NodesFit
    <3>2. lock[Top(u)].writer = u
      BY <2>5, InvParts DEF InvFor, Locks, Writes
    <3>3. ASSUME pc[t] = "item" PROVE n[u] # n[t]
      <4>1. pc[t] \in Within
        BY <3>3 DEF Within
      <4>2. Top(t) \in Bucket /\ Locked(Top(t), t) /\ list[Top(t)] # RehashReq
        BY <1>1, <4>1, HasLock DEF Marked
      <4>3. Top(t) # Top(u)
        BY <2>1, <3>2, <4>2, Excluded
      <4>4. n[t] \in list[Top(t)]
        BY <1>1, <3>3 DEF NodesFit
      <4> QED  BY <2>1, <2>2, <4>2, <4>3, <4>4, OneList
    <3> QED  BY <3>1, <3>3 DEF NodesMine
  <2> QED  BY <1>7, <2>2, <2>3, <2>4, <2>5
<1> QED  BY <1>2, <1>3, <1>6, <1>8, <1>9, <1>10, <1>11, <1>12 DEF NodesFit

LEMMA OthersSearch ==
  ASSUME HashMapInv, Types', NEW t \in Thread, Others(t), ListsMine(t), NodesMine(t),
         HomesMine(t), NEW u \in Thread, u # t
  PROVE  SearchFits(u)'
<1>1. Types /\ SearchFits(u) /\ NodesFit(t) /\ ListsFit /\ Marked(u) /\ CallFits(u) /\ Locks(u)
  BY InvParts DEF InvFor
<1>2. /\ acc'[u] = acc[u] /\ pc'[u] = pc[u] /\ call'[u] = call[u] /\ stack'[u] = stack[u]
      /\ probe'[u] = probe[u] /\ Top(u)' = Top(u) /\ Depth(u)' = Depth(u)
  BY DEF Others, Top, Depth
<1>3. ASSUME pc[u] \in Within PROVE list'[Top(u)] = list[Top(u)] /\ Found(u)' = Found(u)
  <2>1. Top(u) \in Bucket /\ Locked(Top(u), u) /\ list[Top(u)] # RehashReq
    BY <1>1, <1>3, HasLock DEF Marked
  <2>2. list'[Top(u)] = list[Top(u)]
    BY <2>1 DEF ListsMine
  <2>3. \A i \in list[Top(u)] : nodeKey'[i] = nodeKey[i]
    <3> TAKE i \in list[Top(u)]
    <3>1. i \in Linked /\ i \in Node /\ nodeKey[i] # None
      BY <1>1, <2>1, LinkedIs DEF ListsFit, Types
    <3>2. i \notin Private(t)
      BY <1>1, <3>1 DEF NodesFit
    <3> QED  BY <3>1, <3>2 DEF NodesMine
  <2> QED  BY <1>2, <2>2, <2>3 DEF Found
<1>4. ASSUME \/ pc[u] \in {"race", "collision", "link"}
             \/ pc[u] \in {"upgrade", "upgrading"} /\ Depth(u) = 1
      PROVE  (IF call[u].op = "erase" THEN acc[u] \notin list[Top(u)] ELSE Found(u) = {})'
  <2>1. pc[u] \in Within
    BY <1>4 DEF Within
  <2>2. list'[Top(u)] = list[Top(u)] /\ Found(u)' = Found(u)
    BY <1>3, <2>1
  <2>3. IF call[u].op = "erase" THEN acc[u] \notin list[Top(u)] ELSE Found(u) = {}
    BY <1>1, <1>4 DEF SearchFits
  <2> QED  BY <1>2, <2>2, <2>3
<1>5. pc[u] = "collision" => /\ probe[u] \in Bucket
                             /\ OnPath(probe[u], call[u].key)
                             /\ Following(probe[u], Top(u), call[u].key)
  BY <1>1 DEF SearchFits
<1>6. ASSUME pc[u] = "link" PROVE IsHome(Top(u), call[u].key)'
  <2>1. pc[u] \in Within /\ Writes(u) /\ call[u].key \in Key /\ pc[u] # "idle"
    BY <1>1, <1>6 DEF Within, Writes, CallFits, CallSet
  <2>2. Top(u) \in Bucket /\ lock[Top(u)].writer = u
    BY <1>1, <2>1, HasLock DEF Locks
  <2>3. IsHome(Top(u), call[u].key)
    BY <1>1, <1>6 DEF SearchFits
  <2>4. ~Locked(Top(u), t)
    BY <2>2, Excluded
  <2>5. \A b \in Bucket, k \in Key : IsHome(b, k) => IsHome(b, k)' \/ Locked(b, t)
    BY DEF HomesMine
  <2>6. PICK b \in Bucket, k \in Key : b = Top(u) /\ k = call[u].key
    BY <2>1, <2>2
  <2>7. IsHome(b, k)'
    BY <2>3, <2>4, <2>5, <2>6
  <2>8. Top(u)' = b /\ call'[u].key = k
    BY <1>2, <2>6
  <2> QED  BY <2>7, <2>8 DEF IsHome, Complete
<1> QED  BY <1>2, <1>4, <1>5, <1>6 DEF SearchFits

\* What thread t has not filled yet.
Splitting(t) == {stack[t][i] : i \in 1..(Depth(t) - 1)}

LEMMA CompleteIs ==
  ASSUME NEW b
  PROVE  /\ Complete(b) <=> /\ b \in Bucket /\ list[b] # RehashReq
                            /\ \A u \in Thread : b \notin Splitting(u)
         /\ Complete(b)' <=> /\ b \in Bucket /\ list'[b] # RehashReq
                             /\ \A u \in Thread : b \notin Splitting(u)'
  BY DEF Complete, Splitting

\* A step that changes no list.
LEMMA ListsSame ==
  ASSUME HashMapInv, Types', NEW t \in Thread, Others(t), mask <= mask',
         list' = list, Splitting(t)' = Splitting(t),
         \A i \in Linked : nodeKey'[i] = nodeKey[i]
  PROVE  /\ ListsFit' /\ ListsMine(t) /\ HomesMine(t) /\ Linked' = Linked
         /\ \A b, k : IsHome(b, k)' <=> IsHome(b, k)
<1>1. Linked' = Linked
  BY DEF Linked
<1>2. ListsMine(t)
  BY DEF ListsMine
<1>3. \A u \in Thread : Splitting(u)' = Splitting(u)
  <2>1. \A u \in Thread : u # t => stack'[u] = stack[u]
    BY DEF Others
  <2>2. \A u \in Thread : u # t => Splitting(u)' = Splitting(u)
    BY <2>1 DEF Splitting, Depth
  <2> QED  BY <2>2
<1>4. \A b : Complete(b)' <=> Complete(b)
  BY <1>3, CompleteIs
<1>5. \A b, k : IsHome(b, k)' <=> IsHome(b, k)
  BY <1>4 DEF IsHome
<1>6. HomesMine(t)
  BY <1>5 DEF HomesMine
<1>7. ListsFit /\ mask \in Nat /\ mask' \in Nat /\ \A b \in Bucket : b \in Nat
  BY InvParts DEF Types, Bucket
<1>8. ListsFit'
  <2>1. \A b \in Bucket : list'[b] # RehashReq => b <= mask'
    BY <1>7 DEF ListsFit
  <2>2. \A b \in Bucket : b <= 1 => list'[b] # RehashReq
    BY <1>7 DEF ListsFit
  <2>3. \A b, c \in Bucket : Complete(c)' /\ OnPath(b, c) => Complete(b)'
    BY <1>4, <1>7 DEF ListsFit
  <2>4. \A b \in Bucket : list'[b] # RehashReq =>
          \A i \in list'[b] : (nodeKey[i] # None /\ IsHome(b, nodeKey[i]))'
    <3> SUFFICES ASSUME NEW b \in Bucket, list[b] # RehashReq, NEW i \in list[b]
                 PROVE  (nodeKey[i] # None /\ IsHome(b, nodeKey[i]))'
      OBVIOUS
    <3>1. PICK k : k = nodeKey[i] /\ k = nodeKey'[i]
      BY LinkedIs
    <3>2. k # None /\ IsHome(b, k)
      BY <1>7, <3>1 DEF ListsFit
    <3>3. IsHome(b, k)'
      BY <1>5, <3>2
    <3> QED  BY <3>1, <3>2, <3>3 DEF IsHome
  <2>5. \A i, j \in Linked' : nodeKey'[i] = nodeKey'[j] => i = j
    BY <1>1, <1>7 DEF ListsFit
  <2> QED  BY <2>1, <2>2, <2>3, <2>4, <2>5 DEF ListsFit
<1> QED  BY <1>1, <1>2, <1>5, <1>6, <1>8

LEMMA GrowthSame ==
  ASSUME HashMapInv, Types', NEW t \in Thread, Others(t), mask' = mask, claimed' = claimed,
         m'[t] \in {m[t], mask, 1}, grow'[t] \in {grow[t], 0}
  PROVE  GrowthFits'
<1>1. GrowthFits
  BY InvParts
<1>2. 1 \in Masks /\ 1 <= mask
  <2>1. \A x \in Masks : x >= 1
    <3>1. \A i \in Nat : i >= 2 => Pow2[i] - 1 >= 1
      <4> TAKE i \in Nat
      <4>1. Pow2[1] = 2
        <5>1. Pow2[0 + 1] = 2 * Pow2[0] /\ Pow2[0] = 1
          BY Pow2Is
        <5> QED  BY <5>1
      <4>2. i >= 2 => Pow2[1] <= Pow2[i]
        BY Pow2Grows
      <4>3. Pow2[i] \in Nat
        BY Pow2Is
      <4> QED  BY <4>1, <4>2, <4>3
    <3> QED  BY <3>1 DEF Masks
  <2> QED  BY <1>1, <2>1 DEF Masks, GrowthFits
<1>3. \A u \in Thread : /\ m'[u] \in {m[u], mask, 1} /\ grow'[u] \in {grow[u], 0}
  BY DEF Others
<1>4. mask \in Nat
  BY InvParts DEF Types
<1>5. \A u \in Thread : m'[u] \in Masks /\ m'[u] <= mask
  BY <1>1, <1>2, <1>3, <1>4 DEF GrowthFits
<1> QED  BY <1>1, <1>3, <1>5 DEF GrowthFits

LEMMA StepKeeps ==
  ASSUME HashMapInv, Types', NEW t \in Thread, Others(t), mask <= mask',
         LocksMine(t), ListsMine(t), NodesMine(t), HomesMine(t),
         GrowthFits', ListsFit', \A b \in Bucket : LockFits(b)',
         InvFor(t)'
  PROVE  HashMapInv'
<1>1. ASSUME NEW u \in Thread, u # t PROVE InvFor(u)'
  BY <1>1, OthersStack, OthersLocks, OthersNodes, OthersSearch DEF InvFor
<1>2. \A u \in Thread : InvFor(u)'
  BY <1>1
<1> QED  BY <1>2 DEF HashMapInv, InvFor

(***************************************************************************)
(* The lock of the top bucket is taken, given up, or changed.              *)
(***************************************************************************)

LEMMA LocksSame ==
  ASSUME HashMapInv, NEW t \in Thread, lock' = lock
  PROVE  LocksMine(t) /\ \A b \in Bucket : LockFits(b)'
<1>1. \A b \in Bucket : LockFits(b)
  BY InvParts
<1> QED  BY <1>1 DEF LocksMine, LockFits

SameForOthers(t, old, new) ==
  \A u \in Thread : u # t =>
    /\ (new.writer = u <=> old.writer = u)
    /\ (u \in new.readers <=> u \in old.readers)
    /\ (new.upgrading = u <=> old.upgrading = u)

\* Only b changes, and of b only what thread t has.
LEMMA LockChanged ==
  ASSUME HashMapInv, NEW t \in Thread, NEW b \in Bucket, NEW new,
         lock' = [lock EXCEPT ![b] = new], LockFits(b)',
         SameForOthers(t, lock[b], new)
  PROVE  /\ LocksMine(t) /\ \A c \in Bucket : LockFits(c)'
         /\ lock'[b] = new /\ \A c \in Bucket : c # b => lock'[c] = lock[c]
<1>1. lock'[b] = new /\ \A c \in Bucket : c # b => lock'[c] = lock[c]
  BY InvParts DEF Types
<1>2. LocksMine(t)
  BY <1>1 DEF LocksMine, SameForOthers
<1>3. ASSUME NEW c \in Bucket PROVE LockFits(c)'
  <2>1. CASE c = b
    BY <2>1
  <2>2. CASE c # b
    <3>1. lock'[c] = lock[c] /\ LockFits(c)
      BY <1>1, <2>2, InvParts
    <3> QED  BY <3>1 DEF LockFits
  <2> QED  BY <2>1, <2>2
<1> QED  BY <1>1, <1>2, <1>3

LEMMA MutexIs ==
  ASSUME NEW r, NEW w, NEW u
  PROVE  Mutex(r, w, u).readers = r /\ Mutex(r, w, u).writer = w /\ Mutex(r, w, u).upgrading = u
  BY DEF Mutex

\* Alone with the bucket, t writes.
LEMMA LockWritten ==
  ASSUME HashMapInv, NEW t \in Thread, NEW b \in Bucket, b = Top(t), lock' = Writing(t),
         \A u \in Thread : u # t => ~Locked(b, u)
  PROVE  /\ LocksMine(t) /\ \A c \in Bucket : LockFits(c)'
         /\ lock'[b] = Mutex({}, t, None)
         /\ \A c \in Bucket : c # b => lock'[c] = lock[c]
<1> DEFINE new == Mutex({}, t, None)
<1>1. lock' = [lock EXCEPT ![b] = new]
  BY DEF Writing
<1>2. new.readers = {} /\ new.writer = t /\ new.upgrading = None
  BY MutexIs
<1> HIDE DEF new
<1>3. t # None /\ \A u \in Thread : u # None
  BY HashMapAssumption
<1>4. lock'[b] = new
  BY <1>1, InvParts DEF Types
<1>5. LockFits(b)'
  BY <1>2, <1>3, <1>4 DEF LockFits
<1>6. SameForOthers(t, lock[b], new)
  <2>1. \A u \in Thread : u # t =>
          /\ lock[b].writer # u /\ u \notin lock[b].readers /\ lock[b].upgrading # u
    BY <1>3, InvParts DEF LockFits, Locked
  <2> QED  BY <1>2, <1>3, <2>1 DEF SameForOthers
<1>7. /\ LocksMine(t) /\ \A c \in Bucket : LockFits(c)'
      /\ \A c \in Bucket : c # b => lock'[c] = lock[c]
  BY <1>1, <1>5, <1>6, LockChanged
<1> QED  BY <1>4, <1>7 DEF new

LEMMA LockRead ==
  ASSUME HashMapInv, NEW t \in Thread, NEW b \in Bucket, b = Top(t), lock' = Reading(t),
         CanRead(b)
  PROVE  /\ LocksMine(t) /\ \A c \in Bucket : LockFits(c)'
         /\ lock'[b] = Mutex(lock[b].readers \cup {t}, None, None)
         /\ \A c \in Bucket : c # b => lock'[c] = lock[c]
<1> DEFINE new == Mutex(lock[b].readers \cup {t}, None, None)
<1>1. lock' = [lock EXCEPT ![b] = new]
  BY DEF Reading, CanRead
<1>2. new.readers = lock[b].readers \cup {t} /\ new.writer = None /\ new.upgrading = None
  BY MutexIs
<1> HIDE DEF new
<1>3. lock'[b] = new
  BY <1>1, InvParts DEF Types
<1>4. LockFits(b)'
  BY <1>2, <1>3 DEF LockFits
<1>5. SameForOthers(t, lock[b], new)
  BY <1>2 DEF SameForOthers, CanRead
<1>6. /\ LocksMine(t) /\ \A c \in Bucket : LockFits(c)'
      /\ \A c \in Bucket : c # b => lock'[c] = lock[c]
  BY ZenonT(40), <1>1, <1>4, <1>5, LockChanged
<1> QED  BY <1>3, <1>6 DEF new

\* Who is upgrading does not give up the bucket.
LEMMA LockReleased ==
  ASSUME HashMapInv, NEW t \in Thread, NEW b \in Bucket, b = Top(t), lock' = Released(t),
         pc[t] # "upgrading"
  PROVE  /\ LocksMine(t) /\ \A c \in Bucket : LockFits(c)'
         /\ lock'[b].writer # t /\ t \notin lock'[b].readers /\ lock'[b].upgrading # t
         /\ \A c \in Bucket : c # b => lock'[c] = lock[c]
<1> DEFINE w == IF lock[b].writer = t THEN None ELSE lock[b].writer
           new == Mutex(lock[b].readers \ {t}, w, lock[b].upgrading)
<1>1. lock' = [lock EXCEPT ![b] = new]
  BY DEF Released
<1>2. new.readers = lock[b].readers \ {t} /\ new.writer = w /\ new.upgrading = lock[b].upgrading
  BY MutexIs
<1> HIDE DEF new
<1>3. lock'[b] = new
  BY <1>1, InvParts DEF Types
<1>4. t # None /\ \A u \in Thread : u # None
  BY HashMapAssumption
<1>5. LockFits(b) /\ lock[b].upgrading # t
  BY InvParts DEF InvFor, Locks
<1>6. LockFits(b)'
  BY <1>2, <1>3, <1>4, <1>5 DEF LockFits
<1>7. SameForOthers(t, lock[b], new)
  BY <1>2, <1>4 DEF SameForOthers
<1>8. /\ LocksMine(t) /\ \A c \in Bucket : LockFits(c)'
      /\ \A c \in Bucket : c # b => lock'[c] = lock[c]
  BY <1>1, <1>6, <1>7, LockChanged
<1> QED  BY <1>2, <1>3, <1>4, <1>5, <1>8

LEMMA LockUpgrading ==
  ASSUME HashMapInv, NEW t \in Thread, NEW b \in Bucket, b = Top(t),
         lock' = [lock EXCEPT ![b] = Mutex(@.readers, @.writer, t)],
         lock[b].upgrading = None, t \in lock[b].readers
  PROVE  /\ LocksMine(t) /\ \A c \in Bucket : LockFits(c)'
         /\ lock'[b].writer = lock[b].writer /\ lock'[b].readers = lock[b].readers
         /\ \A c \in Bucket : c # b => lock'[c] = lock[c]
<1> DEFINE new == Mutex(lock[b].readers, lock[b].writer, t)
<1>1. lock' = [lock EXCEPT ![b] = new]
  OBVIOUS
<1>2. new.readers = lock[b].readers /\ new.writer = lock[b].writer /\ new.upgrading = t
  BY MutexIs
<1> HIDE DEF new
<1>3. lock'[b] = new
  BY <1>1, InvParts DEF Types
<1>4. LockFits(b)'
  BY <1>2, <1>3, InvParts DEF LockFits
<1>5. SameForOthers(t, lock[b], new)
  BY <1>2, HashMapAssumption DEF SameForOthers
<1>6. /\ LocksMine(t) /\ \A c \in Bucket : LockFits(c)'
      /\ \A c \in Bucket : c # b => lock'[c] = lock[c]
  BY ZenonT(40), <1>1, <1>4, <1>5, LockChanged
<1> QED  BY <1>2, <1>3, <1>6

\* A writer that reads on.
LEMMA LockDowngraded ==
  ASSUME HashMapInv, NEW t \in Thread, NEW b \in Bucket, b = Top(t),
         lock' = [lock EXCEPT ![b] = Mutex({t}, None, None)], lock[b].writer = t
  PROVE  /\ LocksMine(t) /\ \A c \in Bucket : LockFits(c)'
         /\ lock'[b] = Mutex({t}, None, None)
         /\ \A c \in Bucket : c # b => lock'[c] = lock[c]
<1> DEFINE new == Mutex({t}, None, None)
<1>2. new.readers = {t} /\ new.writer = None /\ new.upgrading = None
  BY MutexIs
<1> HIDE DEF new
<1>3. lock'[b] = new
  BY InvParts DEF Types, new
<1>4. t # None /\ \A u \in Thread : u # None
  BY HashMapAssumption
<1>5. LockFits(b)'
  BY <1>2, <1>3 DEF LockFits
<1>6. SameForOthers(t, lock[b], new)
  <2>1. lock[b].readers = {} /\ lock[b].upgrading = None
    BY <1>4, InvParts DEF LockFits
  <2> QED  BY <1>2, <1>4, <2>1 DEF SameForOthers
<1>7. /\ LocksMine(t) /\ \A c \in Bucket : LockFits(c)'
      /\ \A c \in Bucket : c # b => lock'[c] = lock[c]
  BY <1>5, <1>6, LockChanged DEF new
<1> QED  BY <1>3, <1>7 DEF new

(***************************************************************************)
(* What thread t itself has afterwards.                                    *)
(***************************************************************************)

\* It has the same buckets as before.
LEMMA LocksStay ==
  ASSUME HashMapInv, Types', NEW t \in Thread, lock' = lock, stack'[t] = stack[t],
         pc[t] \in Within <=> pc'[t] \in Within,
         pc[t] = "upgrading" => pc'[t] = "upgrading",
         pc'[t] \in {"upgrade", "upgrading"} => t \in lock[Top(t)].readers,
         Writes(t)' => lock[Top(t)].writer = t
  PROVE  Locks(t)'
<1>1. Locks(t)
  BY InvParts DEF InvFor
<1>2. Held(t)' = Held(t) /\ Depth(t)' = Depth(t) /\ Top(t)' = Top(t)
  BY DEF Held, Depth, Top
<1>3. \A b \in Bucket :
        /\ lock[b].writer = t => \E i \in 1..Held(t) : stack[t][i] = b
        /\ t \in lock[b].readers => pc'[t] \in Within /\ Top(t) = b
        /\ lock[b].upgrading # t \/ pc'[t] = "upgrading"
  BY <1>1 DEF Locks
<1>4. pc'[t] \in Within => lock[Top(t)].writer = t \/ t \in lock[Top(t)].readers
  BY <1>1 DEF Locks
<1>5. /\ \A i \in 1..(Depth(t) - 1) : lock[stack[t][i]].writer = t
      /\ \A i, j \in 1..Held(t) : i # j => stack[t][i] # stack[t][j]
  BY <1>1 DEF Locks
<1> QED  BY <1>2, <1>3, <1>4, <1>5 DEF Locks

\* It has none, before and afterwards.
LEMMA LocksNone ==
  ASSUME HashMapInv, Types', NEW t \in Thread, lock' = lock,
         pc[t] \notin Within, pc'[t] \notin Within, Depth(t) <= 1, Depth(t)' <= 1
  PROVE  Locks(t)'
<1>1. Locks(t) /\ Types
  BY InvParts DEF InvFor
<1>2. Depth(t) \in Nat /\ Depth(t)' \in Nat
  <2>1. Depth(t)' \in Nat
    BY LenProperties DEF Types, Depth
  <2> QED  BY <1>1, <2>1, Typed
<1>3. 1..Held(t) = {} /\ 1..Held(t)' = {} /\ 1..(Depth(t)' - 1) = {}
  BY <1>2 DEF Held
<1>4. \A b \in Bucket : lock[b].writer # t /\ t \notin lock[b].readers /\ lock[b].upgrading # t
  <2> TAKE b \in Bucket
  <2>1. lock[b].writer # t /\ t \notin lock[b].readers
    BY <1>1, <1>3 DEF Locks
  <2>2. LockFits(b) /\ t # None
    BY InvParts, HashMapAssumption
  <2> QED  BY <2>1, <2>2 DEF LockFits
<1>5. pc'[t] \notin {"upgrade", "upgrading"} /\ ~Writes(t)'
  BY DEF Within, Writes
<1> QED  BY <1>3, <1>4, <1>5 DEF Locks

\* It gets its top bucket.
LEMMA LocksTaken ==
  ASSUME HashMapInv, Types', NEW t \in Thread, NEW b \in Bucket, b = Top(t),
         pc[t] \in Before, pc'[t] \in Within \ {"upgrade", "upgrading"},
         stack'[t] = stack[t], lock[b].writer = None,
         lock'[b].writer = t \/ t \in lock'[b].readers,
         lock'[b].upgrading # t,
         Writes(t)' => lock'[b].writer = t,
         \A c \in Bucket : c # b => lock'[c] = lock[c]
  PROVE  Locks(t)'
<1>1. Locks(t) /\ Types /\ StackFits(t) /\ t # None
  BY InvParts, HashMapAssumption DEF InvFor
<1>2. pc[t] \notin Within /\ pc[t] \notin Outside
  BY DEF Before, Within, Outside
<1>3. /\ Depth(t) \in Nat /\ Depth(t) >= 1 /\ b = stack[t][Depth(t)]
      /\ \A i \in 1..Depth(t) : stack[t][i] \in Bucket
  BY <1>1, <1>2, Typed DEF StackFits
<1>4. /\ Held(t) = Depth(t) - 1 /\ Held(t)' = Depth(t) /\ Depth(t)' = Depth(t)
      /\ Top(t)' = b
  BY <1>2 DEF Held, Depth, Top
<1>5. ASSUME NEW i \in 1..(Depth(t) - 1)
      PROVE  stack[t][i] # b /\ lock'[stack[t][i]].writer = t
  <2>1. lock[stack[t][i]].writer = t /\ stack[t][i] \in Bucket
    BY <1>1, <1>3 DEF Locks
  <2> QED  BY <1>1, <2>1
<1>6. ASSUME NEW i \in 1..Depth(t), NEW j \in 1..Depth(t), i # j
      PROVE  stack[t][i] # stack[t][j]
  <2>1. CASE i = Depth(t)
    <3>1. j \in 1..(Depth(t) - 1)
      BY <1>3, <1>6, <2>1
    <3> QED  BY <1>3, <1>5, <2>1, <3>1
  <2>2. CASE j = Depth(t)
    <3>1. i \in 1..(Depth(t) - 1)
      BY <1>3, <1>6, <2>2
    <3> QED  BY <1>3, <1>5, <2>2, <3>1
  <2>3. CASE i # Depth(t) /\ j # Depth(t)
    <3>1. i \in 1..(Depth(t) - 1) /\ j \in 1..(Depth(t) - 1)
      BY <1>3, <2>3
    <3> QED  BY <1>1, <1>4, <1>6, <3>1 DEF Locks
  <2> QED  BY <2>1, <2>2, <2>3
<1>7. ASSUME NEW c \in Bucket
      PROVE  /\ lock'[c].writer = t => \E i \in 1..Depth(t) : stack[t][i] = c
             /\ t \in lock'[c].readers => c = b
             /\ lock'[c].upgrading # t
  <2>1. CASE c = b
    BY <1>3, <2>1
  <2>2. CASE c # b
    <3>1. lock'[c] = lock[c]
      BY <2>2
    <3>2. lock[c].writer = t => \E i \in 1..(Depth(t) - 1) : stack[t][i] = c
      BY <1>1, <1>4 DEF Locks
    <3>3. t \notin lock[c].readers
      BY <1>1, <1>2 DEF Locks
    <3>4. LockFits(c)
      BY InvParts
    <3>5. lock[c].upgrading # t
      BY <1>1, <3>3, <3>4 DEF LockFits
    <3>6. \A i \in 1..(Depth(t) - 1) : i \in 1..Depth(t)
      BY <1>3
    <3> QED  BY <3>1, <3>2, <3>3, <3>5, <3>6
  <2> QED  BY <2>1, <2>2
<1> QED  BY <1>4, <1>5, <1>6, <1>7 DEF Locks

\* It gives up its top bucket, and keeps those below.
LEMMA LocksGiven ==
  ASSUME HashMapInv, Types', NEW t \in Thread, NEW b \in Bucket, b = Top(t),
         pc[t] \in Within \ {"upgrading"}, pc'[t] \notin {"upgrade", "upgrading"},
         lock'[b].writer # t, t \notin lock'[b].readers, lock'[b].upgrading # t,
         \A c \in Bucket : c # b => lock'[c] = lock[c],
         pc'[t] \in Within => Depth(t) > 1 /\ Depth(t)' = Depth(t) - 1,
         pc'[t] \notin Within => Depth(t)' \in {Depth(t) - 1, Depth(t)} /\ (1..(Depth(t)' - 1) = 1..(Depth(t) - 1)),
         \A i \in 1..(Depth(t) - 1) : stack'[t][i] = stack[t][i]
  PROVE  Locks(t)'
<1>1. Locks(t) /\ Types /\ StackFits(t) /\ t # None
  BY InvParts, HashMapAssumption DEF InvFor
<1>2. pc[t] \in Within /\ pc[t] \notin Outside
  BY DEF Within, Outside
<1>3. /\ Depth(t) \in Nat /\ Depth(t) >= 1 /\ b = stack[t][Depth(t)]
      /\ \A i \in 1..Depth(t) : stack[t][i] \in Bucket
  BY <1>1, <1>2, Typed DEF StackFits
<1>4. Held(t) = Depth(t)
  BY <1>2 DEF Held
<1>5. 1..Held(t)' = 1..(Depth(t) - 1)
  BY <1>3 DEF Held
<1>6. ASSUME NEW i \in 1..(Depth(t) - 1)
      PROVE  stack[t][i] # b /\ stack'[t][i] = stack[t][i] /\ lock'[stack[t][i]].writer = t
  <2>1. i \in 1..Depth(t) /\ Depth(t) \in 1..Depth(t) /\ i # Depth(t)
    BY <1>3
  <2>2. stack[t][i] # b
    BY <1>1, <1>3, <1>4, <2>1 DEF Locks
  <2>3. lock[stack[t][i]].writer = t /\ stack[t][i] \in Bucket
    BY <1>1, <1>3, <2>1 DEF Locks
  <2> QED  BY <2>2, <2>3
<1>7. ASSUME NEW i \in 1..(Depth(t) - 1), NEW j \in 1..(Depth(t) - 1), i # j
      PROVE  stack'[t][i] # stack'[t][j]
  <2>1. i \in 1..Held(t) /\ j \in 1..Held(t)
    BY <1>3, <1>4
  <2> QED  BY <1>1, <1>6, <1>7, <2>1 DEF Locks
<1>8. ASSUME NEW c \in Bucket
      PROVE  /\ lock'[c].writer = t => \E i \in 1..(Depth(t) - 1) : stack'[t][i] = c
             /\ t \notin lock'[c].readers
             /\ lock'[c].upgrading # t
  <2>1. CASE c = b
    BY <2>1
  <2>2. CASE c # b
    <3>1. lock'[c] = lock[c]
      BY <2>2
    <3>2. ASSUME lock[c].writer = t PROVE \E i \in 1..(Depth(t) - 1) : stack'[t][i] = c
      <4>1. PICK i \in 1..Depth(t) : stack[t][i] = c
        BY <1>1, <1>4, <3>2 DEF Locks
      <4>2. i \in 1..(Depth(t) - 1)
        BY <1>3, <2>2, <4>1
      <4> QED  BY <1>6, <4>1, <4>2
    <3>3. t \notin lock[c].readers /\ lock[c].upgrading # t
      BY <1>1, <2>2 DEF Locks
    <3> QED  BY <3>1, <3>2, <3>3
  <2> QED  BY <2>1, <2>2
<1>9. \A i \in 1..(Depth(t)' - 1) : i \in 1..(Depth(t) - 1)
  BY <1>3
<1>10. ASSUME pc'[t] \in Within
       PROVE  Depth(t)' \in 1..(Depth(t) - 1) /\ Top(t)' = stack'[t][Depth(t)']
  BY <1>3, <1>10 DEF Top, Depth
<1>11. pc'[t] \in Within => lock'[Top(t)'].writer = t
  BY <1>6, <1>10
<1>12. Writes(t)' => pc'[t] \in Within
  BY DEF Writes, Within
<1>13. \A i \in 1..(Depth(t)' - 1) : lock'[stack'[t][i]].writer = t
  BY <1>6, <1>9
<1> QED  BY <1>5, <1>7, <1>8, <1>11, <1>12, <1>13 DEF Locks

LEMMA HomeSame ==
  ASSUME HashMapInv, Types', NEW t \in Thread, Others(t), mask' = mask, list' = list,
         Splitting(t)' = Splitting(t), nodeKey' = nodeKey
  PROVE  /\ ListsFit' /\ ListsMine(t) /\ HomesMine(t) /\ Linked' = Linked /\ mask <= mask'
         /\ \A b, k : IsHome(b, k)' <=> IsHome(b, k)
<1>1. mask <= mask'
  BY InvParts DEF Types
<1> QED  BY <1>1, ListsSame

\* A step that changes no list, node or accessor.
LEMMA QuietStep ==
  ASSUME HashMapInv, Types', NEW t \in Thread, Others(t), mask' = mask, list' = list,
         nodeKey' = nodeKey, item' = item, Splitting(t)' = Splitting(t),
         \A i \in Private(t)' : i \in Private(t),
         GrowthFits', LocksMine(t), \A b \in Bucket : LockFits(b)', InvFor(t)'
  PROVE  HashMapInv'
<1>1. /\ ListsFit' /\ ListsMine(t) /\ HomesMine(t) /\ Linked' = Linked /\ mask <= mask'
  BY HomeSame
<1>2. NodesMine(t)
  BY <1>1 DEF NodesMine
<1> QED  BY <1>1, <1>2, StepKeeps

\* Thread t refers to the same nodes as before.
LEMMA NodesStay ==
  ASSUME HashMapInv, Types', NEW t \in Thread, Others(t), list' = list, nodeKey' = nodeKey,
         item' = item, acc'[t] = acc[t], tmp'[t] = tmp[t],
         pc[t] \notin {"release", "delete"}, pc'[t] \notin {"release", "delete"},
         tmp[t] # None => call'[t].key = call[t].key,
         acc[t] # None /\ pc'[t] # "idle" /\ call'[t].op = "erase" =>
           nodeKey[acc[t]] = call'[t].key,
         pc'[t] = "item" =>
           (/\ n[t] \in list[Top(t)] /\ nodeKey[n[t]] = call[t].key
            /\ call[t].answer = "yes" => item[n[t]] = None)'
  PROVE  NodesFit(t)' /\ Private(t)' = Private(t)
<1>1. NodesFit(t)
  BY InvParts DEF InvFor
<1>2. Private(t)' = Private(t) /\ Linked' = Linked
  BY DEF Private, Linked
<1>3. \A u \in Thread : u # t => Private(u)' = Private(u)
  <2> TAKE u \in Thread
  <2> HAVE u # t
  <2>1. tmp'[u] = tmp[u] /\ pc'[u] = pc[u] /\ acc'[u] = acc[u] /\ n'[u] = n[u]
    BY DEF Others
  <2> QED  BY <2>1 DEF Private
<1>4. \A u \in Thread : u # t => Private(t)' \cap Private(u)' = {}
  BY <1>1, <1>2, <1>3 DEF NodesFit
<1>5. \A i \in Private(t) : nodeKey[i] # None /\ i \notin Linked
  BY <1>1 DEF NodesFit
<1>6. acc[t] # None => /\ item[acc[t]] = t /\ nodeKey[acc[t]] # None /\ acc[t] \in Linked
  BY <1>1 DEF NodesFit
<1>7. /\ \A i \in Node : item[i] = t => acc[t] = i
      /\ tmp[t] # None => nodeKey[tmp[t]] = call'[t].key
  BY <1>1 DEF NodesFit
<1> QED  BY <1>2, <1>4, <1>5, <1>6, <1>7 DEF NodesFit

\* Only pc and a lock change, within an operation.
Inner    == Within \cup Before
MutexSet == [readers : SUBSET Thread, writer : Thread \cup {None},
             upgrading : Thread \cup {None}]

LEMMA LockStep ==
  ASSUME HashMapInv, NEW t \in Thread, NEW p \in Inner \ {"item"}, pc[t] \in Inner \ {"item"},
         pc' = [pc EXCEPT ![t] = p], lock' \in [Bucket -> MutexSet],
         UNCHANGED <<table, list, nodeKey, item, acc, call, local>>,
         LocksMine(t), \A b \in Bucket : LockFits(b)'
  PROVE  /\ Types' /\ Others(t) /\ pc'[t] = p
         /\ (StackFits(t) /\ CallFits(t) /\ Locks(t) /\ Marked(t) /\ SearchFits(t))' => HashMapInv'
<1>1. /\ mask' = mask /\ claimed' = claimed /\ list' = list
      /\ nodeKey' = nodeKey /\ item' = item /\ acc' = acc /\ call' = call /\ m' = m
      /\ stack' = stack /\ n' = n /\ tmp' = tmp /\ probe' = probe /\ grow' = grow
  BY DEF table, local
<1>2. Types /\ NodesFit(t) /\ CallFits(t)
  BY InvParts DEF InvFor
<1>3. pc'[t] = p /\ \A u \in Thread : u # t => pc'[u] = pc[u]
  BY <1>2 DEF Types
<1>4. Types'
  BY <1>1, <1>2 DEF Types, Inner, MutexSet
<1>5. Others(t)
  BY <1>1, <1>3 DEF Others
<1>6. pc[t] \notin {"release", "delete", "idle"} /\ p \notin {"release", "delete", "idle"}
  BY DEF Inner, Within, Before
<1>7. Splitting(t)' = Splitting(t)
  BY <1>1 DEF Splitting, Depth
<1>9. GrowthFits'
  BY <1>1, <1>4, <1>5, GrowthSame
<1>10. /\ acc[t] # None /\ call[t].op = "erase" => nodeKey[acc[t]] = call[t].key
       /\ p # "item"
  BY <1>2, <1>6 DEF NodesFit
<1>11. NodesFit(t)' /\ Private(t)' = Private(t)
  BY <1>1, <1>3, <1>4, <1>5, <1>6, <1>10, NodesStay
<1>12. ASSUME (StackFits(t) /\ CallFits(t) /\ Locks(t) /\ Marked(t) /\ SearchFits(t))'
       PROVE  HashMapInv'
  <2>1. InvFor(t)'
    BY <1>11, <1>12 DEF InvFor
  <2> QED  BY <1>1, <1>4, <1>5, <1>7, <1>9, <1>11, <2>1, QuietStep
<1> QED  BY <1>3, <1>4, <1>5, <1>12

\* Only pc does.
LEMMA PcStep ==
  ASSUME HashMapInv, NEW t \in Thread, NEW p \in Inner \ {"item"}, pc[t] \in Inner \ {"item"},
         pc' = [pc EXCEPT ![t] = p],
         UNCHANGED <<table, list, lock, nodeKey, item, acc, call, local>>
  PROVE  /\ Types' /\ Others(t) /\ pc'[t] = p
         /\ (StackFits(t) /\ CallFits(t) /\ Locks(t) /\ Marked(t) /\ SearchFits(t))' => HashMapInv'
<1>1. lock' = lock /\ lock' \in [Bucket -> MutexSet]
  BY InvParts DEF Types, MutexSet
<1>2. LocksMine(t) /\ \A b \in Bucket : LockFits(b)'
  BY <1>1, LocksSame
<1> QED  BY <1>1, <1>2, LockStep

LEMMA LockTyped ==
  ASSUME Types, NEW b, NEW r \in SUBSET Thread, NEW w \in Thread \cup {None},
         NEW u \in Thread \cup {None}, lock' = [lock EXCEPT ![b] = Mutex(r, w, u)]
  PROVE  lock' \in [Bucket -> MutexSet]
<1>1. Mutex(r, w, u) \in MutexSet
  BY DEF Mutex, MutexSet
<1>2. lock \in [Bucket -> MutexSet]
  BY DEF Types, MutexSet
<1> QED  BY <1>1, <1>2

LEMMA WritingTyped ==
  ASSUME Types, NEW t \in Thread, lock' = Writing(t)
  PROVE  lock' \in [Bucket -> MutexSet]
<1>1. PICK b : b = Top(t)
  OBVIOUS
<1>2. lock' = [lock EXCEPT ![b] = Mutex({}, t, None)]
  BY <1>1 DEF Writing
<1>3. {} \in SUBSET Thread /\ t \in Thread \cup {None} /\ None \in Thread \cup {None}
  OBVIOUS
<1>4. Mutex({}, t, None) \in MutexSet
  BY <1>3 DEF Mutex, MutexSet
<1>5. lock \in [Bucket -> MutexSet]
  BY DEF Types, MutexSet
<1> QED  BY <1>2, <1>4, <1>5

LEMMA ReleasedTyped ==
  ASSUME Types, NEW t \in Thread, Top(t) \in Bucket, lock' = Released(t)
  PROVE  lock' \in [Bucket -> MutexSet]
<1>1. PICK b \in Bucket : b = Top(t)
  OBVIOUS
<1>2. PICK r, w, u : /\ r = lock[b].readers \ {t} /\ u = lock[b].upgrading
                     /\ w = IF lock[b].writer = t THEN None ELSE lock[b].writer
  OBVIOUS
<1>3. r \in SUBSET Thread /\ w \in Thread \cup {None} /\ u \in Thread \cup {None}
  BY <1>2, Typed
<1>4. lock' = [lock EXCEPT ![b] = Mutex(r, w, u)]
  BY <1>1, <1>2 DEF Released
<1> QED  BY <1>3, <1>4, LockTyped

(***************************************************************************)
(* acquire and rehash_bucket.                                              *)
(***************************************************************************)

LEMMA LookKeeps ==
  ASSUME HashMapInv, NEW t \in Thread, Look(t)
  PROVE  HashMapInv'
<1> DEFINE p == IF list[Top(t)] = RehashReq THEN "try" ELSE "lock"
<1>1. /\ pc[t] = "look" /\ pc' = [pc EXCEPT ![t] = p]
      /\ UNCHANGED <<table, list, lock, nodeKey, item, acc, call, local>>
  BY DEF Look, Goto
<1>2. pc[t] \in Inner \ {"item"} /\ p \in Inner \ {"item"}
  BY <1>1 DEF Inner, Within, Before
<1>3. p \in {"try", "lock"} /\ (p = "lock" => list[Top(t)] # RehashReq)
  OBVIOUS
<1> HIDE DEF p
<1>4. /\ Types' /\ Others(t) /\ pc'[t] = p
      /\ (StackFits(t) /\ CallFits(t) /\ Locks(t) /\ Marked(t) /\ SearchFits(t))' => HashMapInv'
  BY <1>1, <1>2, PcStep
<1>5. InvFor(t) /\ stack' = stack /\ list' = list /\ lock' = lock
  BY <1>1, InvParts DEF local
<1>6. StackFits(t)'
  BY <1>1, <1>3, <1>4, <1>5 DEF InvFor, StackFits, Depth, Outside, Rehashed, local, table
<1>7. CallFits(t)'
  BY <1>1, <1>3, <1>4, <1>5 DEF InvFor, CallFits, Inserting, Depth, Within, Before, local
<1>8. Locks(t)'
  <2>1. pc[t] \notin Within /\ pc'[t] \notin Within /\ ~Writes(t)'
    BY <1>1, <1>3, <1>4 DEF Within, Writes
  <2> QED  BY <1>1, <1>3, <1>4, <1>5, <2>1, LocksStay
<1>9. Marked(t)'
  BY <1>1, <1>3, <1>4, <1>5 DEF InvFor, Marked, Depth, Top, Within
<1>10. SearchFits(t)'
  BY <1>3, <1>4 DEF SearchFits
<1> QED  BY <1>4, <1>6, <1>7, <1>8, <1>9, <1>10

\* A bucket that is locked is rehashed, or marked for it.
LEMMA HeldIsMarked ==
  ASSUME HashMapInv, NEW u \in Thread, NEW b \in Bucket, Locked(b, u)
  PROVE  list[b] # RehashReq
<1>1. Locks(u) /\ Marked(u) /\ Types
  BY InvParts DEF InvFor
<1>2. /\ Depth(u) \in Nat
      /\ Depth(u) >= 1 => Top(u) = stack[u][Depth(u)]
  BY <1>1, Typed
<1>3. CASE u \in lock[b].readers
  BY <1>1, <1>3 DEF Locks, Marked
<1>4. CASE lock[b].writer = u
  <2>1. PICK i \in 1..Held(u) : stack[u][i] = b
    BY <1>1, <1>4 DEF Locks
  <2>2. CASE i <= Depth(u) - 1
    <3>1. list[b] = {}
      BY <1>1, <1>2, <2>1, <2>2 DEF Held, Marked
    <3>2. {} \in SUBSET Node
      OBVIOUS
    <3> QED  BY <3>1, <3>2, HashMapAssumption
  <2>3. CASE ~(i <= Depth(u) - 1)
    <3>1. pc[u] \in Within /\ i = Depth(u) /\ Depth(u) >= 1
      BY <1>2, <2>1, <2>3 DEF Held
    <3> QED  BY <1>1, <1>2, <2>1, <3>1 DEF Marked
  <2> QED  BY <2>2, <2>3
<1> QED  BY <1>3, <1>4 DEF Locked

LEMMA TryFailsKeeps ==
  ASSUME HashMapInv, NEW t \in Thread, TryFails(t)
  PROVE  HashMapInv'
<1> DEFINE p == "lock"
<1>1. /\ pc[t] = "try" /\ pc' = [pc EXCEPT ![t] = p]
      /\ UNCHANGED <<table, list, lock, nodeKey, item, acc, call, local>>
  BY DEF TryFails, Goto
<1>2. pc[t] \in Inner \ {"item"} /\ p \in Inner \ {"item"}
  BY <1>1 DEF Inner, Within, Before
<1>3. list[Top(t)] # RehashReq
  <2>1. Top(t) \in Bucket
    BY <1>1, InvParts, Typed DEF InvFor, StackFits, Outside
  <2>2. \E u \in Thread : Locked(Top(t), u)
    <3>1. ~CanWrite(Top(t))
      BY DEF TryFails
    <3>2. lock[Top(t)].writer \in Thread \cup {None} /\ lock[Top(t)].readers \subseteq Thread
      BY <2>1, InvParts, Typed
    <3> QED  BY <3>1, <3>2 DEF CanWrite, Locked
  <2> QED  BY <2>1, <2>2, HeldIsMarked
<1>4. /\ Types' /\ Others(t) /\ pc'[t] = p
      /\ (StackFits(t) /\ CallFits(t) /\ Locks(t) /\ Marked(t) /\ SearchFits(t))' => HashMapInv'
  BY <1>1, <1>2, PcStep
<1>5. InvFor(t) /\ stack' = stack /\ list' = list /\ lock' = lock
  BY <1>1, InvParts DEF local
<1>6. StackFits(t)'
  BY <1>1, <1>4, <1>5 DEF InvFor, StackFits, Depth, Outside, Rehashed, local, table
<1>7. CallFits(t)'
  BY <1>1, <1>4, <1>5 DEF InvFor, CallFits, Inserting, Depth, Within, Before, local
<1>8. Locks(t)'
  <2>1. pc[t] \notin Within /\ pc'[t] \notin Within /\ ~Writes(t)'
    BY <1>1, <1>4 DEF Within, Writes
  <2> QED  BY <1>1, <1>4, <1>5, <2>1, LocksStay
<1>9. Marked(t)'
  BY <1>1, <1>3, <1>4, <1>5 DEF InvFor, Marked, Depth, Top, Within
<1>10. SearchFits(t)'
  BY <1>4 DEF SearchFits
<1> QED  BY <1>4, <1>6, <1>7, <1>8, <1>9, <1>10

LEMMA MustUpgradeKeeps ==
  ASSUME HashMapInv, NEW t \in Thread, MustUpgrade(t)
  PROVE  HashMapInv'
<1> DEFINE p == "upgrade"
<1>1. /\ pc[t] = "rehash" /\ pc' = [pc EXCEPT ![t] = p] /\ ~IsWriter(t)
      /\ UNCHANGED <<table, list, lock, nodeKey, item, acc, call, local>>
  BY DEF MustUpgrade, Goto, MayMove
<1>2. pc[t] \in Inner \ {"item"} /\ p \in Inner \ {"item"}
  BY <1>1 DEF Inner, Within, Before
<1>4. /\ Types' /\ Others(t) /\ pc'[t] = p
      /\ (StackFits(t) /\ CallFits(t) /\ Locks(t) /\ Marked(t) /\ SearchFits(t))' => HashMapInv'
  BY <1>1, <1>2, PcStep
<1>5. /\ InvFor(t) /\ stack' = stack /\ list' = list /\ lock' = lock
      /\ Depth(t) > 1 /\ Depth(t)' = Depth(t) /\ Depth(t) \in Nat
  BY <1>1, InvParts, Typed DEF local, InvFor, StackFits, Depth
<1>6. StackFits(t)'
  BY <1>1, <1>4, <1>5 DEF InvFor, StackFits, Depth, Outside, Rehashed, local, table
<1>7. CallFits(t)'
  BY <1>1, <1>4, <1>5 DEF InvFor, CallFits, Inserting, Within, Before, local
<1>8. Locks(t)'
  <2>1. pc[t] \in Within /\ pc'[t] \in Within /\ ~Writes(t)'
    BY <1>1, <1>4, <1>5 DEF Within, Writes
  <2>2. t \in lock[Top(t)].readers
    BY <1>1, <1>5, <2>1 DEF InvFor, Locks, IsWriter
  <2> QED  BY <1>1, <1>4, <1>5, <2>1, <2>2, LocksStay
<1>9. Marked(t)'
  BY <1>1, <1>4, <1>5 DEF InvFor, Marked, Depth, Top, Within
<1>10. SearchFits(t)'
  BY <1>4, <1>5 DEF SearchFits
<1> QED  BY <1>4, <1>6, <1>7, <1>8, <1>9, <1>10

LEMMA ExcludeMissesKeeps ==
  ASSUME HashMapInv, NEW t \in Thread, ExcludeMisses(t)
  PROVE  HashMapInv'
<1> DEFINE p == "race"
<1>1. /\ pc[t] = "search" /\ pc' = [pc EXCEPT ![t] = p] /\ call[t].op = "erase"
      /\ acc[t] \notin list[Top(t)]
      /\ UNCHANGED <<table, list, lock, nodeKey, item, acc, call, local>>
  BY DEF ExcludeMisses, Goto
<1>2. pc[t] \in Inner \ {"item"} /\ p \in Inner \ {"item"}
  BY <1>1 DEF Inner, Within, Before
<1>4. /\ Types' /\ Others(t) /\ pc'[t] = p
      /\ (StackFits(t) /\ CallFits(t) /\ Locks(t) /\ Marked(t) /\ SearchFits(t))' => HashMapInv'
  BY <1>1, <1>2, PcStep
<1>5. /\ InvFor(t) /\ stack' = stack /\ list' = list /\ lock' = lock /\ call' = call
      /\ acc' = acc /\ Depth(t) = 1 /\ Depth(t)' = 1
  BY <1>1, InvParts DEF local, InvFor, StackFits, Depth, Rehashed
<1>6. StackFits(t)'
  BY <1>1, <1>4, <1>5 DEF InvFor, StackFits, Depth, Outside, Rehashed, local, table
<1>7. CallFits(t)'
  BY <1>1, <1>4, <1>5 DEF InvFor, CallFits, Inserting, Within, Before, local
<1>8. Locks(t)'
  <2>1. pc[t] \in Within /\ pc'[t] \in Within /\ Writes(t)
    BY <1>1, <1>4, <1>5 DEF Within, Writes
  <2>2. lock[Top(t)].writer = t
    BY <1>5, <2>1 DEF InvFor, Locks
  <2> QED  BY <1>1, <1>4, <1>5, <2>1, <2>2, LocksStay
<1>9. Marked(t)'
  BY <1>1, <1>4, <1>5 DEF InvFor, Marked, Depth, Top, Within
<1>10. SearchFits(t)'
  BY <1>1, <1>4, <1>5 DEF SearchFits, Top
<1> QED  BY <1>4, <1>6, <1>7, <1>8, <1>9, <1>10

\* It has the same buckets, the top one in another way.
LEMMA LocksChanged ==
  ASSUME HashMapInv, Types', NEW t \in Thread, NEW b \in Bucket, b = Top(t),
         pc[t] \in Within, pc'[t] \in Within \ {"upgrade", "upgrading"},
         stack'[t] = stack[t],
         lock'[b].writer = t \/ t \in lock'[b].readers,
         lock'[b].upgrading # t,
         Writes(t)' => lock'[b].writer = t,
         \A c \in Bucket : c # b => lock'[c] = lock[c]
  PROVE  Locks(t)'
<1>1. Locks(t) /\ Types /\ StackFits(t)
  BY InvParts DEF InvFor
<1>2. pc[t] \notin Outside
  BY DEF Within, Outside
<1>3. /\ Depth(t) \in Nat /\ Depth(t) >= 1 /\ b = stack[t][Depth(t)]
      /\ \A i \in 1..Depth(t) : stack[t][i] \in Bucket
  BY <1>1, <1>2, Typed DEF StackFits
<1>4. /\ Held(t) = Depth(t) /\ Held(t)' = Depth(t) /\ Depth(t)' = Depth(t)
      /\ Top(t)' = b
  BY DEF Held, Depth, Top
<1>5. \A i \in 1..(Depth(t) - 1) : lock'[stack[t][i]].writer = t
  <2> TAKE i \in 1..(Depth(t) - 1)
  <2>1. i \in 1..Depth(t) /\ Depth(t) \in 1..Depth(t) /\ i # Depth(t)
    BY <1>3
  <2>2. stack[t][i] # b /\ stack[t][i] \in Bucket /\ lock[stack[t][i]].writer = t
    BY <1>1, <1>3, <1>4, <2>1 DEF Locks
  <2> QED  BY <2>2
<1>6. \A i, j \in 1..Depth(t) : i # j => stack[t][i] # stack[t][j]
  BY <1>1, <1>4 DEF Locks
<1>7. ASSUME NEW c \in Bucket
      PROVE  /\ lock'[c].writer = t => \E i \in 1..Depth(t) : stack[t][i] = c
             /\ t \in lock'[c].readers => c = b
             /\ lock'[c].upgrading # t
  <2>1. CASE c = b
    BY <1>3, <2>1
  <2>2. CASE c # b
    <3>1. lock'[c] = lock[c]
      BY <2>2
    <3>2. lock[c].writer = t => \E i \in 1..Depth(t) : stack[t][i] = c
      BY <1>1, <1>4 DEF Locks
    <3>3. t \notin lock[c].readers
      BY <1>1, <2>2 DEF Locks
    <3>4. lock[c].upgrading # t
      BY <3>3, InvParts, HashMapAssumption DEF LockFits
    <3> QED  BY <3>1, <3>2, <3>3, <3>4
  <2> QED  BY <2>1, <2>2
<1> QED  BY <1>4, <1>5, <1>6, <1>7 DEF Locks

\* Who may write a bucket is alone with it.
LEMMA AloneIfCanWrite ==
  ASSUME HashMapInv, NEW b \in Bucket, CanWrite(b)
  PROVE  lock[b].writer = None /\ \A u \in Thread : ~Locked(b, u)
  BY HashMapAssumption DEF CanWrite, Locked

LEMMA AcquireKeeps ==
  ASSUME HashMapInv, NEW t \in Thread, Acquire(t)
  PROVE  HashMapInv'
<1> DEFINE p == IF Depth(t) > 1 THEN "rehash" ELSE "search"
<1>1. /\ pc[t] = "lock" /\ pc' = [pc EXCEPT ![t] = p]
      /\ UNCHANGED <<table, list, nodeKey, item, acc, call, local>>
  BY DEF Acquire, Goto, Entered, Depth
<1>2. pc[t] \in Inner \ {"item"} /\ p \in Inner \ {"item"}
  BY <1>1 DEF Inner, Within, Before
<1>3. InvFor(t) /\ Types /\ t # None
  BY InvParts, HashMapAssumption
<1>4. Depth(t) \in Nat /\ Depth(t) >= 1 /\ Top(t) \in Bucket
  BY <1>1, <1>3, Typed DEF InvFor, StackFits, Outside
<1>5. /\ p \in {"rehash", "search"} /\ (p = "rehash" => Depth(t) > 1)
      /\ (p = "search" => Depth(t) = 1)
  BY <1>4
<1> HIDE DEF p
<1>6. PICK b \in Bucket : b = Top(t)
  BY <1>4
<1>7. /\ lock' \in [Bucket -> MutexSet] /\ LocksMine(t) /\ \A c \in Bucket : LockFits(c)'
      /\ lock[b].writer = None
      /\ lock'[b].writer = t \/ t \in lock'[b].readers
      /\ lock'[b].upgrading # t
      /\ call[t].op = "erase" /\ Depth(t) = 1 => lock'[b].writer = t
      /\ \A c \in Bucket : c # b => lock'[c] = lock[c]
  <2>1. CASE call[t].op = "erase" /\ Depth(t) = 1
    <3>1. CanWrite(b) /\ lock' = Writing(t)
      BY <1>6, <2>1 DEF Acquire, Depth
    <3>2. lock[b].writer = None /\ \A u \in Thread : ~Locked(b, u)
      BY <3>1, AloneIfCanWrite
    <3>3. /\ LocksMine(t) /\ \A c \in Bucket : LockFits(c)'
          /\ lock'[b] = Mutex({}, t, None)
          /\ \A c \in Bucket : c # b => lock'[c] = lock[c]
      BY <1>6, <3>1, <3>2, LockWritten
    <3>4. lock' \in [Bucket -> MutexSet]
      BY <1>3, <3>1, WritingTyped
    <3> QED  BY <1>3, <3>2, <3>3, <3>4, MutexIs
  <2>2. CASE ~(call[t].op = "erase" /\ Depth(t) = 1)
    <3>1. CanRead(b) /\ lock' = Reading(t)
      BY <1>6, <2>2 DEF Acquire, Depth
    <3>2. /\ LocksMine(t) /\ \A c \in Bucket : LockFits(c)'
          /\ lock'[b] = Mutex(lock[b].readers \cup {t}, None, None)
          /\ \A c \in Bucket : c # b => lock'[c] = lock[c]
      BY <1>6, <3>1, LockRead
    <3>3. lock' \in [Bucket -> MutexSet]
      <4>1. lock' = [lock EXCEPT ![b] = Mutex(lock[b].readers \cup {t}, lock[b].writer,
                                              lock[b].upgrading)]
        BY <1>6, <3>1 DEF Reading
      <4>2. /\ lock[b].readers \cup {t} \in SUBSET Thread
            /\ lock[b].writer \in Thread \cup {None} /\ lock[b].upgrading \in Thread \cup {None}
        BY <1>3, Typed
      <4> QED  BY <1>3, <4>1, <4>2, LockTyped
    <3> QED  BY <1>3, <2>2, <3>1, <3>2, <3>3, MutexIs DEF CanRead
  <2> QED  BY <2>1, <2>2
<1>8. /\ Types' /\ Others(t) /\ pc'[t] = p
      /\ (StackFits(t) /\ CallFits(t) /\ Locks(t) /\ Marked(t) /\ SearchFits(t))' => HashMapInv'
  BY <1>1, <1>2, <1>7, LockStep
<1>9. stack' = stack /\ list' = list /\ call' = call /\ Depth(t)' = Depth(t)
  BY <1>1 DEF local, Depth
<1>10. StackFits(t)'
  BY <1>1, <1>3, <1>4, <1>5, <1>8, <1>9 DEF InvFor, StackFits, Outside, Rehashed, local, table
<1>11. CallFits(t)'
  BY <1>1, <1>3, <1>5, <1>8, <1>9 DEF InvFor, CallFits, Inserting, Within, Before, local
<1>12. Locks(t)'
  <2>1. pc[t] \in Before /\ pc'[t] \in Within \ {"upgrade", "upgrading"}
    BY <1>1, <1>5, <1>8 DEF Within, Before
  <2>2. Writes(t)' => lock'[b].writer = t
    BY <1>5, <1>7, <1>8, <1>9 DEF Writes
  <2> QED  BY <1>6, <1>7, <1>8, <1>9, <2>1, <2>2, LocksTaken
<1>13. Marked(t)'
  BY <1>1, <1>3, <1>8, <1>9 DEF InvFor, Marked, Top
<1>14. SearchFits(t)'
  BY <1>5, <1>8 DEF SearchFits
<1> QED  BY <1>8, <1>10, <1>11, <1>12, <1>13, <1>14

(***************************************************************************)
(* upgrade_to_writer.                                                      *)
(***************************************************************************)

LEMMA BeginUpgradeKeeps ==
  ASSUME HashMapInv, NEW t \in Thread, BeginUpgrade(t)
  PROVE  HashMapInv'
<1> DEFINE p == "upgrading"
<1>1. /\ pc[t] = "upgrade" /\ pc' = [pc EXCEPT ![t] = p]
      /\ UNCHANGED <<table, list, nodeKey, item, acc, call, local>>
  BY DEF BeginUpgrade, Goto
<1>2. pc[t] \in Inner \ {"item"} /\ p \in Inner \ {"item"}
  BY <1>1 DEF Inner, Within, Before
<1>3. InvFor(t) /\ Types /\ t # None
  BY InvParts, HashMapAssumption
<1>4. Depth(t) \in Nat /\ Depth(t) >= 1 /\ Top(t) \in Bucket
  BY <1>1, <1>3, Typed DEF InvFor, StackFits, Outside
<1>6. PICK b \in Bucket : b = Top(t)
  BY <1>4
<1>7. /\ lock[b].upgrading = None /\ t \in lock[b].readers
      /\ lock' = [lock EXCEPT ![b] = Mutex(@.readers, @.writer, t)]
  BY <1>1, <1>3, <1>6 DEF BeginUpgrade, InvFor, Locks
<1>8. /\ LocksMine(t) /\ \A c \in Bucket : LockFits(c)'
      /\ \A c \in Bucket : lock'[c].writer = lock[c].writer /\ lock'[c].readers = lock[c].readers
  BY <1>6, <1>7, LockUpgrading
<1>9. lock' \in [Bucket -> MutexSet]
  <2>1. lock' = [lock EXCEPT ![b] = Mutex(lock[b].readers, lock[b].writer, t)]
    BY <1>7
  <2>2. lock[b].readers \in SUBSET Thread /\ lock[b].writer \in Thread \cup {None}
    BY <1>3, Typed
  <2> QED  BY <1>3, <2>1, <2>2, LockTyped
<1>10. /\ Types' /\ Others(t) /\ pc'[t] = p
       /\ (StackFits(t) /\ CallFits(t) /\ Locks(t) /\ Marked(t) /\ SearchFits(t))' => HashMapInv'
  BY <1>1, <1>2, <1>8, <1>9, LockStep
<1>11. /\ stack' = stack /\ list' = list /\ call' = call /\ acc' = acc
       /\ Depth(t)' = Depth(t) /\ Top(t)' = Top(t)
  BY <1>1 DEF local, Depth, Top
<1>12. StackFits(t)'
  BY <1>1, <1>3, <1>4, <1>10, <1>11 DEF InvFor, StackFits, Outside, Rehashed, local, table
<1>13. CallFits(t)'
  BY <1>1, <1>3, <1>10, <1>11 DEF InvFor, CallFits, Inserting, Within, Before, local
<1>14. Locks(t)'
  <2>1. Locks(t) /\ pc[t] \in Within /\ pc'[t] \in Within /\ Held(t)' = Held(t)
    BY <1>1, <1>3, <1>10, <1>11 DEF InvFor, Within, Held
  <2>2. ~Writes(t)'
    BY <1>1, <1>3, <1>10, <1>11 DEF Writes, InvFor, CallFits, Inserting
  <2>3. \A i \in 1..(Depth(t) - 1) : lock'[stack[t][i]].writer = t
    BY <1>8, HasLock
  <2>4. t \in lock'[Top(t)].readers
    BY <1>6, <1>7, <1>8
  <2>5. \A c \in Bucket : /\ lock'[c].writer = t => \E i \in 1..Held(t) : stack[t][i] = c
                          /\ t \in lock'[c].readers => Top(t) = c
    BY <1>8, <2>1 DEF Locks
  <2>6. \A i, j \in 1..Held(t) : i # j => stack[t][i] # stack[t][j]
    BY <2>1 DEF Locks
  <2> QED  BY <1>10, <1>11, <2>1, <2>2, <2>3, <2>4, <2>5, <2>6 DEF Locks
<1>15. Marked(t)'
  BY <1>1, <1>3, <1>10, <1>11 DEF InvFor, Marked, Within
<1>16. SearchFits(t)'
  BY <1>1, <1>3, <1>10, <1>11 DEF SearchFits, InvFor, Found
<1> QED  BY <1>10, <1>12, <1>13, <1>14, <1>15, <1>16

LEMMA EndUpgradeKeeps ==
  ASSUME HashMapInv, NEW t \in Thread, EndUpgrade(t)
  PROVE  HashMapInv'
<1> DEFINE p == IF Depth(t) > 1 THEN "rehash" ELSE "race"
<1>1. /\ pc[t] = "upgrading" /\ pc' = [pc EXCEPT ![t] = p]
      /\ UNCHANGED <<table, list, nodeKey, item, acc, call, local>>
  BY DEF EndUpgrade, Goto, Depth
<1>2. pc[t] \in Inner \ {"item"} /\ p \in Inner \ {"item"}
  BY <1>1 DEF Inner, Within, Before
<1>3. InvFor(t) /\ Types /\ t # None
  BY InvParts, HashMapAssumption
<1>4. Depth(t) \in Nat /\ Depth(t) >= 1 /\ Top(t) \in Bucket
  BY <1>1, <1>3, Typed DEF InvFor, StackFits, Outside
<1>5. /\ p \in {"rehash", "race"} /\ (p = "rehash" => Depth(t) > 1)
      /\ (p = "race" => Depth(t) = 1)
  BY <1>4
<1> HIDE DEF p
<1>6. PICK b \in Bucket : b = Top(t)
  BY <1>4
<1>7. lock' = Writing(t) /\ \A u \in Thread : u # t => ~Locked(b, u)
  <2>1. lock[b].readers = {t} /\ lock' = Writing(t)
    BY <1>6 DEF EndUpgrade
  <2>2. lock[b].writer = None
    BY <2>1, InvParts DEF LockFits
  <2> QED  BY <2>1, <2>2, HashMapAssumption DEF Locked
<1>8. /\ LocksMine(t) /\ \A c \in Bucket : LockFits(c)'
      /\ lock'[b] = Mutex({}, t, None)
      /\ \A c \in Bucket : c # b => lock'[c] = lock[c]
  BY <1>6, <1>7, LockWritten
<1>9. lock' \in [Bucket -> MutexSet] /\ lock'[b].writer = t /\ lock'[b].upgrading # t
  <2>1. lock' \in [Bucket -> MutexSet]
    BY <1>3, <1>7, WritingTyped
  <2> QED  BY <1>3, <1>8, <2>1, MutexIs
<1>10. /\ Types' /\ Others(t) /\ pc'[t] = p
       /\ (StackFits(t) /\ CallFits(t) /\ Locks(t) /\ Marked(t) /\ SearchFits(t))' => HashMapInv'
  BY <1>1, <1>2, <1>8, <1>9, LockStep
<1>11. /\ stack' = stack /\ list' = list /\ call' = call /\ acc' = acc /\ nodeKey' = nodeKey
       /\ Depth(t)' = Depth(t) /\ Top(t)' = Top(t)
  BY <1>1 DEF local, Depth, Top
<1>12. StackFits(t)'
  BY <1>1, <1>3, <1>4, <1>5, <1>10, <1>11 DEF InvFor, StackFits, Outside, Rehashed, local, table
<1>13. CallFits(t)'
  BY <1>1, <1>3, <1>5, <1>10, <1>11 DEF InvFor, CallFits, Inserting, Within, Before, local
<1>14. Locks(t)'
  <2>1. pc[t] \in Within /\ pc'[t] \in Within \ {"upgrade", "upgrading"}
    BY <1>1, <1>5, <1>10 DEF Within
  <2> QED  BY <1>6, <1>8, <1>9, <1>10, <1>11, <2>1, LocksChanged
<1>15. Marked(t)'
  BY <1>1, <1>3, <1>10, <1>11 DEF InvFor, Marked, Within
<1>16. SearchFits(t)'
  <2>1. Found(t)' = Found(t)
    BY <1>11 DEF Found
  <2> QED  BY <1>1, <1>3, <1>5, <1>10, <1>11, <2>1 DEF SearchFits, InvFor
<1> QED  BY <1>10, <1>12, <1>13, <1>14, <1>15, <1>16

LEMMA YieldUpgradeKeeps ==
  ASSUME HashMapInv, NEW t \in Thread, YieldUpgrade(t)
  PROVE  HashMapInv'
<1> DEFINE p == "reacquire"
<1>1. /\ pc[t] = "upgrade" /\ pc' = [pc EXCEPT ![t] = p] /\ lock' = Released(t)
      /\ UNCHANGED <<table, list, nodeKey, item, acc, call, local>>
  BY DEF YieldUpgrade, Goto
<1>2. pc[t] \in Inner \ {"item"} /\ p \in Inner \ {"item"}
  BY <1>1 DEF Inner, Within, Before
<1>3. InvFor(t) /\ Types
  BY InvParts
<1>4. Depth(t) \in Nat /\ Depth(t) >= 1 /\ Top(t) \in Bucket
  BY <1>1, <1>3, Typed DEF InvFor, StackFits, Outside
<1>6. PICK b \in Bucket : b = Top(t)
  BY <1>4
<1>8. /\ LocksMine(t) /\ \A c \in Bucket : LockFits(c)'
      /\ lock'[b].writer # t /\ t \notin lock'[b].readers /\ lock'[b].upgrading # t
      /\ \A c \in Bucket : c # b => lock'[c] = lock[c]
  BY <1>1, <1>6, LockReleased
<1>9. lock' \in [Bucket -> MutexSet]
  BY <1>1, <1>3, <1>4, ReleasedTyped
<1>10. /\ Types' /\ Others(t) /\ pc'[t] = p
       /\ (StackFits(t) /\ CallFits(t) /\ Locks(t) /\ Marked(t) /\ SearchFits(t))' => HashMapInv'
  BY <1>1, <1>2, <1>8, <1>9, LockStep
<1>11. /\ stack' = stack /\ list' = list /\ call' = call /\ acc' = acc /\ nodeKey' = nodeKey
       /\ Depth(t)' = Depth(t) /\ Top(t)' = Top(t)
  BY <1>1 DEF local, Depth, Top
<1>12. StackFits(t)'
  BY <1>1, <1>3, <1>4, <1>10, <1>11 DEF InvFor, StackFits, Outside, Rehashed, local, table
<1>13. CallFits(t)'
  BY <1>1, <1>3, <1>10, <1>11 DEF InvFor, CallFits, Inserting, Within, Before, local
<1>14. Locks(t)'
  <2>1. pc[t] \in Within \ {"upgrading"} /\ pc'[t] \notin Within
    BY <1>1, <1>10 DEF Within
  <2> QED  BY <1>6, <1>8, <1>10, <1>11, <2>1, LocksGiven
<1>15. Marked(t)'
  BY <1>1, <1>3, <1>10, <1>11 DEF InvFor, Marked, Within
<1>16. SearchFits(t)'
  BY <1>10 DEF SearchFits
<1> QED  BY <1>10, <1>12, <1>13, <1>14, <1>15, <1>16

LEMMA ReacquireKeeps ==
  ASSUME HashMapInv, NEW t \in Thread, Reacquire(t)
  PROVE  HashMapInv'
<1> DEFINE p == IF Depth(t) > 1 THEN "rehash" ELSE "again"
<1>1. /\ pc[t] = "reacquire" /\ pc' = [pc EXCEPT ![t] = p] /\ lock' = Writing(t)
      /\ CanWrite(Top(t)) /\ UNCHANGED <<table, list, nodeKey, item, acc, call, local>>
  BY DEF Reacquire, Goto, Depth
<1>2. pc[t] \in Inner \ {"item"} /\ p \in Inner \ {"item"}
  BY <1>1 DEF Inner, Within, Before
<1>3. InvFor(t) /\ Types /\ t # None
  BY InvParts, HashMapAssumption
<1>4. Depth(t) \in Nat /\ Depth(t) >= 1 /\ Top(t) \in Bucket
  BY <1>1, <1>3, Typed DEF InvFor, StackFits, Outside
<1>5. /\ p \in {"rehash", "again"} /\ (p = "rehash" => Depth(t) > 1)
      /\ (p = "again" => Depth(t) = 1)
  BY <1>4
<1> HIDE DEF p
<1>6. PICK b \in Bucket : b = Top(t)
  BY <1>4
<1>7. lock[b].writer = None /\ \A u \in Thread : ~Locked(b, u)
  BY <1>1, <1>6, AloneIfCanWrite
<1>8. /\ LocksMine(t) /\ \A c \in Bucket : LockFits(c)'
      /\ lock'[b] = Mutex({}, t, None)
      /\ \A c \in Bucket : c # b => lock'[c] = lock[c]
  BY <1>1, <1>6, <1>7, LockWritten
<1>9. lock' \in [Bucket -> MutexSet] /\ lock'[b].writer = t /\ lock'[b].upgrading # t
  <2>1. lock' \in [Bucket -> MutexSet]
    BY <1>1, <1>3, WritingTyped
  <2> QED  BY <1>3, <1>8, <2>1, MutexIs
<1>10. /\ Types' /\ Others(t) /\ pc'[t] = p
       /\ (StackFits(t) /\ CallFits(t) /\ Locks(t) /\ Marked(t) /\ SearchFits(t))' => HashMapInv'
  BY <1>1, <1>2, <1>8, <1>9, LockStep
<1>11. /\ stack' = stack /\ list' = list /\ call' = call /\ acc' = acc /\ nodeKey' = nodeKey
       /\ Depth(t)' = Depth(t) /\ Top(t)' = Top(t)
  BY <1>1 DEF local, Depth, Top
<1>12. StackFits(t)'
  BY <1>1, <1>3, <1>4, <1>5, <1>10, <1>11 DEF InvFor, StackFits, Outside, Rehashed, local, table
<1>13. CallFits(t)'
  BY <1>1, <1>3, <1>5, <1>10, <1>11 DEF InvFor, CallFits, Inserting, Within, Before, local
<1>14. Locks(t)'
  <2>1. pc[t] \in Before /\ pc'[t] \in Within \ {"upgrade", "upgrading"}
    BY <1>1, <1>5, <1>10 DEF Within, Before
  <2> QED  BY <1>6, <1>7, <1>8, <1>9, <1>10, <1>11, <2>1, LocksTaken
<1>15. Marked(t)'
  BY <1>1, <1>3, <1>10, <1>11 DEF InvFor, Marked, Within
<1>16. SearchFits(t)'
  BY <1>5, <1>10 DEF SearchFits
<1> QED  BY <1>10, <1>12, <1>13, <1>14, <1>15, <1>16

(***************************************************************************)
(* rehash_bucket: a bucket is marked, and filled from its parent.          *)
(***************************************************************************)

\* A step that leaves the same buckets complete.
LEMMA HomesSame ==
  ASSUME HashMapInv, Types', NEW t \in Thread, mask <= mask',
         \A b : Complete(b)' <=> Complete(b),
         \A b \in Bucket : list[b] # RehashReq => list'[b] # RehashReq,
         \A b \in Bucket : list'[b] # RehashReq => b <= mask',
         \A b \in Bucket : list'[b] # RehashReq =>
           \A i \in list'[b] : nodeKey'[i] # None /\ \A k : k = nodeKey'[i] => IsHome(b, k),
         \A i, j \in Linked' : nodeKey'[i] = nodeKey'[j] => i = j
  PROVE  ListsFit' /\ HomesMine(t) /\ \A b, k : IsHome(b, k)' <=> IsHome(b, k)
<1>1. \A b, k : IsHome(b, k)' <=> IsHome(b, k)
  BY DEF IsHome
<1>2. HomesMine(t)
  BY <1>1 DEF HomesMine
<1>3. ListsFit
  BY InvParts
<1>4. \A b \in Bucket : b <= 1 => list'[b] # RehashReq
  BY <1>3 DEF ListsFit
<1>5. \A b, c \in Bucket : Complete(c)' /\ OnPath(b, c) => Complete(b)'
  BY <1>3 DEF ListsFit
<1>6. \A b \in Bucket : list'[b] # RehashReq =>
        \A i \in list'[b] : (nodeKey[i] # None /\ IsHome(b, nodeKey[i]))'
  <2> SUFFICES ASSUME NEW b \in Bucket, list'[b] # RehashReq, NEW i \in list'[b]
               PROVE  (nodeKey[i] # None /\ IsHome(b, nodeKey[i]))'
    OBVIOUS
  <2>1. PICK k : k = nodeKey'[i]
    OBVIOUS
  <2>2. k # None /\ IsHome(b, k)
    BY <2>1
  <2>3. IsHome(b, k)'
    BY <1>1, <2>2
  <2> QED  BY <2>1, <2>2, <2>3 DEF IsHome
<1>7. ListsFit'
  BY <1>4, <1>5, <1>6 DEF ListsFit
<1> QED  BY <1>1, <1>2, <1>7

\* Thread t is in an operation, and its other fields stay as they are.
LEMMA OtherNodes ==
  ASSUME HashMapInv, Types', NEW t \in Thread, Others(t), nodeKey' = nodeKey, item' = item,
         acc'[t] = acc[t], tmp'[t] = tmp[t], call'[t] = call[t], Linked' = Linked,
         pc[t] \notin {"release", "delete", "idle"},
         pc'[t] \notin {"release", "delete", "item"}
  PROVE  NodesFit(t)' /\ Private(t)' = Private(t)
<1>1. NodesFit(t)
  BY InvParts DEF InvFor
<1>2. Private(t)' = Private(t)
  BY DEF Private
<1>3. \A u \in Thread : u # t => Private(u)' = Private(u)
  <2> TAKE u \in Thread
  <2> HAVE u # t
  <2>1. tmp'[u] = tmp[u] /\ pc'[u] = pc[u] /\ acc'[u] = acc[u] /\ n'[u] = n[u]
    BY DEF Others
  <2> QED  BY <2>1 DEF Private
<1>4. \A u \in Thread : u # t => Private(t)' \cap Private(u)' = {}
  BY <1>1, <1>2, <1>3 DEF NodesFit
<1>5. \A i \in Private(t) : nodeKey[i] # None /\ i \notin Linked
  BY <1>1 DEF NodesFit
<1>6. acc[t] # None => /\ item[acc[t]] = t /\ nodeKey[acc[t]] # None /\ acc[t] \in Linked
                       /\ call[t].op = "erase" => nodeKey[acc[t]] = call[t].key
  BY <1>1 DEF NodesFit
<1>7. /\ \A i \in Node : item[i] = t => acc[t] = i
      /\ tmp[t] # None => nodeKey[tmp[t]] = call[t].key
  BY <1>1 DEF NodesFit
<1> QED  BY <1>2, <1>4, <1>5, <1>6, <1>7 DEF NodesFit

\* The bucket was rehashed meanwhile.
LEMMA TryFindsRehashed ==
  ASSUME HashMapInv, NEW t \in Thread, TryRehash(t), list[Top(t)] # RehashReq
  PROVE  HashMapInv'
<1> DEFINE p == IF Depth(t) > 1 THEN "rehash" ELSE "search"
<1>1. /\ pc[t] = "try" /\ pc' = [pc EXCEPT ![t] = p] /\ lock' = Writing(t)
      /\ CanWrite(Top(t)) /\ UNCHANGED <<table, list, nodeKey, item, acc, call, local>>
  BY DEF TryRehash, Goto, Entered, Depth, local
<1>2. pc[t] \in Inner \ {"item"} /\ p \in Inner \ {"item"}
  BY <1>1 DEF Inner, Within, Before
<1>3. InvFor(t) /\ Types /\ t # None
  BY InvParts, HashMapAssumption
<1>4. Depth(t) \in Nat /\ Depth(t) >= 1 /\ Top(t) \in Bucket
  BY <1>1, <1>3, Typed DEF InvFor, StackFits, Outside
<1>5. /\ p \in {"rehash", "search"} /\ (p = "rehash" => Depth(t) > 1)
      /\ (p = "search" => Depth(t) = 1)
  BY <1>4
<1> HIDE DEF p
<1>6. PICK b \in Bucket : b = Top(t)
  BY <1>4
<1>7. lock[b].writer = None /\ \A u \in Thread : ~Locked(b, u)
  BY <1>1, <1>6, AloneIfCanWrite
<1>8. /\ LocksMine(t) /\ \A c \in Bucket : LockFits(c)'
      /\ lock'[b] = Mutex({}, t, None)
      /\ \A c \in Bucket : c # b => lock'[c] = lock[c]
  BY <1>1, <1>6, <1>7, LockWritten
<1>9. lock' \in [Bucket -> MutexSet] /\ lock'[b].writer = t /\ lock'[b].upgrading # t
  <2>1. lock' \in [Bucket -> MutexSet]
    BY <1>1, <1>3, WritingTyped
  <2> QED  BY <1>3, <1>8, <2>1, MutexIs
<1>10. /\ Types' /\ Others(t) /\ pc'[t] = p
       /\ (StackFits(t) /\ CallFits(t) /\ Locks(t) /\ Marked(t) /\ SearchFits(t))' => HashMapInv'
  BY <1>1, <1>2, <1>8, <1>9, LockStep
<1>11. /\ stack' = stack /\ list' = list /\ call' = call /\ acc' = acc /\ nodeKey' = nodeKey
       /\ Depth(t)' = Depth(t) /\ Top(t)' = Top(t)
  BY <1>1 DEF local, Depth, Top
<1>12. StackFits(t)'
  BY <1>1, <1>3, <1>4, <1>5, <1>10, <1>11 DEF InvFor, StackFits, Outside, Rehashed, local, table
<1>13. CallFits(t)'
  BY <1>1, <1>3, <1>5, <1>10, <1>11 DEF InvFor, CallFits, Inserting, Within, Before, local
<1>14. Locks(t)'
  <2>1. pc[t] \in Before /\ pc'[t] \in Within \ {"upgrade", "upgrading"}
    BY <1>1, <1>5, <1>10 DEF Within, Before
  <2> QED  BY <1>6, <1>7, <1>8, <1>9, <1>10, <1>11, <2>1, LocksTaken
<1>15. Marked(t)'
  BY <1>3, <1>11 DEF InvFor, Marked
<1>16. SearchFits(t)'
  BY <1>5, <1>10 DEF SearchFits
<1> QED  BY <1>10, <1>12, <1>13, <1>14, <1>15, <1>16

LEMMA TryMarksBucket ==
  ASSUME HashMapInv, NEW t \in Thread, TryRehash(t), list[Top(t)] = RehashReq
  PROVE  HashMapInv'
<1>1. /\ pc[t] = "try" /\ pc' = [pc EXCEPT ![t] = "look"] /\ lock' = Writing(t)
      /\ CanWrite(Top(t)) /\ list' = [list EXCEPT ![Top(t)] = {}]
      /\ stack' = [stack EXCEPT ![t] = Append(@, Parent(Top(t)))]
      /\ mask' = mask /\ claimed' = claimed /\ nodeKey' = nodeKey /\ item' = item /\ acc' = acc
      /\ call' = call /\ m' = m /\ n' = n /\ tmp' = tmp /\ probe' = probe /\ grow' = grow
  BY DEF TryRehash, Goto, table
<1>2. InvFor(t) /\ Types /\ ListsFit /\ t # None /\ {} # RehashReq
  <2>1. {} \in SUBSET Node
    OBVIOUS
  <2> QED  BY <2>1, InvParts, HashMapAssumption
<1>3. /\ Depth(t) \in Nat /\ Depth(t) >= 1 /\ Top(t) \in Bucket /\ Top(t) = stack[t][Depth(t)]
      /\ \A i \in 1..Depth(t) : stack[t][i] \in Bucket
  BY <1>1, <1>2, Typed DEF InvFor, StackFits, Outside
<1>4. PICK b \in Bucket : b = Top(t)
  BY <1>3
<1>5. /\ b \in Nat /\ b > 1 /\ b <= mask /\ mask \in Nat
      /\ Parent(b) \in Nat /\ Parent(b) < b /\ Parent(b) \in Bucket
  <2>1. b \in Nat /\ b <= MaxMask /\ MaxMask \in Nat
    BY HashMapAssumption, <1>2, Typed
  <2>2. b > 1
    BY <1>2, <1>4, <2>1 DEF ListsFit
  <2>3. b <= mask /\ mask \in Nat
    <3>1. Depth(t) \in 1..Depth(t)
      BY <1>3
    <3> QED  BY <1>2, <1>3, <1>4, <3>1 DEF InvFor, StackFits, Types
  <2>4. Parent(b) \in Nat /\ Parent(b) < b
    BY <2>1, <2>2, ParentIs
  <2> QED  BY <2>1, <2>2, <2>3, <2>4 DEF Bucket
<1>6. /\ Depth(t)' = Depth(t) + 1
      /\ \A i \in 1..Depth(t) : stack'[t][i] = stack[t][i]
      /\ stack'[t][Depth(t) + 1] = Parent(b)
      /\ stack'[t] \in Seq(Bucket)
  <2>1. stack'[t] = Append(stack[t], Parent(b))
    BY <1>1, <1>2, <1>4 DEF Types
  <2>2. stack[t] \in Seq(Bucket)
    BY <1>2 DEF Types
  <2> QED  BY <1>5, <2>1, <2>2, AppendProperties DEF Depth
<1>7. list'[b] = {} /\ \A c \in Bucket : c # b => list'[c] = list[c]
  BY <1>1, <1>2, <1>4 DEF Types
<1>8. Types'
  <2>1. lock' \in [Bucket -> MutexSet]
    BY <1>1, <1>2, WritingTyped
  <2>2. list' \in [Bucket -> (SUBSET Node) \cup {RehashReq}]
    BY <1>1, <1>2 DEF Types
  <2>3. stack' \in [Thread -> Seq(Bucket)]
    BY <1>1, <1>2, <1>6 DEF Types
  <2>4. pc' \in [Thread -> Within \cup Before \cup Outside]
    BY <1>1, <1>2 DEF Types, Before
  <2> QED  BY <1>1, <1>2, <2>1, <2>2, <2>3, <2>4 DEF Types, MutexSet
<1>9. Others(t) /\ pc'[t] = "look"
  BY <1>1, <1>2 DEF Others, Types
<1>10. lock[b].writer = None /\ \A u \in Thread : ~Locked(b, u)
  BY <1>1, <1>4, AloneIfCanWrite
<1>11. /\ LocksMine(t) /\ \A c \in Bucket : LockFits(c)'
       /\ lock'[b] = Mutex({}, t, None)
       /\ \A c \in Bucket : c # b => lock'[c] = lock[c]
  BY <1>1, <1>4, <1>10, LockWritten
<1>12. ASSUME NEW i \in 1..(Depth(t) - 1)
       PROVE  /\ i \in 1..Depth(t) /\ stack[t][i] \in Bucket /\ stack[t][i] # b
              /\ lock[stack[t][i]].writer = t
  <2>1. stack[t][i] \in Bucket /\ lock[stack[t][i]].writer = t
    BY HasLock
  <2> QED  BY <1>2, <1>3, <1>10, <2>1
<1>13. Linked' = Linked
  <2>1. ASSUME NEW i PROVE i \in Linked' <=> i \in Linked
    BY <1>4, <1>7 DEF Linked
  <2> QED  BY <2>1
<1>14. \A c : Complete(c)' <=> Complete(c)
  <2>1. Splitting(t)' = Splitting(t) \cup {b}
    <3>1. ASSUME NEW c PROVE c \in Splitting(t)' <=> c \in Splitting(t) \cup {b}
      <4>1. c \in Splitting(t)' <=> \E i \in 1..Depth(t) : c = stack[t][i]
        BY <1>3, <1>6 DEF Splitting
      <4>2. c \in Splitting(t) <=> \E i \in 1..(Depth(t) - 1) : c = stack[t][i]
        BY DEF Splitting
      <4>3. Depth(t) \in 1..Depth(t) /\ b = stack[t][Depth(t)]
        BY <1>3, <1>4
      <4>4. \A i \in 1..Depth(t) : i = Depth(t) \/ i \in 1..(Depth(t) - 1)
        BY <1>3
      <4> QED  BY <1>12, <4>1, <4>2, <4>3, <4>4
    <3> QED  BY <3>1
  <2>2. ASSUME NEW u \in Thread, u # t PROVE Splitting(u)' = Splitting(u)
    <3>1. stack'[u] = stack[u]
      BY <1>9, <2>2 DEF Others
    <3> QED  BY <3>1 DEF Splitting, Depth
  <2> TAKE c
  <2>3. CASE c = b
    BY <1>4, <2>1, <2>3, CompleteIs
  <2>4. CASE c # b
    <3>1. \A u \in Thread : c \in Splitting(u)' <=> c \in Splitting(u)
      BY <2>1, <2>2, <2>4
    <3>2. c \in Bucket => list'[c] = list[c]
      BY <1>7, <2>4
    <3> QED  BY <3>1, <3>2, CompleteIs
  <2> QED  BY <2>3, <2>4
<1>15. ListsFit' /\ HomesMine(t)
  <2>1. mask <= mask' /\ \A c \in Bucket : list'[c] # RehashReq => c <= mask'
    BY <1>1, <1>2, <1>5, <1>7 DEF ListsFit
  <2>2. \A c \in Bucket : list[c] # RehashReq => list'[c] # RehashReq
    BY <1>2, <1>7
  <2>3. \A c \in Bucket : list'[c] # RehashReq =>
          \A i \in list'[c] : nodeKey'[i] # None /\ \A k : k = nodeKey'[i] => IsHome(c, k)
    BY <1>1, <1>2, <1>7 DEF ListsFit
  <2>4. \A i, j \in Linked' : nodeKey'[i] = nodeKey'[j] => i = j
    BY <1>1, <1>2, <1>13 DEF ListsFit
  <2> QED  BY <1>8, <1>14, <2>1, <2>2, <2>3, <2>4, HomesSame
<1>16. ListsMine(t)
  BY <1>2, <1>7, <1>10 DEF ListsMine
<1>17. NodesFit(t)' /\ Private(t)' = Private(t)
  BY <1>1, <1>8, <1>9, <1>13, OtherNodes
<1>18. NodesMine(t)
  BY <1>1, <1>13, <1>17 DEF NodesMine
<1>19. GrowthFits'
  BY <1>1, <1>8, <1>9, GrowthSame
<1>20. StackFits(t)'
  <2>1. /\ \A i \in 1..Depth(t) : stack[t][i] <= mask
        /\ \A i \in 1..(Depth(t) - 1) : stack[t][i] > 1 /\ stack[t][i + 1] = Parent(stack[t][i])
        /\ OnPath(stack[t][1], call[t].key) /\ stack[t][1] = Masked(call[t].key, m[t])
    BY <1>1, <1>2, <1>3 DEF InvFor, StackFits
  <2>2. \A i \in 1..(Depth(t) + 1) : i \in 1..Depth(t) \/ i = Depth(t) + 1
    BY <1>3
  <2>3. \A i \in 1..(Depth(t) + 1) : stack'[t][i] <= mask
    BY <1>5, <1>6, <2>1, <2>2
  <2>4. ASSUME NEW i \in 1..Depth(t)
        PROVE  stack'[t][i] > 1 /\ stack'[t][i + 1] = Parent(stack'[t][i])
    <3>1. CASE i = Depth(t)
      BY <1>3, <1>4, <1>5, <1>6, <3>1
    <3>2. CASE i # Depth(t)
      <4>1. i \in 1..(Depth(t) - 1) /\ i + 1 \in 1..Depth(t)
        BY <1>3, <3>2
      <4> QED  BY <1>6, <2>1, <4>1
    <3> QED  BY <3>1, <3>2
  <2>5. 1 \in 1..Depth(t) /\ Depth(t) + 1 >= 1 /\ (Depth(t) + 1) - 1 = Depth(t)
    BY <1>3
  <2>6. pc'[t] \notin Outside /\ pc'[t] \notin Rehashed /\ pc'[t] # "rehash"
    BY <1>9 DEF Outside, Rehashed
  <2> QED  BY <1>1, <1>6, <2>1, <2>3, <2>4, <2>5, <2>6 DEF StackFits
<1>21. CallFits(t)'
  BY <1>1, <1>2, <1>9 DEF InvFor, CallFits, Inserting, Within, Before
<1>22. Locks(t)'
  <2>1. pc[t] \notin Within /\ pc'[t] \notin Within /\ ~Writes(t)'
    BY <1>1, <1>9 DEF Within, Writes
  <2>2. Held(t) = Depth(t) - 1 /\ Held(t)' = Depth(t) /\ Depth(t)' - 1 = Depth(t)
    BY <1>3, <1>6, <2>1 DEF Held
  <2>3. lock'[b].writer = t /\ lock'[b].readers = {} /\ lock'[b].upgrading # t
    BY <1>2, <1>11, MutexIs
  <2>4. ASSUME NEW i \in 1..Depth(t)
        PROVE  lock'[stack'[t][i]].writer = t /\ stack'[t][i] = stack[t][i]
    <3>1. CASE i = Depth(t)
      BY <1>3, <1>4, <1>6, <2>3, <3>1
    <3>2. CASE i # Depth(t)
      <4>1. i \in 1..(Depth(t) - 1)
        BY <1>3, <3>2
      <4> QED  BY <1>6, <1>11, <1>12, <4>1
    <3> QED  BY <3>1, <3>2
  <2>5. ASSUME NEW i \in 1..Depth(t), NEW j \in 1..Depth(t), i # j
        PROVE  stack'[t][i] # stack'[t][j]
    <3>1. CASE i = Depth(t)
      <4>1. j \in 1..(Depth(t) - 1)
        BY <1>3, <2>5, <3>1
      <4> QED  BY <1>3, <1>4, <1>12, <2>4, <3>1, <4>1
    <3>2. CASE j = Depth(t)
      <4>1. i \in 1..(Depth(t) - 1)
        BY <1>3, <2>5, <3>2
      <4> QED  BY <1>3, <1>4, <1>12, <2>4, <3>2, <4>1
    <3>3. CASE i # Depth(t) /\ j # Depth(t)
      <4>1. i \in 1..Held(t) /\ j \in 1..Held(t)
        BY <1>3, <2>2, <3>3
      <4> QED  BY <1>2, <2>4, <2>5, <4>1 DEF InvFor, Locks
    <3> QED  BY <3>1, <3>2, <3>3
  <2>6. ASSUME NEW c \in Bucket
        PROVE  /\ lock'[c].writer = t => \E i \in 1..Depth(t) : stack'[t][i] = c
               /\ t \notin lock'[c].readers
               /\ lock'[c].upgrading # t
    <3>1. CASE c = b
      <4>1. Depth(t) \in 1..Depth(t)
        BY <1>3
      <4> QED  BY <1>3, <1>4, <2>3, <2>4, <3>1, <4>1
    <3>2. CASE c # b
      <4>1. lock'[c] = lock[c]
        BY <1>11, <3>2
      <4>2. lock[c].writer = t => \E i \in 1..(Depth(t) - 1) : stack[t][i] = c
        BY <1>2, <2>2 DEF InvFor, Locks
      <4>3. t \notin lock[c].readers
        BY <1>2, <2>1 DEF InvFor, Locks
      <4>4. lock[c].upgrading # t
        BY <1>2, <4>3, InvParts DEF LockFits
      <4> QED  BY <1>12, <2>4, <4>1, <4>2, <4>3, <4>4
    <3> QED  BY <3>1, <3>2
  <2> QED  BY <2>1, <2>2, <2>4, <2>5, <2>6 DEF Locks, Within
<1>23. Marked(t)'
  <2>1. \A i \in 1..Depth(t) : list'[stack'[t][i]] = {}
    <3> TAKE i \in 1..Depth(t)
    <3>1. CASE i = Depth(t)
      BY <1>3, <1>4, <1>6, <1>7, <3>1
    <3>2. CASE i # Depth(t)
      <4>1. i \in 1..(Depth(t) - 1)
        BY <1>3, <3>2
      <4>2. list[stack[t][i]] = {}
        BY <1>2, <4>1 DEF InvFor, Marked
      <4> QED  BY <1>6, <1>7, <1>12, <4>1, <4>2
    <3> QED  BY <3>1, <3>2
  <2>2. Depth(t)' - 1 = Depth(t) /\ pc'[t] \notin Within \cup {"lock", "reacquire"}
    BY <1>3, <1>6, <1>9 DEF Within
  <2> QED  BY <2>1, <2>2 DEF Marked
<1>24. SearchFits(t)'
  BY <1>9 DEF SearchFits
<1>25. InvFor(t)' /\ mask <= mask'
  BY <1>1, <1>5, <1>17, <1>20, <1>21, <1>22, <1>23, <1>24 DEF InvFor
<1> QED  BY <1>8, <1>9, <1>11, <1>15, <1>16, <1>18, <1>19, <1>25, StepKeeps

\* What a thread that is to fill a bucket knows of it and of its parent.
LEMMA ParentAndChild ==
  ASSUME HashMapInv, NEW t \in Thread, pc[t] = "rehash"
  PROVE  /\ Depth(t) \in Nat /\ Depth(t) > 1
         /\ \A i \in 1..Depth(t) : stack[t][i] \in Bucket
         /\ \A i, j \in 1..Depth(t) : i # j => stack[t][i] # stack[t][j]
         /\ \E b, child \in Bucket :
              /\ b = Top(t) /\ b = stack[t][Depth(t)] /\ child = stack[t][Depth(t) - 1]
              /\ child \in Nat /\ child > 1 /\ b = Parent(child) /\ b < child /\ child <= mask
              /\ lock[child].writer = t /\ list[child] = {} /\ list[b] # RehashReq
              /\ Locked(b, t) /\ Complete(b) /\ ~Complete(child)
<1>1. InvFor(t) /\ Types
  BY InvParts
<1>2. /\ Depth(t) \in Nat /\ Depth(t) > 1 /\ Top(t) \in Bucket /\ Top(t) = stack[t][Depth(t)]
      /\ \A i \in 1..Depth(t) : stack[t][i] \in Bucket
  BY <1>1, Typed DEF InvFor, StackFits
<1>3. pc[t] \in Within /\ Held(t) = Depth(t)
  BY DEF Within, Held
<1>4. \A i, j \in 1..Depth(t) : i # j => stack[t][i] # stack[t][j]
  BY <1>1, <1>3 DEF InvFor, Locks
<1>5. PICK b \in Bucket : b = Top(t)
  BY <1>2
<1>6. Depth(t) - 1 \in 1..(Depth(t) - 1) /\ Depth(t) - 1 \in 1..Depth(t) /\ (Depth(t) - 1) + 1 = Depth(t)
  BY <1>2
<1>7. PICK child \in Bucket : child = stack[t][Depth(t) - 1]
  BY <1>2, <1>6
<1>8. child > 1 /\ b = Parent(child) /\ child <= mask
  BY <1>1, <1>2, <1>5, <1>6, <1>7 DEF InvFor, StackFits
<1>9. child \in Nat /\ b < child
  <2>1. child \in Nat
    BY DEF Bucket
  <2> QED  BY <1>8, <2>1, ParentIs
<1>10. lock[child].writer = t /\ list[child] = {}
  BY <1>1, <1>6, <1>7 DEF InvFor, Locks, Marked
<1>11. list[b] # RehashReq /\ Locked(b, t)
  BY <1>1, <1>3, <1>5, HasLock DEF InvFor, Marked
<1>12. Complete(b)
  <2>1. ASSUME NEW u \in Thread, NEW i \in 1..(Depth(u) - 1) PROVE stack[u][i] # b
    <3>1. CASE u = t
      <4>1. i \in 1..Depth(t) /\ Depth(t) \in 1..Depth(t) /\ i # Depth(t)
        BY <1>2, <2>1, <3>1
      <4> QED  BY <1>2, <1>4, <1>5, <3>1, <4>1
    <3>2. CASE u # t
      <4>1. stack[u][i] \in Bucket /\ lock[stack[u][i]].writer = u
        BY HasLock
      <4> QED  BY <1>11, <3>2, <4>1, Excluded
    <3> QED  BY <3>1, <3>2
  <2> QED  BY <1>11, <2>1 DEF Complete
<1>13. ~Complete(child)
  BY <1>6, <1>7 DEF Complete
<1> QED  BY <1>2, <1>4, <1>5, <1>7, <1>8, <1>9, <1>10, <1>11, <1>12, <1>13

\* The homes of keys when bucket child is filled from its parent b.
LEMMA HomesSplit ==
  ASSUME HashMapInv, Types', NEW b \in Bucket, NEW child \in Bucket,
         child > 1, b = Parent(child), b < child, Complete(b), ~Complete(child),
         \A c : Complete(c)' <=> Complete(c) \/ c = child,
         NEW k \in Nat
  PROVE  /\ \A x : IsHome(x, k) /\ x # b => IsHome(x, k)'
         /\ IsHome(b, k) => IF OnPath(child, k) THEN IsHome(child, k)' ELSE IsHome(b, k)'
<1>1. ListsFit /\ \A c \in Bucket : c \in Nat
  BY InvParts DEF Bucket
<1>2. /\ OnPath(b, child)
      /\ \A a : OnPath(a, child) /\ a # child => OnPath(a, b) /\ a <= b
  BY <1>1, ParentIs
<1>3. ~OnPath(child, k) => \A x : IsHome(x, k) => IsHome(x, k)'
  BY DEF IsHome
<1>4. OnPath(child, k) => OnPath(b, k)
  BY <1>2, PathOfPath
<1>5. ASSUME OnPath(child, k), NEW x, IsHome(x, k) PROVE x = b
  <2>1. x \in Bucket /\ x \in Nat /\ OnPath(x, k) /\ Complete(x) /\ b <= x
    BY <1>1, <1>4, <1>5 DEF IsHome, Complete
  <2>2. CASE x <= child
    <3>1. OnPath(x, child) /\ x # child
      BY <1>5, <2>1, <2>2, EarlierOnPath
    <3>2. x <= b
      BY <1>2, <3>1
    <3> QED  BY <1>1, <2>1, <3>2
  <2>3. CASE ~(x <= child)
    <3>1. child <= x
      BY <1>1, <2>1, <2>3
    <3>2. OnPath(child, x)
      BY <1>5, <2>1, <3>1, EarlierOnPath
    <3>3. Complete(child)
      BY <1>1, <2>1, <3>2 DEF ListsFit
    <3> QED  BY <3>3
  <2> QED  BY <2>2, <2>3
<1>6. ASSUME OnPath(child, k), IsHome(b, k) PROVE IsHome(child, k)'
  <2>1. \A c \in Bucket : Complete(c)' /\ OnPath(c, k) => c <= child
    BY <1>1, <1>6 DEF IsHome
  <2> QED  BY <1>6, <2>1 DEF IsHome
<1> QED  BY <1>3, <1>5, <1>6

LEMMA RehashKeeps ==
  ASSUME HashMapInv, NEW t \in Thread, Rehash(t)
  PROVE  HashMapInv'
<1> DEFINE d == Depth(t)
           p == IF d - 1 > 1 THEN "rehash" ELSE "search"
<1>1. pc[t] = "rehash"
  BY DEF Rehash
<1>2. /\ d \in Nat /\ d > 1
      /\ \A i \in 1..d : stack[t][i] \in Bucket
      /\ \A i, j \in 1..d : i # j => stack[t][i] # stack[t][j]
  BY <1>1, ParentAndChild
<1>3. PICK b \in Bucket, child \in Bucket :
        /\ b = Top(t) /\ b = stack[t][d] /\ child = stack[t][d - 1]
        /\ child \in Nat /\ child > 1 /\ b = Parent(child) /\ b < child /\ child <= mask
        /\ lock[child].writer = t /\ list[child] = {} /\ list[b] # RehashReq
        /\ Locked(b, t) /\ Complete(b) /\ ~Complete(child)
  BY <1>1, ParentAndChild
<1> DEFINE moved == Moving(b, child)
<1>4. /\ MayMove(t, child) /\ list' = [list EXCEPT ![b] = @ \ moved, ![child] = @ \cup moved]
      /\ lock' = Released(t) /\ stack' = [stack EXCEPT ![t] = SubSeq(@, 1, Len(@) - 1)]
      /\ pc' = [pc EXCEPT ![t] = p]
      /\ mask' = mask /\ claimed' = claimed /\ nodeKey' = nodeKey /\ item' = item /\ acc' = acc
      /\ call' = call /\ m' = m /\ n' = n /\ tmp' = tmp /\ probe' = probe /\ grow' = grow
  BY <1>3 DEF Rehash, Goto, Entered, table, Depth
<1>5. /\ p \in {"rehash", "search"} /\ (p = "rehash" => d - 1 > 1)
      /\ (p = "search" => d - 1 = 1)
  BY <1>2
<1> HIDE DEF p
<1>6. InvFor(t) /\ Types /\ ListsFit /\ t # None
  BY InvParts, HashMapAssumption
<1>7. list[b] \in SUBSET Node /\ moved \subseteq list[b] /\ b # child /\ b \in Nat
  BY <1>3, <1>6 DEF Types, Moving, Bucket
<1>8. \A i \in moved : Masked(nodeKey[i], FullMask(child)) = child
  BY DEF Moving
<1>9. \A i \in list[b] \ moved : Masked(nodeKey[i], FullMask(child)) # child
  BY DEF Moving
<1>10. IsWriter(t) \/ moved = {}
  BY <1>3, <1>4 DEF MayMove
<1> HIDE DEF moved
<1>11. /\ list'[b] = list[b] \ moved /\ list'[child] = moved
       /\ \A c \in Bucket : c # b /\ c # child => list'[c] = list[c]
  BY <1>3, <1>4, <1>6, <1>7 DEF Types
<1>12. /\ Depth(t)' = d - 1 /\ \A i \in 1..(d - 1) : stack'[t][i] = stack[t][i]
       /\ stack'[t] \in Seq(Bucket)
  <2>1. stack[t] \in Seq(Bucket) /\ stack'[t] = SubSeq(stack[t], 1, Len(stack[t]) - 1)
    BY <1>4, <1>6 DEF Types
  <2>2. /\ stack'[t] \in Seq(Bucket) /\ Len(stack'[t]) = Len(stack[t]) - 1
        /\ \A i \in 1..(Len(stack[t]) - 1) : stack'[t][i] = stack[t][i]
    BY <1>2, <2>1 DEF Depth
  <2> QED  BY <2>2 DEF Depth
<1>13. Types'
  <2>1. lock' \in [Bucket -> MutexSet]
    BY <1>3, <1>4, <1>6, ReleasedTyped
  <2>2. list' \in [Bucket -> (SUBSET Node) \cup {RehashReq}]
    <3>1. list[b] \ moved \in SUBSET Node /\ list[child] \cup moved \in SUBSET Node
      BY <1>3, <1>7
    <3> QED  BY <1>3, <1>4, <1>6, <1>7, <3>1 DEF Types
  <2>3. stack' \in [Thread -> Seq(Bucket)]
    BY <1>4, <1>6, <1>12 DEF Types
  <2>4. pc' \in [Thread -> Within \cup Before \cup Outside]
    BY <1>4, <1>5, <1>6 DEF Types, Within
  <2> QED  BY <1>4, <1>6, <2>1, <2>2, <2>3, <2>4 DEF Types, MutexSet
<1>14. Others(t) /\ pc'[t] = p
  BY <1>4, <1>6 DEF Others, Types
<1>15. /\ LocksMine(t) /\ \A c \in Bucket : LockFits(c)'
       /\ lock'[b].writer # t /\ t \notin lock'[b].readers /\ lock'[b].upgrading # t
       /\ \A c \in Bucket : c # b => lock'[c] = lock[c]
  BY <1>1, <1>3, <1>4, LockReleased
<1>16. \A c \in Bucket : list'[c] # RehashReq <=> list[c] # RehashReq
  <2>1. list[b] \ moved \in SUBSET Node /\ moved \in SUBSET Node /\ {} \in SUBSET Node
    BY <1>7
  <2>2. list'[b] # RehashReq /\ list'[child] # RehashReq /\ list[child] # RehashReq
    BY <1>3, <1>11, <2>1, HashMapAssumption
  <2> QED  BY <1>3, <1>11, <2>2
<1>17. Linked' = Linked
  <2>1. ASSUME NEW i PROVE i \in Linked' <=> i \in Linked
    <3>1. i \in Linked' <=> \E c \in Bucket : list'[c] # RehashReq /\ i \in list'[c]
      BY DEF Linked
    <3>2. i \in Linked <=> \E c \in Bucket : list[c] # RehashReq /\ i \in list[c]
      BY LinkedIs
    <3>3. i \in list[b] => i \in list'[b] \/ i \in list'[child]
      BY <1>11
    <3>4. i \in list'[b] \/ i \in list'[child] => i \in list[b]
      BY <1>7, <1>11
    <3>5. ~(i \in list[child])
      BY <1>3
    <3> QED  BY <1>3, <1>11, <1>16, <3>1, <3>2, <3>3, <3>4, <3>5
  <2> QED  BY <2>1
<1>18. \A c : Complete(c)' <=> Complete(c) \/ c = child
  <2>1. \A c : c \in Splitting(t)' <=> c \in Splitting(t) /\ c # child
    <3> TAKE c
    <3>1. c \in Splitting(t)' <=> \E i \in 1..(d - 2) : c = stack[t][i]
      <4>1. Depth(t)' - 1 = d - 2 /\ \A i \in 1..(d - 2) : i \in 1..(d - 1)
        BY <1>2, <1>12
      <4> QED  BY <1>12, <4>1 DEF Splitting
    <3>2. c \in Splitting(t) <=> \E i \in 1..(d - 1) : c = stack[t][i]
      BY DEF Splitting
    <3>3. \A i \in 1..(d - 1) : i \in 1..(d - 2) \/ i = d - 1
      BY <1>2
    <3>4. \A i \in 1..(d - 2) : i \in 1..(d - 1) /\ stack[t][i] # child
      <4> TAKE i \in 1..(d - 2)
      <4>1. i \in 1..d /\ d - 1 \in 1..d /\ i # d - 1 /\ i \in 1..(d - 1)
        BY <1>2
      <4> QED  BY <1>2, <1>3, <4>1
    <3>5. c # child /\ (\E i \in 1..(d - 1) : c = stack[t][i]) => \E i \in 1..(d - 2) : c = stack[t][i]
      BY <1>3, <3>3
    <3> QED  BY <3>1, <3>2, <3>4, <3>5
  <2>2. ASSUME NEW u \in Thread, u # t PROVE Splitting(u)' = Splitting(u)
    <3>1. stack'[u] = stack[u]
      BY <1>14, <2>2 DEF Others
    <3> QED  BY <3>1 DEF Splitting, Depth
  <2>3. ASSUME NEW u \in Thread, u # t PROVE child \notin Splitting(u)
    <3>1. \A i \in 1..(Depth(u) - 1) : lock[stack[u][i]].writer = u
      BY HasLock
    <3> QED  BY <1>3, <2>3, <3>1 DEF Splitting
  <2> TAKE c
  <2>4. CASE c = child
    <3>1. \A u \in Thread : child \notin Splitting(u)'
      BY <2>1, <2>2, <2>3
    <3>2. list[child] # RehashReq
      <4>1. {} \in SUBSET Node
        OBVIOUS
      <4> QED  BY <1>3, <4>1, HashMapAssumption
    <3>3. Complete(child)'
      BY <1>3, <1>16, <3>1, <3>2, CompleteIs
    <3> QED  BY <2>4, <3>3
  <2>5. CASE c # child
    <3>1. \A u \in Thread : c \in Splitting(u)' <=> c \in Splitting(u)
      BY <2>1, <2>2, <2>5
    <3> QED  BY <1>16, <2>5, <3>1, CompleteIs
  <2> QED  BY <2>4, <2>5
<1>19. ASSUME NEW k \in Nat
       PROVE  /\ \A x : IsHome(x, k) /\ x # b => IsHome(x, k)'
              /\ IsHome(b, k) => IF OnPath(child, k) THEN IsHome(child, k)' ELSE IsHome(b, k)'
  BY <1>3, <1>13, <1>18, HomesSplit
<1>20. ListsFit'
  <2>1. \A c \in Bucket : list'[c] # RehashReq => c <= mask'
    BY <1>4, <1>6, <1>16 DEF ListsFit
  <2>2. \A c \in Bucket : c <= 1 => list'[c] # RehashReq
    BY <1>6, <1>16 DEF ListsFit
  <2>3. ASSUME NEW x \in Bucket, NEW c \in Bucket, Complete(c)', OnPath(x, c)
        PROVE  Complete(x)'
    <3>1. CASE Complete(c)
      BY <1>6, <1>18, <2>3, <3>1 DEF ListsFit
    <3>2. CASE ~Complete(c)
      <4>1. c = child
        BY <1>18, <2>3, <3>2
      <4>2. x = child \/ OnPath(x, b)
        BY <1>3, <2>3, <4>1, ParentIs
      <4> QED  BY <1>3, <1>6, <1>18, <4>2 DEF ListsFit
    <3> QED  BY <3>1, <3>2
  <2>4. ASSUME NEW c \in Bucket, list'[c] # RehashReq, NEW i \in list'[c]
        PROVE  (nodeKey[i] # None /\ IsHome(c, nodeKey[i]))'
    <3>1. PICK k : k = nodeKey[i] /\ k = nodeKey'[i]
      BY <1>4
    <3>2. PICK x \in Bucket : /\ list[x] # RehashReq /\ i \in list[x]
                              /\ IF x = b THEN c = IF i \in moved THEN child ELSE b
                                          ELSE c = x
      <4>1. CASE c = child
        BY <1>3, <1>7, <1>11, <2>4, <4>1
      <4>2. CASE c = b
        BY <1>3, <1>7, <1>11, <2>4, <4>2
      <4>3. CASE c # child /\ c # b
        BY <1>11, <1>16, <2>4, <4>3
      <4> QED  BY <4>1, <4>2, <4>3
    <3>3. k # None /\ IsHome(x, k)
      BY <1>6, <3>1, <3>2 DEF ListsFit
    <3>4. k \in Nat
      <4>1. i \in Node
        BY <1>6, <3>2 DEF Types
      <4> QED  BY <1>6, <3>1, <3>3, <4>1, HashMapAssumption DEF Types
    <3>5. IsHome(c, k)'
      <4>1. CASE x # b
        BY <1>19, <3>2, <3>3, <3>4, <4>1
      <4>2. CASE x = b /\ i \in moved
        <5>1. OnPath(child, k)
          BY <1>3, <1>8, <3>1, <3>4, <4>2, MovesIfOnPath
        <5> QED  BY <1>19, <3>2, <3>3, <3>4, <4>2, <5>1
      <4>3. CASE x = b /\ i \notin moved
        <5>1. ~OnPath(child, k)
          BY <1>3, <1>9, <3>1, <3>2, <3>4, <4>3, MovesIfOnPath
        <5> QED  BY <1>19, <3>2, <3>3, <3>4, <4>3, <5>1
      <4> QED  BY <4>1, <4>2, <4>3
    <3> QED  BY <3>1, <3>3, <3>5 DEF IsHome
  <2>5. \A i, j \in Linked' : nodeKey'[i] = nodeKey'[j] => i = j
    BY <1>4, <1>6, <1>17 DEF ListsFit
  <2> QED  BY <2>1, <2>2, <2>3, <2>4, <2>5 DEF ListsFit
<1>21. HomesMine(t)
  <2> SUFFICES ASSUME NEW c \in Bucket, NEW k \in Key, IsHome(c, k), ~Locked(c, t)
               PROVE  IsHome(c, k)'
    BY DEF HomesMine
  <2>1. k \in Nat /\ c # b
    BY <1>3, HashMapAssumption
  <2> QED  BY <1>19, <2>1
<1>22. ListsMine(t)
  <2>1. ASSUME NEW c \in Bucket, NEW u \in Thread, u # t, Locked(c, u)
        PROVE  list'[c] = list[c]
    <3>1. c # child
      BY <1>3, <2>1, Excluded
    <3>2. CASE c = b
      <4>1. ~IsWriter(t)
        BY <1>3, <2>1, <3>2, Excluded DEF IsWriter
      <4>2. moved = {}
        BY <1>10, <4>1
      <4> QED  BY <1>11, <3>2, <4>2
    <3>3. CASE c # b
      BY <1>11, <3>1, <3>3
    <3> QED  BY <3>2, <3>3
  <2> QED  BY <1>16, <2>1 DEF ListsMine
<1>23. NodesFit(t)' /\ Private(t)' = Private(t)
  BY <1>1, <1>4, <1>5, <1>13, <1>14, <1>17, OtherNodes
<1>24. NodesMine(t)
  BY <1>4, <1>17, <1>23 DEF NodesMine
<1>25. GrowthFits'
  BY <1>4, <1>13, <1>14, GrowthSame
<1>26. StackFits(t)'
  <2>1. /\ \A i \in 1..d : stack[t][i] <= mask
        /\ \A i \in 1..(d - 1) : stack[t][i] > 1 /\ stack[t][i + 1] = Parent(stack[t][i])
        /\ OnPath(stack[t][1], call[t].key) /\ stack[t][1] = Masked(call[t].key, m[t])
    BY <1>1, <1>2, <1>6 DEF InvFor, StackFits
  <2>2. \A i \in 1..(d - 1) : i \in 1..d
    BY <1>2
  <2>3. ASSUME NEW i \in 1..(d - 2)
        PROVE  stack'[t][i] > 1 /\ stack'[t][i + 1] = Parent(stack'[t][i])
    <3>1. i \in 1..(d - 1) /\ i + 1 \in 1..(d - 1)
      BY <1>2
    <3> QED  BY <1>12, <2>1, <3>1
  <2>4. 1 \in 1..(d - 1) /\ d - 1 >= 1 /\ (d - 1) - 1 = d - 2
    BY <1>2
  <2>5. /\ pc'[t] \notin Outside /\ (pc'[t] \in Rehashed => d - 1 = 1)
        /\ (pc'[t] = "rehash" => d - 1 > 1)
    BY <1>5, <1>14 DEF Outside, Rehashed
  <2> QED  BY <1>4, <1>12, <2>1, <2>2, <2>3, <2>4, <2>5 DEF StackFits
<1>27. CallFits(t)'
  BY <1>1, <1>4, <1>5, <1>6, <1>14 DEF InvFor, CallFits, Inserting, Within, Before
<1>28. Locks(t)'
  <2>1. pc[t] \in Within \ {"upgrading"} /\ pc'[t] \notin {"upgrade", "upgrading"} /\ pc'[t] \in Within
    BY <1>1, <1>5, <1>14 DEF Within
  <2> QED  BY <1>2, <1>3, <1>12, <1>13, <1>15, <2>1, LocksGiven
<1>29. Marked(t)'
  <2>1. Top(t)' = child
    <3>1. d - 1 \in 1..(d - 1)
      BY <1>2
    <3> QED  BY <1>3, <1>12, <3>1 DEF Top, Depth
  <2>2. list'[child] # RehashReq
    <3>1. moved \in SUBSET Node
      BY <1>7
    <3> QED  BY <1>11, <3>1, HashMapAssumption
  <2>3. \A i \in 1..(d - 2) : list'[stack'[t][i]] = {}
    <3> TAKE i \in 1..(d - 2)
    <3>1. i \in 1..(d - 1) /\ i \in 1..d /\ d \in 1..d /\ d - 1 \in 1..d /\ i # d /\ i # d - 1
      BY <1>2
    <3>2. stack[t][i] # b /\ stack[t][i] # child /\ stack[t][i] \in Bucket
      BY <1>2, <1>3, <3>1
    <3>3. list[stack[t][i]] = {}
      BY <1>6, <3>1 DEF InvFor, Marked
    <3> QED  BY <1>11, <1>12, <3>1, <3>2, <3>3
  <2>4. Depth(t)' - 1 = d - 2
    BY <1>2, <1>12
  <2> QED  BY <2>1, <2>2, <2>3, <2>4 DEF Marked
<1>30. SearchFits(t)'
  BY <1>5, <1>14 DEF SearchFits
<1>31. InvFor(t)' /\ mask <= mask'
  BY <1>4, <1>6, <1>23, <1>26, <1>27, <1>28, <1>29, <1>30 DEF InvFor, Types
<1> QED  BY <1>13, <1>14, <1>15, <1>20, <1>21, <1>22, <1>24, <1>25, <1>31, StepKeeps

(***************************************************************************)
(* Calls, returns and what a thread does without a bucket.                 *)
(***************************************************************************)

LEMMA MaskIs ==
  ASSUME NEW x \in Masks
  PROVE  x \in Nat /\ x >= 1 /\ \E i \in Nat \ {0} : x = Pow2[i] - 1 /\ x + 1 = Pow2[i]
<1>1. Pow2[1] = 2
  <2>1. Pow2[0 + 1] = 2 * Pow2[0] /\ Pow2[0] = 1
    BY Pow2Is
  <2> QED  BY <2>1
<1>2. CASE x = 1
  BY <1>1, <1>2
<1>3. CASE x # 1
  <2>1. PICK i \in Nat : i >= 2 /\ x = Pow2[i] - 1
    BY <1>3 DEF Masks
  <2>2. Pow2[i] \in Nat /\ Pow2[1] <= Pow2[i]
    BY <2>1, Pow2Is, Pow2Grows
  <2> QED  BY <1>1, <2>1, <2>2
<1> QED  BY <1>2, <1>3

\* The bucket a lookup begins with.
LEMMA StartBucket ==
  ASSUME NEW k \in Nat, NEW x \in Masks, x <= MaxMask
  PROVE  /\ Masked(k, x) \in Bucket /\ Masked(k, x) <= x /\ OnPath(Masked(k, x), k)
<1>1. PICK i \in Nat \ {0} : x = Pow2[i] - 1 /\ x + 1 = Pow2[i]
  BY MaskIs
<1>2. Masked(k, x) = k % Pow2[i]
  BY <1>1 DEF Masked
<1>3. k % Pow2[i] \in Nat /\ k % Pow2[i] < Pow2[i] /\ Pow2[i] \in Nat
  BY PathIsNat
<1>4. k % Pow2[i] <= x /\ x \in Nat /\ MaxMask \in Nat
  BY <1>1, <1>3, HashMapAssumption
<1> QED  BY <1>1, <1>2, <1>3, <1>4 DEF OnPath, Bucket

\* A thread outside an operation's buckets has no lock, before and afterwards.
LEMMA OutsideLocks ==
  ASSUME HashMapInv, Types', NEW t \in Thread, lock' = lock, pc[t] \in Outside,
         pc'[t] \notin Within, Depth(t)' <= 1
  PROVE  /\ Locks(t)' /\ LocksMine(t) /\ \A b \in Bucket : LockFits(b)'
         /\ Depth(t) = 0 /\ stack[t] = <<>>
<1>1. stack[t] = <<>> /\ Depth(t) = 0
  BY InvParts DEF InvFor, StackFits, Depth
<1>2. pc[t] \notin Within
  BY DEF Within, Outside
<1>3. Depth(t) <= 1
  BY <1>1
<1> QED  BY <1>1, <1>2, <1>3, LocksNone, LocksSame

LEMMA CallsKeeps ==
  ASSUME HashMapInv, NEW t \in Thread, NEW op \in Ops, NEW k \in Key, Calls(t, op, k),
         op = "erase" => acc[t] # None /\ nodeKey[acc[t]] = k,
         op # "erase" => acc[t] = None
  PROVE  HashMapInv'
<1> DEFINE c == [op |-> op, key |-> k, answer |-> "none"]
           h == Masked(k, mask)
<1>1. /\ pc[t] = "idle" /\ pc' = [pc EXCEPT ![t] = "look"]
      /\ call' = [call EXCEPT ![t] = c] /\ m' = [m EXCEPT ![t] = mask]
      /\ stack' = [stack EXCEPT ![t] = <<h>>]
      /\ mask' = mask /\ claimed' = claimed /\ list' = list /\ lock' = lock
      /\ nodeKey' = nodeKey /\ item' = item /\ acc' = acc /\ n' = n /\ tmp' = tmp
      /\ probe' = probe /\ grow' = grow
  BY DEF Calls, Goto, table
<1>2. c \in CallSet /\ c.op = op /\ c.key = k /\ c.answer = "none"
  BY DEF CallSet
<1>3. InvFor(t) /\ Types /\ GrowthFits
  BY InvParts
<1>4. h \in Bucket /\ h <= mask /\ OnPath(h, k)
  BY <1>3, StartBucket, HashMapAssumption DEF GrowthFits
<1> HIDE DEF c
<1>5. call'[t] = c /\ m'[t] = mask /\ stack'[t] = <<h>> /\ pc'[t] = "look"
  BY <1>1, <1>3 DEF Types
<1>6. Depth(t)' = 1 /\ stack'[t][1] = h /\ stack'[t] \in Seq(Bucket)
  BY <1>4, <1>5 DEF Depth
<1> HIDE DEF h
<1>7. Types'
  <2>1. call' \in [Thread -> CallSet \cup {None}]
    BY <1>1, <1>2, <1>3 DEF Types
  <2>2. stack' \in [Thread -> Seq(Bucket)]
    BY <1>1, <1>3, <1>5, <1>6 DEF Types
  <2>3. pc' \in [Thread -> Within \cup Before \cup Outside]
    BY <1>1, <1>3 DEF Types, Before
  <2>4. m' \in [Thread -> Nat]
    BY <1>1, <1>3 DEF Types
  <2> QED  BY <1>1, <1>3, <2>1, <2>2, <2>3, <2>4 DEF Types
<1>8. Others(t)
  BY <1>1, <1>3 DEF Others, Types
<1>9. /\ Locks(t)' /\ LocksMine(t) /\ \A b \in Bucket : LockFits(b)'
      /\ Depth(t) = 0 /\ stack[t] = <<>>
  <2>1. pc[t] \in Outside /\ pc'[t] \notin Within /\ Depth(t)' <= 1
    BY <1>1, <1>5, <1>6 DEF Outside, Within
  <2> QED  BY <1>1, <1>7, <2>1, OutsideLocks
<1>10. Splitting(t)' = Splitting(t)
  <2>1. 1..(Depth(t) - 1) = {} /\ 1..(Depth(t)' - 1) = {}
    BY <1>6, <1>9
  <2> QED  BY <2>1 DEF Splitting
<1>11. GrowthFits'
  BY <1>1, <1>5, <1>7, <1>8, GrowthSame
<1>12. tmp[t] = None
  BY <1>1, <1>3 DEF InvFor, CallFits
<1>13. NodesFit(t)' /\ Private(t)' = Private(t)
  BY <1>1, <1>2, <1>5, <1>7, <1>8, <1>12, NodesStay
<1>14. StackFits(t)'
  <2>1. pc'[t] \notin Outside /\ pc'[t] \notin Rehashed /\ pc'[t] # "rehash"
    BY <1>5 DEF Outside, Rehashed
  <2>2. stack'[t][1] = Masked(call'[t].key, m'[t])
    BY <1>2, <1>5, <1>6 DEF h
  <2> QED  BY <1>1, <1>2, <1>4, <1>5, <1>6, <2>1, <2>2 DEF StackFits
<1>15. CallFits(t)'
  <2>1. n[t] = None /\ grow[t] = 0
    BY <1>1, <1>3 DEF InvFor, CallFits
  <2>2. ~Inserting(t)'
    BY <1>5 DEF Inserting
  <2> QED  BY <1>1, <1>2, <1>5, <1>12, <2>1, <2>2 DEF CallFits
<1>16. Marked(t)'
  BY <1>5, <1>6 DEF Marked, Within
<1>17. SearchFits(t)'
  BY <1>5 DEF SearchFits
<1>18. InvFor(t)'
  BY <1>9, <1>13, <1>14, <1>15, <1>16, <1>17 DEF InvFor
<1> QED  BY <1>1, <1>7, <1>8, <1>9, <1>10, <1>11, <1>13, <1>18, QuietStep

LEMMA BeginKeeps ==
  ASSUME HashMapInv, NEW t \in Thread, Begin(t)
  PROVE  HashMapInv'
<1>1. CASE \E op \in Ops, k \in Key : Lookup(t, op, k)
  <2>1. PICK op \in Ops, k \in Key : Lookup(t, op, k)
    BY <1>1
  <2>2. op \in {"find", "insert"} /\ acc[t] = None /\ Calls(t, op, k)
    BY <2>1 DEF Lookup
  <2> QED  BY <2>2, CallsKeeps
<1>2. CASE Exclude(t)
  <2>1. acc[t] # None /\ Calls(t, "erase", nodeKey[acc[t]])
    BY <1>2 DEF Exclude
  <2>2. PICK k : k = nodeKey[acc[t]]
    OBVIOUS
  <2>3. k \in Key
    BY <2>1, <2>2, InvParts DEF InvFor, NodesFit, Types
  <2>4. "erase" \in Ops /\ Calls(t, "erase", k)
    BY <2>1, <2>2 DEF Ops
  <2> QED  BY <2>1, <2>2, <2>3, <2>4, CallsKeeps
<1> QED  BY <1>1, <1>2 DEF Begin

LEMMA ReturnKeeps ==
  ASSUME HashMapInv, NEW t \in Thread, Return(t)
  PROVE  HashMapInv'
<1>1. /\ pc[t] = "return" /\ pc' = [pc EXCEPT ![t] = "idle"]
      /\ call' = [call EXCEPT ![t] = None] /\ m' = [m EXCEPT ![t] = 1]
      /\ mask' = mask /\ claimed' = claimed /\ list' = list /\ lock' = lock
      /\ nodeKey' = nodeKey /\ item' = item /\ acc' = acc /\ stack' = stack /\ n' = n
      /\ tmp' = tmp /\ probe' = probe /\ grow' = grow
  BY DEF Return, Goto, table
<1>2. InvFor(t) /\ Types
  BY InvParts
<1>3. call'[t] = None /\ m'[t] = 1 /\ pc'[t] = "idle"
  BY <1>1, <1>2 DEF Types
<1>4. Types' /\ Others(t)
  <2>1. pc' \in [Thread -> Within \cup Before \cup Outside]
    BY <1>1, <1>2 DEF Types, Outside
  <2> QED  BY <1>1, <1>2, <2>1 DEF Types, Others
<1>5. pc[t] \in Outside /\ pc'[t] \in Outside /\ pc'[t] \notin Within
  BY <1>1, <1>3 DEF Outside, Within
<1>6. stack[t] = <<>> /\ Depth(t)' = 0
  BY <1>1, <1>2, <1>5 DEF InvFor, StackFits, Depth
<1>7. /\ Locks(t)' /\ LocksMine(t) /\ \A b \in Bucket : LockFits(b)'
  BY <1>1, <1>4, <1>5, <1>6, OutsideLocks
<1>8. Splitting(t)' = Splitting(t)
  BY <1>1 DEF Splitting, Depth
<1>9. GrowthFits'
  BY <1>1, <1>3, <1>4, GrowthSame
<1>10. tmp[t] = None /\ n[t] = None /\ grow[t] = 0
  BY <1>1, <1>2 DEF InvFor, CallFits
<1>11. NodesFit(t)' /\ Private(t)' = Private(t)
  BY <1>1, <1>3, <1>4, <1>10, NodesStay
<1>12. StackFits(t)'
  <2>1. pc'[t] \notin Rehashed /\ pc'[t] # "rehash"
    BY <1>3 DEF Rehashed
  <2>2. 1..Depth(t)' = {} /\ 1..(Depth(t)' - 1) = {} /\ ~(Depth(t)' >= 1)
    BY <1>6
  <2> QED  BY <1>1, <1>5, <1>6, <2>1, <2>2 DEF StackFits
<1>13. CallFits(t)'
  <2>1. ~Inserting(t)' /\ pc'[t] \notin Within \cup Before
    BY <1>3 DEF Inserting, Within, Before
  <2> QED  BY <1>1, <1>3, <1>10, <2>1 DEF CallFits
<1>14. Marked(t)' /\ SearchFits(t)'
  BY <1>3, <1>6 DEF Marked, SearchFits, Within
<1>15. InvFor(t)'
  BY <1>7, <1>11, <1>12, <1>13, <1>14 DEF InvFor
<1> QED  BY <1>1, <1>4, <1>7, <1>8, <1>9, <1>11, <1>15, QuietStep

\* A step of a thread without a bucket that changes no list.
LEMMA OutsideGrows ==
  ASSUME HashMapInv, Types', NEW t \in Thread, Others(t), pc[t] \in Outside, pc'[t] \in Outside,
         mask <= mask', GrowthFits', list' = list, lock' = lock, stack' = stack,
         \A i \in Linked : nodeKey'[i] = nodeKey[i],
         CallFits(t)', NodesFit(t)', NodesMine(t)
  PROVE  HashMapInv'
<1>1. InvFor(t) /\ Types
  BY InvParts
<1>2. pc'[t] \notin Within \cup Before /\ pc'[t] \notin Rehashed /\ pc'[t] # "rehash"
  BY DEF Outside, Within, Before, Rehashed
<1>3. stack[t] = <<>> /\ Depth(t)' = 0
  BY <1>1 DEF InvFor, StackFits, Depth
<1>4. /\ Locks(t)' /\ LocksMine(t) /\ \A b \in Bucket : LockFits(b)'
  BY <1>2, <1>3, OutsideLocks
<1>5. Splitting(t)' = Splitting(t)
  BY DEF Splitting, Depth
<1>7. ListsFit' /\ ListsMine(t) /\ HomesMine(t)
  BY <1>5, ListsSame
<1>9. StackFits(t)'
  <2>1. 1..Depth(t)' = {} /\ 1..(Depth(t)' - 1) = {} /\ ~(Depth(t)' >= 1)
    BY <1>3
  <2> QED  BY <1>2, <1>3, <2>1 DEF StackFits
<1>10. Marked(t)'
  <2>1. pc'[t] \notin Within \cup {"lock", "reacquire"} /\ 1..(Depth(t)' - 1) = {}
    BY <1>3 DEF Outside, Within
  <2> QED  BY <2>1 DEF Marked
<1>11. SearchFits(t)'
  BY DEF SearchFits, Outside
<1>12. InvFor(t)'
  BY <1>4, <1>9, <1>10, <1>11 DEF InvFor
<1> QED  BY <1>4, <1>7, <1>12, StepKeeps

\* And not the table either.
LEMMA OutsideStep ==
  ASSUME HashMapInv, Types', NEW t \in Thread, Others(t), pc[t] \in Outside, pc'[t] \in Outside,
         mask' = mask, claimed' = claimed, list' = list, lock' = lock, stack' = stack,
         m' = m, grow' = grow, \A i \in Linked : nodeKey'[i] = nodeKey[i],
         CallFits(t)', NodesFit(t)', NodesMine(t)
  PROVE  HashMapInv'
<1>1. mask <= mask'
  BY InvParts DEF Types
<1>2. GrowthFits'
  BY GrowthSame
<1> QED  BY <1>1, <1>2, OutsideGrows

LEMMA ReleaseAccessorKeeps ==
  ASSUME HashMapInv, NEW t \in Thread, ReleaseAccessor(t)
  PROVE  HashMapInv'
<1>1. /\ pc[t] = "idle" /\ acc[t] # None
      /\ item' = [item EXCEPT ![acc[t]] = None] /\ acc' = [acc EXCEPT ![t] = None]
      /\ mask' = mask /\ claimed' = claimed /\ list' = list /\ lock' = lock
      /\ nodeKey' = nodeKey /\ pc' = pc /\ call' = call /\ m' = m /\ stack' = stack /\ n' = n
      /\ tmp' = tmp /\ probe' = probe /\ grow' = grow
  BY DEF ReleaseAccessor, table, local
<1>2. InvFor(t) /\ Types /\ t # None
  BY InvParts, HashMapAssumption
<1>3. acc[t] \in Node /\ item[acc[t]] = t /\ acc'[t] = None
  BY <1>1, <1>2 DEF Types, InvFor, NodesFit
<1>4. Types' /\ Others(t)
  BY <1>1, <1>2 DEF Types, Others
<1>5. pc[t] \in Outside /\ pc'[t] \in Outside
  BY <1>1 DEF Outside
<1>6. tmp[t] = None
  BY <1>1, <1>2 DEF InvFor, CallFits
<1>7. Private(t) = {} /\ Private(t)' = {} /\ Linked' = Linked
  <2>1. ASSUME NEW i \in Node PROVE tmp[t] # i
    BY <1>6, HashMapAssumption
  <2> QED  BY <1>1, <2>1 DEF Private, Linked
<1>8. \A i \in Node : IF i = acc[t] THEN item'[i] = None ELSE item'[i] = item[i]
  BY <1>1, <1>2 DEF Types
<1>9. NodesFit(t)'
  BY <1>1, <1>2, <1>3, <1>6, <1>7, <1>8 DEF NodesFit, InvFor
<1>10. NodesMine(t)
  BY <1>1, <1>3, <1>7, <1>8 DEF NodesMine
<1>11. CallFits(t)'
  BY <1>1, <1>2, <1>3 DEF InvFor, CallFits, Inserting, Within, Before
<1> QED  BY <1>1, <1>4, <1>5, <1>9, <1>10, <1>11, OutsideStep

LEMMA ReleaseItemKeeps ==
  ASSUME HashMapInv, NEW t \in Thread, ReleaseItem(t)
  PROVE  HashMapInv'
<1>1. /\ pc[t] = "release" /\ pc' = [pc EXCEPT ![t] = "delete"]
      /\ item' = [item EXCEPT ![acc[t]] = None] /\ acc' = [acc EXCEPT ![t] = None]
      /\ n' = [n EXCEPT ![t] = acc[t]]
      /\ mask' = mask /\ claimed' = claimed /\ list' = list /\ lock' = lock
      /\ nodeKey' = nodeKey /\ call' = call /\ m' = m /\ stack' = stack
      /\ tmp' = tmp /\ probe' = probe /\ grow' = grow
  BY DEF ReleaseItem, table, Goto
<1>2. InvFor(t) /\ Types /\ t # None
  BY InvParts, HashMapAssumption
<1>3. call[t].op = "erase" /\ acc[t] # None /\ tmp[t] = None
  BY <1>1, <1>2 DEF InvFor, CallFits
<1>4. /\ acc[t] \in Node /\ item[acc[t]] = t
      /\ acc'[t] = None /\ n'[t] = acc[t] /\ pc'[t] = "delete"
  BY <1>1, <1>2, <1>3 DEF Types, InvFor, NodesFit
<1>5. Types' /\ Others(t)
  <2>1. pc' \in [Thread -> Within \cup Before \cup Outside]
    BY <1>1, <1>2 DEF Types, Outside
  <2> QED  BY <1>1, <1>2, <2>1 DEF Types, Others
<1>6. pc[t] \in Outside /\ pc'[t] \in Outside
  BY <1>1, <1>4 DEF Outside
<1>7. Private(t)' = Private(t) /\ Linked' = Linked
  <2>1. Linked' = Linked
    BY <1>1 DEF Linked
  <2>2. ASSUME NEW i PROVE i \in Private(t)' <=> i \in Private(t)
    BY <1>1, <1>4 DEF Private
  <2> QED  BY <2>1, <2>2
<1>8. \A i \in Node : IF i = acc[t] THEN item'[i] = None ELSE item'[i] = item[i]
  BY <1>1, <1>2 DEF Types
<1>9. \A u \in Thread : u # t => Private(u)' = Private(u)
  <2> TAKE u \in Thread
  <2> HAVE u # t
  <2>1. tmp'[u] = tmp[u] /\ pc'[u] = pc[u] /\ acc'[u] = acc[u] /\ n'[u] = n[u]
    BY <1>5 DEF Others
  <2> QED  BY <2>1 DEF Private
<1>10. NodesFit(t)'
  <2>1. \A u \in Thread : u # t => Private(t)' \cap Private(u)' = {}
    BY <1>2, <1>7, <1>9 DEF NodesFit, InvFor
  <2>2. \A i \in Node : item'[i] = t => acc'[t] = i
    BY <1>2, <1>8 DEF NodesFit, InvFor
  <2>3. \A i \in Private(t) : nodeKey[i] # None /\ i \notin Linked
    BY <1>2 DEF NodesFit, InvFor
  <2> QED  BY <1>1, <1>3, <1>4, <1>7, <2>1, <2>2, <2>3 DEF NodesFit
<1>11. NodesMine(t)
  BY <1>1, <1>4, <1>7, <1>8 DEF NodesMine
<1>12. CallFits(t)'
  BY <1>1, <1>2, <1>3, <1>4 DEF InvFor, CallFits, Inserting, Within, Before
<1> QED  BY <1>1, <1>5, <1>6, <1>10, <1>11, <1>12, OutsideStep

LEMMA DeleteNodeKeeps ==
  ASSUME HashMapInv, NEW t \in Thread, DeleteNode(t)
  PROVE  HashMapInv'
<1>1. /\ pc[t] = "delete" /\ pc' = [pc EXCEPT ![t] = "return"]
      /\ nodeKey' = [nodeKey EXCEPT ![n[t]] = None] /\ n' = [n EXCEPT ![t] = None]
      /\ mask' = mask /\ claimed' = claimed /\ list' = list /\ lock' = lock
      /\ item' = item /\ acc' = acc /\ call' = call /\ m' = m /\ stack' = stack
      /\ tmp' = tmp /\ probe' = probe /\ grow' = grow
  BY DEF DeleteNode, table, Goto
<1>2. InvFor(t) /\ Types
  BY InvParts
<1>3. call[t].op = "erase" /\ acc[t] = None /\ tmp[t] = None /\ n[t] # None
  BY <1>1, <1>2 DEF InvFor, CallFits
<1>4. n[t] \in Node /\ n'[t] = None /\ pc'[t] = "return"
  BY <1>1, <1>2, <1>3 DEF Types
<1>5. Types' /\ Others(t)
  <2>1. pc' \in [Thread -> Within \cup Before \cup Outside]
    BY <1>1, <1>2 DEF Types, Outside
  <2> QED  BY <1>1, <1>2, <2>1 DEF Types, Others
<1>6. pc[t] \in Outside /\ pc'[t] \in Outside
  BY <1>1, <1>4 DEF Outside
<1>7. n[t] \in Private(t) /\ Private(t)' = {} /\ Linked' = Linked
  <2>1. ASSUME NEW i \in Node PROVE tmp[t] # i
    BY <1>3, HashMapAssumption
  <2> QED  BY <1>1, <1>4, <2>1 DEF Private, Linked
<1>8. \A i \in Node : i # n[t] => nodeKey'[i] = nodeKey[i]
  BY <1>1, <1>2 DEF Types
<1>9. \A i \in Linked : nodeKey'[i] = nodeKey[i]
  <2> TAKE i \in Linked
  <2>1. i # n[t]
    BY <1>2, <1>7 DEF InvFor, NodesFit
  <2> QED  BY <1>1, <1>2, <2>1 DEF Types
<1>10. NodesFit(t)'
  BY <1>1, <1>2, <1>3, <1>4, <1>7 DEF NodesFit, InvFor
<1>11. NodesMine(t)
  BY <1>1, <1>7, <1>8 DEF NodesMine
<1>12. CallFits(t)'
  BY <1>1, <1>2, <1>3, <1>4 DEF InvFor, CallFits, Inserting, Within, Before
<1> QED  BY <1>1, <1>5, <1>6, <1>9, <1>10, <1>11, <1>12, OutsideStep

(***************************************************************************)
(* The search of a bucket.                                                 *)
(***************************************************************************)

\* Where a thread searches.
LEMMA Searching ==
  ASSUME HashMapInv, NEW t \in Thread, pc[t] \in Rehashed
  PROVE  /\ pc[t] \in Within /\ Depth(t) = 1 /\ Top(t) \in Bucket /\ list[Top(t)] # RehashReq
         /\ list[Top(t)] \subseteq Linked /\ list[Top(t)] \subseteq Node
         /\ Top(t) = stack[t][1] /\ Locked(Top(t), t) /\ call[t] \in CallSet
         /\ call[t].key \in Key /\ call[t].key \in Nat /\ call[t].op \in Ops
<1>1. InvFor(t) /\ Types
  BY InvParts
<1>2. pc[t] \in Within /\ pc[t] # "idle"
  BY DEF Rehashed, Within
<1>3. Depth(t) = 1 /\ Top(t) \in Bucket /\ Top(t) = stack[t][1] /\ Locked(Top(t), t)
  BY <1>1, <1>2, HasLock, Typed DEF InvFor, StackFits
<1>4. list[Top(t)] # RehashReq
  BY <1>1, <1>2 DEF InvFor, Marked
<1>5. call[t] \in CallSet /\ call[t].key \in Key /\ call[t].key \in Nat /\ call[t].op \in Ops
  BY <1>1, <1>2, HashMapAssumption DEF InvFor, CallFits, CallSet
<1> QED  BY <1>1, <1>2, <1>3, <1>4, <1>5 DEF Types, Linked

LEMMA SearchHitsKeeps ==
  ASSUME HashMapInv, NEW t \in Thread, SearchHits(t)
  PROVE  HashMapInv'
<1>1. PICK i \in Found(t) :
        /\ pc[t] \in {"search", "again"} /\ call[t].op # "erase"
        /\ n' = [n EXCEPT ![t] = i] /\ pc' = [pc EXCEPT ![t] = "item"]
        /\ lock' = IF pc[t] = "again"
                   THEN [lock EXCEPT ![Top(t)] = Mutex({t}, None, None)] ELSE lock
        /\ mask' = mask /\ claimed' = claimed /\ list' = list
        /\ nodeKey' = nodeKey /\ item' = item /\ acc' = acc /\ call' = call /\ m' = m
        /\ stack' = stack /\ tmp' = tmp /\ probe' = probe /\ grow' = grow
  BY DEF SearchHits, Goto, table
<1>2. InvFor(t) /\ Types /\ t # None
  BY InvParts, HashMapAssumption
<1>3. pc[t] \in Rehashed /\ pc[t] \notin {"upgrade", "upgrading", "release", "delete", "item"}
  BY <1>1 DEF Rehashed
<1>4. PICK b \in Bucket : b = Top(t) /\ list[b] \subseteq Node /\ Locked(b, t)
  BY <1>3, Searching
<1>5. Depth(t) = 1 /\ pc[t] \in Within
  BY <1>3, Searching
<1>6. i \in list[b] /\ i \in Node /\ nodeKey[i] = call[t].key
  BY <1>4 DEF Found
<1>7. pc'[t] = "item" /\ n'[t] = i
  BY <1>1, <1>2 DEF Types
<1>8. /\ LocksMine(t) /\ \A c \in Bucket : LockFits(c)'
      /\ lock' \in [Bucket -> MutexSet]
      /\ lock'[b].writer = t \/ t \in lock'[b].readers
      /\ lock'[b].upgrading # t
      /\ \A c \in Bucket : c # b => lock'[c] = lock[c]
  <2>1. CASE pc[t] = "again"
    <3>1. lock[b].writer = t
      BY <1>2, <1>4, <2>1 DEF InvFor, Locks, Writes
    <3>2. lock' = [lock EXCEPT ![b] = Mutex({t}, None, None)]
      BY <1>1, <1>4, <2>1
    <3>3. /\ LocksMine(t) /\ \A c \in Bucket : LockFits(c)'
          /\ lock'[b] = Mutex({t}, None, None)
          /\ \A c \in Bucket : c # b => lock'[c] = lock[c]
      <4>1. lock' = [lock EXCEPT ![b] = Mutex({t}, None, None)] /\ b = Top(t)
        BY <1>4, <3>2
      <4> QED  BY <3>1, <4>1, LockDowngraded
    <3>4. lock' \in [Bucket -> MutexSet]
      <4>1. {t} \in SUBSET Thread /\ None \in Thread \cup {None}
        OBVIOUS
      <4> QED  BY <1>2, <3>2, <4>1, LockTyped
    <3> QED  BY <1>2, <3>3, <3>4, MutexIs
  <2>2. CASE pc[t] # "again"
    <3>1. lock' = lock
      BY <1>1, <2>2
    <3>2. lock[b].upgrading # t
      BY <1>2, <1>3 DEF InvFor, Locks
    <3> QED  BY <1>2, <1>4, <3>1, <3>2, LocksSame DEF Locked, Types, MutexSet
  <2> QED  BY <2>1, <2>2
<1>9. Types' /\ Others(t)
  <2>1. pc' \in [Thread -> Within \cup Before \cup Outside]
    BY <1>1, <1>2 DEF Types, Within
  <2>2. n' \in [Thread -> Node \cup {None}]
    BY <1>1, <1>2, <1>6 DEF Types
  <2> QED  BY <1>1, <1>2, <1>8, <2>1, <2>2 DEF Types, Others, MutexSet
<1>10. Splitting(t)' = Splitting(t) /\ Depth(t)' = Depth(t) /\ Top(t)' = Top(t)
  BY <1>1 DEF Splitting, Depth, Top
<1>11. GrowthFits'
  BY <1>1, <1>9, GrowthSame
<1>12. call[t].answer = "none"
  BY <1>2, <1>3, <1>5 DEF InvFor, CallFits
<1>13. NodesFit(t)' /\ Private(t)' = Private(t)
  <2>1. n'[t] \in list'[Top(t)'] /\ nodeKey'[n'[t]] = call'[t].key /\ call'[t].answer = "none"
    BY <1>1, <1>4, <1>6, <1>7, <1>10, <1>12
  <2>2. (/\ n[t] \in list[Top(t)] /\ nodeKey[n[t]] = call[t].key
         /\ call[t].answer = "yes" => item[n[t]] = None)'
    BY <2>1
  <2> QED  BY <1>1, <1>3, <1>7, <1>9, <2>2, NodesStay
<1>14. StackFits(t)'
  <2>1. pc'[t] \notin Outside /\ pc'[t] # "rehash" /\ pc[t] \notin Outside
    BY <1>1, <1>7 DEF Outside
  <2> QED  BY <1>1, <1>2, <1>5, <1>7, <1>10, <2>1 DEF InvFor, StackFits
<1>15. CallFits(t)'
  <2>1. /\ acc[t] = None /\ grow[t] = 0 /\ call[t] \in CallSet
        /\ tmp[t] # None => call[t].op = "insert"
    BY <1>1, <1>2 DEF InvFor, CallFits
  <2>2. ~Inserting(t)'
    BY <1>7 DEF Inserting
  <2> QED  BY <1>1, <1>6, <1>7, <1>12, <2>1, <2>2, HashMapAssumption DEF CallFits
<1>16. Locks(t)'
  <2>1. pc'[t] \in Within \ {"upgrade", "upgrading"} /\ ~Writes(t)'
    BY <1>1, <1>7, <1>12 DEF Within, Writes
  <2> QED  BY <1>1, <1>4, <1>5, <1>8, <1>9, <2>1, LocksChanged
<1>17. Marked(t)'
  BY <1>1, <1>2, <1>5, <1>10 DEF InvFor, Marked
<1>18. SearchFits(t)'
  BY <1>7 DEF SearchFits
<1>19. InvFor(t)'
  BY <1>13, <1>14, <1>15, <1>16, <1>17, <1>18 DEF InvFor
<1> QED  BY <1>1, <1>8, <1>9, <1>10, <1>11, <1>13, <1>19, QuietStep

LEMMA SearchMissesKeeps ==
  ASSUME HashMapInv, NEW t \in Thread, SearchMisses(t)
  PROVE  HashMapInv'
<1> DEFINE p == IF call[t].op = "find" \/ IsWriter(t) THEN "race" ELSE "upgrade"
<1>1. /\ pc[t] \in {"search", "again"} /\ call[t].op # "erase" /\ Found(t) = {}
      /\ pc' = [pc EXCEPT ![t] = p]
      /\ mask' = mask /\ claimed' = claimed /\ list' = list /\ lock' = lock
      /\ item' = item /\ acc' = acc /\ call' = call /\ m' = m
      /\ stack' = stack /\ n' = n /\ probe' = probe /\ grow' = grow
  BY DEF SearchMisses, Goto, table
<1>2. InvFor(t) /\ Types /\ ListsFit /\ t # None
  BY InvParts, HashMapAssumption
<1>3. pc[t] \in Rehashed /\ pc[t] \notin {"upgrading", "release", "delete", "idle", "item"}
  BY <1>1 DEF Rehashed
<1>4. /\ Depth(t) = 1 /\ pc[t] \in Within /\ Top(t) \in Bucket /\ list[Top(t)] # RehashReq
      /\ list[Top(t)] \subseteq Linked /\ call[t] \in CallSet
      /\ call[t].key \in Key /\ call[t].op \in Ops /\ Locked(Top(t), t)
  BY <1>3, Searching
<1>5. /\ p \in {"race", "upgrade"}
      /\ p = "upgrade" => call[t].op = "insert" /\ ~IsWriter(t)
      /\ p = "race" => call[t].op = "find" \/ IsWriter(t)
  BY <1>1, <1>4 DEF Ops
<1> HIDE DEF p
<1>6. pc'[t] = p
  BY <1>1, <1>2 DEF Types
<1>7. /\ nodeKey' \in [Node -> Key \cup {None}] /\ tmp' \in [Thread -> Node \cup {None}]
      /\ \A j \in Node : nodeKey[j] # None => nodeKey'[j] = nodeKey[j]
      /\ \A j \in Node : nodeKey'[j] = nodeKey[j] \/ nodeKey[j] = None
      /\ \A u \in Thread : u # t => tmp'[u] = tmp[u]
      /\ \/ tmp'[t] = tmp[t]
         \/ tmp'[t] \in Node /\ nodeKey[tmp'[t]] = None /\ nodeKey'[tmp'[t]] = call[t].key
      /\ call[t].op = "insert" => tmp'[t] # None
      /\ call[t].op # "insert" => tmp'[t] = tmp[t]
  <2>1. CASE call[t].op = "insert" /\ tmp[t] = None
    <3>1. /\ FreeNodes # {}
          /\ \E i \in {CHOOSE j \in FreeNodes : TRUE} :
               /\ nodeKey' = [nodeKey EXCEPT ![i] = call[t].key]
               /\ tmp' = [tmp EXCEPT ![t] = i]
      BY <2>1 DEF SearchMisses
    <3>2. PICK i \in FreeNodes : /\ nodeKey' = [nodeKey EXCEPT ![i] = call[t].key]
                                 /\ tmp' = [tmp EXCEPT ![t] = i]
      BY <3>1
    <3>3. i \in Node /\ nodeKey[i] = None /\ i # None
      BY HashMapAssumption DEF FreeNodes
    <3> QED  BY <1>2, <1>4, <2>1, <3>2, <3>3 DEF Types
  <2>2. CASE ~(call[t].op = "insert" /\ tmp[t] = None)
    <3>1. nodeKey' = nodeKey /\ tmp' = tmp
      BY <2>2 DEF SearchMisses
    <3> QED  BY <1>2, <2>2, <3>1 DEF Types
  <2> QED  BY <2>1, <2>2
<1>8. Types' /\ Others(t)
  <2>1. pc' \in [Thread -> Within \cup Before \cup Outside]
    BY <1>1, <1>2, <1>5 DEF Types, Within
  <2>2. \A u \in Thread : u # t => pc'[u] = pc[u]
    BY <1>1, <1>2 DEF Types
  <2>3. Types'
    BY <1>1, <1>2, <1>7, <2>1 DEF Types
  <2> QED  BY <1>1, <1>7, <2>2, <2>3 DEF Others
<1>9. /\ Splitting(t)' = Splitting(t) /\ Depth(t)' = Depth(t) /\ Top(t)' = Top(t) /\ mask <= mask'
  BY <1>1, <1>2 DEF Splitting, Depth, Top, Types
<1>10. \A i \in Linked : i \in Node /\ nodeKey[i] # None /\ nodeKey'[i] = nodeKey[i]
  <2> TAKE i \in Linked
  <2>1. PICK c \in Bucket : list[c] # RehashReq /\ i \in list[c]
    BY LinkedIs
  <2>2. i \in Node /\ nodeKey[i] # None
    BY <1>2, <2>1 DEF ListsFit, Types
  <2> QED  BY <1>7, <2>2
<1>11. ListsFit' /\ ListsMine(t) /\ HomesMine(t) /\ Linked' = Linked
  BY <1>1, <1>8, <1>9, <1>10, ListsSame
<1>12. GrowthFits'
  BY <1>1, <1>8, GrowthSame
<1>13. LocksMine(t) /\ \A c \in Bucket : LockFits(c)'
  BY <1>1, LocksSame
<1>14. \A i \in Private(t)' : i \in Node /\ (i \in Private(t) \/ (i = tmp'[t] /\ nodeKey[i] = None))
  <2> SUFFICES ASSUME NEW i \in Private(t)'
               PROVE  i \in Node /\ (i \in Private(t) \/ (i = tmp'[t] /\ nodeKey[i] = None))
    OBVIOUS
  <2>1. i \in Node /\ tmp'[t] = i
    BY <1>5, <1>6 DEF Private
  <2> QED  BY <1>7, <2>1 DEF Private
<1>15. NodesMine(t)
  BY <1>1, <1>7, <1>11, <1>14 DEF NodesMine
<1>16. NodesFit(t)'
  <2>1. NodesFit(t) /\ acc[t] = None
    BY <1>1, <1>2 DEF InvFor, CallFits
  <2>2. ASSUME NEW i \in Private(t)' PROVE nodeKey'[i] # None /\ i \notin Linked'
    <3>1. CASE i \in Private(t)
      <4>1. nodeKey[i] # None /\ i \notin Linked /\ i \in Node
        BY <2>1, <3>1 DEF NodesFit, Private
      <4> QED  BY <1>7, <1>11, <4>1
    <3>2. CASE i \notin Private(t)
      <4>1. i = tmp'[t] /\ nodeKey[i] = None /\ i \in Node
        BY <1>14, <2>2, <3>2
      <4>2. i # tmp[t]
        BY <3>2, <4>1 DEF Private
      <4>3. nodeKey'[i] = call[t].key
        BY <1>7, <4>1, <4>2
      <4> QED  BY <1>4, <1>10, <1>11, <4>1, <4>3, HashMapAssumption
    <3> QED  BY <3>1, <3>2
  <2>3. ASSUME NEW u \in Thread, u # t, NEW i \in Private(t)' PROVE i \notin Private(u)'
    <3>1. Private(u)' = Private(u)
      <4>1. tmp'[u] = tmp[u] /\ pc'[u] = pc[u] /\ acc'[u] = acc[u] /\ n'[u] = n[u]
        BY <1>8, <2>3 DEF Others
      <4> QED  BY <4>1 DEF Private
    <3>2. CASE i \in Private(t)
      BY <2>1, <2>3, <3>1, <3>2 DEF NodesFit
    <3>3. CASE i \notin Private(t)
      <4>1. nodeKey[i] = None
        BY <1>14, <2>3, <3>3
      <4> QED  BY <3>1, <4>1, InvParts DEF InvFor, NodesFit
    <3> QED  BY <3>2, <3>3
  <2>4. tmp'[t] # None => nodeKey'[tmp'[t]] = call[t].key
    <3> SUFFICES ASSUME tmp'[t] = tmp[t], tmp[t] # None PROVE nodeKey'[tmp[t]] = call[t].key
      BY <1>7
    <3>1. tmp[t] \in Private(t)
      BY <1>2 DEF Private, Types
    <3>2. nodeKey[tmp[t]] # None /\ nodeKey[tmp[t]] = call[t].key /\ tmp[t] \in Node
      BY <2>1, <3>1 DEF NodesFit, Private
    <3> QED  BY <1>7, <3>2
  <2>5. \A i \in Node : item'[i] = t => acc'[t] = i
    BY <1>1, <2>1 DEF NodesFit
  <2>6. pc'[t] # "item" /\ acc'[t] = None
    BY <1>1, <1>5, <1>6, <2>1
  <2>7. \A u \in Thread : u # t => Private(t)' \cap Private(u)' = {}
    BY <2>3
  <2> QED  BY <1>1, <2>2, <2>4, <2>5, <2>6, <2>7 DEF NodesFit
<1>17. StackFits(t)'
  <2>1. pc'[t] \notin Outside /\ pc'[t] # "rehash" /\ pc[t] \notin Outside
    BY <1>1, <1>5, <1>6 DEF Outside
  <2> QED  BY <1>1, <1>2, <1>3, <1>4, <1>9, <2>1 DEF InvFor, StackFits
<1>18. CallFits(t)'
  <2>1. /\ acc[t] = None /\ grow[t] = 0 /\ n[t] = None /\ call[t].answer = "none"
        /\ tmp[t] # None => call[t].op = "insert"
    BY <1>1, <1>2, <1>3, <1>4 DEF InvFor, CallFits
  <2>2. Inserting(t)' => call[t].op = "insert"
    BY <1>1, <1>5, <1>6 DEF Inserting
  <2>3. pc'[t] \in {"race", "upgrade"}
    BY <1>5, <1>6
  <2> QED  BY <1>1, <1>4, <1>7, <2>1, <2>2, <2>3 DEF CallFits
<1>19. Locks(t)'
  <2>1. pc'[t] \in Within /\ pc'[t] # "upgrading" /\ pc[t] # "upgrading"
    BY <1>3, <1>5, <1>6 DEF Within
  <2>2. pc'[t] = "upgrade" => t \in lock[Top(t)].readers
    BY <1>4, <1>5, <1>6 DEF Locked, IsWriter
  <2>3. Writes(t)' => lock[Top(t)].writer = t
    BY <1>1, <1>5, <1>6 DEF Writes, IsWriter
  <2> QED  BY <1>1, <1>4, <1>8, <2>1, <2>2, <2>3, LocksStay
<1>20. Marked(t)'
  BY <1>1, <1>2, <1>4, <1>9 DEF InvFor, Marked
<1>21. SearchFits(t)'
  <2>1. Found(t)' = {}
    <3>1. \A i \in list[Top(t)] : nodeKey'[i] = nodeKey[i]
      BY <1>4, <1>10
    <3> QED  BY <1>1, <1>9, <3>1 DEF Found
  <2>2. pc'[t] \notin {"collision", "link"}
    BY <1>5, <1>6
  <2> QED  BY <1>1, <2>1, <2>2 DEF SearchFits
<1>22. InvFor(t)'
  BY <1>16, <1>17, <1>18, <1>19, <1>20, <1>21 DEF InvFor
<1> QED  BY <1>8, <1>9, <1>11, <1>12, <1>13, <1>15, <1>22, StepKeeps

\* Thread t gives up the bucket it searched, for good.
LEMMA LeavesBucket ==
  ASSUME HashMapInv, Types', NEW t \in Thread, pc[t] \in Rehashed, pc'[t] \in Outside,
         stack' = [stack EXCEPT ![t] = <<>>], lock' = Released(t)
  PROVE  /\ StackFits(t)' /\ Locks(t)' /\ Marked(t)' /\ SearchFits(t)'
         /\ LocksMine(t) /\ (\A b \in Bucket : LockFits(b)')
         /\ Splitting(t)' = Splitting(t)
<1>1. Types /\ Depth(t) = 1 /\ Top(t) \in Bucket /\ pc[t] \in Within
  BY Searching, InvParts
<1>2. stack'[t] = <<>> /\ Depth(t)' = 0
  BY <1>1 DEF Types, Depth
<1>3. /\ pc'[t] \notin Within /\ pc'[t] \notin {"lock", "reacquire"}
      /\ pc'[t] \notin Rehashed /\ pc'[t] # "rehash" /\ pc[t] # "upgrading"
  BY DEF Outside, Within, Rehashed
<1>4. 1..Depth(t)' = {} /\ 1..(Depth(t)' - 1) = {} /\ 1..(Depth(t) - 1) = {}
  BY <1>1, <1>2
<1>5. PICK b \in Bucket : b = Top(t)
  BY <1>1
<1>6. /\ LocksMine(t) /\ \A c \in Bucket : LockFits(c)'
      /\ lock'[b].writer # t /\ t \notin lock'[b].readers /\ lock'[b].upgrading # t
      /\ \A c \in Bucket : c # b => lock'[c] = lock[c]
  BY <1>3, <1>5, LockReleased
<1>7. Locks(t)'
  <2>1. pc[t] \in Within \ {"upgrading"} /\ pc'[t] \notin {"upgrade", "upgrading"}
    BY <1>1, <1>3 DEF Within
  <2>2. Depth(t)' \in {Depth(t) - 1, Depth(t)} /\ 1..(Depth(t)' - 1) = 1..(Depth(t) - 1)
    BY <1>1, <1>2, <1>4
  <2>3. \A i \in 1..(Depth(t) - 1) : stack'[t][i] = stack[t][i]
    BY <1>4
  <2> QED  BY <1>3, <1>5, <1>6, <2>1, <2>2, <2>3, LocksGiven
<1>8. StackFits(t)'
  BY <1>2, <1>3, <1>4 DEF StackFits
<1>9. Marked(t)'
  BY <1>3, <1>4 DEF Marked
<1>10. SearchFits(t)'
  <2>1. pc'[t] \notin {"race", "collision", "link", "upgrade", "upgrading"}
    BY DEF Outside
  <2> QED  BY <2>1 DEF SearchFits
<1>11. Splitting(t)' = Splitting(t)
  BY <1>4 DEF Splitting
<1> QED  BY <1>6, <1>7, <1>8, <1>9, <1>10, <1>11

\* It gives it up to look for its key's bucket again.
LEMMA RestartsLookup ==
  ASSUME HashMapInv, Types', NEW t \in Thread, pc[t] \in Rehashed, pc'[t] = "look",
         NEW x \in Masks, x <= mask, m'[t] = x, mask' = mask, call' = call,
         stack' = [stack EXCEPT ![t] = <<Masked(call[t].key, x)>>], lock' = Released(t)
  PROVE  /\ StackFits(t)' /\ Locks(t)' /\ Marked(t)' /\ SearchFits(t)'
         /\ LocksMine(t) /\ (\A b \in Bucket : LockFits(b)')
         /\ Splitting(t)' = Splitting(t)
<1>1. /\ Types /\ Depth(t) = 1 /\ Top(t) \in Bucket /\ pc[t] \in Within
      /\ call[t].key \in Nat
  BY Searching, InvParts
<1>2. PICK h : h = Masked(call[t].key, x)
  OBVIOUS
<1>3. h \in Bucket /\ h <= x /\ OnPath(h, call[t].key) /\ h <= mask
  <2>1. x <= MaxMask /\ mask \in Nat /\ MaxMask \in Nat /\ x \in Nat
    BY <1>1, InvParts, HashMapAssumption, MaskIs DEF GrowthFits, Types
  <2>2. h \in Bucket /\ h <= x /\ OnPath(h, call[t].key)
    BY <1>1, <1>2, <2>1, StartBucket
  <2>3. h \in Nat
    BY <2>2 DEF Bucket
  <2> QED  BY <2>1, <2>2, <2>3
<1>4. stack'[t] = <<h>> /\ Depth(t)' = 1 /\ stack'[t][1] = h
  BY <1>1, <1>2 DEF Types, Depth
<1>5. /\ pc'[t] \notin Within /\ pc'[t] \notin {"lock", "reacquire"}
      /\ pc'[t] \notin Rehashed /\ pc'[t] # "rehash" /\ pc[t] # "upgrading"
      /\ pc'[t] \notin Outside
  BY DEF Outside, Within, Rehashed
<1>6. 1..Depth(t)' = {1} /\ 1..(Depth(t)' - 1) = {} /\ 1..(Depth(t) - 1) = {}
  BY <1>1, <1>4
<1>7. PICK b \in Bucket : b = Top(t)
  BY <1>1
<1>8. /\ LocksMine(t) /\ \A c \in Bucket : LockFits(c)'
      /\ lock'[b].writer # t /\ t \notin lock'[b].readers /\ lock'[b].upgrading # t
      /\ \A c \in Bucket : c # b => lock'[c] = lock[c]
  BY <1>5, <1>7, LockReleased
<1>9. Locks(t)'
  <2>1. pc[t] \in Within \ {"upgrading"} /\ pc'[t] \notin {"upgrade", "upgrading"}
    BY <1>1, <1>5 DEF Within
  <2>2. Depth(t)' \in {Depth(t) - 1, Depth(t)} /\ 1..(Depth(t)' - 1) = 1..(Depth(t) - 1)
    BY <1>1, <1>4, <1>6
  <2>3. \A i \in 1..(Depth(t) - 1) : stack'[t][i] = stack[t][i]
    BY <1>6
  <2> QED  BY <1>5, <1>7, <1>8, <2>1, <2>2, <2>3, LocksGiven
<1>10. StackFits(t)'
  BY <1>2, <1>3, <1>4, <1>5, <1>6 DEF StackFits
<1>11. Marked(t)'
  BY <1>5, <1>6 DEF Marked
<1>12. SearchFits(t)'
  BY DEF SearchFits
<1>13. Splitting(t)' = Splitting(t)
  BY <1>6 DEF Splitting
<1> QED  BY <1>8, <1>9, <1>10, <1>11, <1>12, <1>13

(***************************************************************************)
(* The race with a growing table.                                          *)
(***************************************************************************)

\* The bucket searched has its nodes.
LEMMA TopIsComplete ==
  ASSUME HashMapInv, NEW t \in Thread, pc[t] \in Rehashed
  PROVE  Complete(Top(t))
<1>1. Depth(t) = 1 /\ Top(t) \in Bucket /\ list[Top(t)] # RehashReq /\ Locked(Top(t), t)
  BY Searching
<1>2. ASSUME NEW u \in Thread, NEW i \in 1..(Depth(u) - 1) PROVE stack[u][i] # Top(t)
  <2>1. CASE u = t
    BY <1>1, <1>2, <2>1
  <2>2. CASE u # t
    <3>1. stack[u][i] \in Bucket /\ lock[stack[u][i]].writer = u
      BY HasLock
    <3> QED  BY <1>1, <2>2, <3>1, Excluded
  <2> QED  BY <2>1, <2>2
<1> QED  BY <1>1, <1>2 DEF Complete

LEMMA TopOnPath ==
  ASSUME HashMapInv, NEW t \in Thread, pc[t] \in Rehashed
  PROVE  OnPath(Top(t), call[t].key)
<1>1. Depth(t) = 1 /\ Top(t) = stack[t][1]
  BY Searching
<1>2. OnPath(stack[t][1], call[t].key)
  BY <1>1, InvParts DEF InvFor, StackFits
<1> QED  BY <1>1, <1>2

\* It is the key's home when it is the key's bucket under the mask there is,
LEMMA HomeByMask ==
  ASSUME HashMapInv, NEW t \in Thread, pc[t] \in Rehashed,
         Top(t) = Masked(call[t].key, mask)
  PROVE  IsHome(Top(t), call[t].key)
<1>1. call[t].key \in Nat
  BY Searching
<1>2. PICK i \in Nat \ {0} : mask + 1 = Pow2[i] /\ mask \in Nat
  BY InvParts, MaskIs DEF GrowthFits
<1>3. ASSUME NEW c \in Bucket, Complete(c), OnPath(c, call[t].key) PROVE c <= Top(t)
  <2>1. c <= mask /\ c \in Nat
    BY <1>3, InvParts DEF ListsFit, Complete, Bucket
  <2>2. c < Pow2[i]
    BY <1>2, <2>1
  <2>3. c <= call[t].key % Pow2[i]
    BY <1>1, <1>3, <2>2, BelowOnPath
  <2> QED  BY <1>2, <2>3 DEF Masked
<1> QED  BY <1>3, TopIsComplete, TopOnPath DEF IsHome

\* or when the next bucket on the key's path is not rehashed yet.
LEMMA HomeByProbe ==
  ASSUME HashMapInv, NEW t \in Thread, pc[t] = "collision", list[probe[t]] = RehashReq
  PROVE  IsHome(Top(t), call[t].key)
<1>1. pc[t] \in Rehashed
  BY DEF Rehashed
<1>2. /\ probe[t] \in Bucket /\ OnPath(probe[t], call[t].key)
      /\ Following(probe[t], Top(t), call[t].key)
  BY InvParts DEF InvFor, SearchFits
<1>3. Top(t) \in Bucket
  BY <1>1, Searching
<1>4. ASSUME NEW c \in Bucket, Complete(c), OnPath(c, call[t].key) PROVE c <= Top(t)
  <2>1. c \in Nat /\ Top(t) \in Nat
    BY <1>3 DEF Bucket
  <2> SUFFICES ASSUME Top(t) < c PROVE FALSE
    BY <2>1
  <2>2. OnPath(probe[t], c)
    BY <1>2, <1>4 DEF Following
  <2>3. Complete(probe[t])
    BY <1>2, <1>4, <2>2, InvParts DEF ListsFit
  <2> QED  BY <2>3 DEF Complete
<1> QED  BY <1>1, <1>4, TopIsComplete, TopOnPath DEF IsHome

\* An erase never misses a node in its home.
LEMMA ErasesInHome ==
  ASSUME HashMapInv, NEW t \in Thread, pc[t] \in {"race", "collision"},
         IsHome(Top(t), call[t].key)
  PROVE  call[t].op # "erase"
<1> SUFFICES ASSUME call[t].op = "erase" PROVE FALSE
  OBVIOUS
<1>1. InvFor(t) /\ ListsFit
  BY InvParts
<1>2. acc[t] # None /\ acc[t] \notin list[Top(t)]
  BY <1>1 DEF InvFor, CallFits, SearchFits
<1>3. acc[t] \in Linked /\ nodeKey[acc[t]] = call[t].key
  BY <1>1, <1>2 DEF InvFor, NodesFit
<1>4. PICK b \in Bucket : list[b] # RehashReq /\ acc[t] \in list[b]
  BY <1>3, LinkedIs
<1>5. IsHome(b, call[t].key)
  BY <1>1, <1>3, <1>4 DEF ListsFit
<1>6. b <= Top(t) /\ Top(t) <= b /\ Top(t) \in Bucket
  BY <1>5 DEF IsHome, Complete
<1>7. b = Top(t)
  BY <1>6 DEF Bucket
<1> QED  BY <1>2, <1>4, <1>7

LEMMA NoRaceKeeps ==
  ASSUME HashMapInv, NEW t \in Thread, pc[t] \in {"race", "collision"}, NoRace(t),
         IsHome(Top(t), call[t].key),
         m' \in [Thread -> Nat], m'[t] \in {m[t], mask},
         probe' \in [Thread -> Nat \cup {None}],
         \A u \in Thread : u # t => m'[u] = m[u] /\ probe'[u] = probe[u],
         UNCHANGED <<table, list, nodeKey, n, tmp, grow>>
  PROVE  HashMapInv'
<1>1. /\ mask' = mask /\ claimed' = claimed /\ list' = list /\ nodeKey' = nodeKey
      /\ n' = n /\ tmp' = tmp /\ grow' = grow
  BY DEF table
<1>2. InvFor(t) /\ Types /\ t # None
  BY InvParts, HashMapAssumption
<1>3. pc[t] \in Rehashed /\ pc[t] \notin {"upgrading", "release", "delete", "idle", "item"}
  BY DEF Rehashed
<1>4. /\ Depth(t) = 1 /\ pc[t] \in Within /\ Top(t) \in Bucket /\ list[Top(t)] # RehashReq
      /\ call[t] \in CallSet /\ call[t].key \in Key /\ call[t].op \in Ops
  BY <1>3, Searching
<1>5. /\ call[t].answer = "none" /\ n[t] = None /\ grow[t] = 0
      /\ tmp[t] # None => call[t].op = "insert"
      /\ call[t].op = "insert" => tmp[t] # None
  BY <1>2, <1>3, <1>4 DEF InvFor, CallFits, Inserting
<1>6. call[t].op # "erase"
  BY ErasesInHome
<1>7. acc[t] = None
  BY <1>2, <1>3, <1>6 DEF InvFor, CallFits
<1>8. CASE call[t].op = "insert"
  <2>1. /\ pc' = [pc EXCEPT ![t] = "link"] /\ lock' = lock /\ item' = item /\ acc' = acc
        /\ call' = call /\ stack' = stack
    BY <1>8 DEF NoRace, Goto
  <2>2. pc'[t] = "link"
    BY <1>2, <2>1 DEF Types
  <2>3. Types' /\ Others(t)
    <3>1. pc' \in [Thread -> Within \cup Before \cup Outside]
      BY <1>2, <2>1 DEF Types, Within
    <3>2. \A u \in Thread : u # t => pc'[u] = pc[u]
      BY <1>2, <2>1 DEF Types
    <3> QED  BY <1>1, <1>2, <2>1, <3>1, <3>2 DEF Types, Others
  <2>4. Splitting(t)' = Splitting(t) /\ Depth(t)' = Depth(t) /\ Top(t)' = Top(t)
    BY <2>1 DEF Splitting, Depth, Top
  <2>5. GrowthFits'
    BY <1>1, <2>3, GrowthSame
  <2>6. LocksMine(t) /\ \A c \in Bucket : LockFits(c)'
    BY <2>1, LocksSame
  <2>7. NodesFit(t)' /\ Private(t)' = Private(t)
    BY <1>1, <1>3, <1>7, <2>1, <2>2, <2>3, NodesStay
  <2>8. StackFits(t)'
    <3>1. pc'[t] \notin Outside /\ pc'[t] # "rehash" /\ pc[t] \notin Outside
      BY <1>3, <2>2 DEF Outside, Rehashed
    <3> QED  BY <1>1, <1>2, <1>4, <2>1, <2>2, <2>4, <3>1 DEF InvFor, StackFits
  <2>9. CallFits(t)'
    <3>1. Inserting(t)' => call[t].op = "insert"
      BY <1>8
    <3> QED  BY <1>1, <1>4, <1>5, <1>7, <1>8, <2>1, <2>2, <3>1 DEF CallFits
  <2>10. Locks(t)'
    <3>1. pc'[t] \in Within \ {"upgrade", "upgrading"}
      BY <2>2 DEF Within
    <3>2. lock[Top(t)].writer = t
      BY <1>2, <1>8 DEF InvFor, Locks, Writes
    <3> QED  BY <1>3, <1>4, <2>1, <2>3, <3>1, <3>2, LocksStay
  <2>11. Marked(t)'
    BY <1>1, <1>2, <1>4, <2>4, <2>1 DEF InvFor, Marked
  <2>12. SearchFits(t)'
    <3>1. Found(t)' = {}
      <4>1. Found(t) = {}
        BY <1>2, <1>8 DEF InvFor, SearchFits
      <4> QED  BY <1>1, <2>1, <2>4, <4>1 DEF Found
    <3>2. IsHome(Top(t), call[t].key)'
      <4>1. PICK b, k : b = Top(t) /\ k = call[t].key
        OBVIOUS
      <4>2. IsHome(b, k)'
        BY <1>1, <2>3, <2>4, <4>1, HomeSame
      <4> QED  BY <2>1, <2>4, <4>1, <4>2 DEF IsHome, Complete
    <3> QED  BY <1>8, <2>1, <2>2, <3>1, <3>2 DEF SearchFits
  <2>13. InvFor(t)'
    BY <2>7, <2>8, <2>9, <2>10, <2>11, <2>12 DEF InvFor
  <2> QED  BY <1>1, <2>1, <2>3, <2>4, <2>5, <2>6, <2>7, <2>13, QuietStep
<1>9. CASE call[t].op # "insert"
  <2>1. /\ pc' = [pc EXCEPT ![t] = "return"] /\ lock' = Released(t)
        /\ item' = [i \in Node |-> IF i = acc[t] THEN None ELSE item[i]]
        /\ acc' = [acc EXCEPT ![t] = None] /\ call' = [call EXCEPT ![t].answer = "no"]
        /\ stack' = [stack EXCEPT ![t] = <<>>]
    BY <1>9 DEF NoRace, Goto, Answer
  <2>2. item' = item /\ acc' = acc
    BY <1>2, <1>7, <2>1, HashMapAssumption DEF Types
  <2>3. /\ pc'[t] = "return" /\ call'[t] \in CallSet /\ call'[t].op = call[t].op
        /\ call'[t].key = call[t].key /\ call'[t].answer = "no"
        /\ \A u \in Thread : u # t => call'[u] = call[u] /\ pc'[u] = pc[u] /\ stack'[u] = stack[u]
    BY <1>2, <1>4, <2>1 DEF Types, CallSet
  <2>4. Types' /\ Others(t)
    <3>1. pc' \in [Thread -> Within \cup Before \cup Outside]
      BY <1>2, <2>1 DEF Types, Outside
    <3>2. call' \in [Thread -> CallSet \cup {None}]
      BY <1>2, <2>1, <2>3 DEF Types
    <3>3. stack' \in [Thread -> Seq(Bucket)]
      <4>1. <<>> \in Seq(Bucket)
        OBVIOUS
      <4> QED  BY <1>2, <2>1, <4>1 DEF Types
    <3>4. lock' \in [Bucket -> MutexSet]
      BY <1>2, <1>4, <2>1, ReleasedTyped
    <3> QED  BY <1>1, <1>2, <2>2, <2>3, <3>1, <3>2, <3>3, <3>4 DEF Types, Others, MutexSet
  <2>5. pc'[t] \in Outside
    BY <2>3 DEF Outside
  <2>6. /\ StackFits(t)' /\ Locks(t)' /\ Marked(t)' /\ SearchFits(t)'
        /\ LocksMine(t) /\ (\A b \in Bucket : LockFits(b)')
        /\ Splitting(t)' = Splitting(t)
    BY <1>3, <2>1, <2>4, <2>5, LeavesBucket
  <2>7. GrowthFits'
    BY <1>1, <2>4, GrowthSame
  <2>8. NodesFit(t)' /\ Private(t)' = Private(t)
    BY <1>1, <1>3, <1>7, <2>2, <2>3, <2>4, NodesStay
  <2>9. CallFits(t)'
    <3>1. ~Inserting(t)' /\ pc'[t] \notin Within \cup Before
      BY <2>3 DEF Inserting, Within, Before
    <3> QED  BY <1>1, <1>5, <1>6, <1>7, <1>9, <2>2, <2>3, <3>1 DEF CallFits
  <2>10. InvFor(t)'
    BY <2>6, <2>8, <2>9 DEF InvFor
  <2> QED  BY <1>1, <2>2, <2>4, <2>6, <2>7, <2>8, <2>10, QuietStep
<1> QED  BY <1>8, <1>9

LEMMA CheckMaskRaceKeeps ==
  ASSUME HashMapInv, NEW t \in Thread, CheckMaskRace(t)
  PROVE  HashMapInv'
<1>1. /\ pc[t] = "race" /\ m' = [m EXCEPT ![t] = mask]
      /\ mask' = mask /\ claimed' = claimed /\ list' = list /\ nodeKey' = nodeKey
      /\ n' = n /\ tmp' = tmp /\ grow' = grow
  BY DEF CheckMaskRace, table
<1>2. InvFor(t) /\ Types /\ GrowthFits
  BY InvParts
<1>3. pc[t] \in Rehashed /\ pc[t] \in Within
  BY <1>1 DEF Rehashed, Within
<1>4. Depth(t) = 1 /\ Top(t) \in Bucket /\ Top(t) = stack[t][1] /\ call[t].key \in Nat
      /\ call[t] \in CallSet
  BY <1>3, Searching
<1>5. Top(t) = Masked(call[t].key, m[t])
  BY <1>1, <1>2, <1>4 DEF InvFor, StackFits
<1>6. m' \in [Thread -> Nat] /\ m'[t] = mask /\ \A u \in Thread : u # t => m'[u] = m[u]
  BY <1>1, <1>2 DEF Types
<1>7. CASE SameBucket(call[t].key, m[t])
  <2>1. IsHome(Top(t), call[t].key)
    BY <1>3, <1>5, <1>7, HomeByMask DEF SameBucket
  <2>2. NoRace(t) /\ probe' = probe /\ UNCHANGED <<table, list, nodeKey, n, tmp, grow>>
    BY <1>7 DEF CheckMaskRace
  <2> QED  BY <1>1, <1>2, <1>6, <2>1, <2>2, NoRaceKeeps DEF Types
<1>8. CASE ~SameBucket(call[t].key, m[t])
  <2> DEFINE k == call[t].key
             p == NextApplicable(k, m[t])
  <2>1. /\ probe' = [probe EXCEPT ![t] = p] /\ pc' = [pc EXCEPT ![t] = "collision"]
        /\ lock' = lock /\ item' = item /\ acc' = acc /\ call' = call /\ stack' = stack
    BY <1>8 DEF CheckMaskRace, Goto
  <2>2. p \in Bucket /\ OnPath(p, k) /\ Following(p, Top(t), k)
    <3>1. PICK a \in Nat \ {0} : m[t] = Pow2[a] - 1 /\ m[t] + 1 = Pow2[a]
      BY <1>2, MaskIs DEF GrowthFits
    <3>2. PICK b \in Nat \ {0} : mask = Pow2[b] - 1 /\ mask + 1 = Pow2[b]
      BY <1>2, MaskIs DEF GrowthFits
    <3>3. k % Pow2[a] # k % Pow2[b] /\ Top(t) = k % Pow2[a]
      BY <1>5, <1>8, <3>1, <3>2 DEF SameBucket, Masked
    <3>4. a < b
      <4>1. m[t] <= mask /\ m[t] \in Nat /\ mask \in Nat
        BY <1>2 DEF GrowthFits, Types
      <4>2. Pow2[a] <= Pow2[b]
        BY <3>1, <3>2, <4>1
      <4>3. a <= b /\ a # b
        BY <3>3, <4>2, Pow2Grows
      <4> QED  BY <4>3
    <3>5. PICK q \in Nat : /\ q = NextApplicable(k, Pow2[a] - 1) /\ q < Pow2[b]
                           /\ OnPath(q, k) /\ Following(q, k % Pow2[a], k)
      BY <1>4, <3>3, <3>4, NextApplicableIs
    <3>6. q = p
      BY <3>1, <3>5
    <3>7. q \in Bucket
      <4>1. mask <= MaxMask /\ mask \in Nat /\ MaxMask \in Nat
        BY <1>2, HashMapAssumption DEF GrowthFits, Types
      <4>2. q < mask + 1
        BY <3>2, <3>5
      <4> QED  BY <3>5, <4>1, <4>2 DEF Bucket
    <3> QED  BY <3>3, <3>5, <3>6, <3>7
  <2> HIDE DEF p
  <2>3. pc'[t] = "collision" /\ probe'[t] = p
    BY <1>2, <2>1 DEF Types
  <2>4. Types' /\ Others(t)
    <3>1. pc' \in [Thread -> Within \cup Before \cup Outside]
      BY <1>2, <2>1 DEF Types, Within
    <3>2. probe' \in [Thread -> Nat \cup {None}]
      BY <1>2, <2>1, <2>2 DEF Types, Bucket
    <3>3. \A u \in Thread : u # t => pc'[u] = pc[u] /\ probe'[u] = probe[u]
      BY <1>2, <2>1 DEF Types
    <3> QED  BY <1>1, <1>2, <1>6, <2>1, <3>1, <3>2, <3>3 DEF Types, Others
  <2>5. Splitting(t)' = Splitting(t) /\ Depth(t)' = Depth(t) /\ Top(t)' = Top(t)
    BY <2>1 DEF Splitting, Depth, Top
  <2>6. GrowthFits'
    BY <1>1, <1>6, <2>4, GrowthSame
  <2>7. LocksMine(t) /\ \A c \in Bucket : LockFits(c)'
    BY <2>1, LocksSame
  <2>8. NodesFit(t)' /\ Private(t)' = Private(t)
    <3>1. acc[t] # None /\ call[t].op = "erase" => nodeKey[acc[t]] = call[t].key
      BY <1>1, <1>2 DEF InvFor, NodesFit
    <3> QED  BY <1>1, <2>1, <2>3, <2>4, <3>1, NodesStay
  <2>9. StackFits(t)'
    <3>1. pc'[t] \notin Outside /\ pc'[t] # "rehash" /\ pc[t] \notin Outside
      BY <1>1, <2>3 DEF Outside
    <3> QED  BY <1>1, <1>2, <1>4, <2>1, <2>3, <2>5, <3>1 DEF InvFor, StackFits
  <2>10. CallFits(t)'
    BY <1>1, <1>2, <2>1, <2>3, <2>5 DEF InvFor, CallFits, Inserting, Within, Before
  <2>11. Locks(t)'
    <3>1. pc'[t] \in Within \ {"upgrade", "upgrading"} /\ pc[t] # "upgrading"
      BY <1>1, <2>3 DEF Within
    <3>2. Writes(t)' => Writes(t)
      BY <1>1, <2>1, <2>3, <2>5, <1>3 DEF Writes
    <3>3. Writes(t)' => lock[Top(t)].writer = t
      BY <1>2, <3>2 DEF InvFor, Locks
    <3> QED  BY <1>3, <2>1, <2>4, <3>1, <3>3, LocksStay
  <2>12. Marked(t)'
    BY <1>1, <1>2, <1>3, <2>1, <2>5 DEF InvFor, Marked
  <2>13. SearchFits(t)'
    <3>1. Found(t)' = Found(t)
      BY <1>1, <2>1, <2>5 DEF Found
    <3> QED  BY <1>1, <1>2, <2>1, <2>2, <2>3, <2>5, <3>1 DEF InvFor, SearchFits
  <2>14. InvFor(t)'
    BY <2>8, <2>9, <2>10, <2>11, <2>12, <2>13 DEF InvFor
  <2> QED  BY <1>1, <2>1, <2>4, <2>5, <2>6, <2>7, <2>8, <2>14, QuietStep
<1> QED  BY <1>7, <1>8

LEMMA CheckRehashingCollisionKeeps ==
  ASSUME HashMapInv, NEW t \in Thread, CheckRehashingCollision(t)
  PROVE  HashMapInv'
<1>1. /\ pc[t] = "collision" /\ probe' = [probe EXCEPT ![t] = None]
      /\ mask' = mask /\ claimed' = claimed /\ list' = list /\ nodeKey' = nodeKey
      /\ n' = n /\ tmp' = tmp /\ grow' = grow
  BY DEF CheckRehashingCollision, table
<1>2. InvFor(t) /\ Types /\ GrowthFits
  BY InvParts
<1>3. pc[t] \in Rehashed /\ pc[t] \in Within
  BY <1>1 DEF Rehashed, Within
<1>4. Top(t) \in Bucket /\ call[t] \in CallSet
  BY <1>3, Searching
<1>5. /\ probe' \in [Thread -> Nat \cup {None}]
      /\ \A u \in Thread : u # t => probe'[u] = probe[u]
  BY <1>1, <1>2 DEF Types
<1>6. CASE list[probe[t]] = RehashReq
  <2>1. IsHome(Top(t), call[t].key)
    BY <1>1, <1>6, HomeByProbe
  <2>2. NoRace(t) /\ m' = m /\ UNCHANGED <<table, list, nodeKey, n, tmp, grow>>
    BY <1>6 DEF CheckRehashingCollision
  <2> QED  BY <1>1, <1>2, <1>5, <2>1, <2>2, NoRaceKeeps DEF Types
<1>7. CASE list[probe[t]] # RehashReq
  <2> DEFINE x == m[t]
  <2>1. /\ lock' = Released(t) /\ pc' = [pc EXCEPT ![t] = "look"]
        /\ m' = [m EXCEPT ![t] = x]
        /\ stack' = [stack EXCEPT ![t] = <<Masked(call[t].key, x)>>]
        /\ item' = item /\ acc' = acc /\ call' = call
    BY <1>7 DEF CheckRehashingCollision, Restart, Goto
  <2>2. x \in Masks /\ x <= mask /\ x \in Nat
    BY <1>2 DEF GrowthFits, Types
  <2>3. pc'[t] = "look" /\ m'[t] = x
    BY <1>2, <2>1 DEF Types
  <2>4. Types' /\ Others(t)
    <3>1. pc' \in [Thread -> Within \cup Before \cup Outside]
      BY <1>2, <2>1 DEF Types, Before
    <3>2. m' \in [Thread -> Nat]
      BY <1>2, <2>1, <2>2 DEF Types
    <3>3. stack' \in [Thread -> Seq(Bucket)]
      <4>1. call[t].key \in Nat /\ x <= MaxMask
        <5>1. mask <= MaxMask /\ mask \in Nat /\ MaxMask \in Nat
          BY <1>2, HashMapAssumption DEF GrowthFits, Types
        <5> QED  BY <1>3, <2>2, <5>1, Searching
      <4>2. PICK h \in Bucket : h = Masked(call[t].key, x)
        BY <2>2, <4>1, StartBucket
      <4>3. <<h>> \in Seq(Bucket)
        OBVIOUS
      <4> QED  BY <1>2, <2>1, <4>2, <4>3 DEF Types
    <3>4. lock' \in [Bucket -> MutexSet]
      BY <1>2, <1>4, <2>1, ReleasedTyped
    <3>5. \A u \in Thread : u # t => pc'[u] = pc[u] /\ m'[u] = m[u] /\ stack'[u] = stack[u]
      BY <1>2, <2>1 DEF Types
    <3> QED  BY <1>1, <1>2, <1>5, <2>1, <3>1, <3>2, <3>3, <3>4, <3>5 DEF Types, Others, MutexSet
  <2>5. /\ StackFits(t)' /\ Locks(t)' /\ Marked(t)' /\ SearchFits(t)'
        /\ LocksMine(t) /\ (\A b \in Bucket : LockFits(b)')
        /\ Splitting(t)' = Splitting(t)
    BY <1>1, <1>3, <2>1, <2>2, <2>3, <2>4, RestartsLookup
  <2>6. GrowthFits'
    BY <1>1, <2>3, <2>4, GrowthSame
  <2>7. NodesFit(t)' /\ Private(t)' = Private(t)
    <3>1. acc[t] # None /\ call[t].op = "erase" => nodeKey[acc[t]] = call[t].key
      BY <1>1, <1>2 DEF InvFor, NodesFit
    <3> QED  BY <1>1, <2>1, <2>3, <2>4, <3>1, NodesStay
  <2>8. CallFits(t)'
    <3>1. pc[t] = "collision" /\ pc'[t] = "look" /\ ~Inserting(t)'
      BY <1>1, <2>3 DEF Inserting
    <3> QED  BY <1>1, <1>2, <2>1, <3>1 DEF InvFor, CallFits, Within, Before
  <2>9. InvFor(t)'
    BY <2>5, <2>7, <2>8 DEF InvFor
  <2> QED  BY <1>1, <2>1, <2>4, <2>5, <2>6, <2>7, <2>9, QuietStep
<1> QED  BY <1>6, <1>7

(***************************************************************************)
(* The lock of the node that was found or inserted.                        *)
(***************************************************************************)

LEMMA GiveUpItemKeeps ==
  ASSUME HashMapInv, NEW t \in Thread, GiveUpItem(t)
  PROVE  HashMapInv'
<1>1. /\ pc[t] = "item" /\ item[n[t]] # None
      /\ lock' = Released(t) /\ n' = [n EXCEPT ![t] = None]
      /\ pc' = [pc EXCEPT ![t] = "look"] /\ m' = [m EXCEPT ![t] = mask]
      /\ stack' = [stack EXCEPT ![t] = <<Masked(call[t].key, mask)>>]
      /\ mask' = mask /\ claimed' = claimed /\ list' = list /\ nodeKey' = nodeKey
      /\ item' = item /\ acc' = acc /\ call' = call
      /\ tmp' = tmp /\ probe' = probe /\ grow' = grow
  BY DEF GiveUpItem, Restart, Goto, table
<1>2. InvFor(t) /\ Types /\ GrowthFits
  BY InvParts
<1>3. pc[t] \in Rehashed /\ pc[t] \in Within
  BY <1>1 DEF Rehashed, Within
<1>4. Top(t) \in Bucket /\ call[t] \in CallSet /\ call[t].key \in Nat
  BY <1>3, Searching
<1>5. mask \in Masks /\ mask <= mask /\ mask \in Nat /\ mask <= MaxMask
  BY <1>2 DEF GrowthFits, Types
<1>6. pc'[t] = "look" /\ m'[t] = mask /\ n'[t] = None
  BY <1>1, <1>2 DEF Types
<1>7. Types' /\ Others(t)
  <2>1. pc' \in [Thread -> Within \cup Before \cup Outside]
    BY <1>1, <1>2 DEF Types, Before
  <2>2. m' \in [Thread -> Nat] /\ n' \in [Thread -> Node \cup {None}]
    BY <1>1, <1>2, <1>5 DEF Types
  <2>3. stack' \in [Thread -> Seq(Bucket)]
    <3>1. PICK h \in Bucket : h = Masked(call[t].key, mask)
      BY <1>4, <1>5, StartBucket
    <3>2. <<h>> \in Seq(Bucket)
      OBVIOUS
    <3> QED  BY <1>1, <1>2, <3>1, <3>2 DEF Types
  <2>4. lock' \in [Bucket -> MutexSet]
    BY <1>1, <1>2, <1>4, ReleasedTyped
  <2>5. \A u \in Thread : u # t => /\ pc'[u] = pc[u] /\ m'[u] = m[u] /\ stack'[u] = stack[u]
                                   /\ n'[u] = n[u]
    BY <1>1, <1>2 DEF Types
  <2> QED  BY <1>1, <1>2, <2>1, <2>2, <2>3, <2>4, <2>5 DEF Types, Others, MutexSet
<1>8. /\ StackFits(t)' /\ Locks(t)' /\ Marked(t)' /\ SearchFits(t)'
      /\ LocksMine(t) /\ (\A b \in Bucket : LockFits(b)')
      /\ Splitting(t)' = Splitting(t)
  BY <1>1, <1>3, <1>5, <1>6, <1>7, RestartsLookup
<1>9. GrowthFits'
  BY <1>1, <1>6, <1>7, GrowthSame
<1>10. call[t].op # "erase" /\ acc[t] = None /\ call[t].answer = "none" /\ grow[t] = 0
  <2>1. call[t].op # "erase"
    BY <1>1, <1>2 DEF InvFor, CallFits
  <2>2. call[t].answer = "none"
    BY <1>1, <1>2 DEF InvFor, CallFits, NodesFit
  <2> QED  BY <1>1, <1>2, <2>1, <2>2 DEF InvFor, CallFits
<1>11. NodesFit(t)' /\ Private(t)' = Private(t)
  BY <1>1, <1>6, <1>7, <1>10, NodesStay
<1>12. CallFits(t)'
  <2>1. ~Inserting(t)'
    BY <1>6 DEF Inserting
  <2>2. tmp[t] # None => call[t].op = "insert"
    BY <1>2 DEF InvFor, CallFits
  <2> QED  BY <1>1, <1>4, <1>6, <1>10, <2>1, <2>2 DEF CallFits
<1>13. InvFor(t)'
  BY <1>8, <1>11, <1>12 DEF InvFor
<1> QED  BY <1>1, <1>7, <1>8, <1>9, <1>11, <1>13, QuietStep

LEMMA TryAcquireItemKeeps ==
  ASSUME HashMapInv, NEW t \in Thread, TryAcquireItem(t)
  PROVE  HashMapInv'
<1> DEFINE p == IF grow[t] = 0 /\ tmp[t] = None THEN "return" ELSE "grow"
           a == IF call[t].answer # "none" THEN call[t].answer
                ELSE IF call[t].op = "find" THEN "yes" ELSE "no"
<1>1. /\ pc[t] = "item" /\ item[n[t]] = None
      /\ item' = [item EXCEPT ![n[t]] = t] /\ acc' = [acc EXCEPT ![t] = n[t]]
      /\ n' = [n EXCEPT ![t] = None] /\ lock' = Released(t)
      /\ stack' = [stack EXCEPT ![t] = <<>>] /\ pc' = [pc EXCEPT ![t] = p]
      /\ mask' = mask /\ claimed' = claimed /\ list' = list /\ nodeKey' = nodeKey
      /\ m' = m /\ tmp' = tmp /\ probe' = probe /\ grow' = grow
  BY DEF TryAcquireItem, Goto, table
<1>2. InvFor(t) /\ Types /\ t # None
  BY InvParts, HashMapAssumption
<1>3. pc[t] \in Rehashed /\ pc[t] \in Within
  BY <1>1 DEF Rehashed, Within
<1>4. /\ Top(t) \in Bucket /\ list[Top(t)] \subseteq Linked
      /\ call[t] \in CallSet /\ call[t].key \in Key /\ call[t].op \in Ops
  BY <1>3, Searching
<1>5. /\ p \in {"return", "grow"}
      /\ p = "return" => grow[t] = 0 /\ tmp[t] = None
  OBVIOUS
<1>6. /\ call[t].op # "erase" /\ acc[t] = None /\ n[t] # None
      /\ call[t].answer \in {"none", "yes", "no"}
      /\ tmp[t] # None => call[t].op = "insert"
  BY <1>1, <1>2, <1>4 DEF InvFor, CallFits, CallSet
<1>7. a \in {"yes", "no"}
  BY <1>6
<1>8. /\ call'[t] \in CallSet /\ call'[t].op = call[t].op /\ call'[t].key = call[t].key
      /\ call'[t].answer = a /\ \A u \in Thread : u # t => call'[u] = call[u]
      /\ call' \in [Thread -> CallSet \cup {None}]
  <2>1. CASE call[t].answer = "none"
    <3>1. call' = [call EXCEPT ![t].answer = IF call[t].op = "find" THEN "yes" ELSE "no"]
      BY <2>1 DEF TryAcquireItem, Answer
    <3> QED  BY <1>2, <1>4, <2>1, <3>1 DEF Types, CallSet
  <2>2. CASE call[t].answer # "none"
    <3>1. call' = call
      BY <2>2 DEF TryAcquireItem
    <3> QED  BY <1>2, <1>4, <2>2, <3>1 DEF Types
  <2> QED  BY <2>1, <2>2
<1> HIDE DEF p, a
<1>9. /\ n[t] \in Node /\ n[t] \in Linked /\ nodeKey[n[t]] = call[t].key
      /\ pc'[t] = p /\ n'[t] = None /\ acc'[t] = n[t]
  BY <1>1, <1>2, <1>4, <1>6 DEF Types, InvFor, NodesFit
<1>10. \A i \in Node : IF i = n[t] THEN item'[i] = t ELSE item'[i] = item[i]
  BY <1>1, <1>2 DEF Types
<1>11. Types' /\ Others(t)
  <2>1. pc' \in [Thread -> Within \cup Before \cup Outside]
    BY <1>1, <1>2, <1>5 DEF Types, Outside
  <2>2. stack' \in [Thread -> Seq(Bucket)]
    <3>1. <<>> \in Seq(Bucket)
      OBVIOUS
    <3> QED  BY <1>1, <1>2, <3>1 DEF Types
  <2>3. lock' \in [Bucket -> MutexSet]
    BY <1>1, <1>2, <1>4, ReleasedTyped
  <2>4. \A u \in Thread : u # t => /\ pc'[u] = pc[u] /\ stack'[u] = stack[u]
                                   /\ n'[u] = n[u] /\ acc'[u] = acc[u]
    BY <1>1, <1>2 DEF Types
  <2>5. /\ item' \in [Node -> Thread \cup {None}] /\ acc' \in [Thread -> Node \cup {None}]
        /\ n' \in [Thread -> Node \cup {None}]
    BY <1>1, <1>2, <1>9 DEF Types
  <2> QED  BY <1>1, <1>2, <1>8, <2>1, <2>2, <2>3, <2>4, <2>5 DEF Types, Others, MutexSet
<1>12. pc'[t] \in Outside /\ pc'[t] \notin {"release", "delete", "idle", "item"}
  BY <1>5, <1>9 DEF Outside
<1>13. /\ StackFits(t)' /\ Locks(t)' /\ Marked(t)' /\ SearchFits(t)'
       /\ LocksMine(t) /\ (\A b \in Bucket : LockFits(b)')
       /\ Splitting(t)' = Splitting(t)
  BY <1>1, <1>3, <1>11, <1>12, LeavesBucket
<1>14. GrowthFits'
  BY <1>1, <1>11, GrowthSame
<1>15. /\ ListsFit' /\ ListsMine(t) /\ HomesMine(t) /\ Linked' = Linked /\ mask <= mask'
  BY <1>1, <1>11, <1>13, HomeSame
<1>16. /\ Private(t)' = Private(t)
       /\ \A u \in Thread : u # t => Private(u)' = Private(u)
  <2>1. Private(t)' = Private(t)
    BY <1>1, <1>12 DEF Private
  <2>2. ASSUME NEW u \in Thread, u # t PROVE Private(u)' = Private(u)
    <3>1. tmp'[u] = tmp[u] /\ pc'[u] = pc[u] /\ acc'[u] = acc[u] /\ n'[u] = n[u]
      BY <1>11, <2>2 DEF Others
    <3> QED  BY <3>1 DEF Private
  <2> QED  BY <2>1, <2>2
<1>17. NodesMine(t)
  BY <1>1, <1>10, <1>15, <1>16 DEF NodesMine
<1>18. NodesFit(t)'
  <2>1. NodesFit(t)
    BY <1>2 DEF InvFor
  <2>2. \A i \in Node : item'[i] = t => acc'[t] = i
    BY <1>6, <1>9, <1>10, <2>1, HashMapAssumption DEF NodesFit
  <2>3. /\ item'[acc'[t]] = t /\ nodeKey'[acc'[t]] # None /\ acc'[t] \in Linked'
        /\ nodeKey'[acc'[t]] = call'[t].key
    BY <1>1, <1>4, <1>8, <1>9, <1>10, <1>15, HashMapAssumption
  <2>4. tmp'[t] # None => nodeKey'[tmp'[t]] = call'[t].key
    BY <1>1, <1>8, <2>1 DEF NodesFit
  <2>5. /\ \A i \in Private(t)' : nodeKey'[i] # None /\ i \notin Linked'
        /\ \A u \in Thread : u # t => Private(t)' \cap Private(u)' = {}
    BY <1>1, <1>15, <1>16, <2>1 DEF NodesFit
  <2> QED  BY <1>12, <2>2, <2>3, <2>4, <2>5 DEF NodesFit
<1>19. CallFits(t)'
  <2>1. ~Inserting(t)' /\ pc'[t] \notin Within \cup Before /\ pc'[t] \in {"return", "grow"}
    BY <1>5, <1>9 DEF Inserting, Within, Before
  <2> QED  BY <1>1, <1>5, <1>6, <1>7, <1>8, <1>9, <2>1 DEF CallFits
<1>20. InvFor(t)'
  BY <1>13, <1>18, <1>19 DEF InvFor
<1> QED  BY <1>11, <1>13, <1>14, <1>15, <1>17, <1>20, StepKeeps

(***************************************************************************)
(* Growth, insertion and removal.                                          *)
(***************************************************************************)

\* enable_segment: the next mask there can be.
LEMMA NextMask ==
  ASSUME NEW x \in Masks, NEW k, k = Log2(x + 1)
  PROVE  /\ k \in Nat \ {0} /\ Pow2[k] = x + 1
         /\ MaskWith(k) \in Masks /\ x < MaskWith(k)
         /\ \A y \in Masks : y < MaskWith(k) => y <= x
<1>1. PICK i \in Nat \ {0} : x = Pow2[i] - 1 /\ x + 1 = Pow2[i] /\ x \in Nat /\ x >= 1
  BY MaskIs
<1>2. k = i
  BY <1>1, LogOfPow2
<1>3. FirstBlock \in Nat \ {0}
  BY HashMapAssumption
<1>4. PICK j \in Nat : /\ j = (IF k >= FirstBlock THEN k + 1 ELSE FirstBlock)
                       /\ k < j /\ j >= 2 /\ j >= FirstBlock /\ MaskWith(k) = Pow2[j] - 1
  <2>1. (IF k >= FirstBlock THEN k + 1 ELSE FirstBlock) \in Nat
    BY <1>2, <1>3
  <2>2. MaskWith(k) = Pow2[IF k >= FirstBlock THEN k + 1 ELSE FirstBlock] - 1
    BY DEF MaskWith, Buckets
  <2> QED  BY <1>2, <1>3, <2>1, <2>2
<1>5. Pow2[k] < Pow2[j] /\ Pow2[k] \in Nat /\ Pow2[j] \in Nat
  BY <1>2, <1>4, Pow2Grows, Pow2Is
<1>6. MaskWith(k) \in Masks /\ x < MaskWith(k)
  BY <1>1, <1>2, <1>4, <1>5 DEF Masks
<1>7. ASSUME NEW y \in Masks, y < MaskWith(k) PROVE y <= x
  <2>1. CASE y = 1
    BY <1>1, <2>1
  <2>2. CASE y # 1
    <3>1. PICK l \in Nat : l >= 2 /\ l >= FirstBlock /\ y = Pow2[l] - 1
      BY <2>2 DEF Masks
    <3>2. Pow2[l] \in Nat /\ Pow2[l] < Pow2[j]
      BY <1>4, <1>5, <1>7, <3>1, Pow2Is
    <3>3. l < j
      BY <1>4, <3>1, <3>2, Pow2Grows
    <3>4. l <= k
      BY <1>2, <1>3, <1>4, <3>1, <3>3
    <3>5. Pow2[l] <= Pow2[k]
      BY <1>2, <3>4, Pow2Grows
    <3> QED  BY <1>1, <1>2, <3>1, <3>2, <3>5
  <2> QED  BY <2>1, <2>2
<1> QED  BY <1>1, <1>2, <1>6, <1>7

LEMMA EnableSegmentKeeps ==
  ASSUME HashMapInv, NEW t \in Thread, EnableSegment(t)
  PROVE  HashMapInv'
<1>1. /\ pc[t] = "grow" /\ mask' = (IF grow[t] = 0 THEN mask ELSE MaskWith(grow[t]))
      /\ grow' = [grow EXCEPT ![t] = 0]
      /\ nodeKey' = [i \in Node |-> IF i = tmp[t] THEN None ELSE nodeKey[i]]
      /\ tmp' = [tmp EXCEPT ![t] = None] /\ pc' = [pc EXCEPT ![t] = "return"]
      /\ claimed' = claimed /\ list' = list /\ lock' = lock /\ item' = item /\ acc' = acc
      /\ call' = call /\ m' = m /\ stack' = stack /\ n' = n /\ probe' = probe
  BY DEF EnableSegment, Goto
<1>2. InvFor(t) /\ Types /\ GrowthFits
  BY InvParts
<1>3. mask \in Masks /\ mask \in Nat /\ MaxMask \in Nat /\ mask <= MaxMask
  BY <1>2, HashMapAssumption DEF GrowthFits, Types
<1>4. /\ pc'[t] = "return" /\ tmp'[t] = None /\ grow'[t] = 0
      /\ \A u \in Thread : u # t => /\ pc'[u] = pc[u] /\ tmp'[u] = tmp[u] /\ grow'[u] = grow[u]
  BY <1>1, <1>2 DEF Types
<1>5. /\ mask' \in Masks /\ mask <= mask' /\ mask' <= MaxMask /\ mask' \in Nat
      /\ \A y \in Masks : y < mask' => y < mask \/ (y = mask /\ Log2(y + 1) \in claimed)
      /\ grow[t] = 0 => mask' = mask
  <2>1. CASE grow[t] = 0
    BY <1>1, <1>3, <2>1
  <2>2. CASE grow[t] # 0
    <3>1. grow[t] = Log2(mask + 1) /\ grow[t] \in claimed /\ Buckets(grow[t]) <= MaxMask + 1
      BY <1>2, <2>2 DEF GrowthFits
    <3>2. PICK k : k = grow[t]
      OBVIOUS
    <3>3. /\ MaskWith(k) \in Masks /\ mask < MaskWith(k)
          /\ \A y \in Masks : y < MaskWith(k) => y <= mask
      BY <1>3, <3>1, <3>2, NextMask
    <3>4. mask' = MaskWith(k) /\ mask' \in Nat
      BY <1>1, <2>2, <3>2, <3>3, MaskIs
    <3>5. mask' <= MaxMask
      <4>1. Buckets(k) \in Nat
        <5>1. k \in Nat /\ FirstBlock \in Nat
          BY <1>3, <3>1, <3>2, NextMask, HashMapAssumption
        <5>2. (IF k >= FirstBlock THEN k + 1 ELSE FirstBlock) \in Nat
          BY <5>1
        <5> QED  BY <5>2, Pow2Is DEF Buckets
      <4>2. mask' = Buckets(k) - 1
        BY <3>4 DEF MaskWith
      <4> QED  BY <1>3, <3>1, <3>2, <4>1, <4>2
    <3>6. ASSUME NEW y \in Masks, y < mask'
          PROVE  y < mask \/ (y = mask /\ Log2(y + 1) \in claimed)
      <4>1. y <= mask /\ y \in Nat
        BY <3>3, <3>4, <3>6, MaskIs
      <4> QED  BY <1>3, <3>1, <4>1
    <3> QED  BY <1>3, <2>2, <3>3, <3>4, <3>5, <3>6
  <2> QED  BY <2>1, <2>2
<1>6. Types' /\ Others(t)
  <2>1. pc' \in [Thread -> Within \cup Before \cup Outside]
    BY <1>1, <1>2 DEF Types, Outside
  <2>2. /\ nodeKey' \in [Node -> Key \cup {None}] /\ tmp' \in [Thread -> Node \cup {None}]
        /\ grow' \in [Thread -> Nat]
    BY <1>1, <1>2 DEF Types
  <2> QED  BY <1>1, <1>2, <1>4, <1>5, <2>1, <2>2 DEF Types, Others
<1>7. GrowthFits'
  <2>1. \A x \in Masks : x < mask' => Log2(x + 1) \in claimed
    BY <1>2, <1>5 DEF GrowthFits
  <2>2. ASSUME NEW u \in Thread PROVE m[u] \in Masks /\ m[u] <= mask'
    <3>1. m[u] \in Masks /\ m[u] <= mask /\ m[u] \in Nat
      BY <1>2 DEF GrowthFits, Types
    <3> QED  BY <1>3, <1>5, <3>1
  <2>3. ASSUME NEW u \in Thread, grow'[u] # 0
        PROVE  /\ grow'[u] = Log2(mask' + 1) /\ grow'[u] \in claimed
               /\ Buckets(grow'[u]) <= MaxMask + 1
               /\ \A v \in Thread : grow'[v] # 0 => v = u
    <3>1. u # t /\ grow[u] # 0 /\ grow'[u] = grow[u]
      BY <1>4, <2>3
    <3>2. grow[t] = 0
      BY <1>2, <3>1 DEF GrowthFits
    <3>3. mask' = mask
      BY <1>5, <3>2
    <3>4. \A v \in Thread : grow'[v] # 0 => grow[v] # 0
      BY <1>4
    <3> QED  BY <1>2, <3>1, <3>3, <3>4 DEF GrowthFits
  <2> QED  BY <1>1, <1>2, <1>5, <2>1, <2>2, <2>3 DEF GrowthFits
<1>8. pc[t] \in Outside /\ pc'[t] \in Outside
  BY <1>1, <1>4 DEF Outside
<1>9. /\ \A i \in Node : nodeKey'[i] = (IF i = tmp[t] THEN None ELSE nodeKey[i])
      /\ \A i \in Node : i = tmp[t] => i \in Private(t)
  BY <1>1 DEF Private
<1>10. \A i \in Linked : i \in Node /\ nodeKey'[i] = nodeKey[i]
  <2> TAKE i \in Linked
  <2>1. i \in Node
    BY <1>2, LinkedIs DEF Types
  <2>2. i # tmp[t]
    BY <1>2, <1>9, <2>1 DEF InvFor, NodesFit
  <2> QED  BY <1>9, <2>1, <2>2
<1>11. Private(t)' = {} /\ Linked' = Linked
  <2>1. \A i \in Node : tmp'[t] # i
    BY <1>4, HashMapAssumption
  <2> QED  BY <1>1, <1>4, <2>1 DEF Private, Linked
<1>12. NodesMine(t)
  BY <1>1, <1>9, <1>11 DEF NodesMine
<1>13. NodesFit(t)'
  <2>1. NodesFit(t)
    BY <1>2 DEF InvFor
  <2>2. acc[t] # None => acc[t] \in Linked /\ nodeKey'[acc[t]] = nodeKey[acc[t]]
    BY <1>1, <1>10, <2>1 DEF NodesFit
  <2> QED  BY <1>1, <1>4, <1>11, <2>1, <2>2 DEF NodesFit
<1>14. CallFits(t)'
  BY <1>1, <1>2, <1>4 DEF InvFor, CallFits, Inserting, Within, Before
<1> QED  BY <1>1, <1>5, <1>6, <1>7, <1>8, <1>10, <1>12, <1>13, <1>14, OutsideGrows

LEMMA ExcludeNodeKeeps ==
  ASSUME HashMapInv, NEW t \in Thread, ExcludeNode(t)
  PROVE  HashMapInv'
<1>1. /\ pc[t] = "search" /\ call[t].op = "erase" /\ acc[t] \in list[Top(t)]
      /\ list' = [list EXCEPT ![Top(t)] = @ \ {acc[t]}] /\ lock' = Released(t)
      /\ stack' = [stack EXCEPT ![t] = <<>>] /\ call' = [call EXCEPT ![t].answer = "yes"]
      /\ pc' = [pc EXCEPT ![t] = "release"]
      /\ mask' = mask /\ claimed' = claimed /\ nodeKey' = nodeKey /\ item' = item
      /\ acc' = acc /\ m' = m /\ n' = n /\ tmp' = tmp /\ probe' = probe /\ grow' = grow
  BY DEF ExcludeNode, Goto, Answer, table
<1>2. InvFor(t) /\ Types /\ ListsFit /\ t # None
  BY InvParts, HashMapAssumption
<1>3. pc[t] \in Rehashed /\ pc[t] \in Within
  BY <1>1 DEF Rehashed, Within
<1>4. PICK b \in Bucket : /\ b = Top(t) /\ list[b] # RehashReq /\ list[b] \subseteq Node
                          /\ list[b] \subseteq Linked /\ Depth(t) = 1
  BY <1>3, Searching
<1>5. call[t] \in CallSet /\ call[t].key \in Key
  BY <1>3, Searching
<1>6. /\ acc[t] # None /\ tmp[t] = None /\ n[t] = None /\ grow[t] = 0
      /\ acc[t] \in Node /\ item[acc[t]] = t /\ nodeKey[acc[t]] = call[t].key
      /\ nodeKey[acc[t]] # None
  BY <1>1, <1>2 DEF InvFor, CallFits, NodesFit, Types
<1>7. lock[b].writer = t
  BY <1>1, <1>2, <1>3, <1>4 DEF InvFor, Locks, Writes
<1>8. /\ list'[b] = list[b] \ {acc[t]} /\ \A c \in Bucket : c # b => list'[c] = list[c]
      /\ list'[b] \in SUBSET Node
  BY <1>1, <1>2, <1>4 DEF Types
<1>9. \A c \in Bucket : list'[c] # RehashReq <=> list[c] # RehashReq
  BY <1>4, <1>8, HashMapAssumption
<1>10. /\ pc'[t] = "release" /\ call'[t] \in CallSet /\ call'[t].op = "erase"
       /\ call'[t].key = call[t].key /\ call'[t].answer = "yes"
       /\ \A u \in Thread : u # t => call'[u] = call[u] /\ pc'[u] = pc[u] /\ stack'[u] = stack[u]
  BY <1>1, <1>2, <1>5 DEF Types, CallSet
<1>11. Types' /\ Others(t)
  <2>1. pc' \in [Thread -> Within \cup Before \cup Outside]
    BY <1>1, <1>2 DEF Types, Outside
  <2>2. call' \in [Thread -> CallSet \cup {None}]
    BY <1>1, <1>2, <1>10 DEF Types
  <2>3. stack' \in [Thread -> Seq(Bucket)]
    <3>1. <<>> \in Seq(Bucket)
      OBVIOUS
    <3> QED  BY <1>1, <1>2, <3>1 DEF Types
  <2>4. lock' \in [Bucket -> MutexSet]
    BY <1>1, <1>2, <1>4, ReleasedTyped
  <2>5. list' \in [Bucket -> (SUBSET Node) \cup {RehashReq}]
    BY <1>1, <1>2, <1>4, <1>8 DEF Types
  <2> QED  BY <1>1, <1>2, <1>10, <2>1, <2>2, <2>3, <2>4, <2>5 DEF Types, Others, MutexSet
<1>12. pc'[t] \in Outside
  BY <1>10 DEF Outside
<1>13. /\ StackFits(t)' /\ Locks(t)' /\ Marked(t)' /\ SearchFits(t)'
       /\ LocksMine(t) /\ (\A c \in Bucket : LockFits(c)')
       /\ Splitting(t)' = Splitting(t)
  BY <1>1, <1>3, <1>11, <1>12, LeavesBucket
<1>14. GrowthFits'
  BY <1>1, <1>11, GrowthSame
<1>15. Linked' = Linked \ {acc[t]}
  <2>1. ASSUME NEW i PROVE i \in Linked' <=> i \in Linked /\ i # acc[t]
    <3>1. i \in Linked' <=> \E c \in Bucket : list'[c] # RehashReq /\ i \in list'[c]
      BY DEF Linked
    <3>2. i \in Linked <=> \E c \in Bucket : list[c] # RehashReq /\ i \in list[c]
      BY LinkedIs
    <3>3. ASSUME NEW c \in Bucket, list[c] # RehashReq, acc[t] \in list[c] PROVE c = b
      BY <1>1, <1>4, <3>3, OneList
    <3> QED  BY <1>4, <1>8, <1>9, <3>1, <3>2, <3>3
  <2> QED  BY <2>1
<1>16. \A c : Complete(c)' <=> Complete(c)
  <2>1. ASSUME NEW u \in Thread PROVE Splitting(u)' = Splitting(u)
    <3>1. CASE u = t
      BY <1>13, <3>1
    <3>2. CASE u # t
      BY <1>10, <3>2 DEF Splitting, Depth
    <3> QED  BY <3>1, <3>2
  <2> QED  BY <1>9, <2>1, CompleteIs
<1>17. ListsFit' /\ HomesMine(t)
  <2>1. mask <= mask' /\ \A c \in Bucket : list'[c] # RehashReq => c <= mask'
    BY <1>1, <1>2, <1>9 DEF ListsFit, Types
  <2>2. \A c \in Bucket : list[c] # RehashReq => list'[c] # RehashReq
    BY <1>9
  <2>3. \A c \in Bucket : list'[c] # RehashReq =>
          \A i \in list'[c] : nodeKey'[i] # None /\ \A k : k = nodeKey'[i] => IsHome(c, k)
    <3> SUFFICES ASSUME NEW c \in Bucket, list[c] # RehashReq, NEW i \in list[c]
                 PROVE  nodeKey[i] # None /\ \A k : k = nodeKey[i] => IsHome(c, k)
      BY <1>1, <1>8, <1>9
    <3> QED  BY <1>2 DEF ListsFit
  <2>4. \A i, j \in Linked' : nodeKey'[i] = nodeKey'[j] => i = j
    BY <1>1, <1>2, <1>15 DEF ListsFit
  <2> QED  BY <1>11, <1>16, <2>1, <2>2, <2>3, <2>4, HomesSame
<1>18. ListsMine(t)
  <2>1. ASSUME NEW c \in Bucket, NEW u \in Thread, u # t, Locked(c, u) PROVE c # b
    BY <1>7, <2>1, Excluded
  <2> QED  BY <1>8, <1>9, <2>1 DEF ListsMine
<1>19. Private(t)' = {acc[t]}
  <2>1. \A i \in Node : tmp'[t] # i
    BY <1>1, <1>6, HashMapAssumption
  <2> QED  BY <1>1, <1>6, <1>10, <2>1 DEF Private
<1>20. NodesMine(t)
  BY <1>1, <1>6, <1>15, <1>19 DEF NodesMine
<1>21. NodesFit(t)'
  <2>1. ASSUME NEW u \in Thread, u # t PROVE Private(t)' \cap Private(u)' = {}
    <3>1. Private(u)' = Private(u)
      <4>1. tmp'[u] = tmp[u] /\ pc'[u] = pc[u] /\ acc'[u] = acc[u] /\ n'[u] = n[u]
        BY <1>11, <2>1 DEF Others
      <4> QED  BY <4>1 DEF Private
    <3>2. acc[t] \notin Private(u)
      BY <1>1, <1>4, InvParts DEF InvFor, NodesFit
    <3> QED  BY <1>19, <3>1, <3>2
  <2>2. \A i \in Private(t)' : nodeKey'[i] # None /\ i \notin Linked'
    BY <1>1, <1>6, <1>15, <1>19
  <2>3. \A i \in Node : item'[i] = t => acc'[t] = i
    BY <1>1, <1>2 DEF InvFor, NodesFit
  <2> QED  BY <1>1, <1>6, <1>10, <2>1, <2>2, <2>3 DEF NodesFit
<1>22. CallFits(t)'
  <2>1. ~Inserting(t)' /\ pc'[t] \notin Within \cup Before
    BY <1>10 DEF Inserting, Within, Before
  <2> QED  BY <1>1, <1>6, <1>10, <2>1 DEF CallFits
<1>23. InvFor(t)' /\ mask <= mask'
  BY <1>1, <1>2, <1>13, <1>21, <1>22 DEF InvFor, Types
<1> QED  BY <1>11, <1>13, <1>14, <1>17, <1>18, <1>20, <1>23, StepKeeps

LEMMA InsertNewNodeKeeps ==
  ASSUME HashMapInv, NEW t \in Thread, InsertNewNode(t)
  PROVE  HashMapInv'
<1>1. /\ pc[t] = "link" /\ list' = [list EXCEPT ![Top(t)] = @ \cup {tmp[t]}]
      /\ n' = [n EXCEPT ![t] = tmp[t]] /\ tmp' = [tmp EXCEPT ![t] = None]
      /\ call' = [call EXCEPT ![t].answer = "yes"] /\ pc' = [pc EXCEPT ![t] = "item"]
      /\ mask' = mask /\ lock' = lock /\ nodeKey' = nodeKey /\ item' = item /\ acc' = acc
      /\ m' = m /\ stack' = stack /\ probe' = probe
  BY DEF InsertNewNode, Goto, Answer
<1>2. InvFor(t) /\ Types /\ ListsFit /\ GrowthFits
  BY InvParts
<1>3. pc[t] \in Rehashed /\ pc[t] \in Within
  BY <1>1 DEF Rehashed, Within
<1>4. PICK b \in Bucket : /\ b = Top(t) /\ list[b] # RehashReq /\ list[b] \subseteq Node
                          /\ list[b] \subseteq Linked /\ Depth(t) = 1
  BY <1>3, Searching
<1>5. PICK k \in Key : k = call[t].key
  BY <1>3, Searching
<1>6. PICK i \in Node : i = tmp[t]
  BY <1>1, <1>2 DEF InvFor, CallFits, Inserting, Types
<1>7. /\ call[t].op = "insert" /\ acc[t] = None /\ grow[t] = 0 /\ call[t] \in CallSet
      /\ nodeKey[i] = k /\ k # None /\ i \in Private(t) /\ i \notin Linked
  <2>1. i # None /\ i \in Private(t)
    BY <1>6, HashMapAssumption DEF Private
  <2>2. call[t].op = "insert"
    BY <1>1, <1>2 DEF InvFor, CallFits, Inserting
  <2> QED  BY <1>1, <1>2, <1>5, <1>6, <2>1, <2>2 DEF InvFor, CallFits, NodesFit
<1>8. lock[b].writer = t /\ IsHome(b, k) /\ Found(t) = {}
  BY <1>1, <1>2, <1>4, <1>5, <1>7 DEF InvFor, Locks, Writes, SearchFits
<1>9. /\ list'[b] = list[b] \cup {i} /\ \A c \in Bucket : c # b => list'[c] = list[c]
      /\ list'[b] \in SUBSET Node
  BY <1>1, <1>2, <1>4, <1>6 DEF Types
<1>10. \A c \in Bucket : list'[c] # RehashReq <=> list[c] # RehashReq
  BY <1>4, <1>9, HashMapAssumption
<1>11. /\ pc'[t] = "item" /\ call'[t] \in CallSet /\ call'[t].op = "insert" /\ n'[t] = i
       /\ tmp'[t] = None /\ call'[t].key = k /\ call'[t].answer = "yes"
       /\ \A u \in Thread : u # t => /\ call'[u] = call[u] /\ pc'[u] = pc[u]
                                     /\ n'[u] = n[u] /\ tmp'[u] = tmp[u]
  BY <1>1, <1>2, <1>5, <1>6, <1>7 DEF Types, CallSet
<1>12. /\ claimed' \subseteq Nat /\ grow' \in [Thread -> Nat]
       /\ \A u \in Thread : u # t => grow'[u] = grow[u]
       /\ GrowthFits'
  <2> DEFINE s == Log2(m[t] + 1)
  <2>1. CASE Cardinality(Linked) + 1 >= m[t] /\ s \notin claimed
    <3>1. /\ Buckets(s) <= MaxMask + 1 /\ claimed' = claimed \cup {s}
          /\ grow' = [grow EXCEPT ![t] = s]
      BY <2>1 DEF InsertNewNode
    <3>2. m[t] = mask /\ mask \in Masks /\ mask \in Nat /\ mask <= MaxMask /\ MaxMask \in Nat
      <4>1. m[t] \in Masks /\ m[t] <= mask /\ m[t] \in Nat /\ mask \in Nat /\ ~(m[t] < mask)
        BY <1>2, <2>1 DEF GrowthFits, Types
      <4> QED  BY <1>2, <4>1, HashMapAssumption DEF GrowthFits
    <3>3. s \in Nat \ {0} /\ Pow2[s] = mask + 1
      BY <3>2, NextMask
    <3> HIDE DEF s
    <3>4. ASSUME NEW u \in Thread PROVE grow[u] = 0
      BY <1>2, <2>1, <3>2 DEF GrowthFits, s
    <3>5. grow'[t] = s /\ \A u \in Thread : u # t => grow'[u] = 0
      BY <1>2, <3>1, <3>4 DEF Types
    <3>6. s = Log2(mask + 1)
      BY <3>2 DEF s
    <3>7. GrowthFits'
      <4>1. \A x \in Masks : x < mask' => Log2(x + 1) \in claimed'
        BY <1>1, <1>2, <3>1 DEF GrowthFits
      <4>2. \A j \in claimed' : j \in Nat \ {0} /\ Pow2[j] <= MaxMask + 1
        BY <1>2, <3>1, <3>2, <3>3 DEF GrowthFits
      <4>3. \A u \in Thread : m'[u] \in Masks /\ m'[u] <= mask'
        BY <1>1, <1>2 DEF GrowthFits
      <4>4. ASSUME NEW u \in Thread, grow'[u] # 0
            PROVE  /\ grow'[u] = Log2(mask' + 1) /\ grow'[u] \in claimed'
                   /\ Buckets(grow'[u]) <= MaxMask + 1
                   /\ \A v \in Thread : grow'[v] # 0 => v = u
        BY <1>1, <3>1, <3>5, <3>6, <4>4
      <4> QED  BY <1>1, <3>2, <4>1, <4>2, <4>3, <4>4 DEF GrowthFits
    <3> QED  BY <1>2, <3>1, <3>3, <3>4, <3>5, <3>7 DEF Types
  <2>2. CASE ~(Cardinality(Linked) + 1 >= m[t] /\ s \notin claimed)
    <3>1. claimed' = claimed /\ grow' = grow
      BY <2>2 DEF InsertNewNode
    <3> QED  BY <1>1, <1>2, <3>1 DEF Types, GrowthFits
  <2> QED  BY <2>1, <2>2
<1>13. Types' /\ Others(t)
  <2>1. pc' \in [Thread -> Within \cup Before \cup Outside]
    BY <1>1, <1>2 DEF Types, Within
  <2>2. /\ call' \in [Thread -> CallSet \cup {None}] /\ n' \in [Thread -> Node \cup {None}]
        /\ tmp' \in [Thread -> Node \cup {None}]
    BY <1>1, <1>2, <1>6, <1>11 DEF Types
  <2>3. list' \in [Bucket -> (SUBSET Node) \cup {RehashReq}]
    BY <1>1, <1>2, <1>4, <1>9 DEF Types
  <2> QED  BY <1>1, <1>2, <1>11, <1>12, <2>1, <2>2, <2>3 DEF Types, Others
<1>14. /\ LocksMine(t) /\ (\A c \in Bucket : LockFits(c)')
       /\ \A u \in Thread : Splitting(u)' = Splitting(u)
       /\ Depth(t)' = Depth(t) /\ Top(t)' = b
  BY <1>1, <1>4, LocksSame DEF Splitting, Depth, Top
<1>15. Linked' = Linked \cup {i}
  <2>1. ASSUME NEW j PROVE j \in Linked' <=> j \in Linked \/ j = i
    <3>1. j \in Linked' <=> \E c \in Bucket : list'[c] # RehashReq /\ j \in list'[c]
      BY DEF Linked
    <3>2. j \in Linked <=> \E c \in Bucket : list[c] # RehashReq /\ j \in list[c]
      BY LinkedIs
    <3> QED  BY <1>4, <1>9, <1>10, <3>1, <3>2
  <2> QED  BY <2>1
<1>16. \A c : Complete(c)' <=> Complete(c)
  BY <1>10, <1>14, CompleteIs
<1>17. ListsFit' /\ HomesMine(t)
  <2>1. mask <= mask' /\ \A c \in Bucket : list'[c] # RehashReq => c <= mask'
    BY <1>1, <1>2, <1>10 DEF ListsFit, Types
  <2>2. \A c \in Bucket : list[c] # RehashReq => list'[c] # RehashReq
    BY <1>10
  <2>3. ASSUME NEW c \in Bucket, list'[c] # RehashReq, NEW j \in list'[c]
        PROVE  nodeKey'[j] # None /\ \A x : x = nodeKey'[j] => IsHome(c, x)
    <3>1. CASE j = i
      <4>1. c = b
        <5>1. j \notin list[c]
          BY <1>7, <1>10, <2>3, <3>1, LinkedIs
        <5> QED  BY <1>9, <2>3, <5>1
      <4> QED  BY <1>1, <1>7, <1>8, <3>1, <4>1
    <3>2. CASE j # i
      <4>1. list[c] # RehashReq /\ j \in list[c]
        BY <1>9, <1>10, <2>3, <3>2
      <4> QED  BY <1>1, <1>2, <4>1 DEF ListsFit
    <3> QED  BY <3>1, <3>2
  <2>4. ASSUME NEW j \in Linked PROVE nodeKey[j] # k
    <3> SUFFICES ASSUME nodeKey[j] = k PROVE FALSE
      OBVIOUS
    <3>1. PICK c \in Bucket : list[c] # RehashReq /\ j \in list[c]
      BY LinkedIs
    <3>2. IsHome(c, k)
      BY <1>2, <3>1 DEF ListsFit
    <3>3. c <= b /\ b <= c
      BY <1>8, <3>2 DEF IsHome
    <3>4. c = b
      BY <3>3 DEF Bucket
    <3>5. j \in Found(t)
      BY <1>4, <1>5, <3>1, <3>4 DEF Found
    <3> QED  BY <1>8, <3>5
  <2>5. \A j, l \in Linked' : nodeKey'[j] = nodeKey'[l] => j = l
    BY <1>1, <1>2, <1>7, <1>15, <2>4 DEF ListsFit
  <2> QED  BY <1>13, <1>16, <2>1, <2>2, <2>3, <2>5, HomesSame
<1>18. ListsMine(t)
  <2>1. ASSUME NEW c \in Bucket, NEW u \in Thread, u # t, Locked(c, u) PROVE c # b
    BY <1>8, <2>1, Excluded
  <2> QED  BY <1>9, <1>10, <2>1 DEF ListsMine
<1>19. Private(t)' = {}
  <2>1. \A j \in Node : tmp'[t] # j
    BY <1>11, HashMapAssumption
  <2> QED  BY <1>11, <2>1 DEF Private
<1>20. NodesMine(t)
  BY <1>1, <1>7, <1>15, <1>19 DEF NodesMine
<1>21. item[i] = None
  <2> SUFFICES ASSUME NEW u \in Thread, item[i] = u PROVE FALSE
    BY <1>2 DEF Types
  <2>1. acc[u] = i /\ NodesFit(u) /\ i # None
    BY InvParts, HashMapAssumption DEF InvFor, NodesFit
  <2>2. pc[u] = "release"
    BY <1>7, <2>1 DEF NodesFit
  <2>3. i \in Private(u) /\ u # t
    BY <1>1, <2>1, <2>2 DEF Private
  <2> QED  BY <1>2, <1>7, <2>3 DEF InvFor, NodesFit
<1>22. NodesFit(t)'
  <2>1. \A j \in Node : item'[j] = t => acc'[t] = j
    BY <1>1, <1>2 DEF InvFor, NodesFit
  <2>2. /\ n'[t] \in list'[Top(t)'] /\ nodeKey'[n'[t]] = call'[t].key
        /\ item'[n'[t]] = None
    BY <1>1, <1>7, <1>9, <1>11, <1>14, <1>21
  <2> QED  BY <1>1, <1>7, <1>11, <1>19, <2>1, <2>2 DEF NodesFit
<1>23. StackFits(t)'
  <2>1. pc'[t] \notin Outside /\ pc'[t] # "rehash" /\ pc[t] \notin Outside
    BY <1>1, <1>11 DEF Outside
  <2>2. call'[t].key = call[t].key
    BY <1>5, <1>11
  <2> QED  BY <1>1, <1>2, <1>4, <1>11, <1>14, <2>1, <2>2 DEF InvFor, StackFits
<1>24. CallFits(t)'
  <2>1. ~Inserting(t)'
    BY <1>11 DEF Inserting
  <2> QED  BY <1>1, <1>6, <1>7, <1>11, <2>1, HashMapAssumption DEF CallFits
<1>25. Locks(t)'
  <2>1. pc'[t] \in Within \ {"upgrade", "upgrading"} /\ pc[t] # "upgrading"
    BY <1>1, <1>11 DEF Within
  <2> QED  BY <1>1, <1>3, <1>4, <1>8, <1>13, <2>1, LocksStay
<1>26. Marked(t)'
  <2>1. 1..(Depth(t)' - 1) = {}
    BY <1>4, <1>14
  <2> QED  BY <1>4, <1>10, <1>14, <2>1 DEF Marked
<1>27. SearchFits(t)'
  BY <1>11 DEF SearchFits
<1>28. InvFor(t)' /\ mask <= mask'
  BY <1>1, <1>2, <1>22, <1>23, <1>24, <1>25, <1>26, <1>27 DEF InvFor, Types
<1> QED  BY <1>12, <1>13, <1>14, <1>17, <1>18, <1>20, <1>28, StepKeeps

(***************************************************************************)
(* The invariant holds at first and in every step.                         *)
(***************************************************************************)

LEMMA StutterKeeps ==
  ASSUME HashMapInv, UNCHANGED vars
  PROVE  HashMapInv'
<1>1. /\ mask' = mask /\ claimed' = claimed /\ list' = list /\ lock' = lock
      /\ nodeKey' = nodeKey /\ item' = item /\ acc' = acc /\ pc' = pc /\ call' = call
      /\ m' = m /\ stack' = stack /\ n' = n /\ tmp' = tmp /\ probe' = probe /\ grow' = grow
  BY DEF vars, table, local
<1>2. Types' /\ GrowthFits'
  BY <1>1, InvParts DEF Types, GrowthFits
<1>3. Linked' = Linked
  BY <1>1 DEF Linked
<1>4. \A b : Complete(b)' <=> Complete(b)
  BY <1>1 DEF Complete, Depth
<1>5. \A b, k : IsHome(b, k)' <=> IsHome(b, k)
  BY <1>4 DEF IsHome
<1>6. ListsFit'
  BY <1>1, <1>3, <1>4, <1>5, InvParts DEF ListsFit
<1>7. \A b \in Bucket : LockFits(b)'
  BY <1>1, InvParts DEF LockFits
<1>8. ASSUME NEW t \in Thread PROVE (StackFits(t) /\ CallFits(t) /\ Marked(t) /\ Locks(t))'
  <2>1. StackFits(t) /\ CallFits(t) /\ Marked(t) /\ Locks(t)
    BY InvParts DEF InvFor
  <2>2. StackFits(t)'
    BY <1>1, <2>1 DEF StackFits, Depth
  <2>3. CallFits(t)'
    BY <1>1, <2>1 DEF CallFits, Inserting, Depth
  <2>4. Marked(t)'
    BY <1>1, <2>1 DEF Marked, Depth, Top
  <2>5. Locks(t)'
    BY <1>1, <2>1 DEF Locks, Writes, Held, Depth, Top
  <2> QED  BY <2>2, <2>3, <2>4, <2>5
<1>9. ASSUME NEW t \in Thread PROVE (NodesFit(t) /\ SearchFits(t))'
  <2>1. NodesFit(t) /\ SearchFits(t)
    BY InvParts DEF InvFor
  <2>2. \A u \in Thread : Private(u)' = Private(u)
    BY <1>1 DEF Private
  <2>3. NodesFit(t)'
    BY <1>1, <1>3, <2>1, <2>2 DEF NodesFit, Top
  <2>4. Following(probe[t], Top(t), call[t].key)' <=> Following(probe[t], Top(t), call[t].key)
    BY <1>1 DEF Top
  <2>5. SearchFits(t)'
    BY <1>1, <1>5, <2>1, <2>4 DEF SearchFits, Found, Top, Depth
  <2> QED  BY <2>3, <2>5
<1> QED  BY <1>2, <1>6, <1>7, <1>8, <1>9 DEF HashMapInv

LEMMA InitFits ==
  ASSUME Init
  PROVE  HashMapInv
<1>1. MaxMask \in Nat \ {0} /\ {} \in SUBSET Node /\ {} # RehashReq
  BY HashMapAssumption
<1>2. /\ mask = 1 /\ claimed = {}
      /\ \A b \in Bucket : /\ b <= 1 => list[b] = {}
                           /\ ~(b <= 1) => list[b] = RehashReq
                           /\ lock[b] = Mutex({}, None, None)
                           /\ b \in Nat
      /\ \A i \in Node : nodeKey[i] = None /\ item[i] = None
      /\ \A t \in Thread : /\ acc[t] = None /\ pc[t] = "idle" /\ call[t] = None
                           /\ m[t] = 1 /\ stack[t] = <<>> /\ n[t] = None
                           /\ tmp[t] = None /\ probe[t] = None /\ grow[t] = 0
  BY DEF Init, Bucket
<1>3. Types
  <2>1. <<>> \in Seq(Bucket)
    OBVIOUS
  <2>2. list \in [Bucket -> (SUBSET Node) \cup {RehashReq}]
    BY <1>1 DEF Init
  <2>3. lock \in [Bucket -> [readers : SUBSET Thread, writer : Thread \cup {None},
                             upgrading : Thread \cup {None}]]
    <3>1. {} \in SUBSET Thread
      OBVIOUS
    <3> QED  BY <3>1 DEF Init, Mutex
  <2>4. "idle" \in Within \cup Before \cup Outside
    BY DEF Outside
  <2> QED  BY <2>1, <2>2, <2>3, <2>4 DEF Init, Types
<1>4. GrowthFits
  <2>1. 1 \in Masks /\ \A x \in Masks : x \in Nat /\ x >= 1
    BY MaskIs DEF Masks
  <2> QED  BY <1>1, <1>2, <2>1 DEF GrowthFits
<1>5. \A t \in Thread : Depth(t) = 0
  BY <1>2 DEF Depth
<1>6. Linked = {}
  BY <1>2, LinkedIs
<1>7. ListsFit
  <2>1. \A b \in Bucket : list[b] # RehashReq <=> b <= 1
    BY <1>1, <1>2
  <2>2. \A b : Complete(b) <=> b \in Bucket /\ b <= 1
    BY <1>5, <2>1 DEF Complete
  <2>3. \A b, c \in Bucket : Complete(c) /\ OnPath(b, c) => Complete(b)
    <3> TAKE b, c \in Bucket
    <3> HAVE Complete(c) /\ OnPath(b, c)
    <3>1. b <= c /\ c <= 1
      BY <1>2, <2>2, OnPathIsNat
    <3> QED  BY <1>2, <2>2, <3>1
  <2> QED  BY <1>2, <1>6, <2>1, <2>3 DEF ListsFit
<1>8. \A b \in Bucket : LockFits(b)
  BY <1>2 DEF LockFits, Mutex
<1>9. ASSUME NEW t \in Thread PROVE InvFor(t)
  <2>1. "idle" \notin Within /\ "idle" \notin Before /\ "idle" \in Outside /\ "idle" \notin Rehashed
    BY DEF Within, Before, Outside, Rehashed
  <2>2. \A b \in Bucket : /\ lock[b].readers = {} /\ lock[b].writer = None
                          /\ lock[b].upgrading = None
    BY <1>2 DEF Mutex
  <2>3. None \notin Thread /\ None \notin Node
    BY HashMapAssumption
  <2>4. StackFits(t) /\ CallFits(t)
    BY <1>2, <1>5, <2>1 DEF StackFits, CallFits, Inserting, Within, Before
  <2>5. Locks(t) /\ Marked(t)
    BY <1>2, <1>5, <2>1, <2>2, <2>3 DEF Locks, Marked, Held, Writes
  <2>6. \A u \in Thread : Private(u) = {}
    BY <1>2, <2>3 DEF Private
  <2>7. NodesFit(t) /\ SearchFits(t)
    BY <1>2, <2>3, <2>6 DEF NodesFit, SearchFits
  <2> QED  BY <2>4, <2>5, <2>7 DEF InvFor
<1> QED  BY <1>3, <1>4, <1>7, <1>8, <1>9 DEF HashMapInv, InvFor

LEMMA TryRehashKeeps ==
  ASSUME HashMapInv, NEW t \in Thread, TryRehash(t)
  PROVE  HashMapInv'
<1>1. CASE list[Top(t)] = RehashReq
  BY <1>1, TryMarksBucket
<1>2. CASE list[Top(t)] # RehashReq
  BY <1>2, TryFindsRehashed
<1> QED  BY <1>1, <1>2

\* Whatever any thread does.
LEMMA StepOfThreadKeeps ==
  ASSUME HashMapInv, NEW t \in Thread, Step(t)
  PROVE  HashMapInv'
<1>1. CASE Look(t)  BY <1>1, LookKeeps
<1>2. CASE TryRehash(t)  BY <1>2, TryRehashKeeps
<1>3. CASE TryFails(t)  BY <1>3, TryFailsKeeps
<1>4. CASE Acquire(t)  BY <1>4, AcquireKeeps
<1>5. CASE Rehash(t)  BY <1>5, RehashKeeps
<1>6. CASE MustUpgrade(t)  BY <1>6, MustUpgradeKeeps
<1>7. CASE BeginUpgrade(t)  BY <1>7, BeginUpgradeKeeps
<1>8. CASE EndUpgrade(t)  BY <1>8, EndUpgradeKeeps
<1>9. CASE YieldUpgrade(t)  BY <1>9, YieldUpgradeKeeps
<1>10. CASE Reacquire(t)  BY <1>10, ReacquireKeeps
<1>11. CASE SearchHits(t)  BY <1>11, SearchHitsKeeps
<1>12. CASE SearchMisses(t)  BY <1>12, SearchMissesKeeps
<1>13. CASE CheckMaskRace(t)  BY <1>13, CheckMaskRaceKeeps
<1>14. CASE CheckRehashingCollision(t)  BY <1>14, CheckRehashingCollisionKeeps
<1>15. CASE InsertNewNode(t)  BY <1>15, InsertNewNodeKeeps
<1>16. CASE TryAcquireItem(t)  BY <1>16, TryAcquireItemKeeps
<1>17. CASE GiveUpItem(t)  BY <1>17, GiveUpItemKeeps
<1>18. CASE EnableSegment(t)  BY <1>18, EnableSegmentKeeps
<1>19. CASE ExcludeNode(t)  BY <1>19, ExcludeNodeKeeps
<1>20. CASE ExcludeMisses(t)  BY <1>20, ExcludeMissesKeeps
<1>21. CASE ReleaseItem(t)  BY <1>21, ReleaseItemKeeps
<1>22. CASE DeleteNode(t)  BY <1>22, DeleteNodeKeeps
<1>23. CASE Return(t)  BY <1>23, ReturnKeeps
<1> QED  BY <1>1, <1>2, <1>3, <1>4, <1>5, <1>6, <1>7, <1>8, <1>9, <1>10, <1>11, <1>12, <1>13,
            <1>14, <1>15, <1>16, <1>17, <1>18, <1>19, <1>20, <1>21, <1>22, <1>23 DEF Step

\* The inductive invariant of the hash map: every lookup, insertion and
\* removal, however they interleave with growing and rehashing, keeps every
\* node in the one list that a lookup of its key ends in.
THEOREM HashMapIsInvariant == Spec => []HashMapInv
<1>1. Init => HashMapInv
  BY InitFits
<1>2. HashMapInv /\ [Next]_vars => HashMapInv'
  <2> SUFFICES ASSUME HashMapInv, [Next]_vars PROVE HashMapInv'
    OBVIOUS
  <2>1. CASE UNCHANGED vars
    BY <2>1, StutterKeeps
  <2>2. ASSUME NEW t \in Thread, Begin(t) \/ ReleaseAccessor(t) \/ Step(t) PROVE HashMapInv'
    BY <2>2, BeginKeeps, ReleaseAccessorKeeps, StepOfThreadKeeps
  <2> QED  BY <2>1, <2>2 DEF Next
<1> QED  BY <1>1, <1>2, PTL DEF Spec

(***************************************************************************)
(* What the runs check.                                                    *)
(***************************************************************************)

LEMMA BelowLog ==
  ASSUME NEW h \in Nat \ {0}, NEW k \in Nat, Pow2[k] <= h
  PROVE  Log2(h) \in Nat /\ k <= Log2(h)
<1>1. Log2(h) \in Nat /\ h < Pow2[Log2(h) + 1] /\ Log2(h) + 1 \in Nat
  BY LogIs
<1>2. Pow2[k] \in Nat /\ Pow2[Log2(h) + 1] \in Nat
  BY <1>1, Pow2Is
<1>3. Pow2[k] < Pow2[Log2(h) + 1]
  BY <1>1, <1>2
<1>4. k < Log2(h) + 1
  BY <1>1, <1>3, Pow2Grows
<1> QED  BY <1>1, <1>4

\* Type correctness: the mask is always one less than a power of two, and no
\* segment is claimed beyond the largest table.
THEOREM HashMapTypeOK == Spec => []TypeOK
<1>1. HashMapInv => TypeOK
  <2> SUFFICES ASSUME HashMapInv PROVE TypeOK
    OBVIOUS
  <2>1. MaxMask + 1 \in Nat \ {0} /\ MaxMask \in Nat
    BY HashMapAssumption
  <2>2. mask \in {Pow2[i] - 1 : i \in 1..Log2(MaxMask + 1)}
    <3>1. PICK i \in Nat \ {0} : mask = Pow2[i] - 1 /\ mask + 1 = Pow2[i] /\ mask \in Nat
      BY InvParts, MaskIs DEF GrowthFits
    <3>2. Pow2[i] <= MaxMask + 1
      BY <2>1, <3>1, InvParts DEF GrowthFits
    <3>3. i \in 1..Log2(MaxMask + 1)
      BY <2>1, <3>2, BelowLog
    <3> QED  BY <3>1, <3>3
  <2>3. claimed \subseteq 1..Log2(MaxMask + 1)
    <3> SUFFICES ASSUME NEW k \in claimed PROVE k \in 1..Log2(MaxMask + 1)
      OBVIOUS
    <3>1. k \in Nat \ {0} /\ Pow2[k] <= MaxMask + 1
      BY InvParts DEF GrowthFits
    <3> QED  BY <2>1, <3>1, BelowLog
  <2> QED  BY <2>2, <2>3, InvParts DEF Types, TypeOK
<1> QED  BY <1>1, HashMapIsInvariant, PTL

\* What an accessor or a search refers to is an allocated node of its key, and
\* linked unless the thread that has it is erasing it.
THEOREM HashMapHasNoDanglingNode == Spec => []NoDanglingNode
<1>1. HashMapInv => NoDanglingNode
  BY InvParts DEF InvFor, NodesFit, NoDanglingNode
<1> QED  BY <1>1, HashMapIsInvariant, PTL

\* The buckets Home looks at: those on the key's path, under the mask.
LEMMA AncestorsAre ==
  ASSUME NEW k \in Nat, mask \in Masks
  PROVE  \A c : c \in Ancestors(k) <=> OnPath(c, k) /\ c <= mask
<1>1. PICK l \in Nat \ {0} : mask + 1 = Pow2[l] /\ mask \in Nat
  BY MaskIs
<1>2. Log2(mask + 1) = l
  BY <1>1, LogOfPow2
<1>3. ASSUME NEW i \in Nat \ {0} PROVE Masked(k, Pow2[i] - 1) = k % Pow2[i]
  <2>1. Pow2[i] \in Nat /\ Pow2[i] - 1 + 1 = Pow2[i]
    BY Pow2Is
  <2> QED  BY <2>1 DEF Masked
<1>4. ASSUME NEW c, c \in Ancestors(k) PROVE OnPath(c, k) /\ c <= mask
  <2>1. PICK i \in 1..l : c = Masked(k, Pow2[i] - 1)
    BY <1>2, <1>4 DEF Ancestors
  <2>2. i \in Nat \ {0} /\ c = k % Pow2[i]
    BY <1>3, <2>1
  <2>3. c \in Nat /\ c < Pow2[i]
    BY <2>2, PathIsNat
  <2>4. Pow2[i] <= Pow2[l] /\ Pow2[i] \in Nat /\ Pow2[l] \in Nat
    <3>1. i \in Nat /\ l \in Nat /\ i <= l
      BY <2>1
    <3> QED  BY <3>1, Pow2Grows, Pow2Is
  <2> QED  BY <1>1, <2>2, <2>3, <2>4 DEF OnPath
<1>5. ASSUME NEW c, OnPath(c, k), c <= mask PROVE c \in Ancestors(k)
  <2>1. PICK j \in Nat \ {0} : c = k % Pow2[j]
    BY <1>5 DEF OnPath
  <2>2. PICK i \in 1..l : c = k % Pow2[i]
    <3>1. CASE j <= l
      BY <2>1, <3>1
    <3>2. CASE ~(j <= l)
      <4>1. c \in Nat /\ c < Pow2[l]
        BY <1>1, <1>5, <2>1, PathIsNat
      <4>2. c % Pow2[l] = c
        BY <4>1, PathIsNat
      <4>3. c % Pow2[l] = k % Pow2[l]
        BY <2>1, <3>2, ModTwice
      <4>4. l \in 1..l
        OBVIOUS
      <4> QED  BY <4>2, <4>3, <4>4
    <3> QED  BY <3>1, <3>2
  <2>3. c = Masked(k, Pow2[i] - 1)
    BY <1>3, <2>2
  <2> QED  BY <1>2, <2>3 DEF Ancestors
<1> QED  BY <1>4, <1>5

\* No node is lost or doubled: when nobody writes, every node is in the bucket
\* that a lookup of its key ends in, and a key has one node.
THEOREM HashMapNodesAreHome == Spec => []NodesAreHome
<1>1. HashMapInv => NodesAreHome
  <2> SUFFICES ASSUME HashMapInv, \A b \in Bucket : lock[b].writer = None
               PROVE  /\ \A b \in Bucket : list[b] # RehashReq =>
                           \A i \in list[b] : nodeKey[i] # None /\ Home(nodeKey[i]) = b
                      /\ \A i, j \in Linked : i # j => nodeKey[i] # nodeKey[j]
    BY DEF NodesAreHome
  <2>1. \A b \in Bucket : list[b] # RehashReq => Complete(b)
    <3> SUFFICES ASSUME NEW b \in Bucket, list[b] # RehashReq, NEW t \in Thread,
                        NEW i \in 1..(Depth(t) - 1), stack[t][i] = b
                 PROVE  FALSE
      BY DEF Complete
    <3>1. lock[b].writer = t
      BY HasLock
    <3> QED  BY <3>1, HashMapAssumption
  <2>2. ASSUME NEW b \in Bucket, list[b] # RehashReq, NEW i \in list[b]
        PROVE  nodeKey[i] # None /\ Home(nodeKey[i]) = b
    <3>1. PICK k : k = nodeKey[i]
      OBVIOUS
    <3>2. k # None /\ IsHome(b, k)
      BY <2>2, <3>1, InvParts DEF ListsFit
    <3>3. k \in Nat
      <4>1. i \in Node
        BY <2>2, InvParts DEF Types
      <4> QED  BY <3>1, <3>2, <4>1, InvParts, HashMapAssumption DEF Types
    <3>4. \A c : c \in Ancestors(k) <=> OnPath(c, k) /\ c <= mask
      BY <3>3, AncestorsAre, InvParts DEF GrowthFits
    <3>5. ASSUME NEW c, c \in Ancestors(k) PROVE c \in Bucket
      <4>1. c \in Nat /\ c <= mask /\ mask <= MaxMask /\ mask \in Nat /\ MaxMask \in Nat
        BY <3>3, <3>4, <3>5, OnPathIsNat, InvParts, HashMapAssumption DEF GrowthFits, Types
      <4> QED  BY <4>1 DEF Bucket
    <3> DEFINE Last(x) == /\ list[x] # RehashReq
                          /\ \A c \in Ancestors(k) : list[c] # RehashReq => c <= x
    <3>6. b \in Ancestors(k) /\ Last(b)
      BY <2>1, <2>2, <3>2, <3>4, <3>5, InvParts DEF ListsFit, IsHome
    <3>7. ASSUME NEW x \in Ancestors(k), Last(x) PROVE x = b
      <4>1. x <= b /\ b <= x /\ x \in Nat /\ b \in Nat
        BY <3>5, <3>6, <3>7 DEF Bucket
      <4> QED  BY <4>1
    <3>8. Home(k) = CHOOSE x \in Ancestors(k) : Last(x)
      BY DEF Home
    <3> HIDE DEF Last
    <3>9. Home(k) = b
      BY <3>6, <3>7, <3>8
    <3> QED  BY <3>1, <3>2, <3>9
  <2> QED  BY <2>2, InvParts DEF ListsFit
<1> QED  BY <1>1, HashMapIsInvariant, PTL

(***************************************************************************)
(* The map is a LockedMap.                                                 *)
(***************************************************************************)

Present   == {nodeKey[i] : i \in Linked}
HolderMap == [k \in Key |-> HolderOf(k)]

\* Thread t holds the lock of key k in the abstract map.
Holds(t, k) ==
  \/ acc[t] \in {i \in Linked : nodeKey[i] = k}
  \/ pc[t] = "item" /\ n[t] \in {i \in Linked : nodeKey[i] = k} /\ call[t].answer = "yes"

\* The same by what the thread has, not by what is linked.
Has(t, k) ==
  \/ acc[t] # None /\ pc[t] # "release" /\ nodeKey[acc[t]] = k
  \/ pc[t] = "item" /\ call[t].answer = "yes" /\ call[t].key = k

LEMMA HoldsIsHas ==
  ASSUME HashMapInv, NEW t \in Thread, NEW k
  PROVE  Holds(t, k) <=> Has(t, k)
<1>1. NodesFit(t) /\ CallFits(t) /\ Types
  BY InvParts DEF InvFor
<1>2. Linked \subseteq Node /\ None \notin Linked
  <2>1. Linked \subseteq Node
    BY <1>1 DEF Linked, Types
  <2> QED  BY <2>1, HashMapAssumption
<1>3. acc[t] \in Linked <=> acc[t] # None /\ pc[t] # "release"
  <2>1. acc[t] # None /\ pc[t] = "release" => acc[t] \in Private(t)
    BY <1>1 DEF Private, Types
  <2> QED  BY <1>1, <1>2, <2>1 DEF NodesFit
<1>4. pc[t] = "item" => n[t] \in Linked /\ nodeKey[n[t]] = call[t].key
  <2>1. pc[t] = "item" => pc[t] \in Rehashed
    BY DEF Rehashed
  <2> QED  BY <1>1, <2>1, Searching DEF NodesFit
<1> QED  BY <1>3, <1>4 DEF Holds, Has

\* Who has just linked the node of a key, or waits for its lock.
LEMMA AtItem ==
  ASSUME HashMapInv, NEW t \in Thread, pc[t] = "item"
  PROVE  /\ Top(t) \in Bucket /\ list[Top(t)] # RehashReq /\ n[t] \in list[Top(t)]
         /\ n[t] \in Linked /\ nodeKey[n[t]] = call[t].key /\ Locked(Top(t), t)
         /\ call[t].answer = "yes" => item[n[t]] = None /\ lock[Top(t)].writer = t
<1>1. pc[t] \in Rehashed
  BY DEF Rehashed
<1>2. NodesFit(t) /\ Locks(t)
  BY InvParts DEF InvFor
<1>3. /\ Top(t) \in Bucket /\ list[Top(t)] # RehashReq /\ Locked(Top(t), t)
      /\ list[Top(t)] \subseteq Linked
  BY <1>1, Searching
<1> QED  BY <1>2, <1>3 DEF NodesFit, Locks, Writes

\* One thread has the node of a key; if somebody has just linked it, nobody
\* else has its bucket.
LEMMA OneHolder ==
  ASSUME HashMapInv, NEW t \in Thread, NEW u \in Thread, NEW k, Has(t, k), Has(u, k)
  PROVE  t = u
<1>1. InvFor(t) /\ InvFor(u) /\ ListsFit /\ None \notin Thread
  BY InvParts, HashMapAssumption
<1>2. ASSUME NEW v \in Thread, acc[v] # None, pc[v] # "release", nodeKey[acc[v]] = k
      PROVE  acc[v] \in Linked /\ item[acc[v]] = v
  BY <1>2, InvParts DEF InvFor, NodesFit
<1>3. ASSUME NEW v \in Thread, pc[v] = "item", call[v].answer = "yes", call[v].key = k
      PROVE  /\ n[v] \in Linked /\ nodeKey[n[v]] = k /\ item[n[v]] = None
             /\ Top(v) \in Bucket /\ lock[Top(v)].writer = v
             /\ list[Top(v)] # RehashReq /\ n[v] \in list[Top(v)]
  BY <1>3, AtItem
<1>4. \A i, j \in Linked : nodeKey[i] = nodeKey[j] => i = j
  BY <1>1 DEF ListsFit
<1>5. CASE /\ acc[t] # None /\ pc[t] # "release" /\ nodeKey[acc[t]] = k
           /\ acc[u] # None /\ pc[u] # "release" /\ nodeKey[acc[u]] = k
  BY <1>2, <1>4, <1>5
<1>6. CASE /\ acc[t] # None /\ pc[t] # "release" /\ nodeKey[acc[t]] = k
           /\ pc[u] = "item" /\ call[u].answer = "yes" /\ call[u].key = k
  <2>1. acc[t] = n[u]
    BY <1>2, <1>3, <1>4, <1>6
  <2> QED  BY <1>1, <1>2, <1>3, <1>6, <2>1
<1>7. CASE /\ acc[u] # None /\ pc[u] # "release" /\ nodeKey[acc[u]] = k
           /\ pc[t] = "item" /\ call[t].answer = "yes" /\ call[t].key = k
  <2>1. acc[u] = n[t]
    BY <1>2, <1>3, <1>4, <1>7
  <2> QED  BY <1>1, <1>2, <1>3, <1>7, <2>1
<1>8. CASE /\ pc[t] = "item" /\ call[t].answer = "yes" /\ call[t].key = k
           /\ pc[u] = "item" /\ call[u].answer = "yes" /\ call[u].key = k
  <2>1. n[t] = n[u]
    BY <1>3, <1>4, <1>8
  <2>2. Top(t) = Top(u)
    BY <1>3, <1>8, <2>1, OneList
  <2> QED  BY <1>3, <1>8, <2>2
<1> QED  BY <1>5, <1>6, <1>7, <1>8 DEF Has

HolderIs(k) ==
  /\ HolderMap[k] = HolderOf(k)
  /\ \A t \in Thread : HolderOf(k) = t <=> Has(t, k)
  /\ HolderOf(k) = None <=> \A t \in Thread : ~Has(t, k)
  /\ HolderOf(k) \in Thread \cup {None}

HoldersAre == \A k \in Key : HolderIs(k)

LEMMA HoldersKnown == HashMapInv => HoldersAre
<1> SUFFICES ASSUME HashMapInv, NEW k \in Key PROVE HolderIs(k)
  BY DEF HoldersAre
<1> DEFINE H == {t \in Thread : Holds(t, k)}
<1>1. HolderOf(k) = IF H = {} THEN None ELSE CHOOSE t \in H : TRUE
  BY DEF HolderOf, Holds
<1>2. \A t : t \in H <=> t \in Thread /\ Has(t, k)
  BY HoldsIsHas
<1>3. None \notin Thread
  BY HashMapAssumption
<1>4. \A t, u \in H : t = u
  BY <1>2, OneHolder
<1> HIDE DEF H
<1>5. \A t : t \in H => HolderOf(k) = t
  <2> SUFFICES ASSUME NEW t, t \in H PROVE HolderOf(k) = t
    OBVIOUS
  <2>1. HolderOf(k) = CHOOSE u \in H : TRUE
    BY <1>1
  <2>2. HolderOf(k) \in H
    BY <2>1
  <2> QED  BY <1>4, <2>2
<1>6. H = {} => HolderOf(k) = None
  BY <1>1
<1>7. HolderOf(k) \in Thread \cup {None}
  <2>1. CASE H = {}
    BY <1>6, <2>1
  <2>2. CASE H # {}
    BY <1>2, <1>5, <2>2
  <2> QED  BY <2>1, <2>2
<1>8. HolderMap[k] = HolderOf(k)
  BY DEF HolderMap
<1>9. ASSUME NEW t \in Thread PROVE HolderOf(k) = t <=> Has(t, k)
  <2>1. Has(t, k) => HolderOf(k) = t
    BY <1>2, <1>5
  <2>2. HolderOf(k) = t => Has(t, k)
    BY <1>2, <1>3, <1>5, <1>6
  <2> QED  BY <2>1, <2>2
<1>10. HolderOf(k) = None <=> \A t \in Thread : ~Has(t, k)
  BY <1>2, <1>3, <1>5, <1>6
<1> QED  BY <1>7, <1>8, <1>9, <1>10 DEF HolderIs

\* How the locks of the abstract map change: thread t gets k, gives it up, or
\* nothing happens.
LEMMA HolderStays ==
  ASSUME HoldersAre, HoldersAre', NEW k \in Key, \A t \in Thread : Has(t, k)' <=> Has(t, k)
  PROVE  HolderOf(k)' = HolderOf(k)
<1>1. HolderIs(k) /\ HolderIs(k)'
  BY DEF HoldersAre
<1> QED  BY <1>1 DEF HolderIs

LEMMA HoldersStay ==
  ASSUME HashMapInv, HashMapInv', \A t \in Thread, k \in Key : Has(t, k)' <=> Has(t, k)
  PROVE  HolderMap' = HolderMap
<1>1. HoldersAre /\ HoldersAre'
  BY HoldersKnown, PTL
<1>2. \A k \in Key : HolderOf(k)' = HolderOf(k)
  BY <1>1, HolderStays
<1> QED  BY <1>2 DEF HolderMap

LEMMA HoldersGet ==
  ASSUME HashMapInv, HashMapInv', NEW t \in Thread, NEW k \in Key, Has(t, k)',
         \A u \in Thread, j \in Key : (u # t \/ j # k) => (Has(u, j)' <=> Has(u, j))
  PROVE  HolderMap' = [HolderMap EXCEPT ![k] = t]
<1>1. HoldersAre /\ HoldersAre'
  BY HoldersKnown, PTL
<1>2. \A j \in Key : j # k => HolderOf(j)' = HolderOf(j)
  BY <1>1, HolderStays
<1>3. HolderOf(k)' = t
  BY <1>1 DEF HoldersAre, HolderIs
<1> QED  BY <1>2, <1>3 DEF HolderMap

LEMMA HoldersLose ==
  ASSUME HashMapInv, HashMapInv', NEW t \in Thread, NEW k \in Key, Has(t, k), ~Has(t, k)',
         \A u \in Thread, j \in Key : (u # t \/ j # k) => (Has(u, j)' <=> Has(u, j))
  PROVE  HolderMap' = [HolderMap EXCEPT ![k] = None]
<1>1. HoldersAre /\ HoldersAre'
  BY HoldersKnown, PTL
<1>2. \A j \in Key : j # k => HolderOf(j)' = HolderOf(j)
  BY <1>1, HolderStays
<1>3. \A u \in Thread : ~Has(u, k)'
  BY OneHolder
<1>4. HolderOf(k)' = None
  BY <1>1, <1>3 DEF HoldersAre, HolderIs
<1> QED  BY <1>2, <1>4 DEF HolderMap

\* What a thread holds changes with its own accessor, place and call only.
LEMMA HasStays ==
  ASSUME HashMapInv, NEW u \in Thread, acc'[u] = acc[u], pc'[u] = pc[u], call'[u] = call[u],
         \A i \in Linked : nodeKey'[i] = nodeKey[i]
  PROVE  \A k : Has(u, k)' <=> Has(u, k)
<1>1. NodesFit(u)
  BY InvParts DEF InvFor
<1>2. acc[u] # None /\ pc[u] # "release" => nodeKey'[acc[u]] = nodeKey[acc[u]]
  BY <1>1 DEF NodesFit
<1> QED  BY <1>2 DEF Has

LEMMA PresentStays ==
  ASSUME Linked' = Linked, \A i \in Linked : nodeKey'[i] = nodeKey[i]
  PROVE  Present' = Present
  BY DEF Present

(***************************************************************************)
(* The steps that nobody sees: rehashing, searching, growing, starting     *)
(* over, giving nodes back.                                                *)
(***************************************************************************)

LEMMA Invisible ==
  ASSUME HashMapInv, HashMapInv', NEW t \in Thread, call' = call, acc' = acc,
         \A u \in Thread : u # t => pc'[u] = pc[u],
         pc[t] # "release", pc'[t] # "release",
         pc[t] = "item" => call[t].answer # "yes",
         pc'[t] = "item" => call[t].answer # "yes",
         Linked' = Linked, \A i \in Linked : nodeKey'[i] = nodeKey[i]
  PROVE  Present' = Present /\ HolderMap' = HolderMap /\ call' = call
<1>1. NodesFit(t)
  BY InvParts DEF InvFor
<1>2. acc[t] # None => nodeKey'[acc[t]] = nodeKey[acc[t]]
  BY <1>1 DEF NodesFit
<1>3. \A k : Has(t, k)' <=> Has(t, k)
  BY <1>2 DEF Has
<1>4. \A u \in Thread, k \in Key : Has(u, k)' <=> Has(u, k)
  BY <1>3, HasStays
<1>5. HolderMap' = HolderMap
  BY <1>4, HoldersStay
<1> QED  BY <1>5, PresentStays

\* The same for a step that changes neither lists nor nodes.
LEMMA InvisibleInside ==
  ASSUME HashMapInv, HashMapInv', NEW t \in Thread, NEW p \in Inner \ {"item"},
         pc[t] \in Inner \ {"item"}, pc' = [pc EXCEPT ![t] = p],
         UNCHANGED <<list, nodeKey, acc, call>>
  PROVE  Present' = Present /\ HolderMap' = HolderMap /\ call' = call
<1>1. Types
  BY InvParts
<1>2. pc'[t] = p /\ \A u \in Thread : u # t => pc'[u] = pc[u]
  BY <1>1 DEF Types
<1>3. /\ pc[t] # "release" /\ pc[t] # "item" /\ p # "release" /\ p # "item"
  BY DEF Inner, Within, Before
<1>4. Linked' = Linked
  BY DEF Linked
<1> QED  BY <1>2, <1>3, <1>4, Invisible

LEMMA LocksInvisible ==
  ASSUME HashMapInv, HashMapInv', NEW t \in Thread,
         \/ Look(t) \/ TryFails(t) \/ Acquire(t) \/ MustUpgrade(t) \/ BeginUpgrade(t)
         \/ EndUpgrade(t) \/ YieldUpgrade(t) \/ Reacquire(t) \/ ExcludeMisses(t)
  PROVE  Present' = Present /\ HolderMap' = HolderMap /\ call' = call
<1>1. \A p : Goto(t, p) => pc' = [pc EXCEPT ![t] = p]
  BY DEF Goto
<1>2. {"look", "try", "lock", "rehash", "search", "upgrade", "upgrading", "race", "reacquire",
       "again"} \subseteq Inner \ {"item"}
  BY DEF Inner, Within, Before
<1>3. CASE Look(t) \/ TryFails(t)
  <2>1. \E p \in {"try", "lock"} : Goto(t, p)
    BY <1>3 DEF Look, TryFails
  <2>2. pc[t] \in {"look", "try"} /\ UNCHANGED <<list, nodeKey, acc, call>>
    BY <1>3 DEF Look, TryFails
  <2> QED  BY <1>1, <1>2, <2>1, <2>2, InvisibleInside
<1>4. CASE Acquire(t)
  <2>1. \E p \in {"rehash", "search"} : Goto(t, p)
    BY <1>4 DEF Acquire, Entered
  <2>2. pc[t] = "lock" /\ UNCHANGED <<list, nodeKey, acc, call>>
    BY <1>4 DEF Acquire
  <2> QED  BY <1>1, <1>2, <2>1, <2>2, InvisibleInside
<1>5. CASE MustUpgrade(t) \/ BeginUpgrade(t) \/ ExcludeMisses(t)
  <2>1. \E p \in {"upgrade", "upgrading", "race"} : Goto(t, p)
    BY <1>5 DEF MustUpgrade, BeginUpgrade, ExcludeMisses
  <2>2. pc[t] \in {"rehash", "upgrade", "search"} /\ UNCHANGED <<list, nodeKey, acc, call>>
    BY <1>5 DEF MustUpgrade, BeginUpgrade, ExcludeMisses
  <2> QED  BY <1>1, <1>2, <2>1, <2>2, InvisibleInside
<1>6. CASE EndUpgrade(t) \/ YieldUpgrade(t) \/ Reacquire(t)
  <2>1. \E p \in {"rehash", "race", "reacquire", "again"} : Goto(t, p)
    BY <1>6 DEF EndUpgrade, YieldUpgrade, Reacquire
  <2>2. pc[t] \in {"upgrading", "upgrade", "reacquire"} /\ UNCHANGED <<list, nodeKey, acc, call>>
    BY <1>6 DEF EndUpgrade, YieldUpgrade, Reacquire
  <2> QED  BY <1>1, <1>2, <2>1, <2>2, InvisibleInside
<1> QED  BY <1>3, <1>4, <1>5, <1>6

\* A bucket is marked, or gets its nodes from its parent: the nodes that are
\* linked stay the same.
LEMMA TryRehashInvisible ==
  ASSUME HashMapInv, HashMapInv', NEW t \in Thread, TryRehash(t)
  PROVE  Present' = Present /\ HolderMap' = HolderMap /\ call' = call
<1>1. Types /\ InvFor(t)
  BY InvParts
<1>2. PICK p \in {"look", "rehash", "search"} : pc' = [pc EXCEPT ![t] = p]
  BY DEF TryRehash, Goto, Entered
<1>3. /\ pc[t] = "try" /\ nodeKey' = nodeKey /\ acc' = acc /\ call' = call
      /\ list' = list \/ (list[Top(t)] = RehashReq /\ list' = [list EXCEPT ![Top(t)] = {}])
  BY DEF TryRehash
<1>4. \A i : i \in Linked' <=> \E b \in Bucket : list'[b] # RehashReq /\ i \in list'[b]
  BY DEF Linked
<1>5. Linked' = Linked
  <2>1. CASE list' = list
    BY <2>1 DEF Linked
  <2>2. CASE list[Top(t)] = RehashReq /\ list' = [list EXCEPT ![Top(t)] = {}]
    <3>1. ASSUME NEW b \in Bucket, NEW i PROVE
            (list'[b] # RehashReq /\ i \in list'[b]) <=> (list[b] # RehashReq /\ i \in list[b])
      <4>1. CASE b = Top(t)
        <5>1. list'[b] = {}
          BY <1>1, <2>2, <4>1 DEF Types
        <5> QED  BY <2>2, <4>1, <5>1
      <4>2. CASE b # Top(t)
        <5>1. list'[b] = list[b]
          BY <1>1, <2>2, <4>2 DEF Types
        <5> QED  BY <5>1
      <4> QED  BY <4>1, <4>2
    <3>2. \A i : i \in Linked' <=> i \in Linked
      BY <1>4, <3>1, LinkedIs
    <3> QED  BY <3>2
  <2> QED  BY <1>3, <2>1, <2>2
<1>6. pc'[t] = p /\ \A u \in Thread : u # t => pc'[u] = pc[u]
  BY <1>1, <1>2 DEF Types
<1> QED  BY <1>3, <1>5, <1>6, Invisible

LEMMA RehashInvisible ==
  ASSUME HashMapInv, HashMapInv', NEW t \in Thread, Rehash(t)
  PROVE  Present' = Present /\ HolderMap' = HolderMap /\ call' = call
<1>1. Types /\ InvFor(t)
  BY InvParts
<1>2. PICK p \in {"rehash", "search"} : pc' = [pc EXCEPT ![t] = p]
  BY DEF Rehash, Goto, Entered
<1>3. pc[t] = "rehash" /\ nodeKey' = nodeKey /\ acc' = acc /\ call' = call
  BY DEF Rehash
<1>4. PICK b \in Bucket, child \in Bucket :
        /\ b = Top(t) /\ child = stack[t][Depth(t) - 1] /\ b # child
        /\ list[child] = {} /\ list[b] # RehashReq /\ list[child] # RehashReq
  <2>1. {} # RehashReq /\ \A c \in Bucket : c \in Nat
    BY HashMapAssumption DEF Bucket
  <2> QED  BY <1>3, <2>1, ParentAndChild
<1>5. PICK M : M = Moving(b, child) /\ M \subseteq list[b]
  BY DEF Moving
<1>6. list' = [list EXCEPT ![b] = @ \ M, ![child] = @ \cup M]
  BY <1>4, <1>5 DEF Rehash, Depth
<1>7. /\ list'[b] = list[b] \ M /\ list'[child] = M
      /\ \A c \in Bucket : c # b /\ c # child => list'[c] = list[c]
  BY <1>1, <1>4, <1>6 DEF Types
<1>8. list'[b] # RehashReq /\ list'[child] # RehashReq
  <2>1. list[b] \in SUBSET Node
    BY <1>1, <1>4 DEF Types
  <2> QED  BY <1>5, <1>7, <2>1, HashMapAssumption
<1>9. \A i : i \in Linked' <=> \E c \in Bucket : list'[c] # RehashReq /\ i \in list'[c]
  BY DEF Linked
<1>10. ASSUME NEW i PROVE i \in Linked' <=> i \in Linked
  <2>1. i \in Linked <=> (i \in list[b]) \/ \E c \in Bucket : c # b /\ c # child /\ list[c] # RehashReq /\ i \in list[c]
    BY <1>4, LinkedIs
  <2>2. i \in Linked' <=> (i \in list[b]) \/ \E c \in Bucket : c # b /\ c # child /\ list[c] # RehashReq /\ i \in list[c]
    BY <1>4, <1>5, <1>7, <1>8, <1>9
  <2> QED  BY <2>1, <2>2
<1>11. Linked' = Linked
  BY <1>10
<1>12. pc'[t] = p /\ \A u \in Thread : u # t => pc'[u] = pc[u]
  BY <1>1, <1>2 DEF Types
<1> QED  BY <1>3, <1>11, <1>12, Invisible

LEMMA SearchHitsInvisible ==
  ASSUME HashMapInv, HashMapInv', NEW t \in Thread, SearchHits(t)
  PROVE  Present' = Present /\ HolderMap' = HolderMap /\ call' = call
<1>1. /\ pc[t] \in {"search", "again"} /\ pc' = [pc EXCEPT ![t] = "item"]
      /\ list' = list /\ nodeKey' = nodeKey /\ acc' = acc /\ call' = call
  BY DEF SearchHits, Goto
<1>2. Types /\ CallFits(t)
  BY InvParts DEF InvFor
<1>3. call[t].answer = "none"
  BY <1>1, <1>2 DEF CallFits, Within
<1>4. pc'[t] = "item" /\ \A u \in Thread : u # t => pc'[u] = pc[u]
  BY <1>1, <1>2 DEF Types
<1>5. Linked' = Linked
  BY <1>1 DEF Linked
<1> QED  BY <1>1, <1>3, <1>4, <1>5, Invisible

LEMMA SearchMissesInvisible ==
  ASSUME HashMapInv, HashMapInv', NEW t \in Thread, SearchMisses(t)
  PROVE  Present' = Present /\ HolderMap' = HolderMap /\ call' = call
<1>1. PICK p \in {"race", "upgrade"} : pc' = [pc EXCEPT ![t] = p]
  BY DEF SearchMisses, Goto
<1>2. /\ pc[t] \in {"search", "again"} /\ list' = list /\ acc' = acc /\ call' = call
      /\ \/ nodeKey' = nodeKey
         \/ \E i \in FreeNodes : nodeKey' = [nodeKey EXCEPT ![i] = call[t].key]
  BY DEF SearchMisses
<1>3. Types /\ ListsFit
  BY InvParts
<1>4. ASSUME NEW i \in Linked PROVE nodeKey'[i] = nodeKey[i]
  <2>1. i \notin FreeNodes /\ i \in Node
    <3>1. PICK b \in Bucket : list[b] # RehashReq /\ i \in list[b]
      BY LinkedIs
    <3> QED  BY <1>3, <3>1 DEF ListsFit, FreeNodes, Types
  <2> QED  BY <1>2, <1>3, <2>1 DEF Types
<1>5. pc'[t] = p /\ \A u \in Thread : u # t => pc'[u] = pc[u]
  BY <1>1, <1>3 DEF Types
<1>6. Linked' = Linked
  BY <1>2 DEF Linked
<1> QED  BY <1>1, <1>2, <1>4, <1>5, <1>6, Invisible

LEMMA GiveUpItemInvisible ==
  ASSUME HashMapInv, HashMapInv', NEW t \in Thread, GiveUpItem(t)
  PROVE  Present' = Present /\ HolderMap' = HolderMap /\ call' = call
<1>1. /\ pc[t] = "item" /\ item[n[t]] # None /\ pc' = [pc EXCEPT ![t] = "look"]
      /\ list' = list /\ nodeKey' = nodeKey /\ acc' = acc /\ call' = call
  BY DEF GiveUpItem, Restart, Goto
<1>2. call[t].answer # "yes"
  BY <1>1, AtItem
<1>3. pc'[t] = "look" /\ \A u \in Thread : u # t => pc'[u] = pc[u]
  BY <1>1, InvParts DEF Types
<1>4. Linked' = Linked
  BY <1>1 DEF Linked
<1> QED  BY <1>1, <1>2, <1>3, <1>4, Invisible

LEMMA EnableSegmentInvisible ==
  ASSUME HashMapInv, HashMapInv', NEW t \in Thread, EnableSegment(t)
  PROVE  Present' = Present /\ HolderMap' = HolderMap /\ call' = call
<1>1. /\ pc[t] = "grow" /\ pc' = [pc EXCEPT ![t] = "return"]
      /\ list' = list /\ acc' = acc /\ call' = call
      /\ nodeKey' = [i \in Node |-> IF i = tmp[t] THEN None ELSE nodeKey[i]]
  BY DEF EnableSegment, Goto
<1>2. Types /\ NodesFit(t)
  BY InvParts DEF InvFor
<1>3. ASSUME NEW i \in Linked PROVE nodeKey'[i] = nodeKey[i]
  <2>1. i \in Node /\ i \notin Private(t)
    BY <1>2 DEF NodesFit, Linked, Types
  <2> QED  BY <1>1, <2>1 DEF Private
<1>4. pc'[t] = "return" /\ \A u \in Thread : u # t => pc'[u] = pc[u]
  BY <1>1, <1>2 DEF Types
<1>5. Linked' = Linked
  BY <1>1 DEF Linked
<1> QED  BY <1>1, <1>3, <1>4, <1>5, Invisible

LEMMA DeleteNodeInvisible ==
  ASSUME HashMapInv, HashMapInv', NEW t \in Thread, DeleteNode(t)
  PROVE  Present' = Present /\ HolderMap' = HolderMap /\ call' = call
<1>1. /\ pc[t] = "delete" /\ pc' = [pc EXCEPT ![t] = "return"]
      /\ list' = list /\ acc' = acc /\ call' = call /\ nodeKey' = [nodeKey EXCEPT ![n[t]] = None]
  BY DEF DeleteNode, Goto
<1>2. Types /\ NodesFit(t)
  BY InvParts DEF InvFor
<1>3. ASSUME NEW i \in Linked PROVE nodeKey'[i] = nodeKey[i]
  <2>1. i \in Node /\ i \notin Private(t)
    BY <1>2 DEF NodesFit, Linked, Types
  <2> QED  BY <1>1, <1>2, <2>1 DEF Private, Types
<1>4. pc'[t] = "return" /\ \A u \in Thread : u # t => pc'[u] = pc[u]
  BY <1>1, <1>2 DEF Types
<1>5. Linked' = Linked
  BY <1>1 DEF Linked
<1> QED  BY <1>1, <1>3, <1>4, <1>5, Invisible

LEMMA ReleaseItemInvisible ==
  ASSUME HashMapInv, HashMapInv', NEW t \in Thread, ReleaseItem(t)
  PROVE  Present' = Present /\ HolderMap' = HolderMap /\ call' = call
<1>1. /\ pc[t] = "release" /\ pc' = [pc EXCEPT ![t] = "delete"]
      /\ acc' = [acc EXCEPT ![t] = None]
      /\ list' = list /\ nodeKey' = nodeKey /\ call' = call
  BY DEF ReleaseItem, Goto
<1>2. /\ pc'[t] = "delete" /\ acc'[t] = None
      /\ \A u \in Thread : u # t => pc'[u] = pc[u] /\ acc'[u] = acc[u]
  BY <1>1, InvParts DEF Types
<1>3. Linked' = Linked
  BY <1>1 DEF Linked
<1>4. \A k : ~Has(t, k)' /\ ~Has(t, k)
  BY <1>1, <1>2 DEF Has
<1>5. \A u \in Thread, k \in Key : Has(u, k)' <=> Has(u, k)
  BY <1>1, <1>2, <1>4, HasStays
<1> QED  BY <1>1, <1>3, <1>5, HoldersStay, PresentStays

(***************************************************************************)
(* The steps of the abstract map.                                          *)
(***************************************************************************)

\* A call is begun, or ended.
LEMMA BeginIsCall ==
  ASSUME HashMapInv, HashMapInv', NEW t \in Thread, NEW op \in Ops, NEW k \in Key,
         Calls(t, op, k), op = "erase" => acc[t] # None /\ nodeKey[acc[t]] = k,
         op # "erase" => acc[t] = None
  PROVE  /\ call[t] = None
         /\ IF op = "erase" THEN HolderMap[k] = t ELSE \A j \in Key : HolderMap[j] # t
         /\ call' = [call EXCEPT ![t] = LM!Asked(op, k)]
         /\ Present' = Present /\ HolderMap' = HolderMap
<1>1. /\ pc[t] = "idle" /\ pc' = [pc EXCEPT ![t] = "look"]
      /\ call' = [call EXCEPT ![t] = [op |-> op, key |-> k, answer |-> "none"]]
      /\ list' = list /\ nodeKey' = nodeKey /\ acc' = acc
  BY DEF Calls, Goto
<1>2. Types /\ CallFits(t)
  BY InvParts DEF InvFor
<1>3. /\ pc'[t] = "look"
      /\ \A u \in Thread : u # t => pc'[u] = pc[u] /\ call'[u] = call[u]
  BY <1>1, <1>2 DEF Types
<1>4. \A j : Has(t, j) <=> acc[t] # None /\ nodeKey[acc[t]] = j
  BY <1>1 DEF Has
<1>5. \A j : Has(t, j)' <=> acc[t] # None /\ nodeKey[acc[t]] = j
  BY <1>1, <1>3 DEF Has
<1>6. \A u \in Thread, j \in Key : Has(u, j)' <=> Has(u, j)
  BY <1>1, <1>3, <1>4, <1>5, HasStays
<1>7. Present' = Present /\ HolderMap' = HolderMap
  BY <1>1, <1>6, HoldersStay DEF Present, Linked
<1>8. \A j \in Key : HolderMap[j] = t <=> Has(t, j)
  BY HoldersKnown DEF HoldersAre, HolderIs
<1> QED  BY <1>1, <1>2, <1>4, <1>7, <1>8 DEF CallFits, LM!Asked

LEMMA ReturnIsReturn ==
  ASSUME HashMapInv, HashMapInv', NEW t \in Thread, Return(t)
  PROVE  /\ call[t] # None /\ call[t].answer # "none"
         /\ call' = [call EXCEPT ![t] = None]
         /\ Present' = Present /\ HolderMap' = HolderMap
<1>1. /\ pc[t] = "return" /\ pc' = [pc EXCEPT ![t] = "idle"]
      /\ call' = [call EXCEPT ![t] = None]
      /\ list' = list /\ nodeKey' = nodeKey /\ acc' = acc
  BY DEF Return, Goto
<1>2. Types /\ CallFits(t) /\ None \notin CallSet
  BY InvParts, HashMapAssumption DEF InvFor
<1>3. /\ pc'[t] = "idle"
      /\ \A u \in Thread : u # t => pc'[u] = pc[u] /\ call'[u] = call[u]
  BY <1>1, <1>2 DEF Types
<1>4. \A j : Has(t, j)' <=> Has(t, j)
  BY <1>1, <1>3 DEF Has
<1>5. \A u \in Thread, j \in Key : Has(u, j)' <=> Has(u, j)
  BY <1>1, <1>3, <1>4, HasStays
<1>6. Present' = Present /\ HolderMap' = HolderMap
  BY <1>1, <1>5, HoldersStay DEF Present, Linked
<1> QED  BY <1>1, <1>2, <1>6 DEF CallFits

\* An accessor that goes out of scope unlocks its key.
LEMMA ReleaseIsRelease ==
  ASSUME HashMapInv, HashMapInv', NEW t \in Thread, ReleaseAccessor(t)
  PROVE  \E k \in Key : /\ call[t] = None /\ HolderMap[k] = t
                        /\ HolderMap' = [HolderMap EXCEPT ![k] = None]
                        /\ Present' = Present /\ call' = call
<1>1. /\ pc[t] = "idle" /\ acc[t] # None /\ acc' = [acc EXCEPT ![t] = None]
      /\ list' = list /\ nodeKey' = nodeKey /\ pc' = pc /\ call' = call
  BY DEF ReleaseAccessor
<1>2. Types /\ CallFits(t) /\ NodesFit(t)
  BY InvParts DEF InvFor
<1>3. PICK k \in Key : k = nodeKey[acc[t]]
  BY <1>1, <1>2 DEF Types, NodesFit
<1>4. acc'[t] = None /\ \A u \in Thread : u # t => acc'[u] = acc[u]
  BY <1>1, <1>2 DEF Types
<1>5. Has(t, k) /\ \A j : ~Has(t, j)' /\ (Has(t, j) => j = k)
  BY <1>1, <1>3, <1>4 DEF Has
<1>6. \A u \in Thread, j \in Key : (u # t \/ j # k) => (Has(u, j)' <=> Has(u, j))
  BY <1>1, <1>4, <1>5, HasStays
<1>7. HolderMap' = [HolderMap EXCEPT ![k] = None]
  BY <1>5, <1>6, HoldersLose
<1>8. HolderMap[k] = t
  BY <1>5, HoldersKnown DEF HoldersAre, HolderIs
<1>9. Present' = Present
  BY <1>1 DEF Present, Linked
<1>10. call[t] = None
  BY <1>1, <1>2 DEF CallFits
<1> QED  BY <1>1, <1>7, <1>8, <1>9, <1>10

\* A key that is not in its home is nowhere.
LEMMA AbsentKey ==
  ASSUME HashMapInv, NEW t \in Thread, pc[t] \in Rehashed, Found(t) = {},
         IsHome(Top(t), call[t].key)
  PROVE  call[t].key \notin Present
<1> SUFFICES ASSUME NEW i \in Linked, nodeKey[i] = call[t].key PROVE FALSE
  BY DEF Present
<1>1. PICK b \in Bucket : list[b] # RehashReq /\ i \in list[b]
  BY LinkedIs
<1>2. IsHome(b, call[t].key)
  BY <1>1, InvParts DEF ListsFit
<1>3. b <= Top(t) /\ Top(t) <= b /\ b \in Nat /\ Top(t) \in Nat
  BY <1>2 DEF IsHome, Complete, Bucket
<1>4. i \in Found(t)
  BY <1>1, <1>3 DEF Found
<1> QED  BY <1>4

\* What a thread was asked, while it has no answer.
LEMMA AskedIs ==
  ASSUME HashMapInv, NEW t \in Thread, pc[t] \in Rehashed, call[t].answer = "none"
  PROVE  call[t] = LM!Asked(call[t].op, call[t].key)
<1>1. call[t] \in CallSet
  BY Searching
<1> QED  BY <1>1 DEF CallSet, LM!Asked

LEMMA AnsweredIs ==
  ASSUME HashMapInv, NEW t \in Thread, NEW a, pc[t] \in Rehashed, Answer(t, a)
  PROVE  /\ call' = [call EXCEPT ![t] = LM!Answered(call[t].op, call[t].key, a)]
         /\ call'[t].answer = a /\ call'[t].key = call[t].key
         /\ \A u \in Thread : u # t => call'[u] = call[u]
<1>1. call[t] \in CallSet /\ call \in [Thread -> CallSet \cup {None}]
  BY Searching, InvParts DEF Types
<1>2. [call[t] EXCEPT !.answer = a] = LM!Answered(call[t].op, call[t].key, a)
  BY <1>1 DEF CallSet, LM!Answered
<1>3. call' = [call EXCEPT ![t] = [call[t] EXCEPT !.answer = a]]
  BY DEF Answer
<1> QED  BY <1>1, <1>2, <1>3 DEF LM!Answered

\* A find that finds nothing under the last mask: the key is not in the map.
\* An insertion is not done yet, an erase never gets here.
LEMMA NoRaceIsMiss ==
  ASSUME HashMapInv, HashMapInv', NEW t \in Thread, pc[t] \in {"race", "collision"}, NoRace(t),
         IsHome(Top(t), call[t].key), list' = list, nodeKey' = nodeKey
  PROVE  \/ Present' = Present /\ HolderMap' = HolderMap /\ call' = call
         \/ \E k \in Key : LM!Miss(t, k)
<1>1. InvFor(t) /\ Types /\ pc[t] \in Rehashed
  BY InvParts DEF Rehashed
<1>2. call[t].op \in {"find", "insert"} /\ call[t].key \in Key
  BY <1>1, ErasesInHome, Searching DEF Ops
<1>3. acc[t] = None /\ call[t].answer = "none"
  BY <1>1, <1>2 DEF InvFor, CallFits, Within
<1>4. Linked' = Linked
  BY DEF Linked
<1>5. CASE call[t].op = "insert"
  <2>1. pc' = [pc EXCEPT ![t] = "link"] /\ acc' = acc /\ call' = call
    BY <1>5 DEF NoRace, Goto
  <2>2. pc'[t] = "link" /\ \A u \in Thread : u # t => pc'[u] = pc[u]
    BY <1>1, <2>1 DEF Types
  <2> QED  BY <1>4, <2>1, <2>2, Invisible
<1>6. CASE call[t].op = "find"
  <2>1. /\ pc' = [pc EXCEPT ![t] = "return"] /\ Answer(t, "no")
        /\ acc' = [acc EXCEPT ![t] = None]
    BY <1>6 DEF NoRace, Goto
  <2>2. acc' = acc /\ pc'[t] = "return" /\ \A u \in Thread : u # t => pc'[u] = pc[u]
    BY <1>1, <1>3, <2>1 DEF Types
  <2>3. PICK k \in Key : k = call[t].key
    BY <1>2
  <2>4. /\ call[t] = LM!Asked("find", k) /\ \A u \in Thread : u # t => call'[u] = call[u]
        /\ call' = [call EXCEPT ![t] = LM!Answered("find", k, "no")]
    BY <1>1, <1>3, <1>6, <2>1, <2>3, AskedIs, AnsweredIs
  <2>5. \A j : Has(t, j)' <=> Has(t, j)
    BY <1>3, <2>2 DEF Has
  <2>6. \A u \in Thread, j \in Key : Has(u, j)' <=> Has(u, j)
    BY <2>2, <2>4, <2>5, HasStays
  <2>7. Present' = Present /\ HolderMap' = HolderMap
    BY <1>4, <2>6, HoldersStay, PresentStays
  <2>8. k \notin Present
    <3>1. Found(t) = {}
      BY <1>1, <1>6 DEF InvFor, SearchFits
    <3> QED  BY <1>1, <2>3, <3>1, AbsentKey
  <2> QED  BY <2>4, <2>7, <2>8 DEF LM!Miss, Present, HolderMap
<1> QED  BY <1>2, <1>5, <1>6

LEMMA RacesAreMisses ==
  ASSUME HashMapInv, HashMapInv', NEW t \in Thread,
         CheckMaskRace(t) \/ CheckRehashingCollision(t)
  PROVE  \/ Present' = Present /\ HolderMap' = HolderMap /\ call' = call
         \/ \E k \in Key : LM!Miss(t, k)
<1>1. /\ pc[t] \in {"race", "collision"} /\ list' = list /\ nodeKey' = nodeKey
  BY DEF CheckMaskRace, CheckRehashingCollision
<1>2. InvFor(t) /\ Types /\ pc[t] \in Rehashed
  BY <1>1, InvParts DEF Rehashed
<1>3. CASE NoRace(t) /\ IsHome(Top(t), call[t].key)
  BY <1>1, <1>3, NoRaceIsMiss
<1>4. CASE \E p \in {"collision", "look"} :
             pc' = [pc EXCEPT ![t] = p] /\ UNCHANGED <<acc, call>>
  <2>1. PICK p \in {"collision", "look"} : pc' = [pc EXCEPT ![t] = p] /\ UNCHANGED <<acc, call>>
    BY <1>4
  <2>2. p \in Inner \ {"item"} /\ pc[t] \in Inner \ {"item"}
    BY <1>1 DEF Inner, Within, Before
  <2> QED  BY <1>1, <2>1, <2>2, InvisibleInside
<1>5. CASE CheckMaskRace(t)
  <2>1. CASE SameBucket(call[t].key, m[t])
    <3>1. pc[t] = "race"
      BY <1>5 DEF CheckMaskRace
    <3>2. Top(t) = Masked(call[t].key, m[t])
      BY <1>2, <3>1, Searching DEF InvFor, StackFits
    <3>3. IsHome(Top(t), call[t].key)
      BY <1>2, <2>1, <3>2, HomeByMask DEF SameBucket
    <3>4. NoRace(t)
      BY <1>5, <2>1 DEF CheckMaskRace
    <3> QED  BY <1>3, <3>3, <3>4
  <2>2. CASE ~SameBucket(call[t].key, m[t])
    <3>1. pc' = [pc EXCEPT ![t] = "collision"] /\ UNCHANGED <<acc, call>>
      BY <1>5, <2>2 DEF CheckMaskRace, Goto
    <3> QED  BY <1>4, <3>1
  <2> QED  BY <2>1, <2>2
<1>6. CASE CheckRehashingCollision(t)
  <2>1. CASE list[probe[t]] = RehashReq
    <3>1. pc[t] = "collision"
      BY <1>6 DEF CheckRehashingCollision
    <3>2. IsHome(Top(t), call[t].key)
      BY <2>1, <3>1, HomeByProbe
    <3>3. NoRace(t)
      BY <1>6, <2>1 DEF CheckRehashingCollision
    <3> QED  BY <1>3, <3>2, <3>3
  <2>2. CASE list[probe[t]] # RehashReq
    <3>1. pc' = [pc EXCEPT ![t] = "look"] /\ UNCHANGED <<acc, call>>
      BY <1>6, <2>2 DEF CheckRehashingCollision, Restart, Goto
    <3> QED  BY <1>4, <3>1
  <2> QED  BY <2>1, <2>2
<1> QED  BY <1>5, <1>6

\* Linking the node is the moment at which the key is inserted and locked.
LEMMA InsertNewNodeIsInsert ==
  ASSUME HashMapInv, HashMapInv', NEW t \in Thread, InsertNewNode(t)
  PROVE  \E k \in Key : LM!Insert(t, k)
<1>1. /\ pc[t] = "link" /\ list' = [list EXCEPT ![Top(t)] = @ \cup {tmp[t]}]
      /\ pc' = [pc EXCEPT ![t] = "item"] /\ Answer(t, "yes")
      /\ nodeKey' = nodeKey /\ acc' = acc
  BY DEF InsertNewNode, Goto
<1>2. InvFor(t) /\ Types /\ ListsFit /\ pc[t] \in Rehashed
  BY <1>1, InvParts DEF Rehashed
<1>3. PICK k \in Key, b \in Bucket : k = call[t].key /\ b = Top(t) /\ list[b] # RehashReq
  BY <1>2, Searching
<1>4. PICK i \in Node : i = tmp[t] /\ nodeKey[i] = k
  BY <1>1, <1>2, <1>3 DEF InvFor, CallFits, Inserting, Types, NodesFit
<1>5. call[t].op = "insert" /\ acc[t] = None /\ call[t].answer = "none"
  <2>1. call[t].op = "insert"
    BY <1>1, <1>2 DEF InvFor, CallFits, Inserting
  <2> QED  BY <1>1, <1>2, <2>1 DEF InvFor, CallFits, Within
<1>6. k \notin Present
  <2>1. Found(t) = {} /\ IsHome(Top(t), call[t].key)
    BY <1>1, <1>2, <1>5 DEF InvFor, SearchFits
  <2> QED  BY <1>2, <1>3, <2>1, AbsentKey
<1>7. Linked' = Linked \cup {i}
  <2>1. /\ list'[b] = list[b] \cup {i} /\ \A c \in Bucket : c # b => list'[c] = list[c]
    BY <1>1, <1>2, <1>3, <1>4 DEF Types
  <2>2. list'[b] # RehashReq
    <3>1. list[b] \in SUBSET Node
      BY <1>2, <1>3 DEF Types
    <3> QED  BY <2>1, <3>1, HashMapAssumption
  <2>3. \A j : j \in Linked' <=> \E c \in Bucket : list'[c] # RehashReq /\ j \in list'[c]
    BY DEF Linked
  <2>4. \A j : j \in Linked' <=> j \in Linked \/ j = i
    BY <1>3, <2>1, <2>2, <2>3, LinkedIs
  <2> QED  BY <2>4
<1>8. Present' = Present \cup {k}
  BY <1>1, <1>4, <1>7 DEF Present
<1>9. /\ call[t] = LM!Asked("insert", k) /\ \A u \in Thread : u # t => call'[u] = call[u]
      /\ call' = [call EXCEPT ![t] = LM!Answered("insert", k, "yes")]
      /\ call'[t].answer = "yes" /\ call'[t].key = k
  BY <1>1, <1>2, <1>3, <1>5, AskedIs, AnsweredIs
<1>10. pc'[t] = "item" /\ \A u \in Thread : u # t => pc'[u] = pc[u]
  BY <1>1, <1>2 DEF Types
<1>11. /\ \A j : ~Has(t, j)
       /\ \A j : Has(t, j)' <=> j = k
  BY <1>1, <1>5, <1>9, <1>10 DEF Has
<1>12. \A u \in Thread, j \in Key : (u # t \/ j # k) => (Has(u, j)' <=> Has(u, j))
  BY <1>1, <1>9, <1>10, <1>11, HasStays
<1>13. HolderMap' = [HolderMap EXCEPT ![k] = t]
  BY <1>11, <1>12, HoldersGet
<1> QED  BY <1>6, <1>8, <1>9, <1>13 DEF LM!Insert, Present, HolderMap

\* Locking the node is locking the key, for whoever found the node there; who
\* has just linked it has locked the key already.
LEMMA TryAcquireItemIsAcquire ==
  ASSUME HashMapInv, HashMapInv', NEW t \in Thread, TryAcquireItem(t)
  PROVE  \/ Present' = Present /\ HolderMap' = HolderMap /\ call' = call
         \/ \E k \in Key, op \in {"find", "insert", "erase"} : LM!Acquire(t, op, k)
<1>1. /\ pc[t] = "item" /\ item[n[t]] = None /\ acc' = [acc EXCEPT ![t] = n[t]]
      /\ \E p \in {"return", "grow"} : pc' = [pc EXCEPT ![t] = p]
      /\ IF call[t].answer = "none"
         THEN Answer(t, IF call[t].op = "find" THEN "yes" ELSE "no") ELSE call' = call
      /\ list' = list /\ nodeKey' = nodeKey
  BY DEF TryAcquireItem, Goto
<1>2. InvFor(t) /\ Types /\ ListsFit /\ pc[t] \in Rehashed
  BY <1>1, InvParts DEF Rehashed
<1>3. PICK k \in Key : k = call[t].key
  BY <1>2, Searching
<1>4. /\ call[t].op \in {"find", "insert"} /\ acc[t] = None /\ n[t] # None
      /\ call[t].answer \in {"none", "yes"}
  <2>1. call[t].op # "erase" /\ call[t].op \in Ops
    BY <1>1, <1>2, Searching DEF InvFor, CallFits
  <2> QED  BY <1>1, <1>2, <2>1 DEF InvFor, CallFits, Ops
<1>5. n[t] \in Linked /\ nodeKey[n[t]] = k
  BY <1>1, <1>3, AtItem
<1>6. /\ acc'[t] = n[t] /\ pc'[t] \in {"return", "grow"}
      /\ \A u \in Thread : u # t => acc'[u] = acc[u] /\ pc'[u] = pc[u]
  BY <1>1, <1>2 DEF Types
<1>7. Linked' = Linked
  BY <1>1 DEF Linked
<1>8. \A j : Has(t, j)' <=> j = k
  BY <1>1, <1>4, <1>5, <1>6 DEF Has
<1>9. CASE call[t].answer = "yes"
  <2>1. call' = call
    BY <1>1, <1>9
  <2>2. \A j : Has(t, j) <=> j = k
    BY <1>1, <1>3, <1>4, <1>9 DEF Has
  <2>3. \A u \in Thread, j \in Key : Has(u, j)' <=> Has(u, j)
    BY <1>1, <1>6, <1>8, <2>1, <2>2, HasStays
  <2> QED  BY <1>1, <1>7, <2>1, <2>3, HoldersStay, PresentStays
<1>10. CASE call[t].answer = "none"
  <2>1. PICK op \in {"find", "insert"} : op = call[t].op
    BY <1>4
  <2>2. /\ call[t] = LM!Asked(op, k) /\ \A u \in Thread : u # t => call'[u] = call[u]
        /\ call' = [call EXCEPT ![t] = LM!Answered(op, k, IF op = "find" THEN "yes" ELSE "no")]
    BY <1>1, <1>2, <1>3, <1>10, <2>1, AskedIs, AnsweredIs
  <2>3. \A j : ~Has(t, j)
    BY <1>4, <1>10 DEF Has
  <2>4. \A u \in Thread, j \in Key : (u # t \/ j # k) => (Has(u, j)' <=> Has(u, j))
    BY <1>1, <1>6, <1>8, <2>2, <2>3, HasStays
  <2>5. HolderMap' = [HolderMap EXCEPT ![k] = t]
    BY <1>8, <2>4, HoldersGet
  <2>6. \A u \in Thread : ~Has(u, k)
    <3> SUFFICES ASSUME NEW u \in Thread, Has(u, k) PROVE FALSE
      OBVIOUS
    <3>1. \A i, j \in Linked : nodeKey[i] = nodeKey[j] => i = j
      BY <1>2 DEF ListsFit
    <3>2. CASE acc[u] # None /\ pc[u] # "release" /\ nodeKey[acc[u]] = k
      <4>1. acc[u] \in Linked /\ item[acc[u]] = u
        BY <3>2, InvParts DEF InvFor, NodesFit
      <4>2. acc[u] = n[t]
        BY <1>5, <3>1, <3>2, <4>1
      <4> QED  BY <1>1, <4>1, <4>2, HashMapAssumption
    <3>3. CASE pc[u] = "item" /\ call[u].answer = "yes" /\ call[u].key = k
      <4>1. /\ Top(u) \in Bucket /\ list[Top(u)] # RehashReq /\ n[u] \in list[Top(u)]
            /\ n[u] \in Linked /\ nodeKey[n[u]] = k /\ lock[Top(u)].writer = u
        BY <3>3, AtItem
      <4>2. /\ Top(t) \in Bucket /\ list[Top(t)] # RehashReq /\ n[t] \in list[Top(t)]
            /\ Locked(Top(t), t)
        BY <1>1, AtItem
      <4>3. n[u] = n[t]
        BY <1>5, <3>1, <4>1
      <4>4. Top(u) = Top(t)
        BY <4>1, <4>2, <4>3, OneList
      <4>5. u # t
        BY <1>10, <3>3
      <4> QED  BY <4>1, <4>2, <4>4, <4>5, Excluded
    <3> QED  BY <3>2, <3>3 DEF Has
  <2>7. HolderMap[k] = None
    BY <2>6, HoldersKnown DEF HoldersAre, HolderIs
  <2>8. k \in Present /\ Present' = Present
    BY <1>1, <1>5, <1>7, PresentStays DEF Present
  <2>9. LM!Acquire(t, op, k)
    BY <2>1, <2>2, <2>5, <2>7, <2>8 DEF LM!Acquire, Present, HolderMap
  <2> QED  BY <2>1, <2>9
<1> QED  BY <1>4, <1>9, <1>10

\* Excluding the node is the moment at which the key is erased and unlocked.
LEMMA ExcludeNodeIsErase ==
  ASSUME HashMapInv, HashMapInv', NEW t \in Thread, ExcludeNode(t)
  PROVE  \E k \in Key : LM!Erase(t, k)
<1>1. /\ pc[t] = "search" /\ call[t].op = "erase" /\ acc[t] \in list[Top(t)]
      /\ list' = [list EXCEPT ![Top(t)] = @ \ {acc[t]}] /\ Answer(t, "yes")
      /\ pc' = [pc EXCEPT ![t] = "release"] /\ nodeKey' = nodeKey /\ acc' = acc
  BY DEF ExcludeNode, Goto
<1>2. InvFor(t) /\ Types /\ ListsFit /\ pc[t] \in Rehashed
  BY <1>1, InvParts DEF Rehashed
<1>3. PICK k \in Key, b \in Bucket :
        k = call[t].key /\ b = Top(t) /\ list[b] # RehashReq /\ list[b] \subseteq Linked
  BY <1>2, Searching
<1>4. PICK i \in Node : i = acc[t] /\ nodeKey[i] = k /\ i \in list[b] /\ i \in Linked /\ i # None
  <2>1. acc[t] # None
    BY <1>1, <1>2 DEF InvFor, CallFits
  <2> QED  BY <1>1, <1>2, <1>3, <2>1 DEF InvFor, NodesFit, Types
<1>5. call[t].answer = "none"
  BY <1>1, <1>2 DEF InvFor, CallFits, Within
<1>6. Linked' = Linked \ {i}
  <2>1. /\ list'[b] = list[b] \ {i} /\ \A c \in Bucket : c # b => list'[c] = list[c]
    BY <1>1, <1>2, <1>3, <1>4 DEF Types
  <2>2. list'[b] # RehashReq
    <3>1. list[b] \in SUBSET Node
      BY <1>2, <1>3 DEF Types
    <3> QED  BY <2>1, <3>1, HashMapAssumption
  <2>3. \A j : j \in Linked' <=> \E c \in Bucket : list'[c] # RehashReq /\ j \in list'[c]
    BY DEF Linked
  <2>4. \A c \in Bucket : c # b /\ list[c] # RehashReq => i \notin list[c]
    BY <1>3, <1>4, OneList
  <2>5. \A j : j \in Linked' <=> j \in Linked /\ j # i
    BY <1>3, <2>1, <2>2, <2>3, <2>4, LinkedIs
  <2> QED  BY <2>5
<1>7. Present' = Present \ {k} /\ k \in Present
  <2>1. \A j \in Linked : nodeKey[j] = k => j = i
    BY <1>2, <1>4 DEF ListsFit
  <2> QED  BY <1>1, <1>4, <1>6, <2>1 DEF Present
<1>8. /\ call[t] = LM!Asked("erase", k) /\ \A u \in Thread : u # t => call'[u] = call[u]
      /\ call' = [call EXCEPT ![t] = LM!Answered("erase", k, "yes")]
  BY <1>1, <1>2, <1>3, <1>5, AskedIs, AnsweredIs
<1>9. pc'[t] = "release" /\ \A u \in Thread : u # t => pc'[u] = pc[u]
  BY <1>1, <1>2 DEF Types
<1>10. (\A j : Has(t, j) <=> j = k) /\ \A j : ~Has(t, j)'
  BY <1>1, <1>4, <1>9 DEF Has
<1>11. \A u \in Thread, j \in Key : (u # t \/ j # k) => (Has(u, j)' <=> Has(u, j))
  BY <1>1, <1>8, <1>9, <1>10, HasStays
<1>12. HolderMap' = [HolderMap EXCEPT ![k] = None]
  BY <1>10, <1>11, HoldersLose
<1>13. HolderMap[k] = t
  BY <1>10, HoldersKnown DEF HoldersAre, HolderIs
<1> QED  BY <1>7, <1>8, <1>12, <1>13 DEF LM!Erase, Present, HolderMap

LEMMA StepOfMap ==
  ASSUME HashMapInv, HashMapInv', NEW t \in Thread, Begin(t) \/ ReleaseAccessor(t) \/ Step(t)
  PROVE  \/ Present' = Present /\ HolderMap' = HolderMap /\ call' = call
         \/ LM!LNext
<1>1. CASE Begin(t)
  <2>1. PICK op \in Ops, k \in Key :
          /\ Calls(t, op, k)
          /\ op = "erase" => acc[t] # None /\ nodeKey[acc[t]] = k
          /\ op # "erase" => acc[t] = None
    <3>1. CASE \E op \in Ops, k \in Key : Lookup(t, op, k)
      BY <3>1 DEF Lookup
    <3>2. CASE Exclude(t)
      <4>1. acc[t] # None /\ Calls(t, "erase", nodeKey[acc[t]])
        BY <3>2 DEF Exclude
      <4>2. nodeKey[acc[t]] \in Key
        BY <4>1, InvParts DEF InvFor, NodesFit, Types
      <4> QED  BY <4>1, <4>2 DEF Ops
    <3> QED  BY <1>1, <3>1, <3>2 DEF Begin
  <2>2. LM!Call(t, op, k)
    BY <2>1, BeginIsCall DEF LM!Call, Present, HolderMap
  <2>3. op \in {"find", "insert", "erase"}
    BY DEF Ops
  <2> QED  BY <2>2, <2>3 DEF LM!LNext
<1>2. CASE ReleaseAccessor(t)
  <2>1. PICK k \in Key : /\ call[t] = None /\ HolderMap[k] = t
                         /\ HolderMap' = [HolderMap EXCEPT ![k] = None]
                         /\ Present' = Present /\ call' = call
    BY <1>2, ReleaseIsRelease
  <2>2. LM!Release(t, k)
    BY <2>1 DEF LM!Release, Present, HolderMap
  <2> QED  BY <2>2 DEF LM!LNext
<1>3. CASE Return(t)
  <2>1. LM!Return(t)
    BY <1>3, ReturnIsReturn DEF LM!Return, Present, HolderMap
  <2> QED  BY <2>1 DEF LM!LNext
<1>4. CASE CheckMaskRace(t) \/ CheckRehashingCollision(t)
  BY <1>4, RacesAreMisses DEF LM!LNext
<1>5. CASE InsertNewNode(t)
  BY <1>5, InsertNewNodeIsInsert DEF LM!LNext
<1>6. CASE TryAcquireItem(t)
  BY <1>6, TryAcquireItemIsAcquire DEF LM!LNext
<1>7. CASE ExcludeNode(t)
  BY <1>7, ExcludeNodeIsErase DEF LM!LNext
<1>8. CASE \/ Look(t) \/ TryFails(t) \/ Acquire(t) \/ MustUpgrade(t) \/ BeginUpgrade(t)
           \/ EndUpgrade(t) \/ YieldUpgrade(t) \/ Reacquire(t) \/ ExcludeMisses(t)
  BY <1>8, LocksInvisible
<1>9. CASE \/ TryRehash(t) \/ Rehash(t) \/ SearchHits(t) \/ SearchMisses(t) \/ GiveUpItem(t)
           \/ EnableSegment(t) \/ ReleaseItem(t) \/ DeleteNode(t)
  BY <1>9, TryRehashInvisible, RehashInvisible, SearchHitsInvisible, SearchMissesInvisible,
     GiveUpItemInvisible, EnableSegmentInvisible, ReleaseItemInvisible, DeleteNodeInvisible
<1> QED  BY <1>1, <1>2, <1>3, <1>4, <1>5, <1>6, <1>7, <1>8, <1>9 DEF Step

\* Refinement: to its users the hash map is a set of keys with one exclusive
\* lock per key, at which find, insert and erase act at one moment each.  No
\* growing, rehashing or starting over shows.
THEOREM LockedMapIsImplemented == Spec => ImplementsLockedMap
<1>1. Init => LM!LInit
  <2> SUFFICES ASSUME Init PROVE LM!LInit
    OBVIOUS
  <2>1. HashMapInv
    BY InitFits
  <2>2. \A t \in Thread : acc[t] = None /\ pc[t] = "idle"
    BY DEF Init
  <2>3. HolderMap = [k \in Key |-> None]
    <3>1. \A t \in Thread, k \in Key : ~Has(t, k)
      BY <2>2 DEF Has
    <3>2. \A k \in Key : HolderOf(k) = None
      BY <2>1, <3>1, HoldersKnown DEF HoldersAre, HolderIs
    <3> QED  BY <3>2 DEF HolderMap
  <2>4. Linked = {}
    BY LinkedIs DEF Init, Bucket
  <2>5. Present = {} /\ call = [t \in Thread |-> None]
    BY <2>4 DEF Present, Init
  <2> QED  BY <2>3, <2>5 DEF LM!LInit, Present, HolderMap
<1>2. HashMapInv /\ HashMapInv' /\ [Next]_vars =>
        [LM!LNext]_<<{nodeKey[i] : i \in Linked}, [k \in Key |-> HolderOf(k)], call>>
  <2> SUFFICES ASSUME HashMapInv, HashMapInv', [Next]_vars
               PROVE  \/ Present' = Present /\ HolderMap' = HolderMap /\ call' = call
                      \/ LM!LNext
    BY DEF Present, HolderMap
  <2>1. CASE UNCHANGED vars
    BY <2>1 DEF vars, table, local, Present, HolderMap, HolderOf, Linked
  <2>2. CASE Next
    BY <2>2, StepOfMap DEF Next
  <2> QED  BY <2>1, <2>2
<1> QED  BY <1>1, <1>2, HashMapIsInvariant, PTL DEF Spec, ImplementsLockedMap, LM!LSpec
=============================================================================
