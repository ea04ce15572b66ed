----------------------------- MODULE BlockProofs -----------------------------
(***************************************************************************)
(* Lemmas about the layout of a block, for any block and RDF size: its     *)
(* counters stay right, and writing, deleting and replacing one record     *)
(* leave all others as they are.                                           *)
(***************************************************************************)
EXTENDS Block, SequenceTheorems, WellFoundedInduction, TLAPS

(***************************************************************************)
(* Induction over the natural numbers, for a set.                          *)
(***************************************************************************)

Less == {p \in Nat \X Nat : p[1] < p[2]}

LEMMA LessIsWellFounded == IsWellFoundedOn(Less, Nat)
<1>1. Less = OpToRel(<, Nat)
  BY DEF Less, OpToRel
<1> QED  BY <1>1, NatLessThanWellFounded

LEMMA SetInduction ==
  ASSUME NEW S, 0 \in S, \A k \in Nat : k \in S => k + 1 \in S
  PROVE  Nat \subseteq S
<1> SUFFICES ASSUME Nat \ S # {} PROVE FALSE
  OBVIOUS
<1>1. PICK x \in Nat \ S : \A y \in Nat \ S : <<y, x>> \notin Less
  BY LessIsWellFounded, WFMin
<1>2. x # 0 /\ x - 1 \in Nat /\ x - 1 < x
  BY <1>1
<1>3. <<x - 1, x>> \in Less
  BY <1>1, <1>2 DEF Less
<1>4. x - 1 \notin Nat \ S
  BY <1>1, <1>3
<1> QED  BY <1>1, <1>2, <1>4

\* n steps from base, each inside T: such a sequence of values exists.
Inside(n, T, step) == \A i \in 1..n, t \in T : step[<<i, t>>] \in T
Steps(f, n, base, step) == f[0] = base /\ \A i \in 1..n : f[i] = step[<<i, f[i - 1]>>]

LEMMA Iterated ==
  ASSUME NEW n \in Nat, NEW T, NEW base \in T, NEW step, Inside(n, T, step)
  PROVE  \E f \in [0..n -> T] : Steps(f, n, base, step)
<1> DEFINE P(k) == \E f \in [0..k -> T] :
                     f[0] = base /\ \A i \in 1..k : f[i] = step[<<i, f[i - 1]>>]
           S == {k \in Nat : k <= n => P(k)}
<1>0. \A i \in 1..n, t \in T : step[<<i, t>>] \in T
  BY DEF Inside
<1>1. 0 \in S
  <2> DEFINE g == [j \in 0..0 |-> base]
  <2>1. g \in [0..0 -> T] /\ g[0] = base
    OBVIOUS
  <2> HIDE DEF g
  <2>2. \A i \in 1..0 : g[i] = step[<<i, g[i - 1]>>]
    OBVIOUS
  <2>3. P(0)
    BY <2>1, <2>2
  <2> QED  BY <2>3
<1>2. ASSUME NEW k \in Nat, k \in S PROVE k + 1 \in S
  <2> SUFFICES ASSUME k + 1 <= n PROVE P(k + 1)
    OBVIOUS
  <2>1. PICK f \in [0..k -> T] :
          f[0] = base /\ \A i \in 1..k : f[i] = step[<<i, f[i - 1]>>]
    BY <1>2
  <2> DEFINE g == [j \in 0..(k + 1) |-> IF j = k + 1 THEN step[<<k + 1, f[k]>>] ELSE f[j]]
  <2>2. step[<<k + 1, f[k]>>] \in T
    <3>1. k + 1 \in 1..n /\ f[k] \in T
      BY <2>1
    <3> QED  BY <1>0, <3>1
  <2>3. g \in [0..(k + 1) -> T]
    BY <2>1, <2>2
  <2>4. g[0] = base
    BY <2>1
  <2>5. ASSUME NEW i \in 1..(k + 1) PROVE g[i] = step[<<i, g[i - 1]>>]
    <3>1. CASE i = k + 1
      <4>1. k + 1 \in 0..(k + 1) /\ k \in 0..(k + 1) /\ k # k + 1 /\ k + 1 - 1 = k
        OBVIOUS
      <4>2. g[k + 1] = step[<<k + 1, f[k]>>] /\ g[k] = f[k]
        BY <4>1
      <4> QED  BY <3>1, <4>1, <4>2
    <3>2. CASE i # k + 1
      <4>1. i \in 1..k /\ i - 1 \in 0..k /\ i \in 0..k
        BY <3>2
      <4>2. g[i] = f[i] /\ g[i - 1] = f[i - 1]
        BY <4>1
      <4> QED  BY <2>1, <4>1, <4>2
    <3> QED  BY <3>1, <3>2
  <2> HIDE DEF g
  <2> QED  BY <2>3, <2>4, <2>5
<1>3. n \in S
  BY <1>1, <1>2, SetInduction
<1> QED  BY <1>3 DEF Steps

(***************************************************************************)
(* Sequences.                                                              *)
(***************************************************************************)

LEMMA SubSeqIs ==
  ASSUME NEW S, NEW s \in Seq(S), NEW a \in Nat, NEW b \in Nat, a <= b, b <= Len(s)
  PROVE  /\ SubSeq(s, a + 1, b) \in Seq(S) /\ Len(SubSeq(s, a + 1, b)) = b - a
         /\ \A c \in 1..(b - a) : SubSeq(s, a + 1, b)[c] = s[a + c]
<1>1. Len(s) \in Nat /\ \A i \in 1..Len(s) : s[i] \in S
  BY LenProperties
<1>2. \A i \in (a + 1)..b : s[i] \in S
  BY <1>1
<1> DEFINE u == SubSeq(s, a + 1, b)
<1>3. /\ u \in Seq(S) /\ Len(u) = IF a + 1 <= b THEN b - (a + 1) + 1 ELSE 0
      /\ \A i \in 1..(b - (a + 1) + 1) : u[i] = s[a + 1 + i - 1]
  BY <1>2, SubSeqProperties
<1> HIDE DEF u
<1>4. u \in Seq(S) /\ Len(u) = b - a /\ \A c \in 1..(b - a) : u[c] = s[a + c]
  BY <1>3
<1> QED  BY <1>4 DEF u

LEMMA JoinIs ==
  ASSUME NEW S, NEW s \in Seq(S), NEW t \in Seq(S)
  PROVE  /\ s \o t \in Seq(S) /\ Len(s \o t) = Len(s) + Len(t)
         /\ \A c \in 1..Len(s) : (s \o t)[c] = s[c]
         /\ \A c \in 1..Len(t) : (s \o t)[Len(s) + c] = t[c]
<1>1. Len(s) \in Nat /\ Len(t) \in Nat
  BY LenProperties
<1> DEFINE u == s \o t
<1>2. /\ u \in Seq(S) /\ Len(u) = Len(s) + Len(t)
      /\ \A i \in 1..(Len(s) + Len(t)) : u[i] = IF i <= Len(s) THEN s[i] ELSE t[i - Len(s)]
  BY ConcatProperties
<1> HIDE DEF u
<1>3. \A c \in 1..Len(s) : u[c] = s[c]
  BY <1>1, <1>2
<1>4. \A c \in 1..Len(t) : u[Len(s) + c] = t[c]
  BY SMTT(30), <1>1, <1>2
<1> QED  BY <1>2, <1>3, <1>4 DEF u

\* s without its i-th element.
LEMMA RemoveAtIs ==
  ASSUME NEW S, NEW s \in Seq(S), NEW i \in 1..Len(s)
  PROVE  /\ SeqExt!RemoveAt(s, i) \in Seq(S) /\ Len(SeqExt!RemoveAt(s, i)) = Len(s) - 1
         /\ \A j \in 1..(i - 1) : SeqExt!RemoveAt(s, i)[j] = s[j]
         /\ \A j \in i..(Len(s) - 1) : SeqExt!RemoveAt(s, i)[j] = s[j + 1]
<1> DEFINE u == SubSeq(s, 0 + 1, i - 1)
           v == SubSeq(s, i + 1, Len(s))
           w == SeqExt!RemoveAt(s, i)
<1>0. Len(s) \in Nat
  BY LenProperties
<1>1. w = u \o v
  BY DEF SeqExt!RemoveAt
<1>2. u \in Seq(S) /\ Len(u) = i - 1 /\ \A c \in 1..(i - 1) : u[c] = s[c]
  <2>1. /\ u \in Seq(S) /\ Len(u) = i - 1 - 0 /\ \A c \in 1..(i - 1 - 0) : u[c] = s[0 + c]
    BY <1>0, SubSeqIs
  <2> HIDE DEF u
  <2> QED  BY <2>1
<1>3. v \in Seq(S) /\ Len(v) = Len(s) - i /\ \A c \in 1..(Len(s) - i) : v[c] = s[i + c]
  BY <1>0, SubSeqIs
<1> HIDE DEF u, v, w
<1>4. /\ w \in Seq(S) /\ Len(w) = Len(u) + Len(v)
      /\ \A c \in 1..Len(u) : w[c] = u[c]
      /\ \A c \in 1..Len(v) : w[Len(u) + c] = v[c]
  <2>1. /\ u \o v \in Seq(S) /\ Len(u \o v) = Len(u) + Len(v)
        /\ \A c \in 1..Len(u) : (u \o v)[c] = u[c]
        /\ \A c \in 1..Len(v) : (u \o v)[Len(u) + c] = v[c]
    <3>1. u \in Seq(S) /\ v \in Seq(S)
      BY <1>2, <1>3
    <3> QED  BY <3>1, JoinIs
  <2> QED  BY <1>1, <2>1
<1>5. \A j \in 1..(i - 1) : w[j] = s[j]
  BY <1>2, <1>4
<1>6. ASSUME NEW j \in i..(Len(s) - 1) PROVE w[j] = s[j + 1]
  <2>1. j - (i - 1) \in 1..Len(v) /\ Len(u) + (j - (i - 1)) = j /\ i + (j - (i - 1)) = j + 1
    BY <1>0, <1>2, <1>3
  <2>2. w[j] = v[j - (i - 1)] /\ v[j - (i - 1)] = s[j + 1]
    BY <1>3, <1>4, <2>1
  <2> QED  BY <2>2
<1> QED  BY <1>0, <1>2, <1>3, <1>4, <1>5, <1>6 DEF w

(***************************************************************************)
(* Positions of the records.                                               *)
(***************************************************************************)

RDFs     == [key : Nat, len : Nat]
BlockSet == [location : Nat, free : Nat, dirty : BOOLEAN, rdfs : Seq(RDFs), data : Seq(Nat)]

LEMMA PositionsAdd ==
  ASSUME NEW b, b.rdfs \in Seq(RDFs)
  PROVE  /\ RecordPosition(b, 1) = 0
         /\ \A i \in 1..Len(b.rdfs) :
              /\ RecordPosition(b, i) \in Nat
              /\ RecordPosition(b, i + 1) = RecordPosition(b, i) + b.rdfs[i].len
<1> DEFINE n == Len(b.rdfs)
           step == [p \in (1..n) \X Nat |-> p[2] + b.rdfs[p[1]].len]
<1>1. n \in Nat /\ \A i \in 1..n : b.rdfs[i].len \in Nat
  <2>1. n \in Nat /\ \A i \in 1..n : b.rdfs[i] \in RDFs
    BY LenProperties, ElementOfSeq
  <2> QED  BY <2>1 DEF RDFs
<1>2. \A i \in 1..n, t \in Nat : step[<<i, t>>] = t + b.rdfs[i].len /\ step[<<i, t>>] \in Nat
  BY <1>1
<1> HIDE DEF step, n
<1>3. PICK f \in [0..n -> Nat] : f[0] = 0 /\ \A i \in 1..n : f[i] = step[<<i, f[i - 1]>>]
  <2>1. Inside(n, Nat, step) /\ 0 \in Nat /\ n \in Nat
    BY <1>1, <1>2 DEF Inside
  <2>2. \E f \in [0..n -> Nat] : Steps(f, n, 0, step)
    BY <2>1, Iterated
  <2> QED  BY <2>2 DEF Steps
<1>4. \A i \in 1..n : f[i - 1] \in Nat /\ f[i] = f[i - 1] + b.rdfs[i].len
  <2>1. \A i \in 1..n : i - 1 \in 0..n
    BY <1>1
  <2> QED  BY <1>2, <1>3, <2>1
<1>5. ASSUME NEW i \in 1..(n + 1) PROVE RecordPosition(b, i) = f[i - 1]
  <2> DEFINE g == [j \in 0..(i - 1) |-> f[j]]
  <2>1. g = [j \in 0..(i - 1) |-> IF j = 0 THEN 0 ELSE g[j - 1] + b.rdfs[j].len]
    <3>1. ASSUME NEW j \in 0..(i - 1)
          PROVE  f[j] = IF j = 0 THEN 0 ELSE g[j - 1] + b.rdfs[j].len
      <4>1. CASE j = 0
        BY <1>3, <4>1
      <4>2. CASE j # 0
        <5>1. j \in 1..n /\ j - 1 \in 0..(i - 1)
          BY <1>1, <4>2
        <5> QED  BY <1>4, <4>2, <5>1
      <4> QED  BY <4>1, <4>2
    <3> QED  BY <3>1
  <2>2. \E h : /\ h = [j \in 0..(i - 1) |-> IF j = 0 THEN 0 ELSE h[j - 1] + b.rdfs[j].len]
               /\ RecordPosition(b, i) = h[i - 1]
    BY <2>1, Zenon DEF RecordPosition
  <2>3. PICK h : /\ h = [j \in 0..(i - 1) |-> IF j = 0 THEN 0 ELSE h[j - 1] + b.rdfs[j].len]
                 /\ RecordPosition(b, i) = h[i - 1]
    BY <2>2
  <2> DEFINE S == {j \in Nat : j <= i - 1 => h[j] = f[j]}
  <2>4. 0 \in S
    <3>1. 0 \in 0..(i - 1)
      BY <1>1
    <3>2. h[0] = 0
      BY <2>3, <3>1
    <3> QED  BY <1>3, <3>2
  <2>5. ASSUME NEW j \in Nat, j \in S PROVE j + 1 \in S
    <3> SUFFICES ASSUME j + 1 <= i - 1 PROVE h[j + 1] = f[j + 1]
      OBVIOUS
    <3>1. j + 1 \in 0..(i - 1) /\ j + 1 \in 1..n /\ j + 1 # 0 /\ j + 1 - 1 = j
      BY <1>1
    <3>2. h[j + 1] = h[j] + b.rdfs[j + 1].len
      BY <2>3, <3>1
    <3>3. h[j] = f[j]
      BY <2>5
    <3>4. f[j + 1] = f[j] + b.rdfs[j + 1].len
      BY <1>4, <3>1
    <3> QED  BY <3>2, <3>3, <3>4
  <2> HIDE DEF S
  <2>6. Nat \subseteq S
    BY <2>4, <2>5, SetInduction
  <2>7. i - 1 \in S
    BY <1>1, <2>6
  <2>8. h[i - 1] = f[i - 1]
    BY <1>1, <2>7 DEF S
  <2> QED  BY <2>3, <2>8
<1>6. RecordPosition(b, 1) = 0
  <2>1. 1 \in 1..(n + 1) /\ 1 - 1 = 0
    BY <1>1
  <2> QED  BY <1>3, <1>5, <2>1
<1>7. ASSUME NEW i \in 1..n
      PROVE  /\ RecordPosition(b, i) \in Nat
             /\ RecordPosition(b, i + 1) = RecordPosition(b, i) + b.rdfs[i].len
  <2>1. i \in 1..(n + 1) /\ i + 1 \in 1..(n + 1) /\ i + 1 - 1 = i
    BY <1>1
  <2>2. RecordPosition(b, i) = f[i - 1] /\ RecordPosition(b, i + 1) = f[i]
    BY <1>5, <2>1
  <2> QED  BY <1>4, <2>2
<1> QED  BY <1>6, <1>7 DEF n

LEMMA PositionsInNat ==
  ASSUME NEW b, b.rdfs \in Seq(RDFs)
  PROVE  /\ Len(b.rdfs) \in Nat
         /\ \A i \in 1..Len(b.rdfs) : b.rdfs[i] \in RDFs /\ b.rdfs[i].len \in Nat
         /\ \A i \in 1..(Len(b.rdfs) + 1) : RecordPosition(b, i) \in Nat
<1>1. Len(b.rdfs) \in Nat /\ \A i \in 1..Len(b.rdfs) : b.rdfs[i] \in RDFs
  BY LenProperties, ElementOfSeq
<1>2. \A i \in 1..Len(b.rdfs) : b.rdfs[i].len \in Nat
  BY <1>1 DEF RDFs
<1>3. /\ RecordPosition(b, 1) = 0
      /\ \A i \in 1..Len(b.rdfs) :
           /\ RecordPosition(b, i) \in Nat
           /\ RecordPosition(b, i + 1) = RecordPosition(b, i) + b.rdfs[i].len
  BY PositionsAdd
<1>4. ASSUME NEW i \in 1..(Len(b.rdfs) + 1) PROVE RecordPosition(b, i) \in Nat
  <2>1. CASE i \in 1..Len(b.rdfs)
    BY <1>3, <2>1
  <2>2. CASE i = 1
    BY <1>3, <2>2
  <2>3. CASE i # 1 /\ i \notin 1..Len(b.rdfs)
    <3>1. Len(b.rdfs) \in 1..Len(b.rdfs) /\ i = Len(b.rdfs) + 1
      BY <1>1, <2>3
    <3> QED  BY SMTT(30), <1>2, <1>3, <3>1
  <2> QED  BY <2>1, <2>2, <2>3
<1> QED  BY <1>1, <1>2, <1>4

\* Where d RDFs of b and of c have the same lengths, positions advance alike.
SameLengths(b, i, c, j, d) == \A e \in 0..(d - 1) : b.rdfs[i + e].len = c.rdfs[j + e].len
AdvanceAlike(b, i, c, j, d) ==
  RecordPosition(c, j + d) + RecordPosition(b, i) = RecordPosition(b, i + d) + RecordPosition(c, j)

LEMMA PositionsMove ==
  ASSUME NEW b, b.rdfs \in Seq(RDFs), NEW c, c.rdfs \in Seq(RDFs),
         NEW i \in Nat \ {0}, NEW j \in Nat \ {0}, NEW d \in Nat,
         i + d <= Len(b.rdfs) + 1, j + d <= Len(c.rdfs) + 1, SameLengths(b, i, c, j, d)
  PROVE  AdvanceAlike(b, i, c, j, d)
<1> DEFINE S == {e \in Nat : e <= d =>
                   RecordPosition(c, j + e) + RecordPosition(b, i)
                     = RecordPosition(b, i + e) + RecordPosition(c, j)}
<1>1. /\ Len(b.rdfs) \in Nat
      /\ \A x \in 1..Len(b.rdfs) : b.rdfs[x].len \in Nat
      /\ \A x \in 1..(Len(b.rdfs) + 1) : RecordPosition(b, x) \in Nat
      /\ \A x \in 1..Len(b.rdfs) :
           RecordPosition(b, x + 1) = RecordPosition(b, x) + b.rdfs[x].len
  BY PositionsInNat, PositionsAdd
<1>2. /\ Len(c.rdfs) \in Nat
      /\ \A x \in 1..Len(c.rdfs) : c.rdfs[x].len \in Nat
      /\ \A x \in 1..(Len(c.rdfs) + 1) : RecordPosition(c, x) \in Nat
      /\ \A x \in 1..Len(c.rdfs) :
           RecordPosition(c, x + 1) = RecordPosition(c, x) + c.rdfs[x].len
  BY PositionsInNat, PositionsAdd
<1>3. i \in 1..(Len(b.rdfs) + 1) /\ j \in 1..(Len(c.rdfs) + 1)
  BY <1>1, <1>2
<1>4. 0 \in S
  <2>1. RecordPosition(b, i) \in Nat /\ RecordPosition(c, j) \in Nat /\ i + 0 = i /\ j + 0 = j
    BY <1>1, <1>2, <1>3
  <2> QED  BY <2>1
<1>5. ASSUME NEW e \in Nat, e \in S PROVE e + 1 \in S
  <2> SUFFICES ASSUME e + 1 <= d
               PROVE  RecordPosition(c, j + (e + 1)) + RecordPosition(b, i)
                        = RecordPosition(b, i + (e + 1)) + RecordPosition(c, j)
    OBVIOUS
  <2>1. RecordPosition(c, j + e) + RecordPosition(b, i)
          = RecordPosition(b, i + e) + RecordPosition(c, j)
    BY <1>5
  <2>2. /\ i + e \in 1..Len(b.rdfs) /\ j + e \in 1..Len(c.rdfs) /\ e \in 0..(d - 1)
        /\ i + (e + 1) = (i + e) + 1 /\ j + (e + 1) = (j + e) + 1
    <3>1. PICK n \in Nat, m \in Nat : n = Len(b.rdfs) /\ m = Len(c.rdfs)
      BY <1>1, <1>2
    <3>2. i + d <= n + 1 /\ j + d <= m + 1
      BY <3>1
    <3>3. i + e \in 1..n /\ j + e \in 1..m
      BY <3>2
    <3> QED  BY <3>1, <3>3
  <2>3. b.rdfs[i + e].len = c.rdfs[j + e].len
    BY <2>2 DEF SameLengths
  <2>4. /\ RecordPosition(b, i + e + 1) = RecordPosition(b, i + e) + b.rdfs[i + e].len
        /\ RecordPosition(b, i + e) \in Nat /\ b.rdfs[i + e].len \in Nat
        /\ RecordPosition(b, i) \in Nat
    BY <1>3, <2>2, PositionsAdd, PositionsInNat
  <2>5. /\ RecordPosition(c, j + e + 1) = RecordPosition(c, j + e) + c.rdfs[j + e].len
        /\ RecordPosition(c, j + e) \in Nat /\ c.rdfs[j + e].len \in Nat
        /\ RecordPosition(c, j) \in Nat
    BY <1>3, <2>2, PositionsAdd, PositionsInNat
  <2>6. /\ RecordPosition(b, i + (e + 1)) = RecordPosition(b, i + e) + b.rdfs[i + e].len
        /\ RecordPosition(c, j + (e + 1)) = RecordPosition(c, j + e) + c.rdfs[j + e].len
    BY <2>2, <2>4, <2>5
  <2>7. PICK p \in Nat, q \in Nat, u \in Nat, v \in Nat, l \in Nat :
          /\ p = RecordPosition(c, j + e) /\ q = RecordPosition(b, i)
          /\ u = RecordPosition(b, i + e) /\ v = RecordPosition(c, j)
          /\ l = b.rdfs[i + e].len
    BY <2>4, <2>5
  <2>8. (p + l) + q = (u + l) + v
    <3>1. p + q = u + v
      BY <2>1, <2>7, Zenon
    <3> QED  BY <3>1
  <2>9. /\ RecordPosition(c, j + (e + 1)) = p + l /\ RecordPosition(b, i + (e + 1)) = u + l
    BY <2>3, <2>6, <2>7
  <2> QED  BY <2>7, <2>8, <2>9
<1> HIDE DEF S
<1>6. d \in S
  BY <1>4, <1>5, SetInduction
<1> QED  BY <1>6 DEF S, AdvanceAlike

LEMMA PositionsGrow ==
  ASSUME NEW b, b.rdfs \in Seq(RDFs), NEW i \in Nat \ {0}, NEW d \in Nat,
         i + d <= Len(b.rdfs) + 1
  PROVE  RecordPosition(b, i) <= RecordPosition(b, i + d)
<1> DEFINE S == {e \in Nat : e <= d => RecordPosition(b, i) <= RecordPosition(b, i + e)}
<1>1. /\ Len(b.rdfs) \in Nat
      /\ \A x \in 1..Len(b.rdfs) : b.rdfs[x].len \in Nat
      /\ \A x \in 1..(Len(b.rdfs) + 1) : RecordPosition(b, x) \in Nat
      /\ \A x \in 1..Len(b.rdfs) :
           RecordPosition(b, x + 1) = RecordPosition(b, x) + b.rdfs[x].len
  BY PositionsInNat, PositionsAdd
<1>2. i \in 1..(Len(b.rdfs) + 1)
  BY <1>1
<1>3. 0 \in S
  <2>1. RecordPosition(b, i) \in Nat /\ i + 0 = i
    BY <1>1, <1>2
  <2> QED  BY <2>1
<1>4. ASSUME NEW e \in Nat, e \in S PROVE e + 1 \in S
  <2> SUFFICES ASSUME e + 1 <= d
               PROVE  RecordPosition(b, i) <= RecordPosition(b, i + (e + 1))
    OBVIOUS
  <2>1. RecordPosition(b, i) <= RecordPosition(b, i + e)
    BY <1>4
  <2>2. i + e \in 1..Len(b.rdfs) /\ i + (e + 1) = (i + e) + 1
    BY <1>1
  <2>3. /\ RecordPosition(b, i + (e + 1)) = RecordPosition(b, i + e) + b.rdfs[i + e].len
        /\ RecordPosition(b, i + e) \in Nat /\ b.rdfs[i + e].len \in Nat
        /\ RecordPosition(b, i) \in Nat
    BY <1>1, <1>2, <2>2
  <2> QED  BY <2>1, <2>3
<1> HIDE DEF S
<1>5. d \in S
  BY <1>3, <1>4, SetInduction
<1> QED  BY <1>5 DEF S

(***************************************************************************)
(* A good block: the counters of its CIDF are right, no key is there       *)
(* twice.                                                                  *)
(***************************************************************************)

KeysIn(b) == {b.rdfs[i].key : i \in 1..Len(b.rdfs)}

UniqueKeys(rdfs) == \A i, j \in 1..Len(rdfs) : (rdfs[i].key = rdfs[j].key) => (i = j)

GoodBlock(b) ==
  /\ b \in BlockSet
  /\ b.location = Len(b.data)
  /\ b.location + b.free + RDFSize * Len(b.rdfs) = CIDFOffset
  /\ RecordPosition(b, Len(b.rdfs) + 1) = b.location
  /\ UniqueKeys(b.rdfs)

LEMMA RDFTimes ==
  ASSUME NEW n \in Nat
  PROVE  /\ RDFSize * n \in Nat /\ RDFSize * (n + 1) = RDFSize * n + RDFSize
         /\ RDFSize * 0 = 0 /\ RDFSize \in Nat /\ CIDFOffset \in Nat
<1>1. RDFSize \in Nat /\ RDFSize > 0 /\ CIDFOffset \in Nat
  BY BlockAssumption
<1> QED  BY <1>1

\* The loop over all RDFs visits those there are.
LEMMA CountOfRDFs ==
  ASSUME NEW r \in Nat \ {0}, NEW c \in Nat, NEW l \in Nat, NEW f \in Nat, NEW n \in Nat,
         l + f + r * n = c
  PROVE  (c - (l + f)) \div r = n
<1>1. c - (l + f) = r * n
  OBVIOUS
<1> QED  BY <1>1

LEMMA GoodIsWellFormed ==
  ASSUME NEW b, GoodBlock(b)
  PROVE  WellFormed(b) /\ NumRDFs(b) = Len(b.rdfs) /\ Len(b.rdfs) \in Nat
<1>1. /\ b.location \in Nat /\ b.free \in Nat /\ b.rdfs \in Seq(RDFs) /\ b.data \in Seq(Nat)
      /\ b.location = Len(b.data)
      /\ b.location + b.free + RDFSize * Len(b.rdfs) = CIDFOffset
      /\ RecordPosition(b, Len(b.rdfs) + 1) = b.location
  BY DEF GoodBlock, BlockSet
<1>2. Len(b.rdfs) \in Nat
  BY <1>1, LenProperties
<1>3. NumRDFs(b) = Len(b.rdfs)
  <2>1. (CIDFOffset - (b.location + b.free)) \div RDFSize = Len(b.rdfs)
    BY SMTT(30), <1>1, <1>2, BlockAssumption, CountOfRDFs
  <2> QED  BY <2>1 DEF NumRDFs, EndOfFreeSpace
<1>4. b.free >= 0
  BY <1>1
<1> QED  BY <1>1, <1>2, <1>3, <1>4 DEF WellFormed

LEMMA InitBlockIsGood == GoodBlock(InitBlock) /\ KeysIn(InitBlock) = {} /\ InitBlock.dirty
<1> DEFINE b == InitBlock
<1>1. /\ b.location = 0 /\ b.free = CIDFOffset /\ b.dirty = TRUE /\ b.rdfs = <<>> /\ b.data = <<>>
  BY DEF InitBlock
<1>2. CIDFOffset \in Nat
  BY BlockAssumption
<1>3. b \in BlockSet
  <2>1. <<>> \in Seq(RDFs) /\ <<>> \in Seq(Nat)
    BY EmptySeq
  <2> QED  BY <1>2, <2>1 DEF InitBlock, BlockSet
<1>4. Len(b.rdfs) = 0 /\ Len(b.data) = 0
  BY <1>1, EmptySeq
<1>5. b.rdfs \in Seq(RDFs)
  BY <1>3 DEF BlockSet
<1> HIDE DEF b
<1>6. RecordPosition(b, Len(b.rdfs) + 1) = b.location
  <2>1. RecordPosition(b, 1) = 0
    BY <1>5, PositionsAdd
  <2>2. Len(b.rdfs) + 1 = 1
    BY <1>4
  <2> QED  BY <1>1, <2>1, <2>2
<1>7. b.location + b.free + RDFSize * Len(b.rdfs) = CIDFOffset
  BY <1>1, <1>2, <1>4, RDFTimes
<1>8. KeysIn(b) = {} /\ UniqueKeys(b.rdfs)
  BY <1>4 DEF KeysIn, UniqueKeys
<1>9. GoodBlock(b)
  BY <1>1, <1>3, <1>4, <1>6, <1>7, <1>8 DEF GoodBlock
<1> QED  BY <1>1, <1>8, <1>9 DEF b

\* The position of the first record both blocks hold alike, and of the others.
LEMMA SamePositions ==
  ASSUME NEW b, b.rdfs \in Seq(RDFs), NEW c, c.rdfs \in Seq(RDFs), NEW d \in Nat,
         d <= Len(b.rdfs), d <= Len(c.rdfs), SameLengths(b, 1, c, 1, d)
  PROVE  RecordPosition(c, 1 + d) = RecordPosition(b, 1 + d)
<1>1. RecordPosition(b, 1) = 0 /\ RecordPosition(c, 1) = 0
  BY PositionsAdd
<1>2. Len(b.rdfs) \in Nat /\ Len(c.rdfs) \in Nat
  BY PositionsInNat
<1>3. 1 + d <= Len(b.rdfs) + 1 /\ 1 + d <= Len(c.rdfs) + 1 /\ 1 \in Nat \ {0}
  BY <1>2
<1>4. RecordPosition(c, 1 + d) + RecordPosition(b, 1)
        = RecordPosition(b, 1 + d) + RecordPosition(c, 1)
  <2>1. AdvanceAlike(b, 1, c, 1, d)
    BY <1>3, PositionsMove
  <2> QED  BY <2>1 DEF AdvanceAlike
<1>5. 1 + d \in 1..(Len(b.rdfs) + 1) /\ 1 + d \in 1..(Len(c.rdfs) + 1)
  BY <1>2
<1>6. RecordPosition(c, 1 + d) \in Nat /\ RecordPosition(b, 1 + d) \in Nat
  BY <1>5, PositionsInNat
<1> QED  BY <1>1, <1>4, <1>6

LEMMA CountsAfterWrite ==
  ASSUME NEW l \in Nat, NEW f \in Nat, NEW t \in Nat, NEW n \in Nat, NEW r \in Nat
  PROVE  (l + n) + (f - (n + r)) + (t + r) = l + f + t
OBVIOUS

\* What a write needs to know of the RDFs.
LEMMA AppendedRDFs ==
  ASSUME NEW s \in Seq(RDFs), NEW e \in RDFs
  PROVE  /\ Append(SubSeq(s, 1, Len(s)), e) \in Seq(RDFs)
         /\ Len(Append(SubSeq(s, 1, Len(s)), e)) = Len(s) + 1
         /\ \A i \in 1..Len(s) : Append(SubSeq(s, 1, Len(s)), e)[i] = s[i]
         /\ Append(SubSeq(s, 1, Len(s)), e)[Len(s) + 1] = e
<1>1. SubSeq(s, 1, Len(s)) = s
  BY SubSeqFull
<1>2. /\ Append(s, e) \in Seq(RDFs) /\ Len(Append(s, e)) = Len(s) + 1
      /\ \A i \in 1..Len(s) : Append(s, e)[i] = s[i] /\ Append(s, e)[Len(s) + 1] = e
  BY AppendProperties
<1>3. Append(s, e)[Len(s) + 1] = e
  BY AppendProperties
<1> QED  BY <1>1, <1>2, <1>3

\* Block_WriteRecord keeps a block good and adds its key.
LEMMA WriteRecordIsGood ==
  ASSUME NEW b, GoodBlock(b), NEW k \in Nat, k \notin KeysIn(b), NEW r \in Seq(Nat), Fits(b, r)
  PROVE  /\ GoodBlock(WriteRecord(b, k, r)) /\ WriteRecord(b, k, r).dirty
         /\ KeysIn(WriteRecord(b, k, r)) = KeysIn(b) \cup {k}
<1> DEFINE c == WriteRecord(b, k, r)
           e == [key |-> k, len |-> Len(r)]
           n == Len(b.rdfs)
<1>1. /\ b.location \in Nat /\ b.free \in Nat /\ b.rdfs \in Seq(RDFs) /\ b.data \in Seq(Nat)
      /\ b.location = Len(b.data)
      /\ b.location + b.free + RDFSize * n = CIDFOffset
      /\ RecordPosition(b, n + 1) = b.location /\ UniqueKeys(b.rdfs)
  BY DEF GoodBlock, BlockSet
<1>2. n \in Nat /\ Len(r) \in Nat /\ NumRDFs(b) = n
  BY <1>1, LenProperties, GoodIsWellFormed
<1>3. e \in RDFs /\ e.key = k /\ e.len = Len(r)
  BY <1>2 DEF RDFs
<1>4. /\ c.location = b.location + Len(r) /\ c.free = b.free - (Len(r) + RDFSize)
      /\ c.dirty = TRUE /\ c.data = b.data \o r
      /\ c.rdfs = Append(SubSeq(b.rdfs, 1, n), e)
      /\ c = [location |-> c.location, free |-> c.free, dirty |-> TRUE,
              rdfs |-> c.rdfs, data |-> c.data]
  BY <1>2 DEF WriteRecord
<1> HIDE DEF e, c
<1>5. /\ c.rdfs \in Seq(RDFs) /\ Len(c.rdfs) = n + 1
      /\ \A i \in 1..n : c.rdfs[i] = b.rdfs[i]
      /\ c.rdfs[n + 1] = e
  <2>1. PICK s \in Seq(RDFs) : s = b.rdfs
    BY <1>1
  <2>2. /\ Append(SubSeq(s, 1, Len(s)), e) \in Seq(RDFs)
        /\ Len(Append(SubSeq(s, 1, Len(s)), e)) = Len(s) + 1
        /\ \A i \in 1..Len(s) : Append(SubSeq(s, 1, Len(s)), e)[i] = s[i]
        /\ Append(SubSeq(s, 1, Len(s)), e)[Len(s) + 1] = e
    <3>1. s \in Seq(RDFs) /\ e \in RDFs
      BY <1>3
    <3> QED  BY <3>1, AppendedRDFs
  <2>3. c.rdfs = Append(SubSeq(s, 1, Len(s)), e) /\ n = Len(s)
    BY <1>4, <2>1
  <2> QED  BY <2>1, <2>2, <2>3, Zenon
<1>6. c.data \in Seq(Nat) /\ Len(c.data) = Len(b.data) + Len(r)
  BY <1>1, <1>4, JoinIs
<1>7. /\ RDFSize \in Nat /\ RDFSize * n \in Nat /\ RDFSize * (n + 1) = RDFSize * n + RDFSize
      /\ CIDFOffset \in Nat
  BY <1>2, RDFTimes
<1>8. b.free >= Len(r) + RDFSize
  BY DEF Fits
<1>9. c.location \in Nat /\ c.free \in Nat
  <2>1. PICK f \in Nat, l \in Nat, x \in Nat, z \in Nat :
          f = b.free /\ l = b.location /\ x = Len(r) /\ z = RDFSize
    BY <1>1, <1>2, <1>7
  <2>2. f >= x + z
    BY <1>8, <2>1
  <2>3. l + x \in Nat /\ f - (x + z) \in Nat
    BY <2>2
  <2> QED  BY <1>4, <2>1, <2>3
<1>10. c \in BlockSet
  BY <1>4, <1>5, <1>6, <1>9 DEF BlockSet
<1>11. c.location + c.free + RDFSize * Len(c.rdfs) = CIDFOffset
  <2>1. c.location + c.free + (RDFSize * n + RDFSize) = CIDFOffset
    <3>1. PICK t \in Nat : t = RDFSize * n
      BY <1>7
    <3>2. b.location + b.free + t = CIDFOffset
      BY <1>1, <3>1
    <3>3. (b.location + Len(r)) + (b.free - (Len(r) + RDFSize)) + (t + RDFSize) = CIDFOffset
      BY SMTT(30), <1>1, <1>2, <1>7, <3>2, CountsAfterWrite
    <3> QED  BY <1>4, <3>1, <3>3
  <2> QED  BY <2>1, <1>5, <1>7
<1>12. RecordPosition(c, Len(c.rdfs) + 1) = c.location
  <2>1. SameLengths(b, 1, c, 1, n)
    <3>1. \A x \in 0..(n - 1) : 1 + x \in 1..n
      BY <1>2
    <3> QED  BY <1>5, <3>1 DEF SameLengths
  <2>2. n <= Len(b.rdfs) /\ n <= Len(c.rdfs)
    BY <1>2, <1>5
  <2>3. RecordPosition(c, 1 + n) = RecordPosition(b, 1 + n)
    BY <1>1, <1>2, <1>5, <2>1, <2>2, SamePositions
  <2>4. 1 + n = n + 1 /\ n + 1 \in 1..Len(c.rdfs)
    BY <1>2, <1>5
  <2>5. RecordPosition(c, (n + 1) + 1) = RecordPosition(c, n + 1) + c.rdfs[n + 1].len
    BY <1>5, <2>4, PositionsAdd
  <2> QED  BY <1>1, <1>3, <1>4, <1>5, <2>3, <2>4, <2>5
<1>13. \A i \in 1..n : c.rdfs[i].key \in KeysIn(b) /\ c.rdfs[i].key # k
  BY <1>5 DEF KeysIn
<1>14. UniqueKeys(c.rdfs)
  <2> SUFFICES ASSUME NEW i \in 1..(n + 1), NEW j \in 1..(n + 1), c.rdfs[i].key = c.rdfs[j].key
               PROVE  i = j
    BY <1>5 DEF UniqueKeys
  <2>1. CASE i \in 1..n /\ j \in 1..n
    <3>1. b.rdfs[i].key = b.rdfs[j].key
      BY <1>5, <2>1
    <3> QED  BY <1>1, <2>1, <3>1 DEF UniqueKeys
  <2>2. CASE ~(i \in 1..n) \/ ~(j \in 1..n)
    <3>1. i \in 1..n \/ i = n + 1
      BY <1>2
    <3>2. j \in 1..n \/ j = n + 1
      BY SMTT(30), <1>2
    <3> QED  BY <1>3, <1>5, <1>13, <2>2, <3>1, <3>2
  <2> QED  BY <2>1, <2>2
<1>15. KeysIn(c) = KeysIn(b) \cup {k}
  <2>1. c.rdfs[n + 1].key = k /\ \A i \in 1..n : c.rdfs[i].key = b.rdfs[i].key
    BY <1>3, <1>5
  <2>2. n + 1 \in 1..(n + 1) /\ \A i \in 1..n : i \in 1..(n + 1)
    BY <1>2
  <2>3. ASSUME NEW i \in 1..(n + 1) PROVE c.rdfs[i].key \in KeysIn(b) \cup {k}
    <3>1. CASE i \in 1..n
      BY <2>1, <3>1 DEF KeysIn
    <3>2. CASE i = n + 1
      BY <2>1, <3>2
    <3> QED  BY <1>2, <3>1, <3>2
  <2>4. KeysIn(c) = {c.rdfs[i].key : i \in 1..(n + 1)}
    BY <1>5 DEF KeysIn
  <2>5. KeysIn(b) \subseteq {c.rdfs[i].key : i \in 1..(n + 1)}
    <3>1. KeysIn(b) = {b.rdfs[i].key : i \in 1..n}
      BY DEF KeysIn
    <3> QED  BY <2>1, <2>2, <3>1
  <2>6. k \in {c.rdfs[i].key : i \in 1..(n + 1)}
    BY <2>1, <2>2
  <2>7. {c.rdfs[i].key : i \in 1..(n + 1)} \subseteq KeysIn(b) \cup {k}
    BY <2>3
  <2> QED  BY <2>4, <2>5, <2>6, <2>7
<1>16. c.location = Len(c.data)
  BY <1>1, <1>4, <1>6
<1>17. GoodBlock(c)
  BY <1>10, <1>11, <1>12, <1>14, <1>16 DEF GoodBlock
<1> QED  BY <1>4, <1>15, <1>17 DEF c

LEMMA CountsAfterDelete ==
  ASSUME NEW l \in Nat, NEW f \in Nat, NEW t \in Nat, NEW n \in Nat, NEW r \in Nat
  PROVE  (l - n) + (f + n + r) + t = l + f + (t + r)
OBVIOUS

LEMMA LengthsAfterDelete ==
  ASSUME NEW l \in Nat, NEW p \in Nat, NEW n \in Nat, NEW f \in Nat, NEW r \in Nat, p + n <= l
  PROVE  (p - 0) + (l - (p + n)) = l - n /\ l - n \in Nat /\ f + n + r \in Nat
OBVIOUS

LEMMA Rest ==
  ASSUME NEW n \in Nat, NEW i \in Nat, 1 <= i, i <= n
  PROVE  /\ i - 1 \in Nat /\ 1 + (i - 1) = i /\ i - 1 <= n - 1 /\ i - 1 <= n
         /\ n - i \in Nat /\ i + (n - i) = n /\ (i + 1) + (n - i) = n + 1
         /\ i + 1 \in Nat \ {0} /\ i \in Nat \ {0} /\ n <= (n - 1) + 1
OBVIOUS

LEMMA PositionAfterDelete ==
  ASSUME NEW p \in Nat, NEW q \in Nat, NEW l \in Nat, NEW n \in Nat, NEW x \in Nat,
         x + (p + n) = l + p
  PROVE  x = l - n
OBVIOUS

\* The i-th record ends where the next begins, in front of location.
LEMMA RecordIsInside ==
  ASSUME NEW b, GoodBlock(b), NEW i \in 1..Len(b.rdfs)
  PROVE  /\ RecordPosition(b, i) \in Nat /\ b.rdfs[i].len \in Nat
         /\ RecordPosition(b, i + 1) = RecordPosition(b, i) + b.rdfs[i].len
         /\ RecordPosition(b, i) + b.rdfs[i].len <= b.location
<1>1. b.rdfs \in Seq(RDFs) /\ RecordPosition(b, Len(b.rdfs) + 1) = b.location
  BY DEF GoodBlock, BlockSet
<1>2. PICK n \in Nat : n = Len(b.rdfs) /\ i \in Nat /\ 1 <= i /\ i <= n
  BY <1>1, LenProperties
<1>3. /\ RecordPosition(b, i) \in Nat /\ b.rdfs[i].len \in Nat
      /\ RecordPosition(b, i + 1) = RecordPosition(b, i) + b.rdfs[i].len
  BY <1>1, PositionsAdd, PositionsInNat
<1>4. RecordPosition(b, i + 1) <= RecordPosition(b, n + 1)
  <2>0. i + 1 \in Nat \ {0} /\ n - i \in Nat /\ (i + 1) + (n - i) = n + 1
    BY <1>2, Rest
  <2>1. PICK j \in Nat \ {0}, d \in Nat : j = i + 1 /\ d = n - i
    BY <2>0
  <2>3. j + d = n + 1 /\ j + d <= Len(b.rdfs) + 1
    <3>1. j + d = n + 1
      BY <2>0, <2>1, Zenon
    <3>2. n + 1 <= n + 1
      OBVIOUS
    <3> QED  BY <1>2, <3>1, <3>2, Zenon
  <2>4. RecordPosition(b, j) <= RecordPosition(b, j + d)
    BY <1>1, <2>3, PositionsGrow
  <2> QED  BY <2>1, <2>3, <2>4
<1> QED  BY <1>1, <1>2, <1>3, <1>4

\* Block_DeleteRecordByRDF keeps a block good and removes one key.
LEMMA DeleteIsGood ==
  ASSUME NEW b, GoodBlock(b), NEW i \in 1..Len(b.rdfs)
  PROVE  /\ GoodBlock(DeleteRecordByRDF(b, i, RecordPosition(b, i)))
         /\ DeleteRecordByRDF(b, i, RecordPosition(b, i)).dirty
         /\ KeysIn(DeleteRecordByRDF(b, i, RecordPosition(b, i)))
              = KeysIn(b) \ {b.rdfs[i].key}
<1>1. /\ b.location \in Nat /\ b.free \in Nat /\ b.rdfs \in Seq(RDFs) /\ b.data \in Seq(Nat)
      /\ b.location = Len(b.data)
      /\ b.location + b.free + RDFSize * Len(b.rdfs) = CIDFOffset
      /\ RecordPosition(b, Len(b.rdfs) + 1) = b.location /\ UniqueKeys(b.rdfs)
  BY DEF GoodBlock, BlockSet
<1>2. PICK n \in Nat : n = Len(b.rdfs) /\ i \in Nat /\ 1 <= i /\ i <= n /\ i \in 1..n
  BY <1>1, LenProperties
<1>3. PICK p \in Nat, len \in Nat, loc \in Nat, f \in Nat :
        /\ p = RecordPosition(b, i) /\ len = b.rdfs[i].len
        /\ loc = b.location /\ f = b.free
        /\ RecordPosition(b, i + 1) = p + len /\ p + len <= loc
  BY <1>1, RecordIsInside
<1> DEFINE c == DeleteRecordByRDF(b, i, p)
<1>4. /\ c.location = loc - len /\ c.free = f + len + RDFSize /\ c.dirty = TRUE
      /\ c.rdfs = SeqExt!RemoveAt(b.rdfs, i)
      /\ c.data = SubSeq(b.data, 1, p) \o SubSeq(b.data, p + len + 1, loc)
      /\ c = [location |-> c.location, free |-> c.free, dirty |-> TRUE,
              rdfs |-> c.rdfs, data |-> c.data]
  BY <1>3 DEF DeleteRecordByRDF
<1> HIDE DEF c
<1>5. /\ c.rdfs \in Seq(RDFs) /\ Len(c.rdfs) = n - 1
      /\ \A j \in 1..(i - 1) : c.rdfs[j] = b.rdfs[j]
      /\ \A j \in i..(n - 1) : c.rdfs[j] = b.rdfs[j + 1]
  <2>1. PICK s \in Seq(RDFs) : s = b.rdfs
    BY <1>1
  <2>2. i \in 1..Len(s)
    BY <2>1
  <2>3. /\ SeqExt!RemoveAt(s, i) \in Seq(RDFs) /\ Len(SeqExt!RemoveAt(s, i)) = Len(s) - 1
        /\ \A j \in 1..(i - 1) : SeqExt!RemoveAt(s, i)[j] = s[j]
        /\ \A j \in i..(Len(s) - 1) : SeqExt!RemoveAt(s, i)[j] = s[j + 1]
    BY <2>2, RemoveAtIs
  <2> QED  BY <1>2, <1>4, <2>1, <2>3, Zenon
<1>6. c.data \in Seq(Nat) /\ Len(c.data) = loc - len
  <2>1. PICK s \in Seq(Nat) : s = b.data /\ Len(s) = loc
    BY <1>1, <1>3
  <2> DEFINE u == SubSeq(s, 0 + 1, p)
             v == SubSeq(s, (p + len) + 1, loc)
  <2>2. u \in Seq(Nat) /\ Len(u) = p - 0
    <3>1. 0 <= p /\ p <= Len(s) /\ 0 \in Nat
      BY SMTT(30), <1>3, <2>1
    <3> QED  BY <3>1, SubSeqIs
  <2>3. v \in Seq(Nat) /\ Len(v) = loc - (p + len)
    <3>1. p + len \in Nat /\ p + len <= loc /\ loc <= Len(s)
      BY SMTT(30), <1>3, <2>1
    <3> QED  BY <3>1, SubSeqIs
  <2>4. c.data = u \o v
    BY <1>4, <2>1
  <2> HIDE DEF u, v
  <2>5. u \o v \in Seq(Nat) /\ Len(u \o v) = Len(u) + Len(v)
    BY <2>2, <2>3, JoinIs
  <2>6. Len(u) + Len(v) = loc - len
    <3>1. (p - 0) + (loc - (p + len)) = loc - len
      BY <1>3, LengthsAfterDelete
    <3> QED  BY <2>2, <2>3, <3>1
  <2> QED  BY <2>4, <2>5, <2>6
<1>7. /\ RDFSize \in Nat /\ RDFSize * (n - 1) \in Nat
      /\ RDFSize * n = RDFSize * (n - 1) + RDFSize
  <2>1. PICK m \in Nat : m = n - 1 /\ m + 1 = n
    <3>1. n - 1 \in Nat /\ (n - 1) + 1 = n
      BY <1>2
    <3> QED  BY <3>1
  <2>2. RDFSize \in Nat /\ RDFSize * m \in Nat /\ RDFSize * (m + 1) = RDFSize * m + RDFSize
    BY RDFTimes
  <2> QED  BY <2>1, <2>2
<1>8. c.location \in Nat /\ c.free \in Nat
  <2>1. loc - len \in Nat /\ f + len + RDFSize \in Nat
    BY <1>3, <1>7, LengthsAfterDelete
  <2> QED  BY <1>4, <2>1
<1>9. c \in BlockSet
  BY <1>4, <1>5, <1>6, <1>8 DEF BlockSet
<1>10. c.location + c.free + RDFSize * Len(c.rdfs) = CIDFOffset
  <2>1. PICK t \in Nat : t = RDFSize * (n - 1) /\ RDFSize * n = t + RDFSize
    BY <1>7
  <2>2. loc + f + (t + RDFSize) = CIDFOffset
    BY <1>1, <1>2, <1>3, <2>1
  <2>3. (loc - len) + (f + len + RDFSize) + t = loc + f + (t + RDFSize)
    <3>1. RDFSize \in Nat
      BY <1>7
    <3> QED  BY <3>1, CountsAfterDelete
  <2>4. RDFSize * Len(c.rdfs) = t
    BY <1>5, <2>1
  <2> QED  BY <1>4, <2>2, <2>3, <2>4
<1>11. RecordPosition(c, Len(c.rdfs) + 1) = c.location
  <2>1. /\ i - 1 \in Nat /\ 1 + (i - 1) = i /\ i - 1 <= n - 1 /\ i - 1 <= n
        /\ n - i \in Nat /\ i + (n - i) = n /\ (i + 1) + (n - i) = n + 1
        /\ i + 1 \in Nat \ {0} /\ i \in Nat \ {0} /\ n <= (n - 1) + 1
    BY ZenonT(30), <1>2, Rest
  <2>2. PICK d \in Nat, e \in Nat : d = i - 1 /\ e = n - i
    BY <2>1
  <2>3. /\ d <= n /\ d <= n - 1 /\ 1 + d = i /\ i + e = n /\ (i + 1) + e = n + 1
        /\ i + 1 \in Nat \ {0} /\ i \in Nat \ {0}
        /\ (i + 1) + e <= n + 1 /\ i + e <= (n - 1) + 1
    BY <2>1, <2>2
  <2>11. d <= Len(b.rdfs) /\ d <= Len(c.rdfs)
    BY <1>2, <1>5, <2>3
  <2>4. RecordPosition(c, i) = p
    <3>1. SameLengths(b, 1, c, 1, d)
      <4>1. \A x \in 0..(d - 1) : 1 + x \in 1..(i - 1)
        BY <1>2, <2>2
      <4> QED  BY <1>5, <4>1 DEF SameLengths
    <3>2. RecordPosition(c, 1 + d) = RecordPosition(b, 1 + d)
      BY <1>1, <1>5, <2>11, <3>1, SamePositions
    <3> QED  BY <1>3, <2>3, <3>2
  <2>5. AdvanceAlike(b, i + 1, c, i, e)
    <3>1. SameLengths(b, i + 1, c, i, e)
      <4>1. ASSUME NEW x \in 0..(e - 1) PROVE b.rdfs[i + 1 + x].len = c.rdfs[i + x].len
        <5>1. i + x \in i..(n - 1) /\ (i + x) + 1 = i + 1 + x
          BY <1>2, <2>2
        <5> QED  BY <1>5, <5>1
      <4> QED  BY <4>1 DEF SameLengths
    <3>2. PICK i2 \in Nat \ {0} : i2 = i + 1
      BY <2>3
    <3>3. SameLengths(b, i2, c, i, e)
      BY <3>1, <3>2
    <3>4. i2 + e <= Len(b.rdfs) + 1 /\ i + e <= Len(c.rdfs) + 1
      BY <1>2, <1>5, <2>3, <3>2
    <3>5. AdvanceAlike(b, i2, c, i, e)
      BY <1>1, <1>5, <2>3, <3>3, <3>4, PositionsMove
    <3> QED  BY <3>2, <3>5
  <2>6. RecordPosition(c, i + e) + RecordPosition(b, i + 1)
          = RecordPosition(b, (i + 1) + e) + RecordPosition(c, i)
    BY <2>5 DEF AdvanceAlike
  <2>7. PICK x \in Nat : x = RecordPosition(c, i + e)
    <3>1. i + e \in 1..(Len(c.rdfs) + 1)
      BY <1>2, <1>5, <2>3
    <3> QED  BY <1>5, <3>1, PositionsInNat
  <2>8. x + (p + len) = loc + p
    <3>1. (i + 1) + e = Len(b.rdfs) + 1
      BY <1>2, <2>3
    <3> QED  BY <1>1, <1>3, <2>4, <2>6, <2>7, <3>1, Zenon
  <2>9. x = loc - len
    BY <2>8, PositionAfterDelete
  <2>10. Len(c.rdfs) + 1 = i + e
    BY <1>2, <1>5, <2>3
  <2> QED  BY <1>4, <2>7, <2>9, <2>10
<1>12. ASSUME NEW j \in 1..(n - 1)
       PROVE  /\ c.rdfs[j] = b.rdfs[IF j < i THEN j ELSE j + 1]
              /\ (IF j < i THEN j ELSE j + 1) \in (1..n) \ {i}
  <2>1. CASE j < i
    <3>1. j \in 1..(i - 1)
      BY <1>2, <2>1
    <3> QED  BY <1>2, <1>5, <2>1, <3>1
  <2>2. CASE ~(j < i)
    <3>1. j \in i..(n - 1)
      BY <1>2, <2>2
    <3> QED  BY <1>2, <1>5, <2>2, <3>1
  <2> QED  BY <2>1, <2>2
<1>13. UniqueKeys(c.rdfs)
  <2> SUFFICES ASSUME NEW j \in 1..(n - 1), NEW k \in 1..(n - 1), c.rdfs[j].key = c.rdfs[k].key
               PROVE  j = k
    BY <1>5 DEF UniqueKeys
  <2>1. PICK x \in 1..n, y \in 1..n :
          /\ x = (IF j < i THEN j ELSE j + 1) /\ y = (IF k < i THEN k ELSE k + 1)
          /\ c.rdfs[j] = b.rdfs[x] /\ c.rdfs[k] = b.rdfs[y]
    BY <1>12
  <2>2. x = y
    BY <1>1, <1>2, <2>1 DEF UniqueKeys
  <2> QED  BY <1>2, <2>1, <2>2
<1>14. KeysIn(c) = KeysIn(b) \ {b.rdfs[i].key}
  <2>1. KeysIn(c) \subseteq KeysIn(b) \ {b.rdfs[i].key}
    <3> SUFFICES ASSUME NEW j \in 1..(n - 1)
                 PROVE  c.rdfs[j].key \in KeysIn(b) /\ c.rdfs[j].key # b.rdfs[i].key
      BY <1>5 DEF KeysIn
    <3>1. PICK k \in (1..n) \ {i} : c.rdfs[j] = b.rdfs[k]
      BY <1>12
    <3> QED  BY <1>1, <1>2, <3>1 DEF KeysIn, UniqueKeys
  <2>2. KeysIn(b) \ {b.rdfs[i].key} \subseteq KeysIn(c)
    <3>0. /\ KeysIn(b) = {b.rdfs[j].key : j \in 1..n}
          /\ KeysIn(c) = {c.rdfs[j].key : j \in 1..(n - 1)}
      BY <1>2, <1>5 DEF KeysIn
    <3> SUFFICES ASSUME NEW j \in 1..n, b.rdfs[j].key # b.rdfs[i].key
                 PROVE  \E k \in 1..(n - 1) : b.rdfs[j].key = c.rdfs[k].key
      BY <3>0
    <3>1. CASE j < i
      <4>1. j \in 1..(n - 1) /\ j \in 1..(i - 1)
        BY <1>2, <3>1
      <4> QED  BY <1>5, <4>1
    <3>2. CASE i < j
      <4>1. j - 1 \in i..(n - 1) /\ (j - 1) + 1 = j /\ j - 1 \in 1..(n - 1)
        BY <1>2, <3>2
      <4>2. c.rdfs[j - 1] = b.rdfs[j]
        BY <1>5, <4>1
      <4> QED  BY <4>1, <4>2
    <3>3. j # i
      OBVIOUS
    <3> QED  BY <1>2, <3>1, <3>2, <3>3
  <2> QED  BY <2>1, <2>2
<1>15. c.location = Len(c.data)
  BY <1>4, <1>6
<1>16. GoodBlock(c)
  BY <1>9, <1>10, <1>11, <1>13, <1>15 DEF GoodBlock
<1> QED  BY <1>3, <1>4, <1>14, <1>16 DEF c

\* A block with the RDFs and counters of a good block and as many data bytes.
LEMMA SameLayout ==
  ASSUME NEW b, GoodBlock(b), NEW c \in BlockSet, c.location = b.location, c.free = b.free,
         c.rdfs = b.rdfs, Len(c.data) = Len(b.data)
  PROVE  GoodBlock(c) /\ KeysIn(c) = KeysIn(b)
<1>1. \A i : RecordPosition(c, i) = RecordPosition(b, i)
  BY DEF RecordPosition
<1>2. KeysIn(c) = KeysIn(b)
  BY DEF KeysIn
<1>3. GoodBlock(c)
  BY <1>1 DEF GoodBlock
<1> QED  BY <1>2, <1>3

\* Block_ContainsKey finds the one RDF of a key that is there.
LEMMA FoundKey ==
  ASSUME NEW b, GoodBlock(b), NEW k \in KeysIn(b)
  PROVE  \E i \in 1..Len(b.rdfs) :
           b.rdfs[i].key = k /\ ContainsKey(b, k) = [rdf |-> i, position |-> RecordPosition(b, i)]
<1> DEFINE F == {i \in 1..NumRDFs(b) : b.rdfs[i].key = k}
<1>1. NumRDFs(b) = Len(b.rdfs) /\ Len(b.rdfs) \in Nat /\ UniqueKeys(b.rdfs)
  BY GoodIsWellFormed DEF GoodBlock
<1>2. PICK i \in 1..Len(b.rdfs) : b.rdfs[i].key = k
  BY DEF KeysIn
<1>3. F = {i}
  BY <1>1, <1>2 DEF UniqueKeys
<1>4. i <= i
  BY <1>1
<1>5. F # {} /\ \E x \in F : \A j \in F : x <= j
  BY <1>3, <1>4
<1>6. \E x \in F : ContainsKey(b, k) = [rdf |-> x, position |-> RecordPosition(b, x)]
  BY <1>5, Zenon DEF ContainsKey
<1> QED  BY <1>2, <1>3, <1>6

\* Block_DeleteRecordByKey of a key that is there.
LEMMA DeleteByKeyIsGood ==
  ASSUME NEW b, GoodBlock(b), NEW k \in KeysIn(b)
  PROVE  /\ GoodBlock(DeleteRecordByKey(b, k)) /\ DeleteRecordByKey(b, k).dirty
         /\ KeysIn(DeleteRecordByKey(b, k)) = KeysIn(b) \ {k}
<1>1. PICK i \in 1..Len(b.rdfs) :
        b.rdfs[i].key = k /\ ContainsKey(b, k) = [rdf |-> i, position |-> RecordPosition(b, i)]
  BY FoundKey
<1>2. Len(b.rdfs) \in Nat
  BY GoodIsWellFormed
<1>3. i # 0
  BY <1>2
<1>4. DeleteRecordByKey(b, k) = DeleteRecordByRDF(b, i, RecordPosition(b, i))
  BY <1>1, <1>3 DEF DeleteRecordByKey
<1>5. /\ GoodBlock(DeleteRecordByRDF(b, i, RecordPosition(b, i)))
      /\ DeleteRecordByRDF(b, i, RecordPosition(b, i)).dirty
      /\ KeysIn(DeleteRecordByRDF(b, i, RecordPosition(b, i))) = KeysIn(b) \ {b.rdfs[i].key}
  BY DeleteIsGood
<1> QED  BY <1>1, <1>4, <1>5

LEMMA LengthsAfterReplace ==
  ASSUME NEW l \in Nat, NEW p \in Nat, NEW n \in Nat, p + n <= l
  PROVE  (p - 0) + n + (l - (p + n)) = l
OBVIOUS

\* Block_UpdateRecord of a key that is there: done, or the record is gone.
IsUpdate(u, b, k) ==
  /\ u.ok \in BOOLEAN /\ GoodBlock(u.block) /\ u.block.dirty
  /\ u.ok => KeysIn(u.block) = KeysIn(b)
  /\ ~u.ok => KeysIn(u.block) = KeysIn(b) \ {k}

LEMMA UpdateIsGood ==
  ASSUME NEW b, GoodBlock(b), NEW k \in KeysIn(b), NEW r \in Seq(Nat)
  PROVE  IsUpdate(UpdateRecord(b, k, r), b, k)
<1>1. PICK i \in 1..Len(b.rdfs) :
        b.rdfs[i].key = k /\ ContainsKey(b, k) = [rdf |-> i, position |-> RecordPosition(b, i)]
  BY FoundKey
<1>2. PICK n \in Nat : n = Len(b.rdfs) /\ i \in 1..n /\ i # 0
  <2>1. Len(b.rdfs) \in Nat
    BY GoodIsWellFormed
  <2> QED  BY <2>1
<1> DEFINE hit == ContainsKey(b, k)
           p == RecordPosition(b, i)
           d == DeleteRecordByRDF(b, i, p)
<1>3. hit.rdf = i /\ hit.position = p
  BY <1>1
<1>4. UpdateRecord(b, k, r) = ReplaceRecord(b, k, r, hit)
  BY <1>2, <1>3 DEF UpdateRecord, UpdateFound
<1>5. CASE b.rdfs[i].len = Len(r)
  <2> DEFINE dat == SubSeq(b.data, 1, p) \o r \o SubSeq(b.data, p + Len(r) + 1, b.location)
             c == [location |-> b.location, free |-> b.free, dirty |-> TRUE,
                   rdfs |-> b.rdfs, data |-> dat]
  <2>1. b \in BlockSet /\ b.data \in Seq(Nat) /\ b.location = Len(b.data) /\ b.location \in Nat
    BY DEF GoodBlock, BlockSet
  <2>2. p \in Nat /\ Len(r) \in Nat /\ p + Len(r) \in Nat /\ p + Len(r) <= b.location
    <3>1. p \in Nat /\ b.rdfs[i].len \in Nat /\ p + b.rdfs[i].len <= b.location
      BY RecordIsInside
    <3> QED  BY <1>5, <3>1
  <2> HIDE DEF p
  <2>3. dat \in Seq(Nat) /\ Len(dat) = Len(b.data)
    <3>1. PICK s \in Seq(Nat), m \in Nat, l \in Nat : s = b.data /\ m = Len(r) /\ l = Len(s)
      BY <2>1, <2>2
    <3>2. p + m \in Nat /\ p + m <= l /\ p <= l
      BY <2>1, <2>2, <3>1
    <3> DEFINE u == SubSeq(s, 0 + 1, p)
               v == SubSeq(s, (p + m) + 1, l)
    <3>3. u \in Seq(Nat) /\ Len(u) = p - 0
      <4>1. 0 \in Nat /\ 0 <= p /\ p <= Len(s)
        BY <2>2, <3>1, <3>2
      <4> QED  BY <2>2, <4>1, SubSeqIs
    <3>4. v \in Seq(Nat) /\ Len(v) = l - (p + m)
      BY SMTT(30), <3>1, <3>2, SubSeqIs
    <3>5. dat = (u \o r) \o v
      BY <2>1, <3>1
    <3> HIDE DEF u, v, dat
    <3>6. u \o r \in Seq(Nat) /\ Len(u \o r) = Len(u) + m
      BY <3>1, <3>3, JoinIs
    <3>7. (u \o r) \o v \in Seq(Nat) /\ Len((u \o r) \o v) = Len(u \o r) + Len(v)
      BY <3>4, <3>6, JoinIs
    <3>8. (p - 0) + m + (l - (p + m)) = l
      BY ZenonT(30), <2>2, <3>1, <3>2, LengthsAfterReplace
    <3> QED  BY <3>1, <3>3, <3>4, <3>5, <3>6, <3>7, <3>8
  <2>4. ReplaceRecord(b, k, r, hit) = [ok |-> TRUE, block |-> c]
    BY <1>3, <1>5, <2>1 DEF ReplaceRecord, BlockSet
  <2>5. c \in BlockSet
    <3> HIDE DEF dat
    <3> QED  BY <2>1, <2>3 DEF BlockSet
  <2>6. GoodBlock(c) /\ KeysIn(c) = KeysIn(b)
    <3> HIDE DEF dat
    <3>1. c.location = b.location /\ c.free = b.free /\ c.rdfs = b.rdfs /\ Len(c.data) = Len(b.data)
      BY <2>3
    <3> HIDE DEF c
    <3> QED  BY <2>5, <3>1, SameLayout
  <2>7. c.dirty
    OBVIOUS
  <2> HIDE DEF c
  <2> QED  BY <1>4, <2>4, <2>6, <2>7 DEF IsUpdate
<1>6. CASE b.rdfs[i].len # Len(r)
  <2>1. GoodBlock(d) /\ d.dirty /\ KeysIn(d) = KeysIn(b) \ {k}
    BY <1>1, DeleteIsGood
  <2>2. ReplaceRecord(b, k, r, hit) = WriteIfFits(d, k, r)
    BY <1>3, <1>6 DEF ReplaceRecord
  <2> HIDE DEF d
  <2>3. CASE Fits(d, r)
    <3>1. WriteIfFits(d, k, r) = [ok |-> TRUE, block |-> WriteRecord(d, k, r)]
      BY <2>3 DEF WriteIfFits
    <3>2. k \in Nat /\ k \notin KeysIn(d)
      <4>1. b.rdfs \in Seq(RDFs)
        BY DEF GoodBlock, BlockSet
      <4>2. b.rdfs[i] \in RDFs
        BY <4>1, ElementOfSeq
      <4> QED  BY <1>1, <2>1, <4>2 DEF RDFs
    <3>3. /\ GoodBlock(WriteRecord(d, k, r)) /\ WriteRecord(d, k, r).dirty
          /\ KeysIn(WriteRecord(d, k, r)) = KeysIn(d) \cup {k}
      BY <2>1, <2>3, <3>2, WriteRecordIsGood
    <3>4. KeysIn(WriteRecord(d, k, r)) = KeysIn(b)
      BY <2>1, <3>3
    <3> DEFINE u == [ok |-> TRUE, block |-> WriteRecord(d, k, r)]
    <3>5. u.ok = TRUE /\ u.block = WriteRecord(d, k, r)
      OBVIOUS
    <3> HIDE DEF u
    <3>6. IsUpdate(u, b, k)
      BY <3>3, <3>4, <3>5 DEF IsUpdate
    <3> QED  BY <1>4, <2>2, <3>1, <3>6 DEF u
  <2>4. CASE ~Fits(d, r)
    <3>1. WriteIfFits(d, k, r) = [ok |-> FALSE, block |-> d]
      <4>1. Fits(d, r) = FALSE
        BY <2>4 DEF Fits
      <4> QED  BY <4>1 DEF WriteIfFits
    <3> QED  BY <1>4, <2>1, <2>2, <3>1 DEF IsUpdate
  <2> QED  BY <2>3, <2>4
<1> QED  BY <1>5, <1>6

\* Block_GetRecords reads every record, decompressed.
LEMMA RecordsRead ==
  ASSUME NEW b, GoodBlock(b)
  PROVE  /\ Len(GetRecords(b)) = Len(b.rdfs)
         /\ \A i \in 1..Len(b.rdfs) :
              /\ GetRecords(b)[i].key \in KeysIn(b) /\ GetRecords(b)[i].rec \in Seq(Nat)
              /\ GetRecords(b)[i].key = b.rdfs[i].key
<1>1. /\ b.location \in Nat /\ b.free \in Nat /\ b.rdfs \in Seq(RDFs) /\ b.data \in Seq(Nat)
      /\ b.location = Len(b.data)
  BY DEF GoodBlock, BlockSet
<1>2. PICK n \in Nat : n = Len(b.rdfs) /\ NumRDFs(b) = n
  BY GoodIsWellFormed
<1>3. ASSUME NEW i \in 1..n
      PROVE  /\ GetRecords(b)[i].key \in KeysIn(b) /\ GetRecords(b)[i].rec \in Seq(Nat)
             /\ GetRecords(b)[i].key = b.rdfs[i].key
  <2>1. PICK p \in Nat, len \in Nat, loc \in Nat, f \in Nat :
          /\ p = RecordPosition(b, i) /\ len = b.rdfs[i].len
          /\ loc = b.location /\ f = b.free /\ p + len <= loc
    BY <1>1, <1>2, RecordIsInside
  <2>2. PICK s \in Seq(Nat) : s = StoredRecord(b, i)
    <3>1. PICK d \in Seq(Nat) : d = b.data /\ Len(d) = loc
      BY <1>1, <2>1
    <3>2. PICK q \in Nat : q = p + len
      BY <2>1
    <3>3. p <= q /\ q <= Len(d)
      BY <2>1, <3>1, <3>2
    <3>4. SubSeq(d, p + 1, q) \in Seq(Nat)
      BY <3>3, SubSeqIs
    <3> QED  BY <2>1, <3>1, <3>2, <3>4 DEF StoredRecord
  <2>3. GetRecords(b)[i].key = b.rdfs[i].key /\ GetRecords(b)[i].rec = Unpacked(s)
    BY <1>2, <2>2 DEF GetRecords
  <2>4. Unpacked(s) \in Seq(Nat)
    BY BlockAssumption DEF Unpacked
  <2>5. b.rdfs[i].key \in KeysIn(b)
    BY <1>2 DEF KeysIn
  <2> QED  BY <2>3, <2>4, <2>5
<1>4. Len(GetRecords(b)) = n
  BY <1>2 DEF GetRecords
<1> QED  BY <1>2, <1>3, <1>4

(***************************************************************************)
(* Free space.                                                             *)
(***************************************************************************)

LEMMA FreeAfterDelete ==
  ASSUME NEW b, GoodBlock(b), NEW k \in KeysIn(b)
  PROVE  DeleteRecordByKey(b, k).free >= b.free
<1>1. PICK i \in 1..Len(b.rdfs) :
        b.rdfs[i].key = k /\ ContainsKey(b, k) = [rdf |-> i, position |-> RecordPosition(b, i)]
  BY FoundKey
<1>2. Len(b.rdfs) \in Nat
  BY GoodIsWellFormed
<1>3. i # 0
  BY <1>2
<1>4. DeleteRecordByKey(b, k) = DeleteRecordByRDF(b, i, RecordPosition(b, i))
  BY <1>1, <1>3 DEF DeleteRecordByKey
<1>5. DeleteRecordByKey(b, k).free = b.free + b.rdfs[i].len + RDFSize
  BY <1>4 DEF DeleteRecordByRDF
<1>6. b.free \in Nat /\ b.rdfs[i].len \in Nat /\ RDFSize \in Nat
  BY RecordIsInside, BlockAssumption DEF GoodBlock, BlockSet
<1> QED  BY <1>5, <1>6

\* What the first j records of a block take with their RDFs.
Used(b, j) == RecordPosition(b, j + 1) + RDFSize * j

LEMMA TimesGrow ==
  ASSUME NEW a \in Nat, NEW j \in Nat, NEW d \in Nat
  PROVE  a * j \in Nat /\ a * (j + d) \in Nat /\ a * j <= a * (j + d)
<1>1. a * j \in Nat /\ a * d \in Nat /\ a * (j + d) = a * j + a * d
  OBVIOUS
<1> QED  BY <1>1

LEMMA UsedIs ==
  ASSUME NEW b, GoodBlock(b)
  PROVE  /\ Used(b, 0) = 0
         /\ \A j \in 1..Len(b.rdfs) :
              /\ Used(b, j - 1) \in Nat
              /\ Used(b, j) = Used(b, j - 1) + (b.rdfs[j].len + RDFSize)
              /\ Used(b, j) <= CIDFOffset
<1>1. /\ b.location \in Nat /\ b.free \in Nat /\ b.rdfs \in Seq(RDFs)
      /\ b.location + b.free + RDFSize * Len(b.rdfs) = CIDFOffset
      /\ RecordPosition(b, 1) = 0
  BY PositionsAdd DEF GoodBlock, BlockSet
<1>2. PICK n \in Nat : n = Len(b.rdfs)
  BY GoodIsWellFormed
<1>3. PICK z \in Nat : z = RDFSize
  BY BlockAssumption
<1>4. Used(b, 0) = 0
  <2>1. z * 0 = 0 /\ 0 + 1 = 1
    OBVIOUS
  <2> QED  BY <1>1, <1>3, <2>1 DEF Used
<1>5. ASSUME NEW j \in 1..n
      PROVE  /\ Used(b, j - 1) \in Nat
             /\ Used(b, j) = Used(b, j - 1) + (b.rdfs[j].len + RDFSize)
             /\ Used(b, j) <= CIDFOffset
  <2>1. PICK i \in Nat, d \in Nat : i = j - 1 /\ i + 1 = j /\ j + d = n
    <3>1. j - 1 \in Nat /\ (j - 1) + 1 = j /\ n - j \in Nat /\ j + (n - j) = n
      OBVIOUS
    <3> QED  BY <3>1
  <2>2. PICK p \in Nat, len \in Nat : /\ p = RecordPosition(b, j) /\ len = b.rdfs[j].len
                                      /\ RecordPosition(b, j + 1) = p + len
                                      /\ p + len <= b.location
    BY <1>2, RecordIsInside
  <2>3. PICK u \in Nat, v \in Nat, w \in Nat :
          u = z * i /\ v = z * j /\ w = z * n /\ v = u + z /\ v <= w
    <3>1. z * i \in Nat /\ z * j \in Nat /\ z * (j + d) \in Nat /\ z * j <= z * (j + d)
      BY <2>1, TimesGrow
    <3>2. z * (i + 1) = z * i + z
      OBVIOUS
    <3> QED  BY <2>1, <3>1, <3>2
  <2>4. Used(b, j - 1) = p + u
    BY <1>3, <2>1, <2>2, <2>3 DEF Used
  <2>5. Used(b, j) = (p + len) + (u + z)
    BY <1>3, <2>2, <2>3 DEF Used
  <2>6. (p + len) + (u + z) = (p + u) + (len + z) /\ p + u \in Nat
    OBVIOUS
  <2>7. (p + len) + (u + z) <= CIDFOffset
    <3>1. PICK l \in Nat, f \in Nat : l = b.location /\ f = b.free
      BY <1>1
    <3>2. l + f + w = CIDFOffset
      BY <1>1, <1>2, <1>3, <2>3, <3>1
    <3>3. p + len <= l
      BY <2>2, <3>1
    <3>4. u + z <= w
      BY <2>3
    <3> QED  BY <3>2, <3>3, <3>4
  <2>8. b.rdfs[j].len + RDFSize = len + z
    BY <1>3, <2>2
  <2> QED  BY <2>4, <2>5, <2>6, <2>7, <2>8
<1> QED  BY <1>2, <1>4, <1>5
=============================================================================
