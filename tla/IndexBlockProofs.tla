-------------------------- MODULE IndexBlockProofs --------------------------
(***************************************************************************)
(* Proofs about IndexBlock, for any number of X's, any block and cache     *)
(* size: the cache is the file, its linked list is the order of use, the   *)
(* free space of every block is counted right, and blocks, cache and free  *)
(* counters implement SlotFile.                                            *)
(***************************************************************************)
EXTENDS IndexBlock, FiniteSetTheorems, SequenceTheorems, WellFoundedInduction, TLAPS

(***************************************************************************)
(* The smallest element of a set.                                          *)
(***************************************************************************)

Less == {p \in Nat \X Nat : p[1] < p[2]}

LEMMA LessIsWellFounded == IsWellFoundedOn(Less, Nat)
  BY NatLessThanWellFounded DEF OpToRel, Less

LEMMA MinIsLeast ==
  ASSUME NEW S \in SUBSET Nat, S # {}
  PROVE  Sets!Min(S) \in S /\ \A y \in S : Sets!Min(S) <= y
<1>1. PICK x \in S : \A y \in S : ~(<<y, x>> \in Less)
  BY WFMin, LessIsWellFounded
<1>2. ASSUME NEW y \in S PROVE x <= y
  <2>1. ~(y < x)
    BY <1>1 DEF Less
  <2> QED  BY <2>1
<1> QED  BY <1>2 DEF Sets!Min

(***************************************************************************)
(* Sequences without repetition.                                           *)
(***************************************************************************)

Distinct(s) == \A i, j \in 1..Len(s) : s[i] = s[j] => i = j
Elements(s) == {s[i] : i \in 1..Len(s)}

\* s without its p-th element.
Skips(s, p, t) ==
  /\ Len(t) = Len(s) - 1
  /\ \A i \in 1..(Len(s) - 1) : t[i] = IF i < p THEN s[i] ELSE s[i + 1]

LEMMA WithoutAbsent ==
  ASSUME NEW S, NEW s \in Seq(S), NEW b, b \notin Elements(s)
  PROVE  Without(s, b) = s
  BY DEF Without, Seqs!Contains, Elements

LEMMA WithoutPresent ==
  ASSUME NEW S, NEW s \in Seq(S), Distinct(s), NEW p \in 1..Len(s)
  PROVE  /\ Without(s, s[p]) \in Seq(S)
         /\ Skips(s, p, Without(s, s[p]))
<1>1. Len(s) \in Nat /\ \A i \in 1..Len(s) : s[i] \in S
  BY LenProperties
<1>2. Without(s, s[p]) = SubSeq(s, 1, p - 1) \o SubSeq(s, p + 1, Len(s))
  <2>1. (CHOOSE i \in 1..Len(s) : s[i] = s[p]) = p
    BY DEF Distinct
  <2> QED  BY <2>1 DEF Without, Seqs!Contains, Seqs!RemoveAt
<1> DEFINE u == SubSeq(s, 1, p - 1)
           v == SubSeq(s, p + 1, Len(s))
<1>3. /\ u \in Seq(S) /\ Len(u) = p - 1
      /\ \A i \in 1..(p - 1) : u[i] = s[i]
  <2>1. /\ u \in Seq(S) /\ Len(u) = IF 1 <= p - 1 THEN p - 1 - 1 + 1 ELSE 0
        /\ \A i \in 1..(p - 1 - 1 + 1) : u[i] = s[1 + i - 1]
    BY <1>1, SubSeqProperties
  <2> HIDE DEF u
  <2> QED  BY <1>1, <2>1
<1>4. /\ v \in Seq(S) /\ Len(v) = Len(s) - p
      /\ \A i \in 1..(Len(s) - p) : v[i] = s[p + i]
  <2>1. /\ v \in Seq(S) /\ Len(v) = IF p + 1 <= Len(s) THEN Len(s) - (p + 1) + 1 ELSE 0
        /\ \A i \in 1..(Len(s) - (p + 1) + 1) : v[i] = s[p + 1 + i - 1]
    BY <1>1, SubSeqProperties
  <2> HIDE DEF v
  <2> QED  BY <1>1, <2>1
<1> HIDE DEF u, v
<1>5. /\ u \o v \in Seq(S) /\ Len(u \o v) = Len(s) - 1
      /\ \A i \in 1..(Len(s) - 1) : (u \o v)[i] = IF i <= p - 1 THEN u[i] ELSE v[i - (p - 1)]
  <2>1. /\ u \o v \in Seq(S) /\ Len(u \o v) = Len(u) + Len(v)
        /\ \A i \in 1..(Len(u) + Len(v)) :
             (u \o v)[i] = IF i <= Len(u) THEN u[i] ELSE v[i - Len(u)]
    BY <1>3, <1>4, ConcatProperties
  <2>2. Len(u) = p - 1 /\ Len(u) + Len(v) = Len(s) - 1
    BY <1>1, <1>3, <1>4
  <2> QED  BY <2>1, <2>2
<1>6. \A i \in 1..(Len(s) - 1) : (u \o v)[i] = IF i < p THEN s[i] ELSE s[i + 1]
  BY <1>1, <1>3, <1>4, <1>5
<1> QED  BY <1>2, <1>5, <1>6 DEF Skips, u, v

LEMMA SkipsKeeps ==
  ASSUME NEW S, NEW s \in Seq(S), NEW t \in Seq(S), Distinct(s), NEW p \in 1..Len(s),
         Skips(s, p, t)
  PROVE  Distinct(t) /\ Elements(t) = Elements(s) \ {s[p]}
<1>1. Len(s) \in Nat
  BY LenProperties
<1>2. Distinct(t)
  BY <1>1 DEF Distinct, Skips
<1>3. ASSUME NEW i \in 1..Len(t) PROVE t[i] \in Elements(s) \ {s[p]}
  BY <1>1, <1>3 DEF Distinct, Skips, Elements
<1>4. ASSUME NEW i \in 1..Len(s), s[i] # s[p] PROVE s[i] \in Elements(t)
  <2>1. CASE i < p
    BY <1>1, <2>1 DEF Skips, Elements
  <2>2. CASE i > p
    <3>1. i - 1 \in 1..Len(t) /\ t[i - 1] = s[i]
      BY <1>1, <2>2 DEF Skips
    <3> QED  BY <3>1 DEF Elements
  <2>3. i \in Int /\ p \in Int /\ i # p
    BY <1>4
  <2> QED  BY <2>1, <2>2, <2>3
<1> QED  BY <1>2, <1>3, <1>4 DEF Elements

LEMMA AppendKeeps ==
  ASSUME NEW S, NEW s \in Seq(S), NEW x \in S, Distinct(s), x \notin Elements(s)
  PROVE  /\ Append(s, x) \in Seq(S) /\ Distinct(Append(s, x))
         /\ Elements(Append(s, x)) = Elements(s) \cup {x}
  BY AppendProperties, LenProperties DEF Distinct, Elements

\* A sequence that repeats nothing is as long as the set of its elements.
LEMMA DistinctLength ==
  ASSUME NEW S, NEW s \in Seq(S), Distinct(s)
  PROVE  IsFiniteSet(Elements(s)) /\ Cardinality(Elements(s)) = Len(s)
<1>1. Len(s) \in Nat /\ IsFiniteSet(1..Len(s)) /\ Cardinality(1..Len(s)) = Len(s)
  <2>1. Len(s) \in Nat
    BY LenProperties
  <2>2. /\ IsFiniteSet(1..Len(s))
        /\ Cardinality(1..Len(s)) = IF 1 > Len(s) THEN 0 ELSE Len(s) - 1 + 1
    BY <2>1, FS_Interval
  <2> QED  BY <2>1, <2>2
<1>2. ExistsBijection(1..Len(s), Elements(s))
  <2> DEFINE f == [i \in 1..Len(s) |-> s[i]]
  <2>1. f \in [1..Len(s) -> Elements(s)]
    BY DEF Elements
  <2>2. \A i, j \in 1..Len(s) : f[i] = f[j] => i = j
    BY DEF Distinct
  <2>3. \A e \in Elements(s) : \E i \in 1..Len(s) : f[i] = e
    BY DEF Elements
  <2> HIDE DEF f
  <2>4. f \in Bijection(1..Len(s), Elements(s))
    BY <2>1, <2>2, <2>3 DEF Bijection, Injection, Surjection, IsInjective
  <2> QED  BY <2>4 DEF ExistsBijection
<1> QED  BY <1>1, <1>2, FS_Bijection

(***************************************************************************)
(* The linked list of the LRU cache.                                       *)
(***************************************************************************)

\* The neighbours of the i-th element of s.
Before(s, i) == IF i = 1 THEN None ELSE s[i - 1]
After(s, i)  == IF i = Len(s) THEN None ELSE s[i + 1]

LEMMA Neighbours ==
  ASSUME NEW s \in Seq(Nat), Distinct(s), NEW i \in 1..Len(s)
  PROVE  /\ i = 1 => Before(s, i) = None
         /\ i # 1 => Before(s, i) = s[i - 1]
         /\ i = Len(s) => After(s, i) = None
         /\ i # Len(s) => After(s, i) = s[i + 1]
         /\ \A j \in 1..Len(s) : ((s[j] = After(s, i)) <=> (j = i + 1))
         /\ \A j \in 1..Len(s) : ((s[j] = Before(s, i)) <=> (j = i - 1))
<1>1. Len(s) \in Nat /\ \A j \in 1..Len(s) : s[j] \in Nat /\ s[j] # None
  BY LenProperties, IndexBlockAssumption
<1> QED  BY <1>1 DEF Before, After, Distinct

\* IsChain field by field.
Linked(c, s) ==
  /\ LRU!CachedKeys(c) = Elements(s)
  /\ Len(s) = 0 => c.first = None /\ c.last = None
  /\ Len(s) # 0 => c.first = s[1] /\ c.last = s[Len(s)]
  /\ \A i \in 1..Len(s) : c.crec[s[i]] = [prev |-> Before(s, i), next |-> After(s, i)]

LEMMA ChainIsLinked ==
  ASSUME NEW c, NEW s \in Seq(Nat)
  PROVE  LRU!IsChain(c, s) <=> Linked(c, s)
<1>1. Len(s) \in Nat /\ DOMAIN s = 1..Len(s)
  BY LenProperties
<1>2. ((s = <<>>) <=> (Len(s) = 0))
  BY EmptySeq
<1>3. (LRU!CachedKeys(c) = {s[i] : i \in DOMAIN s}) <=> (LRU!CachedKeys(c) = Elements(s))
  BY <1>1 DEF Elements
<1>4. (\A i \in DOMAIN s :
         c.crec[s[i]] = [prev |-> IF i = 1 THEN None ELSE s[i - 1],
                         next |-> IF i = Len(s) THEN None ELSE s[i + 1]])
      <=> (\A i \in 1..Len(s) : c.crec[s[i]] = [prev |-> Before(s, i), next |-> After(s, i)])
  BY <1>1, Zenon DEF Before, After
<1> QED  BY <1>1, <1>2, <1>3, <1>4, Zenon DEF LRU!IsChain, Linked

LEMMA RemoveLinked ==
  ASSUME NEW c, NEW s \in Seq(Nat), Distinct(s), Linked(c, s), NEW p \in 1..Len(s),
         NEW t \in Seq(Nat), Skips(s, p, t)
  PROVE  Linked(LRU!Remove(c, s[p]), t)
<1>0. PICK n \in Nat : n = Len(s)
  BY LenProperties
<1>a. n \in Int /\ p \in Int /\ 1 <= p /\ p <= n
  BY <1>0
<1> DEFINE x == s[p]
           d == LRU!Remove(c, x)
<1>1. n \in Nat /\ n # 0 /\ \A i \in 1..n : s[i] \in Nat /\ s[i] # None
  BY SMTT(30), <1>0, LenProperties, IndexBlockAssumption
<1>2. /\ x \in LRU!CachedKeys(c) /\ LRU!CachedKeys(c) = Elements(s)
      /\ c.first = s[1] /\ c.last = s[n]
      /\ \A i \in 1..n : c.crec[s[i]] = [prev |-> Before(s, i), next |-> After(s, i)]
  BY <1>0, <1>1 DEF Linked, Elements
<1>3. /\ d.first = IF x = c.first THEN After(s, p) ELSE c.first
      /\ d.last = IF x = c.last THEN Before(s, p) ELSE c.last
      /\ LRU!CachedKeys(d) = Elements(s) \ {x}
      /\ \A y \in Elements(s) \ {x} :
           d.crec[y] = [prev |-> IF y = After(s, p) THEN Before(s, p) ELSE c.crec[y].prev,
                        next |-> IF y = Before(s, p) THEN After(s, p) ELSE c.crec[y].next]
  <2>1. c.crec[x].prev = Before(s, p) /\ c.crec[x].next = After(s, p)
    <3>1. c.crec[x] = [prev |-> Before(s, p), next |-> After(s, p)]
      BY <1>0, <1>2
    <3> QED  BY <3>1
  <2>2. d = LRU!ChangeChain(c, x)
    BY <1>2 DEF LRU!Remove
  <2>3. d = [first |-> IF x = c.first THEN After(s, p) ELSE c.first,
             last |-> IF x = c.last THEN Before(s, p) ELSE c.last,
             crec |-> [y \in Elements(s) \ {x} |->
               [prev |-> IF y = After(s, p) THEN Before(s, p) ELSE c.crec[y].prev,
                next |-> IF y = Before(s, p) THEN After(s, p) ELSE c.crec[y].next]]]
    BY <1>2, <2>1, <2>2, Zenon DEF LRU!ChangeChain
  <2> HIDE DEF d
  <2>4. d.first = (IF x = c.first THEN After(s, p) ELSE c.first)
        /\ d.last = (IF x = c.last THEN Before(s, p) ELSE c.last)
    BY <2>3
  <2>5. d.crec = [y \in Elements(s) \ {x} |->
               [prev |-> IF y = After(s, p) THEN Before(s, p) ELSE c.crec[y].prev,
                next |-> IF y = Before(s, p) THEN After(s, p) ELSE c.crec[y].next]]
    BY <2>3
  <2> QED  BY <2>4, <2>5, Zenon DEF LRU!CachedKeys
<1> HIDE DEF d
<1>4. \A i \in 1..n : i # p =>
        d.crec[s[i]] = [prev |-> IF i = p + 1 THEN Before(s, p) ELSE Before(s, i),
                        next |-> IF i = p - 1 THEN After(s, p) ELSE After(s, i)]
  <2> SUFFICES ASSUME NEW i \in 1..n, i # p
               PROVE  d.crec[s[i]] = [prev |-> IF i = p + 1 THEN Before(s, p) ELSE Before(s, i),
                                      next |-> IF i = p - 1 THEN After(s, p) ELSE After(s, i)]
    OBVIOUS
  <2>1. s[i] \in Elements(s) \ {x}
    BY <1>0 DEF Elements, Distinct
  <2>2. ((s[i] = After(s, p)) <=> (i = p + 1)) /\ ((s[i] = Before(s, p)) <=> (i = p - 1))
    BY <1>0, Neighbours
  <2>3. c.crec[s[i]].prev = Before(s, i) /\ c.crec[s[i]].next = After(s, i)
    <3>1. c.crec[s[i]] = [prev |-> Before(s, i), next |-> After(s, i)]
      BY <1>2
    <3> QED  BY <3>1
  <2>4. d.crec[s[i]] = [prev |-> IF s[i] = After(s, p) THEN Before(s, p) ELSE Before(s, i),
                        next |-> IF s[i] = Before(s, p) THEN After(s, p) ELSE After(s, i)]
    BY <1>3, <2>1, <2>3, Zenon
  <2> QED  BY <2>2, <2>4
<1>5. /\ Len(t) = n - 1 /\ \A i \in 1..(n - 1) : t[i] = IF i < p THEN s[i] ELSE s[i + 1]
      /\ \A i \in 1..(n - 1) : i >= p => t[i] = s[i + 1]
  <2>1. Len(t) = n - 1 /\ \A i \in 1..(n - 1) : t[i] = IF i < p THEN s[i] ELSE s[i + 1]
    BY <1>0 DEF Skips
  <2>2. ASSUME NEW i \in 1..(n - 1), i >= p PROVE t[i] = s[i + 1]
    <3>1. ~(i < p)
      BY <1>a, <2>2
    <3> QED  BY <2>1, <3>1, Zenon
  <2> QED  BY <2>1, <2>2, Zenon
<1>6. Distinct(t) /\ Elements(t) = Elements(s) \ {x}
  BY SkipsKeeps
<1>7. ASSUME NEW i \in 1..(n - 1)
      PROVE  d.crec[t[i]] = [prev |-> Before(t, i), next |-> After(t, i)]
  <2>1. /\ i = 1 => Before(t, i) = None
        /\ i # 1 => Before(t, i) = t[i - 1]
        /\ i = n - 1 => After(t, i) = None
        /\ i # n - 1 => After(t, i) = t[i + 1]
    <3>1. i \in 1..Len(t) /\ Len(t) = n - 1 /\ Distinct(t)
      BY <1>5, <1>6
    <3> QED  BY <3>1, Neighbours
  <2>2. /\ p = 1 => Before(s, p) = None
        /\ p # 1 => Before(s, p) = s[p - 1]
        /\ p = n => After(s, p) = None
        /\ p # n => After(s, p) = s[p + 1]
    BY <1>0, Neighbours
  <2>3. CASE i < p
    <3>1. t[i] = s[i] /\ i \in 1..n /\ i # p /\ i # p + 1
      BY <1>a, <1>1, <1>5, <2>3
    <3>2. d.crec[t[i]] = [prev |-> Before(s, i),
                          next |-> IF i = p - 1 THEN After(s, p) ELSE After(s, i)]
      BY <1>4, <3>1
    <3>3. /\ i = 1 => Before(s, i) = None
          /\ i # 1 => Before(s, i) = s[i - 1]
          /\ i # n => After(s, i) = s[i + 1]
      BY <1>0, <3>1, Neighbours
    <3>4. Before(s, i) = Before(t, i)
      <4>1. CASE i = 1
        BY <2>1, <3>3, <4>1
      <4>2. CASE i # 1
        <5>1. i - 1 \in 1..(n - 1) /\ i - 1 < p
          BY <1>a, <1>1, <2>3, <4>2
        <5>2. t[i - 1] = s[i - 1]
          BY <1>5, <5>1
        <5> QED  BY <2>1, <3>3, <4>2, <5>2
      <4> QED  BY <4>1, <4>2
    <3>5. CASE i = p - 1
      <4>1. CASE p = n
        BY <1>a, <1>1, <2>1, <2>2, <3>2, <3>4, <3>5, <4>1
      <4>2. CASE p # n
        <5>1. p \in 1..(n - 1) /\ i + 1 = p /\ i # n - 1
          BY <1>a, <1>1, <3>5, <4>2
        <5>2. t[i + 1] = s[p + 1]
          BY <1>5, <5>1
        <5> QED  BY <2>1, <2>2, <3>2, <3>4, <3>5, <4>2, <5>1, <5>2
      <4> QED  BY <4>1, <4>2
    <3>6. CASE i # p - 1
      <4>1. i + 1 \in 1..(n - 1) /\ i + 1 < p /\ i # n /\ i # n - 1
        BY <1>a, <1>1, <2>3, <3>6
      <4>2. t[i + 1] = s[i + 1]
        BY <1>5, <4>1
      <4> QED  BY <2>1, <3>2, <3>3, <3>4, <3>6, <4>1, <4>2
    <3> QED  BY <3>5, <3>6
  <2>4. CASE i >= p
    <3>1. t[i] = s[i + 1] /\ i + 1 \in 1..n /\ i + 1 # p /\ i + 1 # p - 1
      BY <1>a, <1>1, <1>5, <2>4
    <3>2. d.crec[t[i]] = [prev |-> IF i + 1 = p + 1 THEN Before(s, p) ELSE Before(s, i + 1),
                          next |-> After(s, i + 1)]
      BY <1>4, <3>1
    <3>3. /\ Before(s, i + 1) = s[i]
          /\ i + 1 = n => After(s, i + 1) = None
          /\ i + 1 # n => After(s, i + 1) = s[i + 2]
      <4>1. i + 1 # 1 /\ i + 1 - 1 = i /\ i + 1 + 1 = i + 2
        OBVIOUS
      <4>2. PICK j \in 1..n : j = i + 1
        BY <3>1
      <4>3. /\ j # 1 => Before(s, j) = s[j - 1]
            /\ j = n => After(s, j) = None
            /\ j # n => After(s, j) = s[j + 1]
        BY <1>0, Neighbours
      <4> QED  BY <4>1, <4>2, <4>3
    <3>4. After(s, i + 1) = After(t, i)
      <4>1. CASE i = n - 1
        BY <1>a, <1>1, <2>1, <3>3, <4>1
      <4>2. CASE i # n - 1
        <5>1. i + 1 \in 1..(n - 1) /\ ~(i + 1 < p) /\ i + 1 # n
          BY <1>a, <1>1, <2>4, <4>2
        <5>2. t[i + 1] = s[i + 2]
          <6>1. PICK j \in 1..(n - 1) : j = i + 1
            BY <5>1
          <6>2. j >= p /\ j + 1 = i + 2
            BY <1>a, <2>4, <6>1
          <6> QED  BY <1>5, <6>1, <6>2
        <5> QED  BY <2>1, <3>3, <4>2, <5>1, <5>2
      <4> QED  BY <4>1, <4>2
    <3>5. CASE i = p
      <4>1. CASE p = 1
        BY <2>1, <2>2, <3>2, <3>4, <3>5, <4>1
      <4>2. CASE p # 1
        <5>1. i - 1 \in 1..(n - 1) /\ i - 1 < p /\ i - 1 = p - 1
          BY <1>a, <1>1, <3>5, <4>2
        <5>2. t[i - 1] = s[p - 1]
          BY <1>5, <5>1
        <5> QED  BY <2>1, <2>2, <3>2, <3>4, <3>5, <4>2, <5>2
      <4> QED  BY <4>1, <4>2
    <3>6. CASE i # p
      <4>1. i - 1 \in 1..(n - 1) /\ ~(i - 1 < p) /\ i # 1 /\ i + 1 # p + 1
        BY <1>a, <1>1, <2>4, <3>6
      <4>2. t[i - 1] = s[i]
        <5>1. PICK j \in 1..(n - 1) : j = i - 1
          BY <4>1
        <5>2. j >= p /\ j + 1 = i
          BY <1>a, <2>4, <3>6, <5>1
        <5> QED  BY <1>5, <5>1, <5>2
      <4> QED  BY <2>1, <3>2, <3>3, <3>4, <3>6, <4>1, <4>2
    <3> QED  BY <3>5, <3>6
  <2> QED  BY <1>a, <2>3, <2>4
<1>8. n - 1 = 0 => d.first = None /\ d.last = None
  <2> SUFFICES ASSUME n - 1 = 0 PROVE d.first = None /\ d.last = None
    OBVIOUS
  <2>1. p = 1 /\ p = n
    BY <1>a
  <2>2. x = c.first /\ x = c.last /\ After(s, p) = None /\ Before(s, p) = None
    BY <1>2, <1>0, <2>1, Neighbours
  <2> QED  BY <1>3, <2>2
<1>9. n - 1 # 0 => d.first = t[1] /\ d.last = t[n - 1]
  <2> SUFFICES ASSUME n - 1 # 0 PROVE d.first = t[1] /\ d.last = t[n - 1]
    OBVIOUS
  <2>1. ((x = c.first) <=> (p = 1)) /\ ((x = c.last) <=> (p = n))
    BY <1>0, <1>a, <1>2 DEF Distinct
  <2>2. t[1] = (IF 1 < p THEN s[1] ELSE s[2]) /\ t[n - 1] = IF n - 1 < p THEN s[n - 1] ELSE s[n]
    <3>1. 1 \in 1..(n - 1) /\ n - 1 \in 1..(n - 1) /\ n - 1 + 1 = n
      BY <1>a
    <3> QED  BY <1>5, <3>1
  <2>3. d.first = t[1]
    <3>1. CASE p = 1
      <4>1. After(s, p) = s[2]
        BY <1>0, <1>a, <3>1, Neighbours
      <4> QED  BY <1>3, <2>1, <2>2, <3>1, <4>1
    <3>2. CASE p # 1
      BY <1>2, <1>3, <2>1, <2>2, <3>2
    <3> QED  BY <3>1, <3>2
  <2>4. d.last = t[n - 1]
    <3>1. CASE p = n
      <4>1. Before(s, p) = s[n - 1] /\ n - 1 < p
        <5>1. p # 1 /\ n - 1 < p /\ p - 1 = n - 1
          BY <1>a, <3>1
        <5> QED  BY <1>0, <5>1, Neighbours
      <4> QED  BY <1>3, <2>1, <2>2, <3>1, <4>1
    <3>2. CASE p # n
      BY <1>a, <1>1, <1>2, <1>3, <2>1, <2>2, <3>2
    <3> QED  BY <3>1, <3>2
  <2> QED  BY <2>3, <2>4
<1> QED  BY <1>0, <1>3, <1>5, <1>6, <1>7, <1>8, <1>9 DEF Linked, d

LEMMA AddLastLinked ==
  ASSUME NEW c, NEW s \in Seq(Nat), Distinct(s), Linked(c, s), NEW x \in Nat, x \notin Elements(s)
  PROVE  Linked(LRU!AddLast(c, x), Append(s, x))
<1> DEFINE n == Len(s)
           t == Append(s, x)
           d == LRU!AddLast(c, x)
<1>1. n \in Nat /\ (\A i \in 1..n : s[i] \in Nat /\ s[i] # None) /\ x # None
  BY LenProperties, IndexBlockAssumption
<1>2. /\ t \in Seq(Nat) /\ Len(t) = n + 1 /\ Distinct(t) /\ Elements(t) = Elements(s) \cup {x}
      /\ t[n + 1] = x /\ \A i \in 1..n : t[i] = s[i]
  BY AppendProperties, AppendKeeps
<1> HIDE DEF t
<1>3. /\ d.first = IF c.first = None THEN x ELSE c.first
      /\ d.last = x
      /\ LRU!CachedKeys(d) = Elements(s) \cup {x}
      /\ d.crec[x] = [prev |-> c.last, next |-> None]
      /\ \A y \in Elements(s) :
           d.crec[y] = IF y = c.last THEN [c.crec[y] EXCEPT !.next = x] ELSE c.crec[y]
  BY DEF LRU!AddLast, LRU!CachedKeys, Linked
<1> HIDE DEF d
<1>4. d.first = t[1] /\ d.last = t[n + 1]
  <2>1. CASE n = 0
    BY <1>2, <1>3, <2>1 DEF Linked
  <2>2. CASE n # 0
    <3>1. 1 \in 1..n
      BY <1>1, <2>2
    <3>2. c.first = t[1] /\ c.first # None
      BY <1>1, <1>2, <2>2, <3>1 DEF Linked
    <3> QED  BY <1>2, <1>3, <3>2
  <2> QED  BY <2>1, <2>2
<1>5. ASSUME NEW i \in 1..(n + 1)
      PROVE  d.crec[t[i]] = [prev |-> Before(t, i), next |-> After(t, i)]
  <2>1. /\ i = 1 => Before(t, i) = None
        /\ i # 1 => Before(t, i) = t[i - 1]
        /\ i = n + 1 => After(t, i) = None
        /\ i # n + 1 => After(t, i) = t[i + 1]
    BY SMTT(30), <1>2, Neighbours
  <2>2. CASE i = n + 1
    <3>1. c.last = Before(t, i)
      <4>1. CASE n = 0
        BY <2>1, <2>2, <4>1 DEF Linked
      <4>2. CASE n # 0
        <5>1. i # 1 /\ i - 1 = n /\ n \in 1..n
          BY <1>1, <2>2, <4>2
        <5> QED  BY <1>2, <2>1, <4>2, <5>1 DEF Linked
      <4> QED  BY <4>1, <4>2
    <3> QED  BY <1>2, <1>3, <2>1, <2>2, <3>1
  <2>3. CASE i # n + 1
    <3>1. i \in 1..n /\ n # 0 /\ n \in 1..n
      BY <1>1, <2>3
    <3>2. t[i] = s[i] /\ s[i] \in Elements(s) /\ c.last = s[n]
      BY <1>2, <3>1 DEF Linked, Elements
    <3>3. c.crec[s[i]] = [prev |-> Before(s, i), next |-> After(s, i)]
      BY <3>1 DEF Linked
    <3>4. Before(s, i) = Before(t, i)
      <4>1. CASE i = 1
        BY <2>1, <3>1, <4>1, Neighbours
      <4>2. CASE i # 1
        <5>1. i - 1 \in 1..n
          BY <3>1, <4>2
        <5> QED  BY <1>2, <2>1, <3>1, <4>2, <5>1, Neighbours
      <4> QED  BY <4>1, <4>2
    <3>5. CASE i = n
      <4>1. d.crec[s[i]] = [prev |-> Before(s, i), next |-> x]
        BY <1>3, <3>2, <3>3, <3>5
      <4> QED  BY <1>2, <2>1, <2>3, <3>2, <3>4, <3>5, <4>1
    <3>6. CASE i # n
      <4>1. s[i] # c.last /\ i + 1 \in 1..n
        BY <1>1, <3>1, <3>2, <3>6 DEF Distinct
      <4>2. After(t, i) = After(s, i)
        BY <1>2, <2>1, <2>3, <3>1, <3>6, <4>1, Neighbours
      <4> QED  BY <1>3, <3>2, <3>3, <3>4, <4>1, <4>2
    <3> QED  BY <3>5, <3>6
  <2> QED  BY <2>2, <2>3
<1>6. n + 1 # 0
  BY <1>1
<1> QED  BY <1>2, <1>3, <1>4, <1>5, <1>6 DEF Linked, t, d

\* LRUCache::put makes x the last of the chain.
LEMMA PutLinked ==
  ASSUME NEW c, NEW s \in Seq(Nat), Distinct(s), Linked(c, s), NEW x \in Nat
  PROVE  /\ Append(Without(s, x), x) \in Seq(Nat) /\ Distinct(Append(Without(s, x), x))
         /\ Elements(Append(Without(s, x), x)) = Elements(s) \cup {x}
         /\ Linked(LRU!Put(c, x), Append(Without(s, x), x))
<1> DEFINE t == Without(s, x)
           d == LRU!Remove(c, x)
<1>1. /\ t \in Seq(Nat) /\ Distinct(t) /\ Elements(t) = Elements(s) \ {x} /\ Linked(d, t)
  <2>1. CASE x \in Elements(s)
    <3>1. PICK p \in 1..Len(s) : s[p] = x
      BY <2>1 DEF Elements
    <3>2. t \in Seq(Nat) /\ Skips(s, p, t)
      BY <3>1, WithoutPresent
    <3> HIDE DEF t
    <3>3. Distinct(t) /\ Elements(t) = Elements(s) \ {x}
      BY <3>1, <3>2, SkipsKeeps
    <3>4. Linked(LRU!Remove(c, s[p]), t)
      BY <3>2, RemoveLinked
    <3> QED  BY <3>1, <3>2, <3>3, <3>4
  <2>2. CASE x \notin Elements(s)
    <3>1. t = s
      BY <2>2, WithoutAbsent
    <3>2. d = c
      BY <2>2 DEF LRU!Remove, Linked
    <3> QED  BY <2>2, <3>1, <3>2
  <2> QED  BY <2>1, <2>2
<1> HIDE DEF t, d
<1>2. /\ Append(t, x) \in Seq(Nat) /\ Distinct(Append(t, x))
      /\ Elements(Append(t, x)) = Elements(t) \cup {x}
  BY <1>1, AppendKeeps
<1>3. Linked(LRU!AddLast(d, x), Append(t, x))
  BY <1>1, AddLastLinked
<1>4. LRU!Put(c, x) = LRU!AddLast(d, x)
  BY DEF LRU!Put, d
<1> QED  BY <1>1, <1>2, <1>3, <1>4 DEF t

(***************************************************************************)
(* The cache of blocks.                                                    *)
(***************************************************************************)

\* A cache c that agrees with the file f.
SoundCache(c, f) ==
  /\ c = [blocks |-> c.blocks, lru |-> c.lru, recent |-> c.recent]
  /\ c.recent \in Seq(Nat) /\ Distinct(c.recent)
  /\ Linked(c.lru, c.recent)
  /\ DOMAIN c.blocks = Elements(c.recent)
  /\ \A b \in DOMAIN c.blocks : b \in DOMAIN f /\ c.blocks[b] = f[b]

\* The cache is at most as large as before, or it was not over its size.
NoLarger(c, d) ==
  Cardinality(DOMAIN c.blocks) > Cardinality(DOMAIN d.blocks) =>
    Cardinality(DOMAIN d.blocks) <= CacheBlocks

LEMMA SoundCacheSize ==
  ASSUME NEW c, NEW f, SoundCache(c, f)
  PROVE  /\ IsFiniteSet(DOMAIN c.blocks)
         /\ Cardinality(DOMAIN c.blocks) = Len(c.recent) /\ Len(c.recent) \in Nat
  BY DistinctLength, LenProperties DEF SoundCache

\* Use as a whole: the block used last is named last.
LEMMA UseFields ==
  ASSUME NEW c, NEW b
  PROVE  /\ Use(c, b).blocks = c.blocks
         /\ Use(c, b).lru = LRU!Put(c.lru, b)
         /\ Use(c, b).recent = Append(Without(c.recent, b), b)
         /\ Use(c, b) = [blocks |-> Use(c, b).blocks, lru |-> Use(c, b).lru,
                         recent |-> Use(c, b).recent]
  BY DEF Use

LEMMA CachedIsSound ==
  ASSUME NEW c, NEW f, SoundCache(c, f), NEW b \in Nat, NEW m, NEW g, b \in DOMAIN g, g[b] = m,
         \A a \in DOMAIN f \ {b} : a \in DOMAIN g /\ g[a] = f[a]
  PROVE  /\ SoundCache(Cached(c, b, m), g)
         /\ DOMAIN Cached(c, b, m).blocks = DOMAIN c.blocks \cup {b}
<1> DEFINE w == With(c.blocks, b, m)
<1>1. PICK e : e = [blocks |-> w, lru |-> c.lru, recent |-> c.recent]
  OBVIOUS
<1>2. Cached(c, b, m) = Use(e, b)
  <2>1. [c EXCEPT !.blocks = w] = e
    <3> HIDE DEF w
    <3> QED  BY <1>1 DEF SoundCache
  <2> QED  BY <2>1 DEF Cached
<1>3. /\ DOMAIN w = DOMAIN c.blocks \cup {b} /\ w[b] = m
      /\ \A a \in DOMAIN c.blocks \ {b} : w[a] = c.blocks[a]
  BY DEF With
<1> HIDE DEF w
<1>4. e.blocks = w /\ e.lru = c.lru /\ e.recent = c.recent
  BY <1>1
<1>5. /\ Use(e, b).blocks = w
      /\ Use(e, b).lru = LRU!Put(c.lru, b)
      /\ Use(e, b).recent = Append(Without(c.recent, b), b)
      /\ Use(e, b) = [blocks |-> Use(e, b).blocks, lru |-> Use(e, b).lru,
                      recent |-> Use(e, b).recent]
  BY <1>1, <1>4, UseFields
<1>6. /\ Use(e, b).recent \in Seq(Nat) /\ Distinct(Use(e, b).recent)
      /\ Elements(Use(e, b).recent) = Elements(c.recent) \cup {b}
      /\ Linked(Use(e, b).lru, Use(e, b).recent)
  BY <1>5, PutLinked DEF SoundCache
<1>7. DOMAIN w = Elements(Use(e, b).recent)
  BY <1>3, <1>6 DEF SoundCache
<1>8. \A a \in DOMAIN w : a \in DOMAIN g /\ w[a] = g[a]
  BY <1>3 DEF SoundCache
<1> QED  BY <1>2, <1>3, <1>5, <1>6, <1>7, <1>8 DEF SoundCache

LEMMA FreeOldestIsSound ==
  ASSUME NEW c, NEW f, SoundCache(c, f), LRU!Oldest(c.lru) # None
  PROVE  /\ SoundCache(FreeOldest(c), f)
         /\ Cardinality(DOMAIN FreeOldest(c).blocks) = Cardinality(DOMAIN c.blocks) - 1
<1> DEFINE s == c.recent
           x == LRU!Oldest(c.lru)
           d == FreeOldest(c)
<1>1. Len(s) \in Nat /\ s \in Seq(Nat)
  BY LenProperties DEF SoundCache
<1>2. 1 \in 1..Len(s) /\ x = s[1] /\ x \in Elements(s)
  <2>1. Len(s) # 0 /\ x = s[1]
    BY DEF SoundCache, Linked, LRU!Oldest
  <2>2. 1 \in 1..Len(s)
    BY <1>1, <2>1
  <2> QED  BY <2>1, <2>2 DEF Elements
<1>3. /\ d = [blocks |-> d.blocks, lru |-> d.lru, recent |-> d.recent]
      /\ d.blocks = [b \in DOMAIN c.blocks \ {x} |-> c.blocks[b]]
      /\ d.lru = LRU!Remove(c.lru, x) /\ d.recent = Without(s, x)
  BY DEF FreeOldest
<1> HIDE DEF d, x, s
<1>4. d.recent \in Seq(Nat) /\ Skips(s, 1, d.recent)
  BY <1>2, <1>3, WithoutPresent DEF SoundCache, s
<1>5. Distinct(d.recent) /\ Elements(d.recent) = Elements(s) \ {x}
  BY <1>1, <1>2, <1>4, SkipsKeeps DEF SoundCache, s
<1>6. Linked(d.lru, d.recent)
  <2>1. Linked(LRU!Remove(c.lru, s[1]), d.recent)
    BY <1>1, <1>2, <1>4, RemoveLinked DEF SoundCache, s
  <2> QED  BY <1>2, <1>3, <2>1
<1>7. SoundCache(d, f)
  BY <1>3, <1>4, <1>5, <1>6 DEF SoundCache, s
<1>8. IsFiniteSet(DOMAIN c.blocks) /\ x \in DOMAIN c.blocks
  BY <1>2, SoundCacheSize DEF SoundCache, s
<1>9. Cardinality(DOMAIN c.blocks \ {x}) = Cardinality(DOMAIN c.blocks) - 1
  BY <1>8, FS_RemoveElement
<1> QED  BY <1>3, <1>7, <1>9 DEF d

\* GetCachedDiskBlock caches block b, and keeps to its size.
LEMMA GetIsSound ==
  ASSUME NEW c, SoundCache(c, file), NEW b \in Nat, b \in DOMAIN file, DiskPosition(b) = b
  PROVE  /\ SoundCache(GetCachedDiskBlock(c, b), file)
         /\ b \in DOMAIN GetCachedDiskBlock(c, b).blocks
         /\ NoLarger(GetCachedDiskBlock(c, b), c)
<1>1. CASE b \in DOMAIN c.blocks
  <2> DEFINE d == Use(c, b)
  <2>1. GetCachedDiskBlock(c, b) = d
    BY <1>1 DEF GetCachedDiskBlock
  <2>2. /\ d.blocks = c.blocks
        /\ d.lru = LRU!Put(c.lru, b)
        /\ d.recent = Append(Without(c.recent, b), b)
        /\ d = [blocks |-> d.blocks, lru |-> d.lru, recent |-> d.recent]
    BY UseFields DEF SoundCache
  <2> HIDE DEF d
  <2>3. /\ d.recent \in Seq(Nat) /\ Distinct(d.recent)
        /\ Elements(d.recent) = Elements(c.recent) \cup {b}
        /\ Linked(d.lru, d.recent)
    BY <2>2, PutLinked DEF SoundCache
  <2>4. SoundCache(d, file)
    BY <1>1, <2>2, <2>3 DEF SoundCache
  <2>5. Cardinality(DOMAIN d.blocks) = Cardinality(DOMAIN c.blocks)
    BY <2>2
  <2>6. Cardinality(DOMAIN c.blocks) \in Nat
    BY SoundCacheSize
  <2>7. NoLarger(d, c)
    BY <2>5, <2>6 DEF NoLarger
  <2> QED  BY <1>1, <2>1, <2>2, <2>4, <2>7
<1>2. CASE b \notin DOMAIN c.blocks
  <2> DEFINE e == RoomForBlock(c)
             d == Cached(e, b, file[b])
  <2>1. GetCachedDiskBlock(c, b) = d
    BY <1>2 DEF GetCachedDiskBlock
  <2>2. Cardinality(DOMAIN c.blocks) \in Nat /\ IsFiniteSet(DOMAIN c.blocks)
        /\ Cardinality(DOMAIN c.blocks) = Len(c.recent)
    BY SoundCacheSize
  <2>3. CacheBlocks \in Nat
    BY IndexBlockAssumption
  <2>4. /\ SoundCache(e, file)
        /\ \/ Cardinality(DOMAIN e.blocks) = Cardinality(DOMAIN c.blocks) - 1
           \/ e = c /\ Cardinality(DOMAIN c.blocks) <= CacheBlocks
    <3>1. CASE Cardinality(DOMAIN c.blocks) > CacheBlocks
      <4>1. LRU!Oldest(c.lru) # None
        <5>1. Len(c.recent) # 0 /\ Len(c.recent) \in Nat
          BY <2>2, <2>3, <3>1
        <5>2. c.lru.first = c.recent[1] /\ c.recent[1] \in Nat
          BY <5>1, LenProperties DEF SoundCache, Linked
        <5> QED  BY <5>2, IndexBlockAssumption DEF LRU!Oldest
      <4> QED  BY <3>1, <4>1, FreeOldestIsSound DEF RoomForBlock
    <3>2. CASE Cardinality(DOMAIN c.blocks) <= CacheBlocks
      BY <2>2, <2>3, <3>2 DEF RoomForBlock
    <3> QED  BY <2>2, <2>3, <3>1, <3>2
  <2> HIDE DEF e
  <2>5. SoundCache(d, file) /\ DOMAIN d.blocks = DOMAIN e.blocks \cup {b}
    BY <2>4, CachedIsSound
  <2> HIDE DEF d
  <2>6. /\ Cardinality(DOMAIN e.blocks) \in Nat /\ Cardinality(DOMAIN d.blocks) \in Nat
        /\ Cardinality(DOMAIN d.blocks) <= Cardinality(DOMAIN e.blocks) + 1
    <3>1. IsFiniteSet(DOMAIN e.blocks) /\ Cardinality(DOMAIN e.blocks) \in Nat
      BY <2>4, SoundCacheSize
    <3>2. Cardinality(DOMAIN e.blocks \cup {b}) =
            IF b \in DOMAIN e.blocks THEN Cardinality(DOMAIN e.blocks)
            ELSE Cardinality(DOMAIN e.blocks) + 1
      BY <3>1, FS_AddElement
    <3> QED  BY <2>5, <3>1, <3>2
  <2>7. NoLarger(d, c)
    BY <2>2, <2>3, <2>4, <2>6 DEF NoLarger
  <2> QED  BY <2>1, <2>5, <2>7
<1> QED  BY <1>1, <1>2

(***************************************************************************)
(* The file: what a written, an erased and a new block change of it.       *)
(***************************************************************************)

Record == [key : Key, data : Value]
Block  == [free : Nat, drec : [Offset -> Record \cup {None}]]

At(f, s)  == f[s[1]].drec[s[2]]
UsedOf(f) == {s \in (DOMAIN f) \X Offset : At(f, s) # None}

LEMMA NoneIsNoRecord == \A r \in Record : r # None
  BY IndexBlockAssumption DEF Record

\* Block m is block l with r in the DREC o and n in its free space.
Replaces(l, o, r, n) == [free |-> n, drec |-> [l.drec EXCEPT ![o] = r]]

LEMMA ReplacesBlock ==
  ASSUME NEW l \in Block, NEW o \in Offset, NEW r \in Record \cup {None}, NEW n \in Nat
  PROVE  /\ Replaces(l, o, r, n) \in Block
         /\ Replaces(l, o, r, n).free = n
         /\ \A q \in Offset : Replaces(l, o, r, n).drec[q] = IF q = o THEN r ELSE l.drec[q]
         /\ r # None => EmptyOffsets(Replaces(l, o, r, n)) = EmptyOffsets(l) \ {o}
         /\ r = None => EmptyOffsets(Replaces(l, o, r, n)) = EmptyOffsets(l) \cup {o}
<1> DEFINE m == Replaces(l, o, r, n)
<1>1. l.drec \in [Offset -> Record \cup {None}]
  BY DEF Block
<1>2. m.free = n /\ m.drec = [l.drec EXCEPT ![o] = r] /\ m = [free |-> m.free, drec |-> m.drec]
  BY DEF Replaces
<1> HIDE DEF m
<1>3. /\ m.drec \in [Offset -> Record \cup {None}]
      /\ \A q \in Offset : m.drec[q] = IF q = o THEN r ELSE l.drec[q]
  BY <1>1, <1>2
<1>4. m \in Block
  BY <1>2, <1>3 DEF Block
<1>5. r # None => EmptyOffsets(m) = EmptyOffsets(l) \ {o}
  BY <1>3 DEF EmptyOffsets
<1>6. r = None => EmptyOffsets(m) = EmptyOffsets(l) \cup {o}
  BY <1>3 DEF EmptyOffsets
<1> QED  BY <1>2, <1>3, <1>4, <1>5, <1>6 DEF m

\* A DREC of block b is written.
LEMMA RecordIsPut ==
  ASSUME NEW D, NEW f \in [D -> Block], NEW b \in D, NEW o \in Offset, NEW r \in Record,
         NEW n \in Nat, NEW g \in [D -> Block], \A a \in D \ {b} : g[a] = f[a],
         g[b] = Replaces(f[b], o, r, n)
  PROVE  /\ UsedOf(g) = UsedOf(f) \cup {<<b, o>>}
         /\ \A t \in UsedOf(g) : At(g, t) = IF t = <<b, o>> THEN r ELSE At(f, t)
<1> DEFINE m == Replaces(f[b], o, r, n)
<1>1. m \in Block /\ \A q \in Offset : m.drec[q] = IF q = o THEN r ELSE f[b].drec[q]
  BY ReplacesBlock
<1> HIDE DEF m
<1>2. /\ g \in [D -> Block] /\ g[b] = m /\ \A a \in D \ {b} : g[a] = f[a]
  BY <1>1 DEF m
<1>3. \A t \in D \X Offset : At(g, t) = IF t = <<b, o>> THEN r ELSE At(f, t)
  BY <1>1, <1>2 DEF At
<1>4. r # None
  BY IndexBlockAssumption DEF Record
<1>5. UsedOf(g) = UsedOf(f) \cup {<<b, o>>}
  <2>1. DOMAIN g = D /\ DOMAIN f = D /\ <<b, o>> \in D \X Offset
    BY <1>2
  <2>2. ASSUME NEW t \in D \X Offset
        PROVE  (At(g, t) # None) <=> (At(f, t) # None \/ t = <<b, o>>)
    BY <1>3, <1>4
  <2> QED  BY <2>1, <2>2 DEF UsedOf
<1>6. \A t \in UsedOf(g) : t \in D \X Offset
  BY <1>2 DEF UsedOf
<1> QED  BY <1>2, <1>3, <1>5, <1>6 DEF m

\* A DREC of block b is emptied.
LEMMA RecordIsErased ==
  ASSUME NEW D, NEW f \in [D -> Block], NEW b \in D, NEW o \in Offset,
         NEW n \in Nat, NEW g \in [D -> Block], \A a \in D \ {b} : g[a] = f[a],
         g[b] = Replaces(f[b], o, None, n)
  PROVE  /\ UsedOf(g) = UsedOf(f) \ {<<b, o>>}
         /\ \A t \in UsedOf(g) : At(g, t) = At(f, t)
<1> DEFINE m == Replaces(f[b], o, None, n)
<1>1. m \in Block /\ \A q \in Offset : m.drec[q] = IF q = o THEN None ELSE f[b].drec[q]
  BY ReplacesBlock
<1> HIDE DEF m
<1>2. /\ g \in [D -> Block] /\ g[b] = m /\ \A a \in D \ {b} : g[a] = f[a]
  BY <1>1 DEF m
<1>3. \A t \in D \X Offset : At(g, t) = IF t = <<b, o>> THEN None ELSE At(f, t)
  BY <1>1, <1>2 DEF At
<1>4. UsedOf(g) = UsedOf(f) \ {<<b, o>>}
  BY <1>2, <1>3 DEF UsedOf
<1>5. \A t \in UsedOf(g) : t \in D \X Offset /\ t # <<b, o>>
  BY <1>2, <1>4 DEF UsedOf
<1> QED  BY <1>2, <1>3, <1>4, <1>5 DEF m

\* A block with one DREC is added to a file of n blocks.
LEMMA BlockIsAdded ==
  ASSUME NEW n \in Nat, NEW f \in [0..(n - 1) -> Block], NEW o \in Offset, NEW r \in Record,
         NEW m \in Block, \A q \in Offset : m.drec[q] = IF q = o THEN r ELSE None,
         NEW g, g = With(f, n, m)
  PROVE  /\ g \in [0..n -> Block] /\ \A a \in 0..(n - 1) : g[a] = f[a]
         /\ g[n] = m
         /\ <<n, o>> \notin UsedOf(f)
         /\ UsedOf(g) = UsedOf(f) \cup {<<n, o>>}
         /\ \A t \in UsedOf(g) : At(g, t) = IF t = <<n, o>> THEN r ELSE At(f, t)
<1>1. 0..n = 0..(n - 1) \cup {n} /\ n \notin 0..(n - 1)
  OBVIOUS
<1>2. DOMAIN f = 0..(n - 1) /\ DOMAIN g = 0..n
  BY <1>1 DEF With
<1>3. g \in [0..n -> Block] /\ g[n] = m /\ \A a \in 0..(n - 1) : g[a] = f[a]
  <2> DEFINE D == DOMAIN f \cup {n}
  <2>1. D = 0..n
    BY <1>1
  <2> HIDE DEF D
  <2>2. g = [a \in D |-> IF a = n THEN m ELSE f[a]]
    BY DEF With, D
  <2> QED  BY <1>1, <2>1, <2>2
<1>4. \A t \in (0..(n - 1)) \X Offset : At(g, t) = At(f, t)
  BY <1>3 DEF At
<1>5. \A q \in Offset : At(g, <<n, q>>) = IF q = o THEN r ELSE None
  BY <1>3 DEF At
<1>6. r # None
  BY IndexBlockAssumption DEF Record
<1>7. ASSUME NEW t \in (0..n) \X Offset
      PROVE  \/ t \in (0..(n - 1)) \X Offset
             \/ \E q \in Offset : t = <<n, q>>
  BY <1>1
<1>8. <<n, o>> \notin UsedOf(f)
  BY <1>1, <1>2 DEF UsedOf
<1>9. UsedOf(g) = UsedOf(f) \cup {<<n, o>>}
  <2>1. ASSUME NEW t \in UsedOf(g) PROVE t \in UsedOf(f) \cup {<<n, o>>}
    BY <1>2, <1>4, <1>5, <1>7 DEF UsedOf
  <2>2. ASSUME NEW t \in UsedOf(f) PROVE t \in UsedOf(g)
    BY <1>1, <1>2, <1>4 DEF UsedOf
  <2>3. <<n, o>> \in UsedOf(g)
    BY <1>1, <1>2, <1>5, <1>6 DEF UsedOf
  <2> QED  BY <2>1, <2>2, <2>3
<1>10. \A t \in UsedOf(f) : At(g, t) = At(f, t)
  BY <1>2, <1>4 DEF UsedOf
<1> QED  BY <1>3, <1>5, <1>8, <1>9, <1>10

(***************************************************************************)
(* The inductive invariant.                                                *)
(***************************************************************************)

FileInv ==
  /\ entries \in SUBSET Key
  /\ blockCount \in 0..MaxBlocks
  /\ file \in [0..(blockCount - 1) -> Block]

CountInv ==
  /\ \A b \in 0..(blockCount - 1) : file[b].free = Cardinality(EmptyOffsets(file[b]))
  /\ freeBlocks = {b \in 0..(blockCount - 1) : EmptyOffsets(file[b]) # {}}

SlotInv ==
  /\ slot \in [Key -> Slot \cup {None}]
  /\ deleted \in SUBSET UsedOf(file)
  /\ \A x \in Key : slot[x] # None =>
       slot[x] \in UsedOf(file) \ deleted /\ At(file, slot[x]).key = x

CacheInv == SoundCache(Cache, file)

IInv == FileInv /\ CountInv /\ SlotInv /\ CacheInv

LEMMA EmptyCacheIsSound ==
  ASSUME NEW f
  PROVE  SoundCache([blocks |-> <<>>, lru |-> LRU!EmptyChain, recent |-> <<>>], f)
<1>1. <<>> \in Seq(Nat) /\ Len(<<>>) = 0 /\ Elements(<<>>) = {} /\ Distinct(<<>>) /\ DOMAIN <<>> = {}
  BY DEF Elements, Distinct
<1>2. LRU!EmptyChain.first = None /\ LRU!EmptyChain.last = None /\ LRU!EmptyChain.crec = <<>>
  BY DEF LRU!EmptyChain
<1>3. Linked(LRU!EmptyChain, <<>>)
  BY <1>1, <1>2 DEF Linked, LRU!CachedKeys
<1> QED  BY <1>1, <1>3 DEF SoundCache

LEMMA InitHolds == Init => IInv
<1> SUFFICES ASSUME Init PROVE IInv
  OBVIOUS
<1>1. 0..(0 - 1) = {} /\ DOMAIN <<>> = {}
  OBVIOUS
<1>2. FileInv
  <2>1. <<>> \in [{} -> Block]
    OBVIOUS
  <2> QED  BY <1>1, <2>1, IndexBlockAssumption DEF Init, FileInv
<1>3. CountInv
  BY <1>1 DEF Init, CountInv
<1>4. SlotInv
  BY DEF Init, SlotInv
<1>5. CacheInv
  BY EmptyCacheIsSound DEF Init, CacheInv, Cache
<1> QED  BY <1>2, <1>3, <1>4, <1>5 DEF IInv

\* What the offsets of a block and its numbers are made of.
LEMMA OffsetsAreFinite ==
  ASSUME NEW m
  PROVE  /\ EmptyOffsets(m) \in SUBSET Offset /\ Offset \in SUBSET Nat
         /\ IsFiniteSet(EmptyOffsets(m)) /\ Cardinality(EmptyOffsets(m)) \in Nat
         /\ (Cardinality(EmptyOffsets(m)) = 0) <=> (EmptyOffsets(m) = {})
<1>1. RecordsPerBlock - 1 \in Int /\ 0 \in Int
  BY IndexBlockAssumption
<1>2. IsFiniteSet(Offset)
  BY <1>1, FS_Interval DEF Offset
<1>3. EmptyOffsets(m) \in SUBSET Offset
  BY DEF EmptyOffsets
<1>4. Offset \in SUBSET Nat
  BY IndexBlockAssumption DEF Offset
<1>5. IsFiniteSet(EmptyOffsets(m))
  BY <1>2, <1>3, FS_Subset
<1>6. Cardinality(EmptyOffsets(m)) \in Nat
  BY <1>5, FS_CardinalityType
<1>7. (Cardinality(EmptyOffsets(m)) = 0) <=> (EmptyOffsets(m) = {})
  BY <1>5, FS_EmptySet
<1> QED  BY <1>3, <1>4, <1>5, <1>6, <1>7

LEMMA PositionIsNumber ==
  ASSUME MaxBlocks <= WrapBlocks, FileInv, NEW b \in 0..(blockCount - 1)
  PROVE  DiskPosition(b) = b /\ b \in Nat /\ b \in DOMAIN file
<1>1. /\ b \in Nat /\ blockCount \in Nat /\ b < blockCount /\ blockCount <= MaxBlocks
      /\ WrapBlocks \in Nat \ {0} /\ MaxBlocks \in Nat
  BY IndexBlockAssumption DEF FileInv
<1>2. b < WrapBlocks
  BY <1>1
<1>3. \A m \in Nat, n \in Nat \ {0} : m < n => m % n = m
  OBVIOUS
<1> QED  BY <1>1, <1>2, <1>3 DEF DiskPosition, FileInv

\* The "dirty fix" finds nothing to pass by.
LEMMA NothingIsPassedBy ==
  ASSUME MaxBlocks <= WrapBlocks, FileInv, CountInv
  PROVE  PassedBy = {} /\ PassBy = Cache
<1>1. ASSUME NEW b \in PassedBy PROVE FALSE
  <2>1. b \in freeBlocks /\ b \in 0..(blockCount - 1) /\ EmptyOffsets(file[b]) # {}
    BY DEF PassedBy, CountInv
  <2>2. b \in 0..b
    BY <2>1
  <2>3. EmptyOffsets(file[DiskPosition(b)]) = {}
    BY <2>1, <2>2 DEF PassedBy
  <2> QED  BY <2>1, <2>3, PositionIsNumber
<1>2. PassedBy = {}
  BY <1>1
<1>3. SUBSET {} = {{}}
  OBVIOUS
<1>4. PassBy = Cache
  BY <1>2, <1>3 DEF PassBy, Fold!MapThenFoldSet
<1> QED  BY <1>2, <1>4

\* A block that is cached is written: the cache still is the file.
LEMMA WrittenIsSound ==
  ASSUME NEW c, SoundCache(c, file), NEW b \in DOMAIN c.blocks, DiskPosition(b) = b,
         NEW D, file \in [D -> Block], NEW m \in Block, WriteBlock(c, b, m)
  PROVE  /\ file' = [file EXCEPT ![b] = m]
         /\ SoundCache(Cache', file')
         /\ DOMAIN diskBlocks' = DOMAIN c.blocks
<1> DEFINE w == [c.blocks EXCEPT ![b] = m]
<1>1. b \in D /\ c.blocks[b] = file[b]
  BY DEF SoundCache
<1>2. file' = [file EXCEPT ![b] = m]
  BY DEF WriteBlock
<1>3. file' \in [D -> Block] /\ file'[b] = m /\ \A a \in D \ {b} : file'[a] = file[a]
  BY <1>1, <1>2
<1>4. diskBlocks' = w /\ lru' = c.lru /\ recent' = c.recent
  BY DEF WriteBlock, CacheBecomes, SoundCache
<1>5. DOMAIN w = DOMAIN c.blocks /\ \A a \in DOMAIN c.blocks : w[a] = IF a = b THEN m ELSE c.blocks[a]
  OBVIOUS
<1> HIDE DEF w
<1>6. Cache' = [blocks |-> w, lru |-> c.lru, recent |-> c.recent]
  BY <1>4 DEF Cache
<1>7. ASSUME NEW d, d = [blocks |-> w, lru |-> c.lru, recent |-> c.recent]
      PROVE  SoundCache(d, file')
  <2>1. d.blocks = w /\ d.lru = c.lru /\ d.recent = c.recent
    BY <1>7
  <2>2. d = [blocks |-> d.blocks, lru |-> d.lru, recent |-> d.recent]
    BY <1>7, <2>1
  <2>3. \A a \in DOMAIN w : a \in DOMAIN file' /\ w[a] = file'[a]
    BY <1>1, <1>3, <1>5 DEF SoundCache
  <2> QED  BY <1>5, <2>1, <2>2, <2>3 DEF SoundCache
<1> QED  BY <1>2, <1>4, <1>5, <1>6, <1>7

LEMMA ReadBlock ==
  ASSUME MaxBlocks <= WrapBlocks, FileInv, CacheInv, NEW b \in 0..(blockCount - 1)
  PROVE  /\ SoundCache(GetCachedDiskBlock(Cache, b), file)
         /\ b \in DOMAIN GetCachedDiskBlock(Cache, b).blocks
         /\ GetCachedDiskBlock(Cache, b).blocks[b] = file[b]
         /\ NoLarger(GetCachedDiskBlock(Cache, b), Cache)
<1>1. DiskPosition(b) = b /\ b \in Nat /\ b \in DOMAIN file
  BY PositionIsNumber
<1>2. SoundCache(Cache, file)
  BY DEF CacheInv
<1>3. /\ SoundCache(GetCachedDiskBlock(Cache, b), file)
      /\ b \in DOMAIN GetCachedDiskBlock(Cache, b).blocks
      /\ NoLarger(GetCachedDiskBlock(Cache, b), Cache)
  BY <1>1, <1>2, GetIsSound
<1> QED  BY <1>3 DEF SoundCache

\* The cache grew: by a new block, or while it was under its size.
Grows == /\ Cardinality(DOMAIN diskBlocks') > Cardinality(DOMAIN diskBlocks)
         /\ Cardinality(DOMAIN diskBlocks) > CacheBlocks

LEMMA KeepsSize ==
  ASSUME NEW c, NoLarger(c, Cache), DOMAIN diskBlocks' = DOMAIN c.blocks,
         SoundCache(c, file), CacheInv
  PROVE  ~Grows
<1>1. Cache.blocks = diskBlocks
  BY DEF Cache
<1>2. Cardinality(DOMAIN c.blocks) \in Nat /\ Cardinality(DOMAIN diskBlocks) \in Nat
  BY <1>1, SoundCacheSize DEF CacheInv
<1>3. CacheBlocks \in Nat
  BY IndexBlockAssumption
<1>4. \/ ~(Cardinality(DOMAIN c.blocks) > Cardinality(DOMAIN diskBlocks))
      \/ Cardinality(DOMAIN diskBlocks) <= CacheBlocks
  BY <1>1 DEF NoLarger
<1> QED  BY <1>2, <1>3, <1>4 DEF Grows

\* A slot of the file.
LEMMA UsedIsSlot ==
  ASSUME FileInv, NEW s \in UsedOf(file)
  PROVE  /\ s[1] \in 0..(blockCount - 1) /\ s[2] \in Offset /\ s = <<s[1], s[2]>> /\ s \in Slot
         /\ file[s[1]] \in Block /\ At(file, s) \in Record /\ s[2] \notin EmptyOffsets(file[s[1]])
<1>1. blockCount \in Nat /\ blockCount <= MaxBlocks /\ MaxBlocks \in Nat
      /\ file \in [0..(blockCount - 1) -> Block]
  BY IndexBlockAssumption DEF FileInv
<1>2. s \in (0..(blockCount - 1)) \X Offset /\ At(file, s) # None
  BY <1>1 DEF UsedOf
<1>3. s[1] \in 0..(blockCount - 1) /\ s[2] \in Offset /\ s = <<s[1], s[2]>>
  BY <1>2
<1>4. s[1] \in 0..(MaxBlocks - 1)
  BY <1>1, <1>3
<1>5. file[s[1]] \in Block
  BY <1>1, <1>3
<1>6. file[s[1]].drec[s[2]] \in Record \cup {None}
  BY <1>3, <1>5 DEF Block
<1> QED  BY <1>2, <1>3, <1>4, <1>5, <1>6 DEF Slot, At, EmptyOffsets

\* Free space and m_freeBlocks after block b became m.
LEMMA CountsKept ==
  ASSUME FileInv, CountInv, NEW b \in 0..(blockCount - 1), NEW m,
         file'[b] = m, \A a \in 0..(blockCount - 1) \ {b} : file'[a] = file[a],
         m.free = Cardinality(EmptyOffsets(m)), blockCount' = blockCount,
         freeBlocks' = IF EmptyOffsets(m) # {} THEN freeBlocks \cup {b} ELSE freeBlocks \ {b}
  PROVE  CountInv'
<1> DEFINE D == 0..(blockCount - 1)
<1>1. \A a \in D : file'[a] = IF a = b THEN m ELSE file[a]
  OBVIOUS
<1> HIDE DEF D
<1>2. \A a \in D : file'[a].free = Cardinality(EmptyOffsets(file'[a]))
  BY <1>1 DEF CountInv, D
<1>3. freeBlocks' = {a \in D : EmptyOffsets(file'[a]) # {}}
  BY <1>1 DEF CountInv, D
<1> QED  BY <1>2, <1>3 DEF CountInv, D

LEMMA RewriteStep ==
  ASSUME MaxBlocks <= WrapBlocks, IInv, NEW x \in Key, NEW v \in Value, RewriteRecord(x, v)
  PROVE  /\ IInv' /\ ~Grows
         /\ slot[x] # None /\ slot' = slot
         /\ UsedOf(file)' = UsedOf(file) \cup {slot[x]}
         /\ \A t \in UsedOf(file)' : At(file, t)' = IF t = slot[x] THEN Drec(x, v) ELSE At(file, t)
<1>1. slot[x] # None /\ slot[x] \in UsedOf(file)
  BY DEF RewriteRecord, IInv, SlotInv
<1> DEFINE D == 0..(blockCount - 1)
<1>2. PICK b, o : slot[x] = <<b, o>> /\ b = slot[x][1] /\ o = slot[x][2]
  BY <1>1, UsedIsSlot DEF IInv
<1>3. b \in D /\ o \in Offset /\ file[b] \in Block /\ o \notin EmptyOffsets(file[b])
  BY <1>1, <1>2, UsedIsSlot DEF IInv
<1>4. PICK c : /\ SoundCache(c, file) /\ b \in DOMAIN c.blocks /\ c.blocks[b] = file[b]
               /\ NoLarger(c, Cache)
               /\ WriteBlock(c, b, [c.blocks[b] EXCEPT !.drec[o] = Drec(x, v)])
  <2>1. WriteBlock(GetCachedDiskBlock(Cache, b), b,
                   [GetCachedDiskBlock(Cache, b).blocks[b] EXCEPT !.drec[o] = Drec(x, v)])
    BY <1>2 DEF RewriteRecord
  <2> QED  BY <1>3, <2>1, ReadBlock DEF IInv
<1> DEFINE r == Drec(x, v)
           m == Replaces(file[b], o, r, file[b].free)
<1>5. r \in Record /\ file[b].free \in Nat
  BY <1>3 DEF Drec, Record, Block
<1> HIDE DEF r
<1>6. [c.blocks[b] EXCEPT !.drec[o] = r] = m
  <2>1. \A l \in Block : [l EXCEPT !.drec[o] = r] = Replaces(l, o, r, l.free)
    BY DEF Replaces, Block
  <2> QED  BY <1>3, <1>4, <2>1
<1>7. m \in Block /\ EmptyOffsets(m) = EmptyOffsets(file[b]) \ {o} /\ m.free = file[b].free
  BY SMTT(30), <1>3, <1>5, ReplacesBlock, NoneIsNoRecord
<1>8. /\ file \in [D -> Block] /\ DiskPosition(b) = b
  BY <1>3, PositionIsNumber DEF IInv, FileInv
<1> HIDE DEF D, m
<1>9. /\ file' = [file EXCEPT ![b] = m]
      /\ SoundCache(Cache', file')
      /\ DOMAIN diskBlocks' = DOMAIN c.blocks
  BY <1>4, <1>6, <1>7, <1>8, WrittenIsSound DEF r
<1>10. /\ file' \in [D -> Block] /\ \A a \in D \ {b} : file'[a] = file[a]
       /\ file'[b] = m
  BY <1>3, <1>7, <1>8, <1>9
<1>a. /\ UsedOf(file') = UsedOf(file) \cup {<<b, o>>}
      /\ \A t \in UsedOf(file') : At(file', t) = IF t = <<b, o>> THEN r ELSE At(file, t)
  <2>1. file'[b] = Replaces(file[b], o, r, file[b].free)
    BY <1>10 DEF m
  <2> QED  BY <1>3, <1>5, <1>8, <1>10, <2>1, RecordIsPut
<1>11. /\ UNCHANGED <<entries, slot, deleted, blockCount, freeBlocks>>
  BY DEF RewriteRecord
<1>12. FileInv'
  BY <1>10, <1>a, <1>11 DEF IInv, FileInv, D
<1>13. CountInv'
  <2>1. EmptyOffsets(m) = EmptyOffsets(file[b])
    BY <1>3, <1>7
  <2>2. \A a \in D : /\ EmptyOffsets(file'[a]) = EmptyOffsets(file[a])
                     /\ file'[a].free = file[a].free
    BY <1>7, <1>10, <1>a, <2>1
  <2> QED  BY <1>11, <2>2 DEF IInv, CountInv, D
<1>14. SlotInv'
  <2>1. r.key = x
    BY DEF r, Drec
  <2>2. ASSUME NEW y \in Key, slot[y] # None
        PROVE  slot[y] \in UsedOf(file') \ deleted /\ At(file', slot[y]).key = y
    <3>1. slot[y] \in UsedOf(file) \ deleted /\ At(file, slot[y]).key = y
      BY <2>2 DEF IInv, SlotInv
    <3>2. CASE slot[y] = <<b, o>>
      <4>1. At(file, slot[x]).key = x
        BY <1>1 DEF IInv, SlotInv
      <4> QED  BY <1>2, <1>10, <1>a, <2>1, <3>1, <3>2, <4>1
    <3>3. CASE slot[y] # <<b, o>>
      BY <1>10, <1>a, <3>1, <3>3
    <3> QED  BY <3>2, <3>3
  <2> QED  BY <1>10, <1>a, <1>11, <2>2 DEF IInv, SlotInv
<1>15. ~Grows
  BY <1>4, <1>9, KeepsSize DEF IInv
<1> QED  BY <1>1, <1>2, <1>9, <1>10, <1>a, <1>11, <1>12, <1>13, <1>14, <1>15 DEF IInv, CacheInv, r

\* The slots after the first DREC of x was written to s.
LEMMA SlotAdded ==
  ASSUME SlotInv, NEW x \in Key, NEW v, NEW s \in Slot, s \notin UsedOf(file),
         UsedOf(file') = UsedOf(file) \cup {s},
         \A t \in UsedOf(file') : At(file', t) = IF t = s THEN Drec(x, v) ELSE At(file, t),
         slot' = [slot EXCEPT ![x] = s], deleted' = deleted
  PROVE  SlotInv'
<1>1. slot' \in [Key -> Slot \cup {None}] /\ slot'[x] = s /\ \A y \in Key \ {x} : slot'[y] = slot[y]
  BY DEF SlotInv
<1>2. deleted' \in SUBSET UsedOf(file')
  BY DEF SlotInv
<1>3. s \in UsedOf(file') \ deleted' /\ At(file', s).key = x
  BY DEF SlotInv, Drec
<1>4. ASSUME NEW y \in Key, y # x, slot[y] # None
      PROVE  slot[y] \in UsedOf(file') \ deleted' /\ At(file', slot[y]).key = y
  <2>1. slot[y] \in UsedOf(file) \ deleted /\ At(file, slot[y]).key = y
    BY <1>4 DEF SlotInv
  <2>2. slot[y] # s /\ slot[y] \in UsedOf(file')
    BY <2>1
  <2>3. At(file', slot[y]) = At(file, slot[y])
    BY <2>2
  <2> QED  BY <2>1, <2>2, <2>3
<1>5. ASSUME NEW y \in Key, slot'[y] # None
      PROVE  slot'[y] \in UsedOf(file') \ deleted' /\ At(file', slot'[y]).key = y
  BY <1>1, <1>3, <1>4, <1>5
<1> QED  BY <1>1, <1>2, <1>5 DEF SlotInv

\* The first DREC of x goes to the empty offset GetEmptyDREC names.
LEMMA RecordIsAdded ==
  ASSUME NEW l \in Block, l.free = Cardinality(EmptyOffsets(l)), EmptyOffsets(l) # {},
         NEW x \in Key, NEW v \in Value
  PROVE  /\ GetEmptyDREC(l) \in EmptyOffsets(l) /\ GetEmptyDREC(l) \in Offset
         /\ WithRecord(l, x, v) = Replaces(l, GetEmptyDREC(l), Drec(x, v), l.free - 1)
         /\ WithRecord(l, x, v) \in Block /\ l.free - 1 \in Nat /\ Drec(x, v) \in Record
         /\ WithRecord(l, x, v).free = Cardinality(EmptyOffsets(WithRecord(l, x, v)))
         /\ EmptyOffsets(WithRecord(l, x, v)) = EmptyOffsets(l) \ {GetEmptyDREC(l)}
         /\ HasRoom(WithRecord(l, x, v)) <=> EmptyOffsets(WithRecord(l, x, v)) # {}
<1> DEFINE o == GetEmptyDREC(l)
           m == WithRecord(l, x, v)
<1>1. o \in EmptyOffsets(l) /\ o \in Offset
  BY OffsetsAreFinite, MinIsLeast DEF GetEmptyDREC
<1>2. m = Replaces(l, o, Drec(x, v), l.free - 1)
  BY DEF WithRecord, Replaces
<1> HIDE DEF m, o
<1>3. Drec(x, v) \in Record
  BY DEF Drec, Record
<1>4. Cardinality(EmptyOffsets(l)) \in Nat /\ Cardinality(EmptyOffsets(l)) # 0
      /\ IsFiniteSet(EmptyOffsets(l))
  BY OffsetsAreFinite
<1>5. l.free - 1 \in Nat
  BY <1>4
<1>6. m \in Block /\ m.free = l.free - 1 /\ EmptyOffsets(m) = EmptyOffsets(l) \ {o}
  BY <1>1, <1>2, <1>3, <1>5, ReplacesBlock, NoneIsNoRecord
<1>7. Cardinality(EmptyOffsets(m)) = Cardinality(EmptyOffsets(l)) - 1
  BY <1>1, <1>4, <1>6, FS_RemoveElement
<1>8. m.free = Cardinality(EmptyOffsets(m))
  BY <1>6, <1>7
<1>9. HasRoom(m) <=> EmptyOffsets(m) # {}
  <2>1. /\ Cardinality(EmptyOffsets(m)) \in Nat
        /\ ((Cardinality(EmptyOffsets(m)) = 0) <=> (EmptyOffsets(m) = {}))
    BY OffsetsAreFinite
  <2> QED  BY <1>8, <2>1 DEF HasRoom
<1> QED  BY <1>1, <1>2, <1>3, <1>5, <1>6, <1>8, <1>9 DEF m, o

LEMMA WriteToFreeStep ==
  ASSUME MaxBlocks <= WrapBlocks, IInv, NEW x \in Key, NEW v \in Value, WriteToFreeBlock(x, v)
  PROVE  /\ IInv' /\ ~Grows
         /\ slot[x] = None
         /\ \E s \in Slot \ UsedOf(file) :
              /\ slot' = [slot EXCEPT ![x] = s]
              /\ UsedOf(file') = UsedOf(file) \cup {s}
              /\ \A t \in UsedOf(file') : At(file', t) = IF t = s THEN Drec(x, v) ELSE At(file, t)
<1> DEFINE D == 0..(blockCount - 1)
<1>1. PassedBy = {} /\ PassBy = Cache /\ freeBlocks # {} /\ freeBlocks \ PassedBy = freeBlocks
  BY NothingIsPassedBy DEF IInv, WriteToFreeBlock
<1>2. freeBlocks = {b \in D : EmptyOffsets(file[b]) # {}}
  BY DEF IInv, CountInv
<1>3. PICK b, c, l : /\ b = Sets!Min(freeBlocks) /\ c = GetCachedDiskBlock(Cache, b)
                     /\ l = c.blocks[b]
                     /\ WriteBlock(c, b, WithRecord(l, x, v))
                     /\ slot' = [slot EXCEPT ![x] = <<b, GetEmptyDREC(l)>>]
                     /\ freeBlocks' = IF HasRoom(WithRecord(l, x, v)) THEN freeBlocks
                                      ELSE freeBlocks \ {b}
  <2>1. PICK b \in {Sets!Min(freeBlocks)} :
        \E c \in {GetCachedDiskBlock(Cache, b)} :
        \E l \in {c.blocks[b]} :
          /\ WriteBlock(c, b, WithRecord(l, x, v))
          /\ slot' = [slot EXCEPT ![x] = <<b, GetEmptyDREC(l)>>]
          /\ freeBlocks' = IF HasRoom(WithRecord(l, x, v)) THEN freeBlocks
                           ELSE freeBlocks \ {b}
    BY <1>1 DEF WriteToFreeBlock
  <2> QED  BY <2>1
<1>4. b \in D /\ b \in freeBlocks
  <2>1. freeBlocks \in SUBSET Nat
    BY <1>2
  <2> QED  BY <1>1, <1>2, <1>3, <2>1, MinIsLeast
<1>5. SoundCache(c, file) /\ b \in DOMAIN c.blocks /\ l = file[b] /\ NoLarger(c, Cache)
  BY <1>3, <1>4, ReadBlock DEF IInv
<1> DEFINE o == GetEmptyDREC(l)
           r == Drec(x, v)
           m == WithRecord(l, x, v)
<1>6. /\ file \in [D -> Block] /\ DiskPosition(b) = b /\ l \in Block
  BY <1>4, <1>5, PositionIsNumber DEF IInv, FileInv
<1>7. l.free = Cardinality(EmptyOffsets(l)) /\ EmptyOffsets(l) # {}
  BY <1>2, <1>4, <1>5 DEF IInv, CountInv
<1>8. /\ o \in EmptyOffsets(l) /\ o \in Offset
      /\ m = Replaces(l, o, r, l.free - 1)
      /\ m \in Block /\ l.free - 1 \in Nat /\ r \in Record
      /\ m.free = Cardinality(EmptyOffsets(m))
      /\ (HasRoom(m) <=> EmptyOffsets(m) # {})
  BY <1>6, <1>7, RecordIsAdded
<1> HIDE DEF D, m, o, r
<1>9. /\ file' = [file EXCEPT ![b] = m]
      /\ SoundCache(Cache', file')
      /\ DOMAIN diskBlocks' = DOMAIN c.blocks
  BY <1>3, <1>5, <1>6, <1>8, WrittenIsSound DEF m
<1>10. /\ file' \in [D -> Block] /\ \A a \in D \ {b} : file'[a] = file[a]
       /\ file'[b] = m
  BY <1>4, <1>6, <1>8, <1>9
<1>11. /\ UsedOf(file') = UsedOf(file) \cup {<<b, o>>}
       /\ \A t \in UsedOf(file') : At(file', t) = IF t = <<b, o>> THEN r ELSE At(file, t)
  <2>1. file'[b] = Replaces(file[b], o, r, l.free - 1)
    BY <1>5, <1>8, <1>10
  <2> QED  BY <1>4, <1>6, <1>8, <1>10, <2>1, RecordIsPut
<1>12. slot' = [slot EXCEPT ![x] = <<b, o>>] /\ UNCHANGED <<entries, deleted, blockCount>>
  BY <1>3 DEF WriteToFreeBlock, o
<1>13. <<b, o>> \in Slot /\ <<b, o>> \notin UsedOf(file)
  <2>1. file[b].drec[o] = None
    BY <1>5, <1>8 DEF EmptyOffsets
  <2>2. <<b, o>> \notin UsedOf(file)
    BY <2>1 DEF UsedOf, At
  <2>3. b \in 0..(MaxBlocks - 1)
    BY <1>4, IndexBlockAssumption DEF IInv, FileInv, D
  <2> QED  BY <1>8, <2>2, <2>3 DEF Slot
<1>14. FileInv'
  BY <1>10, <1>12 DEF IInv, FileInv, D
<1>15. CountInv'
  <2>1. freeBlocks' = IF EmptyOffsets(m) # {} THEN freeBlocks \cup {b} ELSE freeBlocks \ {b}
    BY <1>3, <1>4, <1>8 DEF m
  <2> QED  BY <1>4, <1>8, <1>10, <1>12, <2>1, CountsKept DEF IInv, D
<1>16. SlotInv'
  BY <1>11, <1>12, <1>13, SlotAdded DEF IInv, r
<1>17. ~Grows
  BY <1>5, <1>9, KeepsSize DEF IInv
<1>18. slot[x] = None
  BY DEF WriteToFreeBlock
<1> QED  BY <1>9, <1>11, <1>12, <1>13, <1>14, <1>15, <1>16, <1>17, <1>18 DEF IInv, CacheInv, r

LEMMA EmptyBlockFacts ==
  /\ EmptyBlock \in Block /\ EmptyOffsets(EmptyBlock) = Offset
  /\ EmptyBlock.free = Cardinality(EmptyOffsets(EmptyBlock)) /\ Offset # {}
  /\ GetEmptyDREC(EmptyBlock) = 0
  /\ \A q \in Offset : EmptyBlock.drec[q] = None
  /\ \A o \in Offset : Offset \ {o} # {}
<1>1. RecordsPerBlock \in Nat /\ RecordsPerBlock >= 2 /\ 0 \in Offset /\ 1 \in Offset
  BY IndexBlockAssumption DEF Offset
<1>2. EmptyBlock.free = RecordsPerBlock /\ EmptyBlock.drec = [o \in Offset |-> None]
      /\ EmptyBlock = [free |-> EmptyBlock.free, drec |-> EmptyBlock.drec]
  BY DEF EmptyBlock
<1>3. EmptyBlock.drec \in [Offset -> Record \cup {None}]
  BY <1>2
<1>4. EmptyBlock \in Block
  BY <1>1, <1>2, <1>3 DEF Block
<1>5. EmptyOffsets(EmptyBlock) = Offset
  BY <1>2 DEF EmptyOffsets
<1>6. Cardinality(Offset) = RecordsPerBlock
  <2>1. Cardinality(0..(RecordsPerBlock - 1)) =
          IF 0 > RecordsPerBlock - 1 THEN 0 ELSE RecordsPerBlock - 1 - 0 + 1
    BY <1>1, FS_Interval
  <2> QED  BY <1>1, <2>1 DEF Offset
<1>7. Sets!Min(Offset) = 0
  <2>1. Offset \in SUBSET Nat /\ Offset # {}
    BY <1>1, OffsetsAreFinite
  <2>2. Sets!Min(Offset) \in Offset /\ \A y \in Offset : Sets!Min(Offset) <= y
    BY <2>1, MinIsLeast
  <2>3. Sets!Min(Offset) \in Nat /\ Sets!Min(Offset) <= 0
    BY <1>1, <2>1, <2>2
  <2> QED  BY <2>3
<1> QED  BY <1>1, <1>2, <1>4, <1>5, <1>6, <1>7 DEF GetEmptyDREC

LEMMA WriteToNewStep ==
  ASSUME MaxBlocks <= WrapBlocks, IInv, NEW x \in Key, NEW v \in Value, WriteToNewBlock(x, v)
  PROVE  /\ IInv' /\ blockCount' > blockCount
         /\ slot[x] = None
         /\ \E s \in Slot \ UsedOf(file) :
              /\ slot' = [slot EXCEPT ![x] = s]
              /\ UsedOf(file') = UsedOf(file) \cup {s}
              /\ \A t \in UsedOf(file') : At(file', t) = IF t = s THEN Drec(x, v) ELSE At(file, t)
<1>1. PICK n \in Nat : n = blockCount /\ n < MaxBlocks
  BY DEF IInv, FileInv, WriteToNewBlock
<1>2. PICK m : m = WithRecord(EmptyBlock, x, v)
  OBVIOUS
<1> DEFINE D == 0..(n - 1)
<1>3. file \in [D -> Block] /\ Cardinality(DOMAIN file) = n
  <2>1. file \in [D -> Block] /\ DOMAIN file = 0..(n - 1)
    BY <1>1 DEF IInv, FileInv
  <2>2. Cardinality(0..(n - 1)) = IF 0 > n - 1 THEN 0 ELSE n - 1 - 0 + 1
    BY <1>1, FS_Interval
  <2> QED  BY <1>1, <2>1, <2>2
<1>4. /\ CacheBecomes(Cached(Cache, n, m))
      /\ file' = With(file, n, m)
      /\ slot' = [slot EXCEPT ![x] = <<n, 0>>]
      /\ freeBlocks' = {n} /\ blockCount' = n + 1 /\ UNCHANGED <<entries, deleted>>
      /\ freeBlocks = {} /\ slot[x] = None
  <2>1. PassedBy = {} /\ PassBy = Cache
    BY NothingIsPassedBy DEF IInv
  <2> QED  BY <1>1, <1>2, <1>3, <2>1 DEF WriteToNewBlock
<1> DEFINE r == Drec(x, v)
<1>5. 0 \in Offset /\ Offset \ {0} # {}
  BY IndexBlockAssumption, EmptyBlockFacts DEF Offset
<1>6. /\ m \in Block /\ m.free = Cardinality(EmptyOffsets(m)) /\ EmptyOffsets(m) # {}
      /\ r \in Record /\ m = Replaces(EmptyBlock, 0, r, EmptyBlock.free - 1)
      /\ EmptyBlock.free - 1 \in Nat
  BY <1>2, <1>5, EmptyBlockFacts, RecordIsAdded
<1>7. \A q \in Offset : m.drec[q] = IF q = 0 THEN r ELSE None
  <2> HIDE DEF r
  <2>1. PICK l \in Block : l = EmptyBlock
    BY EmptyBlockFacts
  <2>2. m = Replaces(l, 0, r, l.free - 1) /\ l.free - 1 \in Nat
    BY <1>6, <2>1
  <2>3. \A q \in Offset : m.drec[q] = IF q = 0 THEN r ELSE l.drec[q]
    BY SMTT(30), <1>5, <1>6, <2>2, ReplacesBlock
  <2> QED  BY <2>1, <2>3, EmptyBlockFacts
<1> HIDE DEF r
<1>8. /\ file' \in [0..n -> Block] /\ \A a \in D : file'[a] = file[a]
      /\ file'[n] = m
      /\ <<n, 0>> \notin UsedOf(file)
      /\ UsedOf(file') = UsedOf(file) \cup {<<n, 0>>}
      /\ \A t \in UsedOf(file') : At(file', t) = IF t = <<n, 0>> THEN r ELSE At(file, t)
  <2>1. PICK f \in [0..(n - 1) -> Block] : f = file
    BY <1>3
  <2>2. PICK g : g = file' /\ g = With(f, n, m)
    BY <1>4, <2>1
  <2>3. /\ g \in [0..n -> Block] /\ \A a \in 0..(n - 1) : g[a] = f[a]
        /\ g[n] = m
        /\ <<n, 0>> \notin UsedOf(f)
        /\ UsedOf(g) = UsedOf(f) \cup {<<n, 0>>}
        /\ \A t \in UsedOf(g) : At(g, t) = IF t = <<n, 0>> THEN r ELSE At(f, t)
    BY <1>5, <1>6, <1>7, <2>2, BlockIsAdded
  <2> QED  BY <2>1, <2>2, <2>3
<1>9. 0..((n + 1) - 1) = D \cup {n} /\ n + 1 \in 0..MaxBlocks /\ 0..((n + 1) - 1) = 0..n
  BY <1>1, IndexBlockAssumption
<1>10. FileInv'
  BY <1>4, <1>8, <1>9 DEF IInv, FileInv
<1>11. CountInv'
  <2>1. \A a \in D : EmptyOffsets(file[a]) = {} /\ file[a].free = Cardinality(EmptyOffsets(file[a]))
    BY <1>1, <1>4 DEF IInv, CountInv
  <2>2. n \notin D
    BY <1>1
  <2> HIDE DEF D
  <2>3. \A b \in D \cup {n} : file'[b].free = Cardinality(EmptyOffsets(file'[b]))
    BY <1>6, <1>8, <2>1
  <2>4. freeBlocks' = {b \in D \cup {n} : EmptyOffsets(file'[b]) # {}}
    BY <1>4, <1>6, <1>8, <2>1, <2>2
  <2> QED  BY <1>4, <1>9, <2>3, <2>4 DEF CountInv
<1>12. <<n, 0>> \in Slot
  BY <1>1, <1>5, IndexBlockAssumption DEF Slot
<1>13. SlotInv'
  BY <1>4, <1>8, <1>12, SlotAdded DEF IInv, r
<1>14. CacheInv'
  <2>1. n \in DOMAIN file' /\ \A a \in DOMAIN file \ {n} : a \in DOMAIN file' /\ file'[a] = file[a]
    BY <1>3, <1>8, <1>9
  <2>2. PICK c : c = Cached(Cache, n, m)
    OBVIOUS
  <2>3. SoundCache(c, file')
    BY <1>1, <1>8, <2>1, <2>2, CachedIsSound DEF IInv, CacheInv
  <2>4. Cache' = [blocks |-> c.blocks, lru |-> c.lru, recent |-> c.recent]
    BY <1>4, <2>2 DEF CacheBecomes, Cache
  <2>5. Cache' = c
    BY <2>3, <2>4, Zenon DEF SoundCache
  <2> QED  BY <2>3, <2>5 DEF CacheInv
<1>15. blockCount' > blockCount
  BY <1>1, <1>4
<1> QED  BY <1>4, <1>8, <1>10, <1>11, <1>12, <1>13, <1>14, <1>15 DEF IInv, r

LEMMA EraseStep ==
  ASSUME MaxBlocks <= WrapBlocks, IInv, NEW s \in deleted, EraseRecord(s)
  PROVE  /\ IInv' /\ ~Grows
         /\ s \in Slot /\ slot' = slot /\ \A x \in Key : slot[x] # s
         /\ UsedOf(file') = UsedOf(file) \ {s}
         /\ \A t \in UsedOf(file') : At(file', t) = At(file, t)
<1>1. s \in UsedOf(file)
  BY DEF IInv, SlotInv
<1> DEFINE D == 0..(blockCount - 1)
<1>2. PICK b, o : s = <<b, o>> /\ b = s[1] /\ o = s[2]
  BY <1>1, UsedIsSlot DEF IInv
<1>3. b \in D /\ o \in Offset /\ file[b] \in Block /\ o \notin EmptyOffsets(file[b]) /\ s \in Slot
  BY <1>1, <1>2, UsedIsSlot DEF IInv
<1>4. PICK c : /\ SoundCache(c, file) /\ b \in DOMAIN c.blocks /\ c.blocks[b] = file[b]
               /\ NoLarger(c, Cache)
               /\ WriteBlock(c, b, WithoutRecord(file[b], o))
  <2>1. WriteBlock(GetCachedDiskBlock(Cache, b), b,
                   WithoutRecord(GetCachedDiskBlock(Cache, b).blocks[b], o))
    BY <1>2 DEF EraseRecord
  <2> QED  BY <1>3, <2>1, ReadBlock DEF IInv
<1> DEFINE m == Replaces(file[b], o, None, file[b].free + 1)
<1>5. file[b].free \in Nat /\ file[b].free + 1 \in Nat
      /\ file[b].free = Cardinality(EmptyOffsets(file[b]))
  BY <1>3 DEF Block, IInv, CountInv
<1>6. WithoutRecord(file[b], o) = m
  BY DEF Replaces, WithoutRecord
<1>7. m \in Block /\ EmptyOffsets(m) = EmptyOffsets(file[b]) \cup {o} /\ m.free = file[b].free + 1
  BY <1>3, <1>5, ReplacesBlock
<1>8. m.free = Cardinality(EmptyOffsets(m))
  <2>1. IsFiniteSet(EmptyOffsets(file[b]))
    BY OffsetsAreFinite
  <2>2. Cardinality(EmptyOffsets(file[b]) \cup {o}) = Cardinality(EmptyOffsets(file[b])) + 1
    BY <1>3, <2>1, FS_AddElement
  <2> QED  BY <1>5, <1>7, <2>2
<1>9. /\ file \in [D -> Block] /\ DiskPosition(b) = b
  BY <1>3, PositionIsNumber DEF IInv, FileInv
<1> HIDE DEF D, m
<1>10. /\ file' = [file EXCEPT ![b] = m]
       /\ SoundCache(Cache', file')
       /\ DOMAIN diskBlocks' = DOMAIN c.blocks
  BY <1>4, <1>6, <1>7, <1>9, WrittenIsSound
<1>11. /\ file' \in [D -> Block] /\ \A a \in D \ {b} : file'[a] = file[a]
       /\ file'[b] = m
  BY <1>3, <1>7, <1>9, <1>10
<1>12. /\ UsedOf(file') = UsedOf(file) \ {<<b, o>>}
       /\ \A t \in UsedOf(file') : At(file', t) = At(file, t)
  <2>1. file'[b] = Replaces(file[b], o, None, file[b].free + 1)
    BY <1>11 DEF m
  <2> QED  BY <1>3, <1>5, <1>9, <1>11, <2>1, RecordIsErased
<1>13. /\ freeBlocks' = freeBlocks \cup {b} /\ deleted' = deleted \ {s}
       /\ UNCHANGED <<entries, slot, blockCount>>
  BY <1>2 DEF EraseRecord
<1>14. FileInv'
  BY <1>11, <1>13 DEF IInv, FileInv, D
<1>15. CountInv'
  <2>1. freeBlocks' = IF EmptyOffsets(m) # {} THEN freeBlocks \cup {b} ELSE freeBlocks \ {b}
    BY <1>7, <1>13
  <2> QED  BY <1>3, <1>8, <1>11, <1>13, <2>1, CountsKept DEF IInv, D
<1>16. \A x \in Key : slot[x] # s
  <2>1. s # None
    BY <1>3, IndexBlockAssumption DEF Slot, Offset
  <2> QED  BY <2>1 DEF IInv, SlotInv
<1>17. SlotInv'
  <2>1. ASSUME NEW y \in Key, slot[y] # None
        PROVE  slot[y] \in UsedOf(file') \ deleted' /\ At(file', slot[y]).key = y
    <3>1. slot[y] \in UsedOf(file) \ deleted /\ At(file, slot[y]).key = y /\ slot[y] # s
      BY <1>16, <2>1 DEF IInv, SlotInv
    <3> QED  BY <1>2, <1>12, <1>13, <3>1
  <2>2. deleted' \in SUBSET UsedOf(file')
    BY <1>2, <1>12, <1>13 DEF IInv, SlotInv
  <2> QED  BY <1>13, <2>1, <2>2 DEF IInv, SlotInv
<1>18. ~Grows
  BY <1>4, <1>10, KeepsSize DEF IInv
<1> QED  BY <1>2, <1>3, <1>10, <1>12, <1>13, <1>14, <1>15, <1>16, <1>17, <1>18 DEF IInv, CacheInv

LEMMA LeaveStep ==
  ASSUME IInv, NEW x \in Key, DeleteEntry(x)
  PROVE  /\ IInv' /\ ~Grows
         /\ slot' = [slot EXCEPT ![x] = None] /\ file' = file
<1>1. /\ entries' = entries \ {x} /\ slot' = [slot EXCEPT ![x] = None]
      /\ deleted' = deleted \cup ({slot[x]} \ {None})
      /\ file' = file /\ blockCount' = blockCount /\ UNCHANGED <<freeBlocks, diskBlocks, lru, recent>>
  BY DEF DeleteEntry, memory
<1>2. FileInv'
  BY <1>1 DEF IInv, FileInv
<1>3. CountInv'
  BY <1>1 DEF IInv, CountInv
<1>4. CacheInv'
  <2>1. Cache' = Cache
    BY <1>1 DEF Cache
  <2> QED  BY <1>1, <2>1 DEF IInv, CacheInv
<1>5. SlotInv'
  <2>1. /\ slot' \in [Key -> Slot \cup {None}] /\ slot'[x] = None
        /\ \A y \in Key \ {x} : slot'[y] = slot[y]
    BY <1>1 DEF IInv, SlotInv
  <2>2. deleted' \in SUBSET UsedOf(file)
    BY <1>1 DEF IInv, SlotInv
  <2>3. ASSUME NEW y \in Key \ {x}, slot[y] # None
        PROVE  slot[y] \in UsedOf(file) \ deleted' /\ At(file, slot[y]).key = y
    <3>1. slot[y] \in UsedOf(file) \ deleted /\ At(file, slot[y]).key = y
      BY <2>3 DEF IInv, SlotInv
    <3>2. slot[x] # None => At(file, slot[x]).key = x
      BY DEF IInv, SlotInv
    <3>3. slot[x] # None => slot[y] # slot[x]
      BY <3>1, <3>2
    <3> QED  BY <1>1, <3>1, <3>3
  <2> QED  BY <1>1, <2>1, <2>2, <2>3 DEF SlotInv
<1>6. ~Grows
  <2>1. Cardinality(DOMAIN diskBlocks) \in Nat
    BY SoundCacheSize DEF IInv, CacheInv, Cache
  <2> QED  BY <1>1, <2>1 DEF Grows
<1> QED  BY <1>1, <1>2, <1>3, <1>4, <1>5, <1>6 DEF IInv

LEMMA NewEntryStep ==
  ASSUME IInv, NEW x \in Key, NewEntry(x)
  PROVE  IInv' /\ ~Grows /\ UNCHANGED <<slot, file>>
<1>1. /\ entries' = entries \cup {x}
      /\ UNCHANGED <<slot, deleted, file, blockCount, freeBlocks, diskBlocks, lru, recent>>
  BY DEF NewEntry, memory
<1>2. Cache' = Cache
  BY <1>1 DEF Cache
<1>3. ~Grows
  <2>1. Cardinality(DOMAIN diskBlocks) \in Nat
    BY SoundCacheSize DEF IInv, CacheInv, Cache
  <2> QED  BY <1>1, <2>1 DEF Grows
<1> QED  BY <1>1, <1>2, <1>3 DEF IInv, FileInv, CountInv, SlotInv, CacheInv

LEMMA RestartStep ==
  ASSUME IInv, Restart
  PROVE  /\ IInv' /\ ~Grows /\ file' = file
         /\ slot' \in [Key -> UsedOf(file) \cup {None}]
         /\ \A x \in Key :
              LET mine == {s \in UsedOf(file) : At(file, s).key = x}
              IN  IF mine = {} THEN slot'[x] = None ELSE slot'[x] \in mine
<1>1. Used = UsedOf(file) /\ \A x \in Key : RecordsOf(x) = {s \in UsedOf(file) : At(file, s).key = x}
  BY DEF Used, UsedOf, At, RecordsOf
<1>2. /\ entries' \in SUBSET Key
      /\ slot' \in [Key -> UsedOf(file) \cup {None}]
      /\ \A x \in Key : IF RecordsOf(x) = {} THEN slot'[x] = None ELSE slot'[x] \in RecordsOf(x)
      /\ freeBlocks' = {b \in DOMAIN file : HasRoom(file[b])}
      /\ deleted' = {} /\ file' = file
      /\ blockCount' = Cardinality(DOMAIN file)
      /\ diskBlocks' = <<>> /\ lru' = LRU!EmptyChain /\ recent' = <<>>
  BY <1>1 DEF Restart, FillIndex
<1>3. blockCount' = blockCount
  <2>1. PICK n \in Nat : n = blockCount /\ DOMAIN file = 0..(n - 1)
    BY DEF IInv, FileInv
  <2>2. Cardinality(0..(n - 1)) = IF 0 > n - 1 THEN 0 ELSE n - 1 - 0 + 1
    BY FS_Interval
  <2> QED  BY <1>2, <2>1, <2>2
<1>4. FileInv'
  BY <1>2, <1>3 DEF IInv, FileInv
<1>5. CountInv'
  <2>1. DOMAIN file = 0..(blockCount - 1)
    BY DEF IInv, FileInv
  <2>2. \A b \in DOMAIN file : HasRoom(file[b]) <=> EmptyOffsets(file[b]) # {}
    <3>1. ASSUME NEW b \in DOMAIN file PROVE HasRoom(file[b]) <=> EmptyOffsets(file[b]) # {}
      <4>1. file[b].free = Cardinality(EmptyOffsets(file[b]))
        BY <2>1 DEF IInv, CountInv
      <4>2. /\ Cardinality(EmptyOffsets(file[b])) \in Nat
            /\ ((Cardinality(EmptyOffsets(file[b])) = 0) <=> (EmptyOffsets(file[b]) = {}))
        BY OffsetsAreFinite
      <4> QED  BY <4>1, <4>2 DEF HasRoom
    <3> QED  BY <3>1
  <2> QED  BY <1>2, <1>3, <2>1, <2>2 DEF IInv, CountInv
<1>6. SlotInv'
  <2>1. UsedOf(file) \in SUBSET Slot
    BY UsedIsSlot DEF IInv
  <2>2. ASSUME NEW x \in Key, slot'[x] # None
        PROVE  slot'[x] \in UsedOf(file) /\ At(file, slot'[x]).key = x
    BY <1>1, <1>2, <2>2
  <2> QED  BY <1>2, <2>1, <2>2 DEF SlotInv
<1>7. CacheInv'
  BY <1>2, EmptyCacheIsSound DEF CacheInv, Cache
<1>8. ~Grows
  <2>1. DOMAIN diskBlocks' = {} /\ Cardinality({}) = 0
    BY <1>2, FS_EmptySet
  <2>2. Cardinality(DOMAIN diskBlocks) \in Nat
    BY SoundCacheSize DEF IInv, CacheInv, Cache
  <2> QED  BY <2>1, <2>2 DEF Grows
<1> QED  BY <1>1, <1>2, <1>4, <1>5, <1>6, <1>7, <1>8 DEF IInv

LEMMA StutterStep ==
  ASSUME IInv, UNCHANGED vars
  PROVE  IInv' /\ ~Grows /\ UNCHANGED <<slot, file>>
<1>1. UNCHANGED <<entries, slot, deleted, file, blockCount, freeBlocks, diskBlocks, lru, recent>>
  BY DEF vars, memory
<1>2. Cache' = Cache
  BY <1>1 DEF Cache
<1>3. ~Grows
  <2>1. Cardinality(DOMAIN diskBlocks) \in Nat
    BY SoundCacheSize DEF IInv, CacheInv, Cache
  <2> QED  BY <1>1, <2>1 DEF Grows
<1> QED  BY <1>1, <1>2, <1>3 DEF IInv, FileInv, CountInv, SlotInv, CacheInv

LEMMA NextHolds ==
  ASSUME MaxBlocks <= WrapBlocks, IInv, [Next]_vars
  PROVE  IInv' /\ (Grows => blockCount' > blockCount)
<1>1. CASE \E x \in Key : NewEntry(x) \/ DeleteEntry(x)
  BY <1>1, NewEntryStep, LeaveStep
<1>2. CASE \E x \in Key, v \in Value :
             RewriteRecord(x, v) \/ WriteToFreeBlock(x, v) \/ WriteToNewBlock(x, v)
  BY <1>2, RewriteStep, WriteToFreeStep, WriteToNewStep
<1>3. CASE \E s \in deleted : EraseRecord(s)
  BY <1>3, EraseStep
<1>4. CASE Restart
  BY <1>4, RestartStep
<1>5. CASE UNCHANGED vars
  BY <1>5, StutterStep
<1> QED  BY <1>1, <1>2, <1>3, <1>4, <1>5 DEF Next

LEMMA IInvHolds == ASSUME MaxBlocks <= WrapBlocks PROVE Spec => []IInv
<1>1. IInv /\ [Next]_vars => IInv'
  BY NextHolds
<1> QED  BY <1>1, InitHolds, PTL DEF Spec

(***************************************************************************)
(* What the runs check on a small instance.                                *)
(***************************************************************************)

\* With an index file below 4 GB the cached blocks are the blocks of the file:
\* no freed block loses a write, no DREC is changed in an outdated copy.
THEOREM CachedBlocksAreTheFile == ASSUME MaxBlocks <= WrapBlocks PROVE Spec => []CacheIsFile
<1>1. IInv => CacheIsFile
  BY DEF IInv, CacheInv, SoundCache, CacheIsFile, Cache
<1> QED  BY <1>1, IInvHolds, PTL

\* The free space counted in a block is the number of its empty DRECs, and
\* m_freeBlocks names the blocks that have one.
THEOREM FreeSpaceIsCounted == ASSUME MaxBlocks <= WrapBlocks PROVE Spec => []FreeBlocksHaveRoom
<1>1. IInv => FreeBlocksHaveRoom
  <2> SUFFICES ASSUME IInv PROVE FreeBlocksHaveRoom
    OBVIOUS
  <2>1. DOMAIN file = 0..(blockCount - 1)
    BY DEF IInv, FileInv
  <2> QED  BY <2>1 DEF IInv, CountInv, FreeBlocksHaveRoom
<1> QED  BY <1>1, IInvHolds, PTL

\* The chain of the LRU cache is the order in which the cached blocks were
\* used, from either end, and names all of them.
THEOREM ChainIsOrderOfUse == ASSUME MaxBlocks <= WrapBlocks PROVE Spec => []ChainIsRecency
<1>1. IInv => ChainIsRecency
  <2> SUFFICES ASSUME IInv PROVE ChainIsRecency
    OBVIOUS
  <2>1. Cache.blocks = diskBlocks /\ Cache.lru = lru /\ Cache.recent = recent
    BY DEF Cache
  <2>2. SoundCache(Cache, file)
    BY DEF IInv, CacheInv
  <2>3. LRU!IsChain(lru, recent)
    BY <2>1, <2>2, ChainIsLinked DEF SoundCache
  <2>4. LRU!CachedKeys(lru) = DOMAIN diskBlocks
    BY <2>1, <2>2 DEF SoundCache, Linked
  <2>5. Cardinality(DOMAIN diskBlocks) = Len(recent)
    BY <2>1, <2>2, SoundCacheSize
  <2> QED  BY <2>3, <2>4, <2>5 DEF ChainIsRecency
<1> QED  BY <1>1, IInvHolds, PTL

\* Over IndexBlockCacheSize the cache grows only when the file does: a miss
\* frees as much as it reads.
THEOREM CacheKeepsItsSize == ASSUME MaxBlocks <= WrapBlocks PROVE Spec => GrowsOnlyByNewBlocks
<1>1. ASSUME IInv, [Next]_vars
      PROVE  [Cardinality(DOMAIN diskBlocks') > Cardinality(DOMAIN diskBlocks) =>
                 \/ Cardinality(DOMAIN diskBlocks) <= CacheBlocks
                 \/ blockCount' > blockCount]_vars
  <2>1. Grows => blockCount' > blockCount
    BY <1>1, NextHolds
  <2>2. Cardinality(DOMAIN diskBlocks) \in Nat /\ CacheBlocks \in Nat
    BY <1>1, SoundCacheSize, IndexBlockAssumption DEF IInv, CacheInv, Cache
  <2>3. \A n \in Nat, k \in Nat : n > k \/ n <= k
    OBVIOUS
  <2> QED  BY <2>1, <2>2, <2>3 DEF Grows
<1> QED  BY <1>1, IInvHolds, PTL DEF Spec, GrowsOnlyByNewBlocks

(***************************************************************************)
(* The refinement: every step is one of SlotFile or leaves its state.      *)
(***************************************************************************)

LEMMA SlotsAre ==
  /\ Used = UsedOf(file) /\ DOMAIN Slots = UsedOf(file)
  /\ Slots = [t \in UsedOf(file) |-> At(file, t)]
  /\ \A t \in UsedOf(file) : Slots[t] = At(file, t)
  BY DEF Slots, Used, UsedOf, At

LEMMA SlotsBecome ==
  /\ DOMAIN Slots' = UsedOf(file')
  /\ Slots' = [t \in UsedOf(file') |-> At(file', t)]
  BY DEF Slots, Used, UsedOf, At

\* x has a DREC with v at s, and nothing else changed.
LEMMA HoldsStep ==
  ASSUME NEW s, NEW x, NEW v, UsedOf(file') = UsedOf(file) \cup {s},
         \A t \in UsedOf(file') : At(file', t) = IF t = s THEN Drec(x, v) ELSE At(file, t)
  PROVE  SF!Holds(s, x, v)
<1>1. Slots' = [t \in DOMAIN Slots \cup {s} |-> IF t = s THEN [key |-> x, data |-> v] ELSE Slots[t]]
  <2> DEFINE D == DOMAIN Slots \cup {s}
             G(t) == IF t = s THEN [key |-> x, data |-> v] ELSE Slots[t]
  <2>1. D = UsedOf(file')
    BY SlotsAre
  <2>2. \A t \in D : At(file', t) = G(t)
    BY SlotsAre DEF Drec
  <2> HIDE DEF D, G
  <2>3. Slots' = [t \in D |-> G(t)]
    BY <2>1, <2>2, SlotsBecome
  <2> QED  BY <2>3 DEF D, G
<1> QED  BY <1>1 DEF SF!Holds

LEMMA RefinedNext ==
  ASSUME MaxBlocks <= WrapBlocks, IInv, [Next]_vars
  PROVE  [SF!FNext]_<<Slots, slot>>
<1>1. file' = file => Slots' = Slots
  BY SlotsAre, SlotsBecome
<1>2. ASSUME NEW x \in Key, NewEntry(x) PROVE UNCHANGED <<Slots, slot>>
  BY <1>1, <1>2, NewEntryStep
<1>3. ASSUME NEW x \in Key, DeleteEntry(x) PROVE SF!Leave(x)
  BY <1>1, <1>3, LeaveStep DEF SF!Leave
<1>4. ASSUME NEW x \in Key, NEW v \in Value, RewriteRecord(x, v) PROVE SF!Rewrite(x, v)
  BY <1>4, RewriteStep, HoldsStep DEF SF!Rewrite
<1>5. ASSUME NEW x \in Key, NEW v \in Value, WriteToFreeBlock(x, v) \/ WriteToNewBlock(x, v)
      PROVE  SF!WriteNew(x, v)
  <2>1. slot[x] = None /\ \E s \in Slot \ UsedOf(file) :
              /\ slot' = [slot EXCEPT ![x] = s]
              /\ UsedOf(file') = UsedOf(file) \cup {s}
              /\ \A t \in UsedOf(file') : At(file', t) = IF t = s THEN Drec(x, v) ELSE At(file, t)
    BY <1>5, WriteToFreeStep, WriteToNewStep
  <2>2. PICK s \in Slot \ DOMAIN Slots : SF!Holds(s, x, v) /\ slot' = [slot EXCEPT ![x] = s]
    BY <2>1, SlotsAre, HoldsStep
  <2> QED  BY <2>1, <2>2 DEF SF!WriteNew
<1>6. ASSUME NEW s \in deleted, EraseRecord(s) PROVE s \in Slot /\ SF!Erase(s)
  <2>1. /\ s \in Slot /\ slot' = slot /\ \A x \in Key : slot[x] # s
        /\ UsedOf(file') = UsedOf(file) \ {s}
        /\ \A t \in UsedOf(file') : At(file', t) = At(file, t)
    BY <1>6, EraseStep
  <2>2. Slots' = [t \in DOMAIN Slots \ {s} |-> Slots[t]]
    BY <2>1, SlotsAre, SlotsBecome
  <2> QED  BY <2>1, <2>2 DEF SF!Erase
<1>7. ASSUME Restart PROVE SF!Load
  <2>1. /\ file' = file /\ DOMAIN slot' = Key
        /\ \A x \in Key :
             LET mine == {s \in UsedOf(file) : At(file, s).key = x}
             IN  IF mine = {} THEN slot'[x] = None ELSE slot'[x] \in mine
    BY <1>7, RestartStep
  <2>2. \A x \in Key : {s \in DOMAIN Slots : Slots[s].key = x} = {s \in UsedOf(file) : At(file, s).key = x}
    BY SlotsAre
  <2> QED  BY <1>1, <2>1, <2>2 DEF SF!Load
<1>8. CASE UNCHANGED vars
  BY <1>1, <1>8, StutterStep
<1>9. CASE Next
  BY <1>2, <1>3, <1>4, <1>5, <1>6, <1>7, <1>9 DEF Next, SF!FNext
<1> QED  BY <1>8, <1>9

\* Blocks, caches, free counters and crashes implement the slots Storage counts
\* on: a first DREC goes to an empty slot, a rewrite and an erasure hit the slot
\* of the entry, a start finds the DREC of every X.
THEOREM SlotFileIsImplemented ==
  ASSUME MaxBlocks <= WrapBlocks PROVE Spec => ImplementsSlotFile
<1>1. Init => SF!FInit
  <2> SUFFICES ASSUME Init PROVE Slots = <<>> /\ slot = [x \in Key |-> None]
    BY DEF SF!FInit
  <2>1. Used = {} /\ DOMAIN <<>> = {}
    BY DEF Init, Used
  <2>2. Slots = <<>>
    BY <2>1 DEF Slots
  <2> QED  BY <2>2 DEF Init
<1>2. IInv /\ [Next]_vars => [SF!FNext]_<<Slots, slot>>
  BY RefinedNext
<1> QED  BY <1>1, <1>2, IInvHolds, PTL DEF Spec, ImplementsSlotFile, SF!FSpec
=============================================================================
