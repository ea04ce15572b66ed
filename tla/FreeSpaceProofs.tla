--------------------------- MODULE FreeSpaceProofs ---------------------------
(***************************************************************************)
(* Proofs about FreeSpace, for any number of X's, any sizes and any        *)
(* ReallocSize: the extents, the free pieces and the extents given up by   *)
(* the Process call under way tile the data file at every moment.          *)
(***************************************************************************)
EXTENDS FreeSpace, FiniteSetTheorems, FunctionTheorems, WellFoundedInduction, TLAPS

(***************************************************************************)
(* Natural numbers and sets of them.                                       *)
(***************************************************************************)

LEMMA MinExists ==
  ASSUME NEW S \in SUBSET Nat, S # {}
  PROVE  \E m \in S : \A n \in S : m <= n
<1> DEFINE Less == {p \in Nat \X Nat : p[1] < p[2]}
<1>1. Less = OpToRel(<, Nat)
  BY DEF OpToRel
<1>2. IsWellFoundedOn(Less, Nat)
  BY <1>1, NatLessThanWellFounded
<1> HIDE DEF Less
<1>3. PICK m \in S : \A n \in S : <<n, m>> \notin Less
  BY <1>2, WFMin
<1>4. \A n \in S : ~(n < m)
  BY <1>3 DEF Less
<1> QED  BY <1>3, <1>4

LEMMA MaxExists ==
  ASSUME NEW S \in SUBSET Nat, S # {}, NEW b \in Nat, \A n \in S : n <= b
  PROVE  \E m \in S : \A n \in S : n <= m
<1> DEFINE T == {b - n : n \in S}
<1>1. T \in SUBSET Nat /\ T # {}
  <2>1. \A n \in S : b - n \in Nat
    OBVIOUS
  <2> QED  BY <2>1
<1> HIDE DEF T
<1>2. PICK d \in T : \A n \in T : d <= n
  BY <1>1, MinExists
<1>3. PICK m \in S : d = b - m
  BY <1>2 DEF T
<1>4. \A n \in S : b - m <= b - n
  BY <1>2, <1>3 DEF T
<1> QED  BY <1>3, <1>4

\* InOrder names every element of a finite set once.
LEMMA InOrderNamesAll ==
  ASSUME NEW S \in SUBSET Nat, IsFiniteSet(S)
  PROVE  /\ Cardinality(S) \in Nat
         /\ DOMAIN InOrder(S) = 1..Cardinality(S)
         /\ \A j \in 1..Cardinality(S) : InOrder(S)[j] \in S
         /\ \A j, k \in 1..Cardinality(S) : InOrder(S)[j] = InOrder(S)[k] => j = k
         /\ \A p \in S : \E j \in 1..Cardinality(S) : InOrder(S)[j] = p
<1> DEFINE Below(p) == {q \in S : q < p}
           rank == [p \in S |-> Cardinality(Below(p))]
<1>0. PICK n \in Nat : n = Cardinality(S)
  BY FS_CardinalityType
<1>1. \A p \in S : /\ IsFiniteSet(Below(p)) /\ rank[p] \in Nat /\ rank[p] < n
  <2>1. ASSUME NEW p \in S
        PROVE  IsFiniteSet(Below(p)) /\ rank[p] \in Nat /\ rank[p] < n
    <3>1. Below(p) \in SUBSET S /\ Below(p) # S /\ p \notin Below(p)
      OBVIOUS
    <3>2. IsFiniteSet(Below(p)) /\ Cardinality(Below(p)) <= n
          /\ (n = Cardinality(Below(p)) => S = Below(p))
      <4>1. /\ IsFiniteSet(Below(p)) /\ Cardinality(Below(p)) <= Cardinality(S)
            /\ (Cardinality(S) = Cardinality(Below(p)) => S = Below(p))
        BY <3>1, FS_Subset
      <4> QED  BY <1>0, <4>1
    <3>3. Cardinality(Below(p)) \in Nat
      BY <3>2, FS_CardinalityType
    <3> QED  BY <3>1, <3>2, <3>3
  <2> QED  BY <2>1
<1>2. \A p, q \in S : p < q => rank[p] < rank[q]
  <2>1. ASSUME NEW p \in S, NEW q \in S, p < q PROVE rank[p] < rank[q]
    <3>a. (\A r \in S : r < p => r < q) /\ ~(p < p)
      BY <2>1
    <3>1. Below(p) \in SUBSET Below(q) /\ p \in Below(q) /\ p \notin Below(p)
      BY <2>1, <3>a, Zenon
    <3>2. /\ Cardinality(Below(p)) <= Cardinality(Below(q))
          /\ (Cardinality(Below(q)) = Cardinality(Below(p)) => Below(q) = Below(p))
      <4>1. IsFiniteSet(Below(q))
        BY <1>1
      <4> QED  BY <3>1, <4>1, FS_Subset
    <3>3. rank[p] \in Nat /\ rank[q] \in Nat
      BY <1>1
    <3>4. rank[p] <= rank[q] /\ rank[p] # rank[q]
      BY <3>1, <3>2
    <3> QED  BY <3>3, <3>4
  <2> QED  BY <2>1
<1>3. \A p, q \in S : rank[p] = rank[q] => p = q
  <2> SUFFICES ASSUME NEW p \in S, NEW q \in S, p # q PROVE rank[p] # rank[q]
    OBVIOUS
  <2>1. p \in Nat /\ q \in Nat /\ rank[p] \in Nat /\ rank[q] \in Nat
    BY <1>1
  <2>2. p < q \/ q < p
    BY <2>1
  <2>3. rank[p] < rank[q] \/ rank[q] < rank[p]
    BY <1>2, <2>2
  <2> QED  BY <2>1, <2>3
<1>4. rank \in [S -> 0..(n - 1)]
  BY <1>0, <1>1
<1> HIDE DEF rank
<1>5. \A i \in 0..(n - 1) : \E p \in S : rank[p] = i
  <2>1. rank \in Injection(S, 0..(n - 1))
    BY <1>3, <1>4 DEF Injection, IsInjective
  <2>2. IsFiniteSet(0..(n - 1)) /\ Cardinality(0..(n - 1)) = n
    <3>1. /\ IsFiniteSet(0..(n - 1))
          /\ Cardinality(0..(n - 1)) = IF 0 > n - 1 THEN 0 ELSE n - 1 - 0 + 1
      <4>1. 0 \in Int /\ n - 1 \in Int
        BY <1>0
      <4> QED  BY <4>1, FS_Interval
    <3> QED  BY <1>0, <3>1
  <2>3. (Cardinality(S) = Cardinality(0..(n - 1))) <=> (rank \in Surjection(S, 0..(n - 1)))
    BY <2>1, <2>2, FS_Injection
  <2>4. rank \in Surjection(S, 0..(n - 1))
    BY <1>0, <2>2, <2>3
  <2> QED  BY <2>4 DEF Surjection
<1>6. /\ DOMAIN InOrder(S) = 1..n
      /\ \A i \in 1..n : InOrder(S)[i] = CHOOSE p \in S : Cardinality({q \in S : q < p}) = i - 1
  BY <1>0 DEF InOrder
<1>7. \A i \in 1..n : InOrder(S)[i] \in S /\ rank[InOrder(S)[i]] = i - 1
  <2>1. ASSUME NEW i \in 1..n PROVE InOrder(S)[i] \in S /\ rank[InOrder(S)[i]] = i - 1
    <3>1. i - 1 \in 0..(n - 1)
      BY <1>0
    <3>2. PICK p \in S : rank[p] = i - 1
      BY <1>5, <3>1
    <3>3. Cardinality({q \in S : q < p}) = i - 1
      BY <3>2 DEF rank
    <3>4. /\ InOrder(S)[i] \in S
          /\ Cardinality({q \in S : q < InOrder(S)[i]}) = i - 1
      BY <1>6, <3>3, Zenon
    <3> QED  BY <3>4 DEF rank
  <2> QED  BY <2>1
<1>8. \A p \in S : rank[p] + 1 \in 1..n /\ InOrder(S)[rank[p] + 1] = p
  <2>1. ASSUME NEW p \in S PROVE rank[p] + 1 \in 1..n /\ InOrder(S)[rank[p] + 1] = p
    <3>1. rank[p] \in 0..(n - 1)
      BY <1>4
    <3>2. rank[p] + 1 \in 1..n /\ (rank[p] + 1) - 1 = rank[p]
      BY <1>0, <3>1
    <3> QED  BY <1>3, <1>7, <3>2
  <2> QED  BY <2>1
<1>9. DOMAIN InOrder(S) = 1..n
  BY <1>6
<1>10. \A j, k \in 1..n : InOrder(S)[j] = InOrder(S)[k] => j = k
  <2> SUFFICES ASSUME NEW j \in 1..n, NEW k \in 1..n, InOrder(S)[j] = InOrder(S)[k] PROVE j = k
    OBVIOUS
  <2>1. j - 1 = k - 1
    BY <1>7
  <2> QED  BY <1>0, <2>1
<1> HIDE DEF Below
<1>11. \A p \in S : \E j \in 1..n : InOrder(S)[j] = p
  BY <1>8
<1>12. \A j \in 1..n : InOrder(S)[j] \in S
  BY <1>7
<1> QED  BY <1>0, <1>9, <1>10, <1>11, <1>12

(***************************************************************************)
(* The lists of free positions and the pieces they stand for.              *)
(***************************************************************************)

PieceSet == [pos : Nat, len : Nat \ {0}]

Lists(free) ==
  /\ DOMAIN free \subseteq Nat \ {0}
  /\ \A l \in DOMAIN free :
       /\ free[l] \in Seq(Nat) /\ free[l] # <<>>
       /\ \A i, j \in 1..Len(free[l]) : free[l][i] = free[l][j] => i = j

Listed(free, p) ==
  p.len \in DOMAIN free /\ \E i \in 1..Len(free[p.len]) : free[p.len][i] = p.pos

LEMMA PieceIs ==
  /\ \A x, l : Piece(x, l).pos = x /\ Piece(x, l).len = l
  /\ \A x \in Nat, l \in Nat \ {0} : Piece(x, l) \in PieceSet
  /\ \A p \in PieceSet : p = Piece(p.pos, p.len) /\ p.pos \in Nat /\ p.len \in Nat \ {0}
  /\ \A p, q \in PieceSet : p.pos = q.pos /\ p.len = q.len => p = q
BY DEF Piece, PieceSet

LEMMA InPieces ==
  ASSUME NEW free, Lists(free)
  PROVE  /\ PiecesOf(free) \subseteq PieceSet
         /\ \A p \in PieceSet : p \in PiecesOf(free) <=> Listed(free, p)
<1>1. \A l \in DOMAIN free : DOMAIN free[l] = 1..Len(free[l])
  BY DEF Lists
<1>2. \A l \in DOMAIN free : \A i \in DOMAIN free[l] :
        l \in Nat \ {0} /\ free[l][i] \in Nat
  <2>1. ASSUME NEW l \in DOMAIN free, NEW i \in DOMAIN free[l] PROVE free[l][i] \in Nat
    BY DEF Lists
  <2> QED  BY <2>1 DEF Lists
<1>3. \A p : p \in PiecesOf(free) <=>
        \E l \in DOMAIN free : \E i \in DOMAIN free[l] : p = Piece(free[l][i], l)
  BY DEF PiecesOf
<1>4. PiecesOf(free) \subseteq PieceSet
  BY <1>2, <1>3, PieceIs
<1>5. ASSUME NEW p \in PieceSet PROVE p \in PiecesOf(free) <=> Listed(free, p)
  <2>1. ASSUME Listed(free, p) PROVE p \in PiecesOf(free)
    <3>1. PICK i \in DOMAIN free[p.len] : free[p.len][i] = p.pos
      BY <1>1, <2>1 DEF Listed
    <3>2. p.len \in DOMAIN free /\ p = Piece(free[p.len][i], p.len)
      BY <2>1, <3>1, PieceIs DEF Listed
    <3> QED  BY <1>3, <3>2
  <2>2. ASSUME p \in PiecesOf(free) PROVE Listed(free, p)
    <3>a. PICK l \in DOMAIN free : \E i \in DOMAIN free[l] : p = Piece(free[l][i], l)
      BY <1>3, <2>2
    <3>1. PICK i \in DOMAIN free[l] : p = Piece(free[l][i], l)
      BY <3>a
    <3>2. p.len = l /\ p.pos = free[l][i]
      BY <3>1, PieceIs
    <3> QED  BY <1>1, <3>1, <3>2 DEF Listed
  <2> QED  BY <2>1, <2>2
<1> QED  BY <1>4, <1>5

\* Two sequences without repetitions and without a common element, one after
\* the other.
LEMMA Joined ==
  ASSUME NEW s \in Seq(Nat), NEW t \in Seq(Nat),
         \A i, j \in 1..Len(s) : s[i] = s[j] => i = j,
         \A i, j \in 1..Len(t) : t[i] = t[j] => i = j,
         \A i \in 1..Len(s), j \in 1..Len(t) : s[i] # t[j]
  PROVE  /\ s \o t \in Seq(Nat) /\ Len(s \o t) = Len(s) + Len(t)
         /\ \A i, j \in 1..Len(s \o t) : (s \o t)[i] = (s \o t)[j] => i = j
         /\ \A x : (\E i \in 1..Len(s \o t) : (s \o t)[i] = x) <=>
                     \/ \E i \in 1..Len(s) : s[i] = x
                     \/ \E i \in 1..Len(t) : t[i] = x
<1> DEFINE r == s \o t
<1>1. PICK a \in Nat : a = Len(s)
  OBVIOUS
<1>2. PICK b \in Nat : b = Len(t)
  OBVIOUS
<1>3. r \in Seq(Nat) /\ Len(r) = a + b
      /\ \A i \in 1..(a + b) : r[i] = IF i <= a THEN s[i] ELSE t[i - a]
  BY <1>1, <1>2
<1> HIDE DEF r
<1>a. \A i \in 1..a : i \in 1..(a + b) /\ r[i] = s[i]
  BY <1>3
<1>b. \A i \in 1..(a + b) : i > a => i - a \in 1..b /\ r[i] = t[i - a]
  BY <1>3
<1>c. \A i \in 1..(a + b) : i > a \/ i \in 1..a
  OBVIOUS
<1>4. ASSUME NEW i \in 1..(a + b), NEW j \in 1..(a + b), r[i] = r[j] PROVE i = j
  <2>1. CASE i \in 1..a /\ j \in 1..a
    BY <1>1, <1>a, <1>4, <2>1
  <2>2. CASE i > a /\ j > a
    <3>1. i - a \in 1..b /\ j - a \in 1..b /\ t[i - a] = t[j - a]
      BY <1>b, <1>4, <2>2
    <3>2. i - a = j - a
      BY <1>2, <3>1
    <3> QED  BY <1>1, <3>2
  <2>3. CASE i \in 1..a /\ j > a
    <3>1. j - a \in 1..b /\ r[i] = s[i] /\ r[j] = t[j - a]
      BY <1>a, <1>b, <2>3
    <3> QED  BY <1>1, <1>2, <1>4, <2>3, <3>1
  <2>4. CASE i > a /\ j \in 1..a
    <3>1. i - a \in 1..b /\ r[j] = s[j] /\ r[i] = t[i - a]
      BY <1>a, <1>b, <2>4
    <3> QED  BY <1>1, <1>2, <1>4, <2>4, <3>1
  <2> QED  BY <1>c, <2>1, <2>2, <2>3, <2>4
<1>5. ASSUME NEW x
      PROVE  (\E i \in 1..(a + b) : r[i] = x) <=>
               \/ \E i \in 1..a : s[i] = x
               \/ \E i \in 1..b : t[i] = x
  <2>1. ASSUME NEW i \in 1..(a + b), r[i] = x
        PROVE  (\E j \in 1..a : s[j] = x) \/ \E j \in 1..b : t[j] = x
    <3>1. CASE i \in 1..a
      BY <1>a, <2>1, <3>1
    <3>2. CASE i > a
      BY <1>b, <2>1, <3>2
    <3> QED  BY <1>c, <3>1, <3>2
  <2>2. ASSUME NEW j \in 1..a, s[j] = x PROVE \E i \in 1..(a + b) : r[i] = x
    <3>1. j \in 1..(a + b) /\ r[j] = x
      BY <1>3, <2>2
    <3> QED  BY <3>1
  <2>3. ASSUME NEW j \in 1..b, t[j] = x PROVE \E i \in 1..(a + b) : r[i] = x
    <3>1. j + a \in 1..(a + b) /\ ~(j + a <= a) /\ (j + a) - a = j
      OBVIOUS
    <3>2. r[j + a] = x
      BY <1>3, <2>3, <3>1
    <3> QED  BY <3>1, <3>2
  <2> QED  BY <2>1, <2>2, <2>3
<1> QED  BY <1>1, <1>2, <1>3, <1>4, <1>5 DEF r

LEMMA AddPiecesAdds ==
  ASSUME NEW free, Lists(free),
         NEW P, DOMAIN P \subseteq Nat, IsFiniteSet(DOMAIN P),
         \A i \in DOMAIN P : P[i] \in PieceSet /\ ~Listed(free, P[i]),
         \A i, j \in DOMAIN P : P[i] = P[j] => i = j
  PROVE  /\ Lists(AddPieces(free, P))
         /\ \A p \in PieceSet : Listed(AddPieces(free, P), p) <=>
              Listed(free, p) \/ \E i \in DOMAIN P : P[i] = p
<1> DEFINE new     == AddPieces(free, P)
           of(l)   == {i \in DOMAIN P : P[i].len = l}
           old(l)  == IF l \in DOMAIN free THEN free[l] ELSE <<>>
           more(l) == [j \in DOMAIN InOrder(of(l)) |-> P[InOrder(of(l))[j]].pos]
<1>1. /\ DOMAIN new = DOMAIN free \cup {P[i].len : i \in DOMAIN P}
      /\ \A l \in DOMAIN new : new[l] = old(l) \o more(l)
  BY DEF AddPieces
<1>2. ASSUME NEW l
      PROVE  /\ more(l) \in Seq(Nat)
             /\ \A j, k \in 1..Len(more(l)) : more(l)[j] = more(l)[k] => j = k
             /\ \A x : (\E j \in 1..Len(more(l)) : more(l)[j] = x) <=>
                         \E i \in DOMAIN P : P[i].len = l /\ P[i].pos = x
  <2> DEFINE S == of(l)
             o == InOrder(S)
             t == more(l)
  <2>1. S \in SUBSET Nat /\ S \in SUBSET DOMAIN P
    OBVIOUS
  <2>2. IsFiniteSet(S)
    BY <2>1, FS_Subset
  <2>3. PICK n \in Nat : n = Cardinality(S)
    BY <2>2, FS_CardinalityType
  <2>4. /\ DOMAIN o = 1..n
        /\ \A j \in 1..n : o[j] \in S
        /\ \A j, k \in 1..n : o[j] = o[k] => j = k
        /\ \A i \in S : \E j \in 1..n : o[j] = i
    <3> HIDE DEF S
    <3> QED  BY <2>1, <2>2, <2>3, InOrderNamesAll
  <2>5. t = [j \in 1..n |-> P[o[j]].pos]
    BY <2>4
  <2>6. \A i \in S : i \in DOMAIN P /\ P[i] \in PieceSet /\ P[i].len = l /\ P[i].pos \in Nat
    <3>1. \A i \in S : i \in DOMAIN P /\ P[i].len = l
      OBVIOUS
    <3> QED  BY <3>1, PieceIs
  <2>7. \A i, j \in S : P[i].pos = P[j].pos => i = j
    BY <2>6, PieceIs
  <2>8. \A i \in DOMAIN P : P[i].len = l => i \in S
    OBVIOUS
  <2> HIDE DEF S, o, t
  <2>9. t \in Seq(Nat) /\ Len(t) = n
    <3>1. \A j \in 1..n : P[o[j]].pos \in Nat
      BY <2>4, <2>6
    <3>2. t \in [1..n -> Nat]
      BY <2>5, <3>1
    <3> QED  BY <2>3, <3>2
  <2>10. \A j, k \in 1..n : t[j] = t[k] => j = k
    <3> SUFFICES ASSUME NEW j \in 1..n, NEW k \in 1..n, t[j] = t[k] PROVE j = k
      OBVIOUS
    <3>1. P[o[j]].pos = P[o[k]].pos /\ o[j] \in S /\ o[k] \in S
      BY <2>4, <2>5
    <3>2. o[j] = o[k]
      BY <2>7, <3>1
    <3> QED  BY <2>4, <3>2
  <2>11. ASSUME NEW x
         PROVE  (\E j \in 1..n : t[j] = x) <=> \E i \in DOMAIN P : P[i].len = l /\ P[i].pos = x
    <3>1. ASSUME NEW j \in 1..n, t[j] = x
          PROVE  \E i \in DOMAIN P : P[i].len = l /\ P[i].pos = x
      <4>1. o[j] \in S /\ P[o[j]].pos = x
        BY <2>4, <2>5, <3>1
      <4> QED  BY <2>6, <4>1
    <3>2. ASSUME NEW i \in DOMAIN P, P[i].len = l, P[i].pos = x
          PROVE  \E j \in 1..n : t[j] = x
      <4>1. PICK j \in 1..n : o[j] = i
        BY <2>4, <2>8, <3>2
      <4>2. t[j] = x
        BY <2>5, <3>2, <4>1
      <4> QED  BY <4>2
    <3> QED  BY <3>1, <3>2
  <2>12. /\ t \in Seq(Nat)
         /\ \A j, k \in 1..Len(t) : t[j] = t[k] => j = k
         /\ \A x : (\E j \in 1..Len(t) : t[j] = x) <=>
                     \E i \in DOMAIN P : P[i].len = l /\ P[i].pos = x
    BY <2>9, <2>10, <2>11
  <2> QED  BY <2>12 DEF t
<1> HIDE DEF new, of, more
<1>3. ASSUME NEW l \in DOMAIN new
      PROVE  /\ l \in Nat \ {0} /\ new[l] \in Seq(Nat) /\ new[l] # <<>>
             /\ \A i, j \in 1..Len(new[l]) : new[l][i] = new[l][j] => i = j
             /\ \A x : (\E i \in 1..Len(new[l]) : new[l][i] = x) <=>
                         \/ l \in DOMAIN free /\ \E i \in 1..Len(free[l]) : free[l][i] = x
                         \/ \E i \in DOMAIN P : P[i].len = l /\ P[i].pos = x
  <2> DEFINE s == old(l)
             t == more(l)
  <2>1. s \in Seq(Nat) /\ \A i, j \in 1..Len(s) : s[i] = s[j] => i = j
    <3>1. CASE l \in DOMAIN free
      BY <3>1 DEF Lists
    <3>2. CASE l \notin DOMAIN free
      BY <3>2
    <3> QED  BY <3>1, <3>2
  <2>2. \A x : (\E i \in 1..Len(s) : s[i] = x) <=>
                 l \in DOMAIN free /\ \E i \in 1..Len(free[l]) : free[l][i] = x
    <3>1. CASE l \in DOMAIN free
      BY <3>1
    <3>2. CASE l \notin DOMAIN free
      BY <3>2
    <3> QED  BY <3>1, <3>2
  <2>3. /\ t \in Seq(Nat)
        /\ \A i, j \in 1..Len(t) : t[i] = t[j] => i = j
        /\ \A x : (\E j \in 1..Len(t) : t[j] = x) <=>
                    \E i \in DOMAIN P : P[i].len = l /\ P[i].pos = x
    BY <1>2
  <2>4. new[l] = s \o t
    BY <1>1
  <2>5. l \in Nat \ {0}
    <3>1. \A i \in DOMAIN P : P[i].len \in Nat \ {0}
      BY PieceIs
    <3> QED  BY <1>1, <3>1 DEF Lists
  <2>6. \E x : (\E i \in 1..Len(s) : s[i] = x) \/ \E i \in 1..Len(t) : t[i] = x
    <3>1. CASE l \in DOMAIN free
      <4>1. free[l] \in Seq(Nat) /\ free[l] # <<>>
        BY <3>1 DEF Lists
      <4>2. 1 \in 1..Len(free[l])
        BY <4>1
      <4> QED  BY <2>2, <3>1, <4>2
    <3>2. CASE l \notin DOMAIN free
      <4>1. PICK i \in DOMAIN P : P[i].len = l
        BY <1>1, <3>2
      <4> QED  BY <2>3, <4>1
    <3> QED  BY <3>1, <3>2
  <2> HIDE DEF s, t, old
  <2>7. \A i \in 1..Len(s), j \in 1..Len(t) : s[i] # t[j]
    <3> SUFFICES ASSUME NEW i \in 1..Len(s), NEW j \in 1..Len(t), s[i] = t[j] PROVE FALSE
      OBVIOUS
    <3>1. PICK k \in DOMAIN P : P[k].len = l /\ P[k].pos = s[i]
      BY <2>3
    <3>2. Listed(free, P[k])
      BY <2>2, <3>1 DEF Listed
    <3> QED  BY <3>2
  <2>8. /\ s \o t \in Seq(Nat)
        /\ \A i, j \in 1..Len(s \o t) : (s \o t)[i] = (s \o t)[j] => i = j
        /\ \A x : (\E i \in 1..Len(s \o t) : (s \o t)[i] = x) <=>
                     \/ \E i \in 1..Len(s) : s[i] = x
                     \/ \E i \in 1..Len(t) : t[i] = x
    BY <2>1, <2>3, <2>7, Joined
  <2>9. new[l] # <<>>
    <3>1. PICK i : i \in 1..Len(new[l])
      BY <2>4, <2>6, <2>8
    <3> QED  BY <3>1
  <2> QED  BY ZenonT(40), <2>2, <2>3, <2>4, <2>5, <2>8, <2>9
<1>4. Lists(new)
  BY <1>3 DEF Lists
<1>5. ASSUME NEW p \in PieceSet
      PROVE  Listed(new, p) <=> Listed(free, p) \/ \E i \in DOMAIN P : P[i] = p
  <2>1. \A i \in DOMAIN P : (P[i] = p) <=> (P[i].len = p.len /\ P[i].pos = p.pos)
    BY PieceIs
  <2>2. CASE p.len \in DOMAIN new
    <3>1. (\E i \in 1..Len(new[p.len]) : new[p.len][i] = p.pos) <=>
             \/ p.len \in DOMAIN free /\ \E i \in 1..Len(free[p.len]) : free[p.len][i] = p.pos
             \/ \E i \in DOMAIN P : P[i].len = p.len /\ P[i].pos = p.pos
      <4>1. \A x : (\E i \in 1..Len(new[p.len]) : new[p.len][i] = x) <=>
               \/ p.len \in DOMAIN free /\ \E i \in 1..Len(free[p.len]) : free[p.len][i] = x
               \/ \E i \in DOMAIN P : P[i].len = p.len /\ P[i].pos = x
        BY <1>3, <2>2
      <4> QED  BY <4>1, Zenon
    <3> QED  BY <2>1, <2>2, <3>1, Zenon DEF Listed
  <2>3. CASE p.len \notin DOMAIN new
    BY <1>1, <2>1, <2>3 DEF Listed
  <2> QED  BY <2>2, <2>3
<1> QED  BY <1>4, <1>5 DEF new

LEMMA AddFreeSpaceAdds ==
  ASSUME NEW free, Lists(free), NEW q \in PieceSet, ~Listed(free, q)
  PROVE  /\ Lists(AddFreeSpace(free, q.pos, q.len))
         /\ \A p \in PieceSet : Listed(AddFreeSpace(free, q.pos, q.len), p) <=>
              Listed(free, p) \/ p = q
<1> DEFINE new    == AddFreeSpace(free, q.pos, q.len)
           old(l) == IF l \in DOMAIN free THEN free[l] ELSE <<>>
           t(l)   == IF l = q.len THEN <<q.pos>> ELSE <<>>
<1>1. /\ DOMAIN new = DOMAIN free \cup {q.len}
      /\ \A l \in DOMAIN new : new[l] = old(l) \o t(l)
  BY DEF AddFreeSpace
<1>2. q.pos \in Nat /\ q.len \in Nat \ {0}
  BY PieceIs
<1> HIDE DEF new
<1>3. ASSUME NEW l \in DOMAIN new
      PROVE  /\ l \in Nat \ {0} /\ new[l] \in Seq(Nat) /\ new[l] # <<>>
             /\ \A i, j \in 1..Len(new[l]) : new[l][i] = new[l][j] => i = j
             /\ \A x : (\E i \in 1..Len(new[l]) : new[l][i] = x) <=>
                         \/ l \in DOMAIN free /\ \E i \in 1..Len(free[l]) : free[l][i] = x
                         \/ l = q.len /\ x = q.pos
  <2>1. CASE l # q.len
    <3>1. l \in DOMAIN free /\ free[l] \in Seq(Nat) /\ new[l] = free[l] \o <<>>
      BY <1>1, <2>1 DEF Lists
    <3>2. new[l] = free[l]
      BY <3>1
    <3> QED  BY <2>1, <3>1, <3>2 DEF Lists
  <2>2. CASE l = q.len
    <3> DEFINE s == old(l)
    <3>1. s \in Seq(Nat) /\ \A i, j \in 1..Len(s) : s[i] = s[j] => i = j
      <4>1. CASE l \in DOMAIN free
        BY <4>1 DEF Lists
      <4>2. CASE l \notin DOMAIN free
        BY <4>2
      <4> QED  BY <4>1, <4>2
    <3>2. \A x : (\E i \in 1..Len(s) : s[i] = x) <=>
                   l \in DOMAIN free /\ \E i \in 1..Len(free[l]) : free[l][i] = x
      <4>1. CASE l \in DOMAIN free
        BY <4>1
      <4>2. CASE l \notin DOMAIN free
        BY <4>2
      <4> QED  BY <4>1, <4>2
    <3>3. new[l] = s \o <<q.pos>>
      BY <1>1, <2>2
    <3> HIDE DEF s
    <3> DEFINE u == <<q.pos>>
    <3>4. u \in Seq(Nat) /\ Len(u) = 1 /\ u[1] = q.pos
      BY <1>2
    <3> HIDE DEF u
    <3>5. \A i, j \in 1..Len(u) : u[i] = u[j] => i = j
      BY <3>4
    <3>6. \A x : (\E i \in 1..Len(u) : u[i] = x) <=> x = q.pos
      BY <3>4
    <3>7. \A i \in 1..Len(s), j \in 1..Len(u) : s[i] # u[j]
      <4> SUFFICES ASSUME NEW i \in 1..Len(s), s[i] = q.pos PROVE FALSE
        BY <3>4
      <4>1. Listed(free, q)
        BY <2>2, <3>2 DEF Listed
      <4> QED  BY <4>1
    <3>8. /\ s \o u \in Seq(Nat) /\ Len(s \o u) = Len(s) + 1
          /\ \A i, j \in 1..Len(s \o u) : (s \o u)[i] = (s \o u)[j] => i = j
          /\ \A x : (\E i \in 1..Len(s \o u) : (s \o u)[i] = x) <=>
                       \/ \E i \in 1..Len(s) : s[i] = x
                       \/ \E i \in 1..Len(u) : u[i] = x
      BY <3>1, <3>4, <3>5, <3>7, Joined
    <3>9. new[l] = s \o u
      BY <3>3 DEF u
    <3>10. new[l] # <<>>
      <4>1. Len(s) \in Nat
        BY <3>1
      <4> QED  BY <3>8, <3>9, <4>1
    <3>11. \A x : (\E i \in 1..Len(new[l]) : new[l][i] = x) <=>
                    \/ l \in DOMAIN free /\ \E i \in 1..Len(free[l]) : free[l][i] = x
                    \/ l = q.len /\ x = q.pos
      <4>1. \A x : (\E i \in 1..Len(new[l]) : new[l][i] = x) <=>
                      (\E i \in 1..Len(s) : s[i] = x) \/ x = q.pos
        BY <3>6, <3>8, <3>9, Zenon
      <4> QED  BY <2>2, <3>2, <4>1, Zenon
    <3>12. /\ l \in Nat \ {0} /\ new[l] \in Seq(Nat)
           /\ \A i, j \in 1..Len(new[l]) : new[l][i] = new[l][j] => i = j
      BY <1>2, <2>2, <3>8, <3>9
    <3> QED  BY <3>10, <3>11, <3>12
  <2> QED  BY <2>1, <2>2
<1>4. Lists(new)
  BY <1>3 DEF Lists
<1>5. ASSUME NEW p \in PieceSet
      PROVE  Listed(new, p) <=> Listed(free, p) \/ p = q
  <2>1. (p = q) <=> (p.len = q.len /\ p.pos = q.pos)
    BY PieceIs
  <2>2. CASE p.len \in DOMAIN new
    <3>1. (\E i \in 1..Len(new[p.len]) : new[p.len][i] = p.pos) <=>
             \/ p.len \in DOMAIN free /\ \E i \in 1..Len(free[p.len]) : free[p.len][i] = p.pos
             \/ p.len = q.len /\ p.pos = q.pos
      BY <1>3, <2>2, Zenon
    <3> QED  BY <2>1, <2>2, <3>1, Zenon DEF Listed
  <2>3. CASE p.len \notin DOMAIN new
    BY <1>1, <2>1, <2>3 DEF Listed
  <2> QED  BY <2>2, <2>3
<1> QED  BY <1>4, <1>5 DEF new

LEMMA TakeBackTakes ==
  ASSUME NEW free, Lists(free), NEW l \in DOMAIN free
  PROVE  LET q == Piece(Seqs!Last(free[l]), l) IN
         /\ q \in PieceSet /\ q.len = l /\ q.pos = Seqs!Last(free[l]) /\ Listed(free, q)
         /\ Lists(TakeBack(free, l))
         /\ \A p \in PieceSet : Listed(TakeBack(free, l), p) <=> Listed(free, p) /\ p # q
<1> DEFINE s == free[l]
           t == SubSeq(s, 1, Len(s) - 1)
           q == Piece(Seqs!Last(s), l)
           new == TakeBack(free, l)
<1>1. /\ l \in Nat \ {0} /\ s \in Seq(Nat) /\ s # <<>>
      /\ \A i, j \in 1..Len(s) : s[i] = s[j] => i = j
  BY DEF Lists
<1>2. PICK n \in Nat : n = Len(s)
  BY <1>1
<1>3. n # 0 /\ n \in 1..n /\ s[n] \in Nat
  BY <1>1, <1>2
<1>4. Seqs!Last(s) = s[n]
  BY <1>2 DEF Seqs!Last
<1>5. t \in Seq(Nat) /\ Len(t) = n - 1 /\ \A i \in 1..(n - 1) : t[i] = s[i]
  BY <1>1, <1>2, <1>3
<1>6. new = IF t = <<>> THEN [k \in DOMAIN free \ {l} |-> free[k]]
            ELSE [k \in DOMAIN free |-> IF k = l THEN t ELSE free[k]]
  BY DEF TakeBack, Seqs!Front, Fn!Restrict
<1>7. q \in PieceSet /\ q.len = l /\ q.pos = s[n]
  BY <1>1, <1>3, <1>4, PieceIs
<1>8. Listed(free, q)
  BY <1>2, <1>3, <1>7 DEF Listed
<1> HIDE DEF new, q, t
<1>9. /\ \A i, j \in 1..Len(t) : t[i] = t[j] => i = j
      /\ \A x : (\E i \in 1..Len(t) : t[i] = x) <=> (\E i \in 1..n : s[i] = x) /\ x # s[n]
  <2>1. \A i \in 1..(n - 1) : i \in 1..n /\ i # n
    BY <1>3
  <2>2. \A i \in 1..n : i = n \/ i \in 1..(n - 1)
    BY <1>3
  <2>3. \A i, j \in 1..Len(t) : t[i] = t[j] => i = j
    BY <1>1, <1>2, <1>5, <2>1
  <2>4. ASSUME NEW x
        PROVE  (\E i \in 1..(n - 1) : t[i] = x) <=> (\E i \in 1..n : s[i] = x) /\ x # s[n]
    <3>1. ASSUME NEW i \in 1..(n - 1), t[i] = x PROVE i \in 1..n /\ s[i] = x /\ x # s[n]
      <4>1. s[i] # s[n]
        BY <1>1, <1>2, <1>3, <2>1
      <4> QED  BY <1>5, <2>1, <3>1, <4>1
    <3>2. ASSUME NEW i \in 1..n, s[i] = x, x # s[n] PROVE i \in 1..(n - 1) /\ t[i] = x
      BY <1>5, <2>2, <3>2
    <3> QED  BY <3>1, <3>2
  <2> QED  BY <1>5, <2>3, <2>4
<1>10. \A p \in PieceSet : (p = q) <=> (p.len = l /\ p.pos = s[n])
  BY <1>7, PieceIs
<1>11. CASE t = <<>>
  <2>1. DOMAIN new = DOMAIN free \ {l} /\ \A k \in DOMAIN new : new[k] = free[k]
    BY <1>6, <1>11
  <2>2. Lists(new)
    BY <2>1 DEF Lists
  <2>3. \A x : ~\E i \in 1..Len(t) : t[i] = x
    BY <1>11
  <2>4. \A x : (\E i \in 1..Len(free[l]) : free[l][i] = x) => x = s[n]
    BY <1>2, <1>9, <2>3
  <2>5. ASSUME NEW p \in PieceSet PROVE Listed(new, p) <=> Listed(free, p) /\ p # q
    <3>1. CASE p.len = l
      BY <1>10, <2>1, <2>4, <3>1 DEF Listed
    <3>2. CASE p.len # l
      BY <1>10, <2>1, <3>2 DEF Listed
    <3> QED  BY <3>1, <3>2
  <2> QED  BY <1>4, <1>7, <1>8, <2>2, <2>5 DEF q, new
<1>12. CASE t # <<>>
  <2>1. /\ DOMAIN new = DOMAIN free /\ new[l] = t
        /\ \A k \in DOMAIN free \ {l} : new[k] = free[k]
    BY <1>6, <1>12
  <2>2. Lists(new)
    <3>1. ASSUME NEW k \in DOMAIN new
          PROVE  /\ new[k] \in Seq(Nat) /\ new[k] # <<>>
                 /\ \A i, j \in 1..Len(new[k]) : new[k][i] = new[k][j] => i = j
      <4>1. CASE k = l
        BY <1>5, <1>9, <1>12, <2>1, <4>1
      <4>2. CASE k # l
        <5>1. k \in DOMAIN free /\ new[k] = free[k]
          BY <2>1, <4>2
        <5> QED  BY <5>1 DEF Lists
      <4> QED  BY <4>1, <4>2
    <3> QED  BY <2>1, <3>1 DEF Lists
  <2>3. ASSUME NEW p \in PieceSet PROVE Listed(new, p) <=> Listed(free, p) /\ p # q
    <3>1. CASE p.len = l
      <4>1. (\E i \in 1..Len(t) : t[i] = p.pos) <=> (\E i \in 1..Len(s) : s[i] = p.pos) /\ p.pos # s[n]
        BY <1>2, <1>9
      <4> QED  BY <1>10, <2>1, <3>1, <4>1 DEF Listed
    <3>2. CASE p.len # l
      BY <1>10, <2>1, <3>2 DEF Listed
    <3> QED  BY <3>1, <3>2
  <2> QED  BY <1>4, <1>7, <1>8, <2>2, <2>3 DEF q, new
<1> QED  BY <1>11, <1>12

(***************************************************************************)
(* Tiling, in terms of positions.                                          *)
(***************************************************************************)

End(p) == p.pos + p.len
Apart(p, q) == End(p) <= q.pos \/ End(q) <= p.pos

Tiles(S, size) ==
  /\ S \subseteq PieceSet
  /\ \A p \in S : End(p) <= size
  /\ \A b \in 0..(size - 1) : \E p \in S : p.pos <= b /\ b < End(p)
  /\ \A p, q \in S : p # q => Apart(p, q)

LEMMA TilesIs ==
  ASSUME NEW S, NEW size \in Nat, Tiles(S, size)
  PROVE  Disjoint(S) /\ Covered(S) = 0..(size - 1)
<1>1. \A p \in S : p.pos \in Nat /\ p.len \in Nat \ {0} /\ End(p) = p.pos + p.len /\ End(p) <= size
  BY PieceIs DEF Tiles, End
<1>2. \A p \in S : BlocksOf(p) = p.pos .. (p.pos + p.len - 1)
  BY DEF BlocksOf
<1>3. Disjoint(S)
  <2> SUFFICES ASSUME NEW p \in S, NEW q \in S, p # q, NEW b \in BlocksOf(p), b \in BlocksOf(q)
               PROVE  FALSE
    BY DEF Disjoint
  <2>1. Apart(p, q)
    BY DEF Tiles
  <2>2. b \in p.pos .. (p.pos + p.len - 1) /\ b \in q.pos .. (q.pos + q.len - 1)
    BY <1>2
  <2> QED  BY <1>1, <2>1, <2>2 DEF Apart
<1>4. ASSUME NEW b \in Covered(S) PROVE b \in 0..(size - 1)
  <2>1. PICK p \in S : b \in p.pos .. (p.pos + p.len - 1)
    BY <1>2 DEF Covered
  <2> QED  BY <1>1, <2>1
<1>5. ASSUME NEW b \in 0..(size - 1) PROVE b \in Covered(S)
  <2>1. PICK p \in S : p.pos <= b /\ b < End(p)
    BY DEF Tiles
  <2>2. b \in BlocksOf(p)
    BY <1>1, <1>2, <2>1
  <2> QED  BY <2>2 DEF Covered
<1> QED  BY <1>3, <1>4, <1>5

\* A piece is cut in two.
LEMMA SplitTiles ==
  ASSUME NEW S, NEW size \in Nat, Tiles(S, size),
         NEW q \in S, NEW len \in Nat \ {0}, len < q.len
  PROVE  LET a == Piece(q.pos, len)
             r == Piece(q.pos + len, q.len - len)
         IN  /\ a \in PieceSet /\ r \in PieceSet
             /\ a \notin S /\ r \notin S /\ a # r
             /\ Tiles((S \ {q}) \cup {a, r}, size)
<1> DEFINE a == Piece(q.pos, len)
           r == Piece(q.pos + len, q.len - len)
           T == (S \ {q}) \cup {a, r}
<1>1. q.pos \in Nat /\ q.len \in Nat \ {0} /\ q \in PieceSet
  BY PieceIs DEF Tiles
<1>2. /\ a \in PieceSet /\ a.pos = q.pos /\ a.len = len
      /\ r \in PieceSet /\ r.pos = q.pos + len /\ r.len = q.len - len
  BY <1>1, PieceIs
<1> HIDE DEF a, r
<1>3. /\ End(q) = q.pos + q.len /\ End(a) = q.pos + len /\ End(r) = q.pos + q.len
  BY <1>1, <1>2 DEF End
<1>4. \A p \in S : p \in PieceSet /\ p.pos \in Nat /\ p.len \in Nat \ {0} /\ End(p) = p.pos + p.len
  BY PieceIs DEF Tiles, End
<1>5. ASSUME NEW p \in S, p # q PROVE Apart(p, a) /\ Apart(p, r) /\ Apart(a, p) /\ Apart(r, p)
  <2>1. Apart(p, q)
    BY <1>5 DEF Tiles
  <2> QED  BY <1>1, <1>2, <1>3, <1>4, <2>1 DEF Apart
<1>6. Apart(a, r) /\ Apart(r, a) /\ ~Apart(a, a) /\ ~Apart(r, r) /\ a # r /\ a # q /\ r # q
  BY <1>1, <1>2, <1>3 DEF Apart
<1>7. a \notin S /\ r \notin S
  BY <1>5, <1>6
<1>8. T \subseteq PieceSet
  BY <1>2, <1>4
<1>9. \A p \in T : End(p) <= size
  <2>1. \A p \in S : End(p) <= size
    BY DEF Tiles
  <2>2. End(a) <= size /\ End(r) <= size
    BY <1>1, <1>3, <2>1
  <2> QED  BY <2>1, <2>2
<1>10. ASSUME NEW b \in 0..(size - 1) PROVE \E p \in T : p.pos <= b /\ b < End(p)
  <2>1. PICK p \in S : p.pos <= b /\ b < End(p)
    BY DEF Tiles
  <2>2. CASE p # q
    BY <2>1, <2>2
  <2>3. CASE p = q
    <3>1. (a.pos <= b /\ b < End(a)) \/ (r.pos <= b /\ b < End(r))
      BY <1>1, <1>2, <1>3, <2>1, <2>3
    <3> QED  BY <3>1
  <2> QED  BY <2>2, <2>3
<1>11. ASSUME NEW p \in T, NEW o \in T, p # o PROVE Apart(p, o)
  <2>1. CASE p \in S \ {q} /\ o \in S \ {q}
    BY <1>11, <2>1 DEF Tiles
  <2>2. CASE p \in {a, r} /\ o \in S \ {q}
    BY <1>5, <2>2
  <2>3. CASE p \in S \ {q} /\ o \in {a, r}
    BY <1>5, <2>3
  <2>4. CASE p \in {a, r} /\ o \in {a, r}
    BY <1>6, <1>11, <2>4
  <2> QED  BY <2>1, <2>2, <2>3, <2>4
<1>12. Tiles(T, size)
  BY <1>8, <1>9, <1>10, <1>11 DEF Tiles
<1> QED  BY <1>2, <1>6, <1>7, <1>12 DEF a, r

\* The file grows by a piece.
LEMMA GrowTiles ==
  ASSUME NEW S, NEW size \in Nat, Tiles(S, size), NEW g \in Nat \ {0}
  PROVE  /\ Piece(size, g) \in PieceSet /\ Piece(size, g) \notin S
         /\ Tiles(S \cup {Piece(size, g)}, size + g)
<1> DEFINE a == Piece(size, g)
           T == S \cup {a}
<1>1. a \in PieceSet /\ a.pos = size /\ a.len = g
  BY PieceIs
<1> HIDE DEF a
<1>2. End(a) = size + g
  BY <1>1 DEF End
<1>3. \A p \in S : /\ p \in PieceSet /\ p.pos \in Nat /\ p.len \in Nat \ {0}
                   /\ End(p) = p.pos + p.len /\ End(p) <= size
  BY PieceIs DEF Tiles, End
<1>4. a \notin S
  BY <1>1, <1>2, <1>3
<1>5. \A p \in S : Apart(p, a) /\ Apart(a, p)
  BY <1>1, <1>3 DEF Apart
<1>6. ASSUME NEW b \in 0..(size + g - 1) PROVE \E p \in T : p.pos <= b /\ b < End(p)
  <2>1. CASE b < size
    <3>1. b \in 0..(size - 1)
      BY <2>1
    <3> QED  BY <3>1 DEF Tiles
  <2>2. CASE b >= size
    BY <1>1, <1>2, <2>2
  <2> QED  BY <2>1, <2>2
<1>7. \A p \in T : p \in PieceSet /\ End(p) <= size + g
  <2>1. \A p \in S : End(p) <= size + g
    BY <1>3
  <2> QED  BY <1>1, <1>2, <1>3, <2>1
<1>8. \A p, q \in T : p # q => Apart(p, q)
  BY <1>5 DEF Tiles
<1>9. Tiles(T, size + g)
  BY <1>6, <1>7, <1>8 DEF Tiles
<1> QED  BY <1>1, <1>4, <1>9 DEF a

(***************************************************************************)
(* Changes of the free lists, as changes of a set of pieces.               *)
(***************************************************************************)

Ran(f) == {f[x] : x \in DOMAIN f}

LEMMA PiecesAdded ==
  ASSUME NEW free, Lists(free),
         NEW P, DOMAIN P \subseteq Nat, IsFiniteSet(DOMAIN P),
         \A i \in DOMAIN P : P[i] \in PieceSet /\ P[i] \notin PiecesOf(free),
         \A i, j \in DOMAIN P : P[i] = P[j] => i = j
  PROVE  /\ Lists(AddPieces(free, P))
         /\ PiecesOf(AddPieces(free, P)) = PiecesOf(free) \cup Ran(P)
<1>1. /\ PiecesOf(free) \subseteq PieceSet
      /\ \A p \in PieceSet : p \in PiecesOf(free) <=> Listed(free, p)
  BY InPieces
<1>2. \A i \in DOMAIN P : P[i] \in PieceSet /\ ~Listed(free, P[i])
  BY <1>1
<1>3. /\ Lists(AddPieces(free, P))
      /\ \A p \in PieceSet : Listed(AddPieces(free, P), p) <=>
           Listed(free, p) \/ \E i \in DOMAIN P : P[i] = p
  BY <1>2, AddPiecesAdds
<1>4. /\ PiecesOf(AddPieces(free, P)) \subseteq PieceSet
      /\ \A p \in PieceSet : p \in PiecesOf(AddPieces(free, P)) <=> Listed(AddPieces(free, P), p)
  BY <1>3, InPieces
<1>5. Ran(P) \subseteq PieceSet /\ \A p : p \in Ran(P) <=> \E i \in DOMAIN P : P[i] = p
  BY DEF Ran
<1> QED  BY <1>1, <1>3, <1>4, <1>5

LEMMA PieceAdded ==
  ASSUME NEW free, Lists(free), NEW q \in PieceSet, q \notin PiecesOf(free)
  PROVE  /\ Lists(AddFreeSpace(free, q.pos, q.len))
         /\ PiecesOf(AddFreeSpace(free, q.pos, q.len)) = PiecesOf(free) \cup {q}
<1> DEFINE new == AddFreeSpace(free, q.pos, q.len)
<1>1. /\ PiecesOf(free) \subseteq PieceSet
      /\ \A p \in PieceSet : p \in PiecesOf(free) <=> Listed(free, p)
  BY InPieces
<1>2. /\ Lists(new) /\ \A p \in PieceSet : Listed(new, p) <=> Listed(free, p) \/ p = q
  BY <1>1, AddFreeSpaceAdds
<1> HIDE DEF new
<1>3. /\ PiecesOf(new) \subseteq PieceSet
      /\ \A p \in PieceSet : p \in PiecesOf(new) <=> Listed(new, p)
  BY <1>2, InPieces
<1>4. PiecesOf(new) = PiecesOf(free) \cup {q}
  BY <1>1, <1>2, <1>3
<1> QED  BY <1>2, <1>4 DEF new

LEMMA PieceTaken ==
  ASSUME NEW free, Lists(free), NEW l \in DOMAIN free
  PROVE  LET q == Piece(Seqs!Last(free[l]), l) IN
         /\ q \in PiecesOf(free) /\ q.len = l /\ q.pos = Seqs!Last(free[l])
         /\ Lists(TakeBack(free, l))
         /\ PiecesOf(TakeBack(free, l)) = PiecesOf(free) \ {q}
<1> DEFINE q == Piece(Seqs!Last(free[l]), l)
           new == TakeBack(free, l)
<1>1. /\ PiecesOf(free) \subseteq PieceSet
      /\ \A p \in PieceSet : p \in PiecesOf(free) <=> Listed(free, p)
  BY InPieces
<1>2. /\ q \in PieceSet /\ q.len = l /\ q.pos = Seqs!Last(free[l]) /\ Listed(free, q)
      /\ Lists(new)
      /\ \A p \in PieceSet : Listed(new, p) <=> Listed(free, p) /\ p # q
  BY TakeBackTakes
<1> HIDE DEF new, q
<1>3. /\ PiecesOf(new) \subseteq PieceSet
      /\ \A p \in PieceSet : p \in PiecesOf(new) <=> Listed(new, p)
  BY <1>2, InPieces
<1>4. PiecesOf(new) = PiecesOf(free) \ {q} /\ q \in PiecesOf(free)
  BY <1>1, <1>2, <1>3
<1> QED  BY <1>2, <1>4 DEF new, q

\* What GetFreeSpacePos may return.
Found(free, len, found) ==
  \/ found.pos = -1 /\ \A p \in PiecesOf(free) : p.len < len
  \/ /\ found.pos # -1 /\ Lists(found.free)
     /\ \E q \in PiecesOf(free) :
          /\ found.pos = q.pos
          /\ \/ q.len = len /\ PiecesOf(found.free) = PiecesOf(free) \ {q}
             \/ /\ len < q.len
                /\ PiecesOf(found.free) =
                     (PiecesOf(free) \ {q}) \cup {Piece(q.pos + len, q.len - len)}

\* GetFreeSpacePos finds no piece only if all are too short; else it takes one
\* that is long enough and puts back what is left of it.
LEMMA Finds ==
  ASSUME NEW free, Lists(free), \A p, q \in PiecesOf(free) : p # q => Apart(p, q),
         NEW len \in Nat \ {0}
  PROVE  Found(free, len, GetFreeSpacePos(free, len))
<1> DEFINE longer == {l \in DOMAIN free : l > len}
           next   == Sets!Min(longer)
           found  == GetFreeSpacePos(free, len)
<1> SUFFICES Found(free, len, found)
  OBVIOUS
<1>1. DOMAIN free \subseteq Nat \ {0}
  BY DEF Lists
<1>2. PiecesOf(free) \subseteq PieceSet /\ \A p \in PiecesOf(free) : p.len \in DOMAIN free
  BY InPieces DEF Listed
<1>3. CASE len \in DOMAIN free
  <2> DEFINE q == Piece(Seqs!Last(free[len]), len)
  <2>1. found.pos = Seqs!Last(free[len]) /\ found.free = TakeBack(free, len)
    BY <1>3 DEF GetFreeSpacePos
  <2>2. /\ q \in PiecesOf(free) /\ q.len = len /\ q.pos = Seqs!Last(free[len])
        /\ Lists(TakeBack(free, len))
        /\ PiecesOf(TakeBack(free, len)) = PiecesOf(free) \ {q}
    BY <1>3, PieceTaken
  <2> HIDE DEF q, found
  <2>3. q.pos \in Nat
    BY <1>2, <2>2, PieceIs
  <2>4. found.pos # -1
    BY <2>1, <2>2, <2>3
  <2> QED  BY <2>1, <2>2, <2>4 DEF Found
<1>4. CASE len \notin DOMAIN free /\ longer # {}
  <2> DEFINE q == Piece(Seqs!Last(free[next]), next)
             r == Piece(q.pos + len, q.len - len)
             t == TakeBack(free, next)
  <2>1. found.pos = Seqs!Last(free[next])
        /\ found.free = AddFreeSpace(t, Seqs!Last(free[next]) + len, next - len)
    BY <1>4 DEF GetFreeSpacePos
  <2>2. next \in longer
    <3>1. longer \in SUBSET Nat
      BY <1>1
    <3>2. \E m \in longer : \A n \in longer : m <= n
      <4> HIDE DEF longer
      <4> QED  BY <1>4, <3>1, MinExists
    <3> HIDE DEF longer
    <3> QED  BY <3>2 DEF Sets!Min
  <2>3. next \in DOMAIN free /\ next > len /\ next \in Nat
    BY <1>1, <2>2
  <2> HIDE DEF longer, next
  <2>4. /\ q \in PiecesOf(free) /\ q.len = next /\ q.pos = Seqs!Last(free[next])
        /\ Lists(t) /\ PiecesOf(t) = PiecesOf(free) \ {q}
    BY <2>3, PieceTaken
  <2> HIDE DEF q, t, found
  <2>5. q.pos \in Nat /\ q \in PieceSet
    BY <1>2, <2>4, PieceIs
  <2>6. r \in PieceSet /\ r.pos = q.pos + len /\ r.len = q.len - len
    BY <2>3, <2>4, <2>5, PieceIs
  <2> HIDE DEF r
  <2>7. r \notin PiecesOf(t)
    <3> SUFFICES ASSUME r \in PiecesOf(t) PROVE FALSE
      OBVIOUS
    <3>1. Apart(r, q)
      BY <2>4
    <3> QED  BY <2>3, <2>4, <2>5, <2>6, <3>1 DEF Apart, End
  <2>8. /\ Lists(AddFreeSpace(t, r.pos, r.len))
        /\ PiecesOf(AddFreeSpace(t, r.pos, r.len)) = PiecesOf(t) \cup {r}
    BY <2>4, <2>6, <2>7, PieceAdded
  <2>9. found.free = AddFreeSpace(t, r.pos, r.len)
    BY <2>1, <2>4, <2>6
  <2>10. Lists(found.free) /\ PiecesOf(found.free) = (PiecesOf(free) \ {q}) \cup {r}
    BY <2>4, <2>8, <2>9
  <2>11. found.pos = q.pos /\ found.pos # -1 /\ len < q.len
    BY <2>1, <2>3, <2>4, <2>5
  <2> QED  BY <2>4, <2>10, <2>11 DEF r, Found
<1>5. CASE len \notin DOMAIN free /\ longer = {}
  <2>1. found.pos = -1
    BY <1>5 DEF GetFreeSpacePos
  <2>2. \A l \in DOMAIN free : l < len
    BY <1>1, <1>5
  <2> HIDE DEF found
  <2> QED  BY <1>2, <2>1, <2>2 DEF Found
<1> HIDE DEF found
<1> QED  BY <1>3, <1>4, <1>5

(***************************************************************************)
(* The gaps between extents that do not overlap.                           *)
(***************************************************************************)

Extents(E, size) ==
  /\ E \subseteq PieceSet
  /\ \A p \in E : End(p) <= size
  /\ \A p, q \in E : p # q => Apart(p, q)

Positions(E, size) == {d.pos : d \in E} \cup {size}

LEMMA EndBeforeIs ==
  ASSUME NEW E, NEW size \in Nat, Extents(E, size), NEW p \in Positions(E, size)
  PROVE  /\ p \in 0..size
         /\ EndBefore(E, p) \in Nat /\ EndBefore(E, p) <= p
         /\ \A e \in E : e.pos < p => End(e) <= EndBefore(E, p)
         /\ \/ EndBefore(E, p) = 0
            \/ \E d \in E : d.pos < p /\ EndBefore(E, p) = End(d)
<1> DEFINE before == {d \in E : d.pos < p}
           last   == CHOOSE d \in before : \A e \in before : e.pos <= d.pos
<1>1. \A e \in E : /\ e \in PieceSet /\ e.pos \in Nat /\ e.len \in Nat \ {0}
                   /\ End(e) = e.pos + e.len /\ End(e) \in Nat /\ End(e) <= size
  BY PieceIs DEF Extents, End
<1>2. p \in 0..size
  BY <1>1 DEF Positions
<1>3. EndBefore(E, p) = IF before = {} THEN 0 ELSE last.pos + last.len
  BY DEF EndBefore
<1>4. CASE before = {}
  BY <1>2, <1>3, <1>4
<1>5. CASE before # {}
  <2>1. last \in before /\ \A e \in before : e.pos <= last.pos
    <3> DEFINE T == {d.pos : d \in before}
    <3>1. T \in SUBSET Nat /\ T # {} /\ \A n \in T : n <= size
      BY <1>1, <1>2, <1>5
    <3> HIDE DEF T
    <3>2. PICK m \in T : \A n \in T : n <= m
      BY <3>1, MaxExists
    <3>3. PICK d \in before : m = d.pos
      BY <3>2 DEF T
    <3>4. \A e \in before : e.pos <= d.pos
      BY <3>2, <3>3 DEF T
    <3> HIDE DEF before
    <3> QED  BY <3>4
  <2> HIDE DEF last
  <2>2. last \in E /\ last.pos < p /\ EndBefore(E, p) = End(last)
    BY <1>1, <1>3, <1>5, <2>1
  <2>3. ASSUME NEW e \in E, e.pos < p PROVE End(e) <= End(last)
    <3>1. CASE e = last
      BY <1>1, <3>1
    <3>2. CASE e # last
      <4>1. Apart(e, last) /\ e.pos <= last.pos
        BY <2>1, <2>2, <2>3, <3>2 DEF Extents
      <4> QED  BY <1>1, <2>2, <4>1 DEF Apart
    <3> QED  BY <3>1, <3>2
  <2>4. End(last) <= p
    <3>1. CASE p = size
      BY <1>1, <2>2, <3>1
    <3>2. CASE p # size
      <4>1. PICK d \in E : p = d.pos
        BY <3>2 DEF Positions
      <4>2. d # last
        BY <1>1, <2>2, <4>1
      <4>3. Apart(d, last)
        BY <2>2, <4>2 DEF Extents
      <4> QED  BY <1>1, <2>2, <4>1, <4>3 DEF Apart
    <3> QED  BY <3>1, <3>2
  <2> QED  BY <1>1, <1>2, <2>2, <2>3, <2>4
<1> QED  BY <1>4, <1>5

LEMMA GapsTile ==
  ASSUME NEW E, NEW size \in Nat, Extents(E, size)
  PROVE  LET P == Gaps(E, Positions(E, size)) IN
         /\ \A d \in E : GapBefore(E, d.pos).len >= 0
         /\ DOMAIN P \subseteq 0..size /\ IsFiniteSet(DOMAIN P)
         /\ \A p \in DOMAIN P : P[p] \in PieceSet /\ P[p] \notin E
         /\ \A p, q \in DOMAIN P : P[p] = P[q] => p = q
         /\ Tiles(E \cup Ran(P), size)
         /\ \A a, b \in Ran(P) : a.pos + a.len # b.pos
<1> DEFINE ps == Positions(E, size)
           P  == Gaps(E, ps)
           m(p) == EndBefore(E, p)
<1>1. \A e \in E : /\ e \in PieceSet /\ e.pos \in Nat /\ e.len \in Nat \ {0}
                   /\ End(e) = e.pos + e.len /\ End(e) \in Nat /\ End(e) <= size
  BY PieceIs DEF Extents, End
<1>2. \A p \in ps : /\ p \in Nat /\ p <= size /\ m(p) \in Nat /\ m(p) <= p
                    /\ \A e \in E : e.pos < p => End(e) <= m(p)
                    /\ m(p) = 0 \/ \E d \in E : d.pos < p /\ m(p) = End(d)
  BY EndBeforeIs
<1>3. \A p \in ps : GapBefore(E, p) = Piece(m(p), p - m(p)) /\ GapBefore(E, p).len = p - m(p)
  BY PieceIs DEF GapBefore
<1>4. \A e \in E : e.pos \in ps
  BY DEF Positions
<1>5. size \in ps /\ \A p \in ps : p = size \/ \E e \in E : p = e.pos
  BY DEF Positions
<1>6. P = [p \in {q \in ps : GapBefore(E, q).len > 0} |-> GapBefore(E, p)]
  BY DEF Gaps
<1>7. DOMAIN P = {p \in ps : m(p) < p}
  BY <1>2, <1>3, <1>6
<1>8. \A p \in DOMAIN P : P[p] = Piece(m(p), p - m(p))
  BY <1>3, <1>6
<1> HIDE DEF ps, P, m
<1>9. ASSUME NEW p \in DOMAIN P
      PROVE  /\ p \in ps /\ m(p) < p
             /\ P[p] \in PieceSet /\ P[p].pos = m(p) /\ P[p].len = p - m(p) /\ End(P[p]) = p
  <2>1. p \in ps /\ m(p) < p /\ p \in Nat /\ m(p) \in Nat
    BY <1>2, <1>7
  <2>2. p - m(p) \in Nat \ {0} /\ m(p) + (p - m(p)) = p
    BY <2>1
  <2>3. P[p] \in PieceSet /\ P[p].pos = m(p) /\ P[p].len = p - m(p)
    BY <1>8, <2>1, <2>2, PieceIs
  <2> QED  BY <2>1, <2>2, <2>3 DEF End
<1>10. \A d \in E : GapBefore(E, d.pos).len >= 0
  BY <1>2, <1>3, <1>4
<1>11. DOMAIN P \subseteq 0..size /\ IsFiniteSet(DOMAIN P)
  <2>1. DOMAIN P \in SUBSET (0..size)
    BY <1>2, <1>7
  <2>2. IsFiniteSet(0..size)
    <3>1. 0 \in Int /\ size \in Int
      OBVIOUS
    <3> QED  BY <3>1, FS_Interval
  <2>3. IsFiniteSet(DOMAIN P)
    BY <2>1, <2>2, FS_Subset
  <2> QED  BY <2>1, <2>3
\* A gap lies between the extents.
<1>12. ASSUME NEW p \in DOMAIN P, NEW e \in E PROVE Apart(P[p], e) /\ Apart(e, P[p]) /\ P[p] # e
  <2>1. CASE e.pos < p
    <3>1. End(e) <= m(p)
      BY <1>2, <1>9, <2>1
    <3> QED  BY <1>1, <1>2, <1>9, <3>1 DEF Apart
  <2>2. CASE p <= e.pos
    BY <1>1, <1>2, <1>9, <2>2 DEF Apart
  <2>3. e.pos < p \/ p <= e.pos
    BY <1>1, <1>2, <1>9
  <2> QED  BY <2>1, <2>2, <2>3
\* Between two gaps there is an extent.
<1>13. \A p, q \in DOMAIN P : p < q => p < m(q)
  <2> SUFFICES ASSUME NEW p \in DOMAIN P, NEW q \in DOMAIN P, p < q PROVE p < m(q)
    OBVIOUS
  <2>1. p \in ps /\ q \in ps /\ p \in Nat /\ q \in Nat /\ q <= size /\ m(q) \in Nat
    BY <1>2, <1>9
  <2>2. PICK e \in E : p = e.pos
    BY <1>5, <2>1
  <2>3. End(e) <= m(q)
    BY <1>2, <2>1, <2>2
  <2> QED  BY <1>1, <2>1, <2>2, <2>3
<1>14. ASSUME NEW p \in DOMAIN P, NEW q \in DOMAIN P, p # q
       PROVE  Apart(P[p], P[q]) /\ P[p] # P[q] /\ P[p].pos + P[p].len # P[q].pos
  <2>1. /\ p \in Nat /\ q \in Nat /\ m(p) \in Nat /\ m(q) \in Nat /\ m(p) < p /\ m(q) < q
        /\ P[p].pos + P[p].len = p /\ P[q].pos = m(q) /\ P[p].pos = m(p)
        /\ End(P[p]) = p /\ End(P[q]) = q
    BY <1>2, <1>9 DEF End
  <2>2. CASE p < q
    <3>1. p < m(q)
      BY <1>13, <2>2
    <3> QED  BY <2>1, <3>1 DEF Apart
  <2>3. CASE q < p
    <3>1. q < m(p)
      BY <1>13, <2>3
    <3> QED  BY <2>1, <3>1 DEF Apart
  <2> QED  BY <1>14, <2>1, <2>2, <2>3
<1>15. \A p, q \in DOMAIN P : P[p] = P[q] => p = q
  BY <1>14
<1>16. \A a, b \in Ran(P) : a.pos + a.len # b.pos
  <2> SUFFICES ASSUME NEW p \in DOMAIN P, NEW q \in DOMAIN P PROVE P[p].pos + P[p].len # P[q].pos
    BY DEF Ran
  <2>1. CASE p = q
    <3>1. P[p].pos \in Nat /\ P[p].len \in Nat \ {0}
      BY <1>9, PieceIs
    <3> QED  BY <2>1, <3>1
  <2> QED  BY <1>14, <2>1
<1>17. Tiles(E \cup Ran(P), size)
  <2>1. E \cup Ran(P) \subseteq PieceSet
    BY <1>1, <1>9 DEF Ran
  <2>2. \A a \in E \cup Ran(P) : End(a) <= size
    BY <1>1, <1>2, <1>9 DEF Ran
  <2>3. \A a, b \in E \cup Ran(P) : a # b => Apart(a, b)
    <3> SUFFICES ASSUME NEW a \in E \cup Ran(P), NEW b \in E \cup Ran(P), a # b PROVE Apart(a, b)
      OBVIOUS
    <3>1. CASE a \in E /\ b \in E
      BY <3>1 DEF Extents
    <3>2. CASE a \in E /\ b \in Ran(P)
      BY <1>12, <3>2 DEF Ran
    <3>3. CASE a \in Ran(P) /\ b \in E
      BY <1>12, <3>3 DEF Ran
    <3>4. CASE a \in Ran(P) /\ b \in Ran(P)
      BY <1>14, <3>4 DEF Ran
    <3> QED  BY <3>1, <3>2, <3>3, <3>4
  <2>4. ASSUME NEW b \in 0..(size - 1), \A e \in E : ~(e.pos <= b /\ b < End(e))
        PROVE  \E a \in Ran(P) : a.pos <= b /\ b < End(a)
    <3> DEFINE T == {p \in ps : b < p}
    <3>a. size \in T
      BY <1>5
    <3>1. T \in SUBSET Nat /\ T # {}
      BY <1>2, <3>a
    <3> HIDE DEF T
    <3>2. PICK p \in T : \A n \in T : p <= n
      BY <3>1, MinExists
    <3>3. p \in ps /\ b < p /\ p \in Nat /\ m(p) \in Nat
      BY <1>2, <3>2 DEF T
    <3>4. m(p) <= b
      <4>1. CASE m(p) = 0
        BY <4>1
      <4>2. CASE m(p) # 0
        <5>1. PICK d \in E : d.pos < p /\ m(p) = End(d)
          BY <1>2, <3>3, <4>2
        <5>2. d.pos \in Nat /\ d.pos \notin T
          BY <1>1, <3>2, <3>3, <5>1
        <5>3. d.pos <= b
          BY <1>4, <3>3, <5>2 DEF T
        <5> QED  BY <1>1, <2>4, <5>1, <5>3
      <4> QED  BY <4>1, <4>2
    <3>5. p \in DOMAIN P
      BY <1>7, <3>3, <3>4
    <3>6. P[p] \in Ran(P) /\ P[p].pos = m(p) /\ End(P[p]) = p
      BY <1>9, <3>5 DEF Ran
    <3> QED  BY <3>3, <3>4, <3>6
  <2>5. \A b \in 0..(size - 1) : \E a \in E \cup Ran(P) : a.pos <= b /\ b < End(a)
    BY <2>4
  <2> QED  BY <2>1, <2>2, <2>3, <2>5 DEF Tiles
<1>18. \A p \in DOMAIN P : P[p] \in PieceSet /\ P[p] \notin E
  BY <1>9, <1>12
<1> QED  BY <1>10, <1>11, <1>15, <1>16, <1>17, <1>18 DEF P, ps

LEMMA LoadedIs ==
  ASSUME NEW E, NEW size \in Nat, Extents(E, size)
  PROVE  LET load == LoadFreeSpace(E, size) IN
         /\ load.ok
         /\ Lists(load.free)
         /\ Tiles(E \cup PiecesOf(load.free), size)
         /\ \A p \in PiecesOf(load.free) : p \notin E
         /\ \A p, q \in PiecesOf(load.free) : p.pos + p.len # q.pos
<1> DEFINE P == Gaps(E, Positions(E, size))
           load == LoadFreeSpace(E, size)
<1>1. /\ \A d \in E : GapBefore(E, d.pos).len >= 0
      /\ DOMAIN P \subseteq 0..size /\ IsFiniteSet(DOMAIN P)
      /\ \A p \in DOMAIN P : P[p] \in PieceSet /\ P[p] \notin E
      /\ \A p, q \in DOMAIN P : P[p] = P[q] => p = q
      /\ Tiles(E \cup Ran(P), size)
      /\ \A a, b \in Ran(P) : a.pos + a.len # b.pos
  BY GapsTile
<1>2. load.free = AddPieces(<<>>, P) /\ load.ok = \A d \in E : GapBefore(E, d.pos).len >= 0
  BY DEF LoadFreeSpace, Positions
<1> HIDE DEF P, load
<1>3. Lists(<<>>) /\ PiecesOf(<<>>) = {}
  BY DEF Lists, PiecesOf
<1>4. DOMAIN P \subseteq Nat
  BY <1>1
<1>5. Lists(AddPieces(<<>>, P)) /\ PiecesOf(AddPieces(<<>>, P)) = {} \cup Ran(P)
  BY <1>1, <1>3, <1>4, PiecesAdded
<1>6. Lists(load.free) /\ PiecesOf(load.free) = Ran(P)
  BY <1>2, <1>5
<1>7. load.ok
  BY <1>1, <1>2
<1>8. \A p \in Ran(P) : p \notin E
  BY <1>1 DEF Ran
<1> QED  BY <1>1, <1>6, <1>7, <1>8 DEF load

(***************************************************************************)
(* The inductive invariant: lists, extents and extents given up hold       *)
(* pieces, each of them once, and together they tile the file.             *)
(***************************************************************************)

All(free, ext, add) == PiecesOf(free) \cup Ran(ext) \cup Ran(add)

Good(free, ext, add, size) ==
  /\ size \in Nat
  /\ Lists(free)
  /\ \A x, y \in DOMAIN ext : ext[x] = ext[y] => x = y
  /\ add \in Seq(PieceSet) /\ \A i, j \in DOMAIN add : add[i] = add[j] => i = j
  /\ \A p \in PiecesOf(free) : p \notin Ran(ext) /\ p \notin Ran(add)
  /\ \A p \in Ran(ext) : p \notin Ran(add)
  /\ Tiles(All(free, ext, add), size)

IInv == Good(freeSpace, extents, toAdd, dataFileSize)

LEMMA GoodTypes ==
  ASSUME NEW free, NEW ext, NEW add, NEW size, Good(free, ext, add, size)
  PROVE  /\ PiecesOf(free) \subseteq PieceSet
         /\ \A x \in DOMAIN ext : ext[x] \in PieceSet /\ ext[x] \in Ran(ext)
         /\ \A i \in DOMAIN add : add[i] \in PieceSet /\ add[i] \in Ran(add)
         /\ Extents(Ran(ext), size)
<1>1. /\ \A x \in DOMAIN ext : ext[x] \in Ran(ext)
      /\ \A i \in DOMAIN add : add[i] \in Ran(add)
  BY DEF Ran
<1>2. All(free, ext, add) \subseteq PieceSet
  BY DEF Good, Tiles
<1>3. Ran(ext) \subseteq All(free, ext, add)
  BY DEF All
<1>4. Extents(Ran(ext), size)
  BY <1>2, <1>3 DEF Good, Tiles, Extents
<1> QED  BY <1>1, <1>2, <1>4 DEF All

\* Taking q for n, and g from the extents to those given up, in one set.
LEMMA Regrouped ==
  ASSUME NEW F, NEW X, NEW A, NEW R, NEW n, NEW q, NEW g \in SUBSET X,
         q \notin X, q \notin A
  PROVE  ((F \ {q}) \cup R) \cup ((X \ g) \cup {n}) \cup (A \cup g)
           = ((F \cup X \cup A) \ {q}) \cup {n} \cup R
OBVIOUS

\* What Place does to the extents and to the extents given up.
Put(ext, x, n) == [y \in DOMAIN ext \cup {x} |-> IF y = x THEN n ELSE ext[y]]
GiveUp(ext, add, x) == IF x \in DOMAIN ext THEN Append(add, ext[x]) ELSE add

\* A piece n, cut out of the free piece q, becomes the extent of x; what is
\* left of q is R.
LEMMA MoveKeeps ==
  ASSUME NEW free, NEW ext, NEW add, NEW size, Good(free, ext, add, size),
         NEW x, NEW q \in PiecesOf(free), NEW n \in PieceSet, NEW R \in SUBSET PieceSet,
         n = q \/ n \notin All(free, ext, add),
         \A r \in R : r \notin All(free, ext, add) /\ r # n,
         NEW free2, Lists(free2), PiecesOf(free2) = (PiecesOf(free) \ {q}) \cup R,
         Tiles((All(free, ext, add) \ {q}) \cup {n} \cup R, size)
  PROVE  Good(free2, Put(ext, x, n), GiveUp(ext, add, x), size)
<1> DEFINE ext2 == Put(ext, x, n)
           add2 == GiveUp(ext, add, x)
<1>0. /\ ext2 = [y \in DOMAIN ext \cup {x} |-> IF y = x THEN n ELSE ext[y]]
      /\ add2 = IF x \in DOMAIN ext THEN Append(add, ext[x]) ELSE add
  BY DEF Put, GiveUp
<1> HIDE DEF ext2, add2
<1>1. /\ PiecesOf(free) \subseteq PieceSet
      /\ \A y \in DOMAIN ext : ext[y] \in PieceSet /\ ext[y] \in Ran(ext)
      /\ \A i \in DOMAIN add : add[i] \in PieceSet /\ add[i] \in Ran(add)
  BY GoodTypes
<1>2. /\ \A y, z \in DOMAIN ext : ext[y] = ext[z] => y = z
      /\ add \in Seq(PieceSet) /\ \A i, j \in DOMAIN add : add[i] = add[j] => i = j
      /\ \A p \in PiecesOf(free) : p \notin Ran(ext) /\ p \notin Ran(add)
      /\ \A p \in Ran(ext) : p \notin Ran(add)
      /\ size \in Nat
  BY DEF Good
<1>3. n \notin Ran(ext) /\ n \notin Ran(add) /\ q \notin Ran(ext) /\ q \notin Ran(add)
  BY <1>2 DEF All
<1>4. \A r \in R : r \notin Ran(ext) /\ r \notin Ran(add) /\ r \notin PiecesOf(free) /\ r # n
  BY DEF All
<1>5. Ran(ext2) = IF x \in DOMAIN ext THEN (Ran(ext) \ {ext[x]}) \cup {n} ELSE Ran(ext) \cup {n}
  <2>1. /\ DOMAIN ext2 = DOMAIN ext \cup {x} /\ ext2[x] = n
        /\ \A y \in DOMAIN ext \ {x} : ext2[y] = ext[y]
    BY <1>0
  <2>2. \A p : p \in Ran(ext) <=> \E y \in DOMAIN ext : p = ext[y]
    BY DEF Ran
  <2>3. \A p : p \in Ran(ext2) <=> p = n \/ \E y \in DOMAIN ext \ {x} : p = ext[y]
    BY <2>1 DEF Ran
  <2>4. CASE x \in DOMAIN ext
    <3>1. \A p : (\E y \in DOMAIN ext \ {x} : p = ext[y]) <=> p \in Ran(ext) /\ p # ext[x]
      BY <1>2, <2>2, <2>4
    <3> QED  BY <2>3, <2>4, <3>1
  <2>5. CASE x \notin DOMAIN ext
    <3>1. DOMAIN ext \ {x} = DOMAIN ext
      BY <2>5
    <3> QED  BY <2>2, <2>3, <2>5, <3>1
  <2> QED  BY <2>4, <2>5
<1>6. /\ add2 \in Seq(PieceSet) /\ \A i, j \in DOMAIN add2 : add2[i] = add2[j] => i = j
      /\ Ran(add2) = IF x \in DOMAIN ext THEN Ran(add) \cup {ext[x]} ELSE Ran(add)
  <2>1. CASE x \in DOMAIN ext
    <3>1. PICK k \in Nat : k = Len(add)
      BY <1>2
    <3>2. DOMAIN add = 1..k
      BY <1>2, <3>1
    <3>3. add2 = Append(add, ext[x]) /\ ext[x] \in PieceSet /\ ext[x] \notin Ran(add)
      BY <1>0, <1>1, <1>2, <2>1
    <3>4. /\ add2 \in Seq(PieceSet) /\ DOMAIN add2 = 1..(k + 1)
          /\ add2[k + 1] = ext[x] /\ \A i \in 1..k : add2[i] = add[i]
      BY <1>2, <3>1, <3>3
    <3>5. \A i \in 1..(k + 1) : i \in 1..k \/ i = k + 1
      OBVIOUS
    <3>6. \A i \in 1..k : add[i] # ext[x]
      BY <1>1, <3>2, <3>3
    <3>7. \A i, j \in DOMAIN add2 : add2[i] = add2[j] => i = j
      BY <1>2, <3>2, <3>4, <3>5, <3>6
    <3>8. Ran(add2) = Ran(add) \cup {ext[x]}
      <4>1. \A p : p \in Ran(add2) <=> \E i \in 1..(k + 1) : p = add2[i]
        BY <3>4 DEF Ran
      <4>2. \A p : p \in Ran(add) <=> \E i \in 1..k : p = add[i]
        BY <3>2 DEF Ran
      <4>3. k + 1 \in 1..(k + 1) /\ \A i \in 1..k : i \in 1..(k + 1)
        OBVIOUS
      <4> QED  BY <3>4, <3>5, <4>1, <4>2, <4>3
    <3> QED  BY <2>1, <3>4, <3>7, <3>8
  <2>2. CASE x \notin DOMAIN ext
    BY <1>0, <1>2, <2>2
  <2> QED  BY <2>1, <2>2
<1> DEFINE g == {p \in Ran(ext) : x \in DOMAIN ext /\ p = ext[x]}
<1>a. Ran(ext2) = (Ran(ext) \ g) \cup {n} /\ Ran(add2) = Ran(add) \cup g
  <2>1. CASE x \in DOMAIN ext
    <3>1. g = {ext[x]}
      BY <1>1, <2>1
    <3> QED  BY <1>5, <1>6, <2>1, <3>1
  <2>2. CASE x \notin DOMAIN ext
    <3>1. g = {}
      BY <2>2
    <3> QED  BY <1>5, <1>6, <2>2, <3>1
  <2> QED  BY <2>1, <2>2
<1>b. g \in SUBSET Ran(ext)
  OBVIOUS
<1>8. \A y, z \in DOMAIN ext2 : ext2[y] = ext2[z] => y = z
  <2>1. /\ DOMAIN ext2 = DOMAIN ext \cup {x} /\ ext2[x] = n
        /\ \A y \in DOMAIN ext \ {x} : ext2[y] = ext[y] /\ ext[y] # n
    BY <1>0, <1>1, <1>3
  <2> QED  BY <1>2, <2>1
<1> HIDE DEF g
<1>7. All(free2, ext2, add2) = (All(free, ext, add) \ {q}) \cup {n} \cup R
  <2>1. All(free2, ext2, add2)
          = ((PiecesOf(free) \ {q}) \cup R) \cup ((Ran(ext) \ g) \cup {n}) \cup (Ran(add) \cup g)
    BY <1>a DEF All
  <2> QED  BY <1>3, <1>b, <2>1, Regrouped DEF All
<1>9. /\ \A p \in PiecesOf(free2) : p \notin Ran(ext2) /\ p \notin Ran(add2)
      /\ \A p \in Ran(ext2) : p \notin Ran(add2)
  <2>1. \A p \in PiecesOf(free2) : p # n /\ p \notin Ran(ext) /\ p \notin Ran(add)
    <3>1. n \notin PiecesOf(free) \ {q}
      BY DEF All
    <3> QED  BY <1>2, <1>4, <3>1
  <2>2. \A p \in PiecesOf(free2) : p \notin Ran(ext2) /\ p \notin Ran(add2)
    BY <1>a, <1>b, <2>1
  <2>3. \A p \in Ran(ext2) : p \notin Ran(add2)
    BY <1>2, <1>3, <1>a, <1>b
  <2> QED  BY <2>2, <2>3
<1>10. Good(free2, ext2, add2, size)
  BY <1>2, <1>6, <1>7, <1>8, <1>9 DEF Good
<1> QED  BY <1>10 DEF ext2, add2

\* Place keeps the tiling when the piece comes from GetFreeSpacePos.
LEMMA PlaceKeeps ==
  ASSUME NEW free, NEW ext, NEW add, NEW size, Good(free, ext, add, size),
         NEW x, NEW len \in Nat \ {0},
         NEW found, Found(free, len, found), found.pos # -1
  PROVE  Good(found.free, Put(ext, x, Piece(found.pos, len)), GiveUp(ext, add, x), size)
<1>1. PICK q \in PiecesOf(free) :
        /\ found.pos = q.pos
        /\ \/ q.len = len /\ PiecesOf(found.free) = PiecesOf(free) \ {q}
           \/ /\ len < q.len
              /\ PiecesOf(found.free) =
                   (PiecesOf(free) \ {q}) \cup {Piece(q.pos + len, q.len - len)}
  BY DEF Found
<1>2. Lists(found.free)
  BY DEF Found
<1>3. q \in All(free, ext, add) /\ Tiles(All(free, ext, add), size) /\ size \in Nat
  BY DEF Good, All
<1>4. q \in PieceSet
  BY <1>3 DEF Tiles
<1>5. CASE q.len = len /\ PiecesOf(found.free) = PiecesOf(free) \ {q}
  <2>1. Piece(found.pos, len) = q
    BY <1>1, <1>4, <1>5, PieceIs
  <2>2. (All(free, ext, add) \ {q}) \cup {q} \cup {} = All(free, ext, add)
    BY <1>3
  <2>3. Tiles((All(free, ext, add) \ {q}) \cup {q} \cup {}, size)
    BY <1>3, <2>2
  <2>4. PiecesOf(found.free) = (PiecesOf(free) \ {q}) \cup {}
    BY <1>5
  <2>5. \A r \in {} : r \notin All(free, ext, add) /\ r # q
    OBVIOUS
  <2>6. Good(found.free, Put(ext, x, q), GiveUp(ext, add, x), size)
    BY <1>2, <1>4, <2>3, <2>4, <2>5, MoveKeeps
  <2> QED  BY <2>1, <2>6
<1>6. CASE /\ len < q.len
           /\ PiecesOf(found.free) =
                (PiecesOf(free) \ {q}) \cup {Piece(q.pos + len, q.len - len)}
  <2> DEFINE n == Piece(q.pos, len)
             r == Piece(q.pos + len, q.len - len)
  <2>1. /\ n \in PieceSet /\ r \in PieceSet
        /\ n \notin All(free, ext, add) /\ r \notin All(free, ext, add) /\ n # r
        /\ Tiles((All(free, ext, add) \ {q}) \cup {n, r}, size)
    BY <1>3, <1>6, SplitTiles
  <2>2. PiecesOf(found.free) = (PiecesOf(free) \ {q}) \cup {r}
    BY <1>6
  <2>3. Piece(found.pos, len) = n
    BY <1>1
  <2> HIDE DEF n, r
  <2>4. (All(free, ext, add) \ {q}) \cup {n, r} = (All(free, ext, add) \ {q}) \cup {n} \cup {r}
    OBVIOUS
  <2>5. Tiles((All(free, ext, add) \ {q}) \cup {n} \cup {r}, size)
    BY <2>1, <2>4
  <2>6. {r} \in SUBSET PieceSet /\ \A t \in {r} : t \notin All(free, ext, add) /\ t # n
    BY <2>1
  <2>7. Good(found.free, Put(ext, x, n), GiveUp(ext, add, x), size)
    BY <1>2, <2>1, <2>2, <2>5, <2>6, MoveKeeps
  <2> QED  BY <2>3, <2>7
<1> QED  BY <1>1, <1>5, <1>6

\* ReallocDataFile keeps the tiling.
LEMMA GrowKeeps ==
  ASSUME NEW free, NEW ext, NEW add, NEW size, Good(free, ext, add, size), NEW g \in Nat \ {0}
  PROVE  /\ Good(AddFreeSpace(free, size, g), ext, add, size + g)
         /\ Piece(size, g) \in PiecesOf(AddFreeSpace(free, size, g))
<1> DEFINE q   == Piece(size, g)
           new == AddFreeSpace(free, size, g)
<1>1. size \in Nat /\ Tiles(All(free, ext, add), size) /\ Lists(free)
  BY DEF Good
<1>2. /\ q \in PieceSet /\ q \notin All(free, ext, add)
      /\ Tiles(All(free, ext, add) \cup {q}, size + g)
  BY <1>1, GrowTiles
<1>3. q.pos = size /\ q.len = g
  BY PieceIs
<1> HIDE DEF q
<1>4. Lists(new) /\ PiecesOf(new) = PiecesOf(free) \cup {q}
  <2>1. q \notin PiecesOf(free)
    BY <1>2 DEF All
  <2>2. /\ Lists(AddFreeSpace(free, q.pos, q.len))
        /\ PiecesOf(AddFreeSpace(free, q.pos, q.len)) = PiecesOf(free) \cup {q}
    BY <1>1, <1>2, <2>1, PieceAdded
  <2> QED  BY <1>3, <2>2
<1> HIDE DEF new
<1>5. All(new, ext, add) = All(free, ext, add) \cup {q}
  BY <1>4 DEF All
<1>6. Tiles(All(new, ext, add), size + g)
  BY <1>2, <1>5
<1>7. \A p \in PiecesOf(new) : p \notin Ran(ext) /\ p \notin Ran(add)
  BY <1>2, <1>4 DEF All, Good
<1>8. size + g \in Nat
  BY <1>1
<1>9. Good(new, ext, add, size + g) /\ q \in PiecesOf(new)
  BY <1>4, <1>6, <1>7, <1>8 DEF Good
<1> QED  BY <1>9 DEF new, q

\* A rebuild of the map from the DRECs keeps the tiling, with the extents given
\* up as free space again.
LEMMA LoadKeeps ==
  ASSUME NEW free, NEW ext, NEW add, NEW size, Good(free, ext, add, size), NEW g \in Nat
  PROVE  LET load == LoadFreeSpace(Ran(ext), size + g) IN
         /\ load.ok
         /\ Good(load.free, ext, <<>>, size + g)
         /\ \A p, q \in PiecesOf(load.free) : p.pos + p.len # q.pos
<1> DEFINE load == LoadFreeSpace(Ran(ext), size + g)
<1>1. size \in Nat /\ size + g \in Nat
  BY DEF Good
<1>2. Extents(Ran(ext), size)
  BY GoodTypes
<1>3. Extents(Ran(ext), size + g)
  <2>1. \A p \in Ran(ext) : End(p) \in Nat
    BY <1>2, PieceIs DEF Extents, End
  <2> QED  BY <1>1, <1>2, <2>1 DEF Extents
<1>4. /\ load.ok
      /\ Lists(load.free)
      /\ Tiles(Ran(ext) \cup PiecesOf(load.free), size + g)
      /\ \A p \in PiecesOf(load.free) : p \notin Ran(ext)
      /\ \A p, q \in PiecesOf(load.free) : p.pos + p.len # q.pos
  BY <1>1, <1>3, LoadedIs
<1> HIDE DEF load
<1>5. Ran(<<>>) = {} /\ <<>> \in Seq(PieceSet) /\ DOMAIN <<>> = {}
  BY DEF Ran
<1>6. All(load.free, ext, <<>>) = Ran(ext) \cup PiecesOf(load.free)
  BY <1>5 DEF All
<1>7. Tiles(All(load.free, ext, <<>>), size + g)
  BY <1>4, <1>6
<1>8. \A x, y \in DOMAIN ext : ext[x] = ext[y] => x = y
  BY DEF Good
<1>9. Good(load.free, ext, <<>>, size + g)
  BY <1>1, <1>4, <1>5, <1>7, <1>8 DEF Good
<1> QED  BY <1>4, <1>9 DEF load

\* EraseRecord keeps the tiling: an extent becomes a free piece.
LEMMA EraseKeeps ==
  ASSUME NEW free, NEW ext, NEW add, NEW size, Good(free, ext, add, size),
         NEW x \in DOMAIN ext
  PROVE  Good(AddFreeSpace(free, ext[x].pos, ext[x].len),
              Fn!Restrict(ext, DOMAIN ext \ {x}), add, size)
<1> DEFINE q    == ext[x]
           new  == AddFreeSpace(free, ext[x].pos, ext[x].len)
           ext2 == Fn!Restrict(ext, DOMAIN ext \ {x})
<1>1. /\ size \in Nat /\ Lists(free) /\ Tiles(All(free, ext, add), size)
      /\ \A y, z \in DOMAIN ext : ext[y] = ext[z] => y = z
      /\ \A p \in PiecesOf(free) : p \notin Ran(ext) /\ p \notin Ran(add)
      /\ \A p \in Ran(ext) : p \notin Ran(add)
      /\ add \in Seq(PieceSet) /\ \A i, j \in DOMAIN add : add[i] = add[j] => i = j
  BY DEF Good
<1>2. q \in PieceSet /\ q \in Ran(ext)
  BY GoodTypes
<1>3. Lists(new) /\ PiecesOf(new) = PiecesOf(free) \cup {q}
  BY <1>1, <1>2, PieceAdded
<1> HIDE DEF new
<1>4. /\ DOMAIN ext2 = DOMAIN ext \ {x}
      /\ \A y \in DOMAIN ext2 : ext2[y] = ext[y]
  BY DEF Fn!Restrict
<1> HIDE DEF ext2
<1>5. Ran(ext2) = Ran(ext) \ {q}
  <2>1. \A p : p \in Ran(ext) <=> \E y \in DOMAIN ext : p = ext[y]
    BY DEF Ran
  <2>2. \A p : p \in Ran(ext2) <=> \E y \in DOMAIN ext \ {x} : p = ext[y]
    BY <1>4 DEF Ran
  <2> QED  BY <1>1, <2>1, <2>2
<1>6. All(new, ext2, add) = All(free, ext, add)
  BY <1>2, <1>3, <1>5 DEF All
<1>7. \A y, z \in DOMAIN ext2 : ext2[y] = ext2[z] => y = z
  BY <1>1, <1>4
<1>8. /\ \A p \in PiecesOf(new) : p \notin Ran(ext2) /\ p \notin Ran(add)
      /\ \A p \in Ran(ext2) : p \notin Ran(add)
  BY <1>1, <1>2, <1>3, <1>5
<1>9. Good(new, ext2, add, size)
  BY <1>1, <1>3, <1>6, <1>7, <1>8 DEF Good
<1> QED  BY <1>9 DEF new, ext2

\* The end of Process keeps the tiling: what was given up is free.
LEMMA FinishKeeps ==
  ASSUME NEW free, NEW ext, NEW add, NEW size, Good(free, ext, add, size)
  PROVE  Good(AddPieces(free, add), ext, <<>>, size)
<1> DEFINE new == AddPieces(free, add)
<1>1. /\ size \in Nat /\ Lists(free) /\ Tiles(All(free, ext, add), size)
      /\ \A y, z \in DOMAIN ext : ext[y] = ext[z] => y = z
      /\ \A p \in PiecesOf(free) : p \notin Ran(ext) /\ p \notin Ran(add)
      /\ \A p \in Ran(ext) : p \notin Ran(add)
      /\ add \in Seq(PieceSet) /\ \A i, j \in DOMAIN add : add[i] = add[j] => i = j
  BY DEF Good
<1>2. \A i \in DOMAIN add : add[i] \in PieceSet /\ add[i] \in Ran(add)
  BY GoodTypes
<1>3. DOMAIN add \subseteq Nat /\ IsFiniteSet(DOMAIN add)
  <2>1. PICK k \in Nat : k = Len(add)
    BY <1>1
  <2>2. DOMAIN add = 1..k
    BY <1>1, <2>1
  <2>3. IsFiniteSet(1..k)
    <3>1. 1 \in Int /\ k \in Int
      OBVIOUS
    <3> QED  BY <3>1, FS_Interval
  <2> QED  BY <2>2, <2>3
<1>4. \A i \in DOMAIN add : add[i] \in PieceSet /\ add[i] \notin PiecesOf(free)
  BY <1>1, <1>2
<1>5. Lists(new) /\ PiecesOf(new) = PiecesOf(free) \cup Ran(add)
  BY <1>1, <1>3, <1>4, PiecesAdded
<1> HIDE DEF new
<1>6. Ran(<<>>) = {} /\ <<>> \in Seq(PieceSet) /\ DOMAIN <<>> = {}
  BY DEF Ran
<1>7. All(new, ext, <<>>) = All(free, ext, add)
  BY <1>5, <1>6 DEF All
<1>8. \A p \in PiecesOf(new) : p \notin Ran(ext)
  BY <1>1, <1>5
<1>9. Good(new, ext, <<>>, size)
  BY <1>1, <1>5, <1>6, <1>7, <1>8 DEF Good
<1> QED  BY <1>9 DEF new

(***************************************************************************)
(* The steps.                                                              *)
(***************************************************************************)

LEMMA Sizes ==
  /\ ReallocSize \in Nat \ {0}
  /\ \A len \in BlockCount : len \in Nat \ {0} /\ Growth(len) \in Nat \ {0} /\ len <= Growth(len)
<1>1. ReallocSize \in Nat \ {0} /\ BlockCount \subseteq Nat \ {0}
  BY FreeSpaceAssumption
<1>2. ASSUME NEW len \in BlockCount
      PROVE  len \in Nat \ {0} /\ Growth(len) \in Nat \ {0} /\ len <= Growth(len)
  BY <1>1 DEF Growth
<1> QED  BY <1>1, <1>2

\* Good is enough for GetFreeSpacePos to be what Found says.
LEMMA GoodFinds ==
  ASSUME NEW free, NEW ext, NEW add, NEW size, Good(free, ext, add, size),
         NEW len \in Nat \ {0}
  PROVE  Found(free, len, GetFreeSpacePos(free, len))
<1>1. Lists(free) /\ Tiles(All(free, ext, add), size)
  BY DEF Good
<1>2. \A p, q \in PiecesOf(free) : p # q => Apart(p, q)
  BY <1>1 DEF Tiles, All
<1> QED  BY <1>1, <1>2, Finds

LEMMA DefsAre ==
  Defs = Ran(extents) /\ GivenUp = Ran(toAdd) /\ FreePieces = PiecesOf(freeSpace)
BY DEF Defs, GivenUp, FreePieces, Ran

LEMMA InitGood == Init => IInv
<1> SUFFICES ASSUME Init PROVE IInv
  OBVIOUS
<1>1. ReallocSize \in Nat
  BY Sizes
<1> DEFINE load == LoadFreeSpace({}, ReallocSize)
<1>2. /\ dataFileSize = ReallocSize /\ extents = <<>> /\ toAdd = <<>>
      /\ freeSpace = load.free
  BY DEF Init
<1>3. Extents({}, ReallocSize)
  BY DEF Extents
<1>4. Lists(load.free) /\ Tiles({} \cup PiecesOf(load.free), ReallocSize)
  BY <1>1, <1>3, LoadedIs
<1> HIDE DEF load
<1>5. Ran(<<>>) = {} /\ <<>> \in Seq(PieceSet) /\ DOMAIN <<>> = {}
  BY DEF Ran
<1>6. All(load.free, <<>>, <<>>) = {} \cup PiecesOf(load.free)
  BY <1>5 DEF All
<1>7. Good(load.free, <<>>, <<>>, ReallocSize)
  BY <1>1, <1>4, <1>5, <1>6 DEF Good
<1> QED  BY <1>2, <1>7 DEF IInv

LEMMA WriteIntoFreeKeeps ==
  ASSUME IInv, NEW x \in Key, NEW len \in BlockCount, WriteIntoFree(x, len)
  PROVE  IInv'
<1> DEFINE found == GetFreeSpacePos(freeSpace, len)
<1>1. /\ found.pos # -1
      /\ Place(x, found.pos, len, found.free)
      /\ dataFileSize' = dataFileSize
  BY DEF WriteIntoFree
<1>2. Good(freeSpace, extents, toAdd, dataFileSize) /\ len \in Nat \ {0}
  BY Sizes DEF IInv
<1>3. Found(freeSpace, len, found)
  BY <1>2, GoodFinds
<1> HIDE DEF found
<1>4. /\ extents' = Put(extents, x, Piece(found.pos, len))
      /\ toAdd' = GiveUp(extents, toAdd, x)
      /\ freeSpace' = found.free
  BY <1>1 DEF Place, Put, GiveUp
<1>5. Good(found.free, Put(extents, x, Piece(found.pos, len)), GiveUp(extents, toAdd, x),
           dataFileSize)
  BY <1>1, <1>2, <1>3, PlaceKeeps
<1> QED  BY <1>1, <1>4, <1>5 DEF IInv

LEMMA WriteAfterGrowthKeeps ==
  ASSUME IInv, NEW x \in Key, NEW len \in BlockCount, WriteAfterGrowth(x, len)
  PROVE  IInv'
<1> DEFINE grown == AddFreeSpace(freeSpace, dataFileSize, Growth(len))
           found == GetFreeSpacePos(grown, len)
           size  == dataFileSize + Growth(len)
<1>1. /\ Place(x, found.pos, len, found.free)
      /\ dataFileSize' = size
  BY DEF WriteAfterGrowth
<1>2. /\ Good(freeSpace, extents, toAdd, dataFileSize) /\ len \in Nat \ {0}
      /\ Growth(len) \in Nat \ {0} /\ len <= Growth(len)
  BY Sizes DEF IInv
<1>3. /\ Good(grown, extents, toAdd, size)
      /\ Piece(dataFileSize, Growth(len)) \in PiecesOf(grown)
  BY <1>2, GrowKeeps
<1> HIDE DEF grown, size
<1>4. Found(grown, len, found)
  BY <1>2, <1>3, GoodFinds
<1> HIDE DEF found
<1>5. found.pos # -1
  <2>1. Piece(dataFileSize, Growth(len)).len = Growth(len)
    BY PieceIs
  <2>2. ~(Growth(len) < len)
    BY <1>2
  <2> QED  BY <1>3, <1>4, <2>1, <2>2 DEF Found
<1>6. /\ extents' = Put(extents, x, Piece(found.pos, len))
      /\ toAdd' = GiveUp(extents, toAdd, x)
      /\ freeSpace' = found.free
  BY <1>1 DEF Place, Put, GiveUp
<1>7. Good(found.free, Put(extents, x, Piece(found.pos, len)), GiveUp(extents, toAdd, x), size)
  BY <1>2, <1>3, <1>4, <1>5, PlaceKeeps
<1> QED  BY <1>1, <1>6, <1>7 DEF IInv

LEMMA RestartKeeps ==
  ASSUME IInv, Restart
  PROVE  IInv'
<1>1. PICK growth \in {0} \cup {Growth(len) : len \in BlockCount} :
        /\ dataFileSize' = dataFileSize + growth
        /\ freeSpace' = LoadFreeSpace(Defs, dataFileSize').free
        /\ toAdd' = <<>>
        /\ extents' = extents
  BY DEF Restart
<1>2. growth \in Nat
  BY Sizes
<1>3. freeSpace' = LoadFreeSpace(Ran(extents), dataFileSize + growth).free
  BY <1>1, DefsAre
<1>4. Good(freeSpace, extents, toAdd, dataFileSize)
  BY DEF IInv
<1>5. Good(LoadFreeSpace(Ran(extents), dataFileSize + growth).free, extents, <<>>,
           dataFileSize + growth)
  BY <1>2, <1>4, LoadKeeps
<1> QED  BY <1>1, <1>3, <1>5 DEF IInv

LEMMA DefragmentKeeps ==
  ASSUME IInv, DefragmentFreeSpace
  PROVE  /\ IInv'
         /\ freeSpace' = LoadFreeSpace(Ran(extents), dataFileSize + 0).free
<1> DEFINE load == LoadFreeSpace(Ran(extents), dataFileSize + 0)
<1>1. Good(freeSpace, extents, toAdd, dataFileSize)
  BY DEF IInv
<1>2. dataFileSize \in Nat
  BY <1>1 DEF Good
<1>3. /\ load.ok /\ Good(load.free, extents, <<>>, dataFileSize + 0)
  BY <1>1, LoadKeeps
<1>4. dataFileSize + 0 = dataFileSize
  BY <1>2
<1>5. load = LoadFreeSpace(Defs, dataFileSize)
  BY <1>4, DefsAre
<1> HIDE DEF load
<1>6. /\ toAdd = <<>> /\ toAdd' = toAdd /\ extents' = extents /\ dataFileSize' = dataFileSize
      /\ freeSpace' = load.free
  BY <1>3, <1>5 DEF DefragmentFreeSpace
<1>7. IInv'
  BY <1>3, <1>4, <1>6 DEF IInv
<1> QED  BY <1>6, <1>7 DEF load

LEMMA NextKeeps ==
  ASSUME IInv, [Next]_vars
  PROVE  IInv'
<1>1. ASSUME NEW x \in Key, NEW len \in BlockCount, WriteIntoFree(x, len)
      PROVE  IInv'
  BY <1>1, WriteIntoFreeKeeps
<1>2. ASSUME NEW x \in Key, NEW len \in BlockCount, WriteAfterGrowth(x, len)
      PROVE  IInv'
  BY <1>2, WriteAfterGrowthKeeps
<1>3. ASSUME NEW x \in Key, EraseRecord(x) PROVE IInv'
  <2>1. x \in DOMAIN extents /\ Good(freeSpace, extents, toAdd, dataFileSize)
    BY <1>3 DEF EraseRecord, IInv
  <2>2. Good(AddFreeSpace(freeSpace, extents[x].pos, extents[x].len),
             Fn!Restrict(extents, DOMAIN extents \ {x}), toAdd, dataFileSize)
    BY <2>1, EraseKeeps
  <2>3. /\ freeSpace' = AddFreeSpace(freeSpace, extents[x].pos, extents[x].len)
        /\ extents' = Fn!Restrict(extents, DOMAIN extents \ {x})
        /\ dataFileSize' = dataFileSize /\ toAdd' = toAdd
    BY <1>3 DEF EraseRecord
  <2> QED  BY <2>2, <2>3 DEF IInv
<1>4. ASSUME FinishProcess PROVE IInv'
  <2>1. Good(freeSpace, extents, toAdd, dataFileSize)
    BY DEF IInv
  <2>2. Good(AddPieces(freeSpace, toAdd), extents, <<>>, dataFileSize)
    BY <2>1, FinishKeeps
  <2>3. /\ freeSpace' = AddPieces(freeSpace, toAdd) /\ toAdd' = <<>>
        /\ dataFileSize' = dataFileSize /\ extents' = extents
    BY <1>4 DEF FinishProcess
  <2> QED  BY <2>2, <2>3 DEF IInv
<1>5. ASSUME DefragmentFreeSpace PROVE IInv'
  BY <1>5, DefragmentKeeps
<1>6. ASSUME Restart PROVE IInv'
  BY <1>6, RestartKeeps
<1>7. ASSUME UNCHANGED vars PROVE IInv'
  BY <1>7 DEF vars, IInv
<1> QED  BY <1>1, <1>2, <1>3, <1>4, <1>5, <1>6, <1>7 DEF Next

\* Lists, extents and extents given up tile the data file, in every state.
THEOREM AlwaysTiled == Spec => []IInv
<1>1. IInv /\ [Next]_vars => IInv'
  BY NextKeeps
<1> QED  BY <1>1, InitGood, PTL DEF Spec

\* No block of the data file is lost or handed out twice: FileIsTiled.
THEOREM FileAlwaysTiled == Spec => []FileIsTiled
<1>1. IInv => FileIsTiled
  <2> SUFFICES ASSUME IInv PROVE FileIsTiled
    OBVIOUS
  <2>1. /\ dataFileSize \in Nat /\ Lists(freeSpace)
        /\ \A x, y \in DOMAIN extents : extents[x] = extents[y] => x = y
        /\ \A i, j \in DOMAIN toAdd : toAdd[i] = toAdd[j] => i = j
        /\ \A p \in PiecesOf(freeSpace) : p \notin Ran(extents) /\ p \notin Ran(toAdd)
        /\ \A p \in Ran(extents) : p \notin Ran(toAdd)
        /\ Tiles(All(freeSpace, extents, toAdd), dataFileSize)
    BY DEF IInv, Good
  <2>2. All(freeSpace, extents, toAdd) = FreePieces \cup Defs \cup GivenUp
    BY DefsAre DEF All
  <2>3. /\ Disjoint(FreePieces \cup Defs \cup GivenUp)
        /\ Covered(FreePieces \cup Defs \cup GivenUp) = 0 .. dataFileSize - 1
    BY <2>1, <2>2, TilesIs
  <2>4. \A l \in DOMAIN freeSpace : Fn!IsInjective(freeSpace[l])
    BY <2>1 DEF Lists, Fn!IsInjective
  <2>5. Fn!IsInjective(extents) /\ Fn!IsInjective(toAdd)
    BY <2>1 DEF Fn!IsInjective
  <2>6. FreePieces \cap Defs = {} /\ FreePieces \cap GivenUp = {} /\ Defs \cap GivenUp = {}
    BY <2>1, DefsAre
  <2> QED  BY <2>3, <2>4, <2>5, <2>6 DEF FileIsTiled, ListedOnce
<1> QED  BY <1>1, AlwaysTiled, PTL

\* No list of the map is empty, so back() is defined: NoEmptyList.
THEOREM NoListEmpty == Spec => []NoEmptyList
<1>1. IInv => NoEmptyList
  BY DEF IInv, Good, Lists, NoEmptyList
<1> QED  BY <1>1, AlwaysTiled, PTL

\* The index file never makes a load report corruption: IndexIsLoadable.
THEOREM AlwaysLoadable == Spec => []IndexIsLoadable
<1>1. IInv => IndexIsLoadable
  <2> SUFFICES ASSUME IInv PROVE IndexIsLoadable
    OBVIOUS
  <2>1. Good(freeSpace, extents, toAdd, dataFileSize) /\ dataFileSize \in Nat
    BY DEF IInv, Good
  <2>2. LoadFreeSpace(Ran(extents), dataFileSize + 0).ok
    BY <2>1, LoadKeeps
  <2>3. dataFileSize + 0 = dataFileSize
    BY <2>1
  <2> QED  BY <2>2, <2>3, DefsAre DEF IndexIsLoadable
<1> QED  BY <1>1, AlwaysTiled, PTL

(***************************************************************************)
(* The action properties.                                                  *)
(***************************************************************************)

\* Where a set of pieces and the extents tile the file, the pieces cover what
\* the extents do not.
LEMMA CoveredRest ==
  ASSUME NEW S, NEW E, NEW size \in Nat, Tiles(S \cup E, size), \A p \in S : p \notin E
  PROVE  Covered(S) = (0..(size - 1)) \ Covered(E)
<1>1. Disjoint(S \cup E) /\ Covered(S \cup E) = 0..(size - 1)
  BY TilesIs
<1>2. /\ \A b : b \in Covered(S) <=> \E p \in S : b \in BlocksOf(p)
      /\ \A b : b \in Covered(E) <=> \E p \in E : b \in BlocksOf(p)
      /\ \A b : b \in Covered(S \cup E) <=> \E p \in S \cup E : b \in BlocksOf(p)
  BY DEF Covered
<1>3. \A b : b \in Covered(S \cup E) <=> b \in Covered(S) \/ b \in Covered(E)
  BY <1>2
<1>4. ASSUME NEW b, b \in Covered(S) PROVE b \notin Covered(E)
  <2>1. PICK p \in S : b \in BlocksOf(p)
    BY <1>2, <1>4
  <2>2. \A q \in E : BlocksOf(p) \cap BlocksOf(q) = {}
    BY <1>1 DEF Disjoint
  <2> QED  BY <1>2, <2>1, <2>2
<1> QED  BY <1>1, <1>3, <1>4

\* ReallocDataFile is the last resort: GrowsOnlyWhenFull.
THEOREM GrowthOnlyWhenFull == Spec => GrowsOnlyWhenFull
<1> DEFINE A == \A x \in DOMAIN extents' :
       (dataFileSize' > dataFileSize /\ (x \in DOMAIN extents => extents'[x] # extents[x]))
         => \A p \in FreePieces : p.len < extents'[x].len
<1>1. ASSUME IInv, [Next]_vars PROVE [A]_vars
  <2>0. dataFileSize \in Nat
    BY <1>1 DEF IInv, Good
  <2>1. ASSUME dataFileSize' = dataFileSize PROVE A
    BY <2>0, <2>1
  <2>2. ASSUME extents' = extents PROVE A
    BY <2>2
  <2>3. ASSUME NEW y \in Key, NEW len \in BlockCount, WriteAfterGrowth(y, len) PROVE A
    <3> DEFINE grown == AddFreeSpace(freeSpace, dataFileSize, Growth(len))
               pos   == GetFreeSpacePos(grown, len).pos
    <3>1. /\ GetFreeSpacePos(freeSpace, len).pos = -1
          /\ extents' = [z \in DOMAIN extents \cup {y} |->
                           IF z = y THEN Piece(pos, len) ELSE extents[z]]
      BY <2>3 DEF WriteAfterGrowth, Place
    <3> HIDE DEF pos
    <3>2. Found(freeSpace, len, GetFreeSpacePos(freeSpace, len))
      <4>1. Good(freeSpace, extents, toAdd, dataFileSize) /\ len \in Nat \ {0}
        BY <1>1, Sizes DEF IInv
      <4> QED  BY <4>1, GoodFinds
    <3>3. \A p \in FreePieces : p.len < len
      BY <3>1, <3>2, DefsAre DEF Found
    <3>4. extents'[y].len = len
      BY <3>1, PieceIs
    <3>5. \A x \in DOMAIN extents' : x # y => x \in DOMAIN extents /\ extents'[x] = extents[x]
      BY <3>1
    <3> QED  BY <3>3, <3>4, <3>5
  <2>4. ASSUME NEW x \in Key, NEW len \in BlockCount, WriteIntoFree(x, len)
        PROVE  dataFileSize' = dataFileSize
    BY <2>4 DEF WriteIntoFree
  <2>5. ASSUME NEW x \in Key, EraseRecord(x) PROVE dataFileSize' = dataFileSize
    BY <2>5 DEF EraseRecord
  <2>6. FinishProcess \/ DefragmentFreeSpace => dataFileSize' = dataFileSize
    BY DEF FinishProcess, DefragmentFreeSpace
  <2>7. Restart => extents' = extents
    BY DEF Restart
  <2> HIDE DEF A
  <2>8. CASE Next
    BY <2>1, <2>2, <2>3, <2>4, <2>5, <2>6, <2>7, <2>8 DEF Next
  <2> QED  BY <1>1, <2>8
<1>2. IInv /\ [Next]_vars => [A]_vars
  BY <1>1
<1>3. Spec => [][A]_vars
  BY <1>2, AlwaysTiled, PTL DEF Spec
<1> QED  BY <1>3 DEF GrowsOnlyWhenFull

\* A rebuild of the map keeps what is free.
LEMMA LoadMerges ==
  ASSUME NEW free, NEW ext, NEW size, Good(free, ext, <<>>, size)
  PROVE  LET load == LoadFreeSpace(Ran(ext), size + 0) IN
         /\ Covered(PiecesOf(load.free)) = Covered(PiecesOf(free))
         /\ \A p, q \in PiecesOf(load.free) : p.pos + p.len # q.pos
<1> DEFINE load == LoadFreeSpace(Ran(ext), size + 0)
<1>1. size \in Nat /\ size + 0 = size
  BY DEF Good
<1>2. /\ Good(load.free, ext, <<>>, size + 0)
      /\ \A p, q \in PiecesOf(load.free) : p.pos + p.len # q.pos
  BY LoadKeeps
<1>3. Good(load.free, ext, <<>>, size)
  BY <1>1, <1>2
<1> HIDE DEF load
<1>4. ASSUME NEW f, Good(f, ext, <<>>, size)
      PROVE  Covered(PiecesOf(f)) = (0..(size - 1)) \ Covered(Ran(ext))
  <2>1. Ran(<<>>) = {}
    BY DEF Ran
  <2>2. All(f, ext, <<>>) = PiecesOf(f) \cup Ran(ext)
    BY <2>1 DEF All
  <2>3. Tiles(PiecesOf(f) \cup Ran(ext), size) /\ \A p \in PiecesOf(f) : p \notin Ran(ext)
    BY <1>4, <2>2 DEF Good
  <2> QED  BY <1>1, <2>3, CoveredRest
<1>5. Covered(PiecesOf(load.free)) = Covered(PiecesOf(free))
  BY <1>3, <1>4
<1> QED  BY <1>2, <1>5 DEF load

\* A write gives its X another extent.
LEMMA PlaceChanges ==
  ASSUME IInv, IInv', NEW x, NEW pos, NEW len, NEW free, Place(x, pos, len, free)
  PROVE  extents' # extents
<1> SUFFICES ASSUME extents' = extents PROVE FALSE
  OBVIOUS
<1>1. /\ extents' = [y \in DOMAIN extents \cup {x} |->
                       IF y = x THEN Piece(pos, len) ELSE extents[y]]
      /\ toAdd' = IF x \in DOMAIN extents THEN Append(toAdd, extents[x]) ELSE toAdd
  BY DEF Place
<1>2. x \in DOMAIN extents
  BY <1>1
<1>3. extents[x] \in Ran(extents')
  BY <1>2 DEF Ran
<1>4. toAdd \in Seq(PieceSet) /\ extents[x] \in PieceSet
  <2>1. Good(freeSpace, extents, toAdd, dataFileSize)
    BY DEF IInv
  <2>2. extents[x] \in PieceSet
    BY <1>2, <2>1, GoodTypes
  <2> QED  BY <2>1, <2>2 DEF Good
<1>5. extents[x] \in Ran(toAdd')
  <2>1. PICK k \in Nat : k = Len(toAdd)
    BY <1>4
  <2>2. toAdd' = Append(toAdd, extents[x])
    BY <1>1, <1>2
  <2>3. k + 1 \in DOMAIN toAdd' /\ toAdd'[k + 1] = extents[x]
    BY <1>4, <2>1, <2>2
  <2> QED  BY <2>3 DEF Ran
<1>6. \A p \in Ran(extents') : p \notin Ran(toAdd')
  BY DEF IInv, Good
<1> QED  BY <1>3, <1>5, <1>6

\* A rebuild keeps the free blocks and leaves no two pieces side by side:
\* DefragmentMerges.
THEOREM DefragmentAlwaysMerges == Spec => DefragmentMerges
<1> DEFINE A == (extents' = extents /\ toAdd = <<>> /\ dataFileSize' = dataFileSize) =>
       /\ Covered(FreePieces') = Covered(FreePieces)
       /\ \A p, q \in FreePieces' : p.pos + p.len # q.pos
<1>1. ASSUME IInv, [Next]_vars PROVE [A]_vars
  <2>0. IInv' /\ dataFileSize \in Nat
    BY <1>1, NextKeeps DEF IInv, Good
  <2>1. ASSUME toAdd = <<>>,
               freeSpace' = LoadFreeSpace(Ran(extents), dataFileSize + 0).free
        PROVE  A
    <3>1. Good(freeSpace, extents, <<>>, dataFileSize)
      BY <1>1, <2>1 DEF IInv
    <3>2. /\ Covered(PiecesOf(freeSpace')) = Covered(PiecesOf(freeSpace))
          /\ \A p, q \in PiecesOf(freeSpace') : p.pos + p.len # q.pos
      BY <2>1, <3>1, LoadMerges
    <3>3. FreePieces = PiecesOf(freeSpace) /\ FreePieces' = PiecesOf(freeSpace')
      BY DEF FreePieces
    <3> QED  BY <3>2, <3>3
  <2>2. ASSUME NEW x \in Key, NEW len \in BlockCount, WriteIntoFree(x, len) PROVE extents' # extents
    <3>1. PICK found : Place(x, found.pos, len, found.free)
      BY <2>2 DEF WriteIntoFree
    <3> QED  BY <1>1, <2>0, <3>1, PlaceChanges
  <2>3. ASSUME NEW x \in Key, NEW len \in BlockCount, WriteAfterGrowth(x, len)
        PROVE  dataFileSize' # dataFileSize
    <3>1. dataFileSize' = dataFileSize + Growth(len) /\ Growth(len) \in Nat \ {0}
      BY <2>3, Sizes DEF WriteAfterGrowth
    <3> QED  BY <2>0, <3>1
  <2>4. ASSUME NEW x \in Key, EraseRecord(x) PROVE extents' # extents
    <3>1. x \in DOMAIN extents /\ extents' = Fn!Restrict(extents, DOMAIN extents \ {x})
      BY <2>4 DEF EraseRecord
    <3>2. x \notin DOMAIN extents'
      BY <3>1 DEF Fn!Restrict
    <3> QED  BY <3>1, <3>2
  <2>5. ASSUME FinishProcess PROVE toAdd # <<>>
    BY <2>5 DEF FinishProcess
  <2>6. ASSUME DefragmentFreeSpace PROVE A
    <3>1. toAdd = <<>>
      BY <2>6 DEF DefragmentFreeSpace
    <3>2. freeSpace' = LoadFreeSpace(Ran(extents), dataFileSize + 0).free
      BY <1>1, <2>6, DefragmentKeeps
    <3> QED  BY <2>1, <3>1, <3>2
  <2>7. ASSUME Restart PROVE A
    <3>1. PICK growth \in {0} \cup {Growth(len) : len \in BlockCount} :
            /\ dataFileSize' = dataFileSize + growth
            /\ freeSpace' = LoadFreeSpace(Defs, dataFileSize').free
      BY <2>7 DEF Restart
    <3>2. growth \in Nat
      BY Sizes
    <3>3. CASE growth = 0
      <4>1. freeSpace' = LoadFreeSpace(Ran(extents), dataFileSize + 0).free
        BY <3>1, <3>3, DefsAre
      <4> QED  BY <2>1, <4>1
    <3>4. CASE growth # 0
      BY <2>0, <3>1, <3>2, <3>4
    <3> QED  BY <3>3, <3>4
  <2>a. A \/ ~(extents' = extents /\ toAdd = <<>> /\ dataFileSize' = dataFileSize) => A
    OBVIOUS
  <2> HIDE DEF A
  <2>8. CASE Next
    BY <2>2, <2>3, <2>4, <2>5, <2>6, <2>7, <2>8, <2>a DEF Next
  <2> QED  BY <1>1, <2>8
<1>2. IInv /\ [Next]_vars => [A]_vars
  BY <1>1
<1>3. Spec => [][A]_vars
  BY <1>2, AlwaysTiled, PTL DEF Spec
<1> QED  BY <1>3 DEF DefragmentMerges
=============================================================================
