-------------------------- MODULE BlockManagerProofs --------------------------
(***************************************************************************)
(* Theorems about BlockManager, for any keys, records, block size, record  *)
(* limits and settings: the counters of every block, the AVL tree, and     *)
(* what the storage thread puts on disk.                                   *)
(***************************************************************************)
EXTENDS BlockManager, BlockProofs, FiniteSetTheorems

(***************************************************************************)
(* A good blman: good blocks, and a tree with one node for every RDF.      *)
(***************************************************************************)

BlockIndexes == UNION {[K -> Nat] : K \in SUBSET RecordKey}
Blmans == [blocks : Seq(BlockSet), blockIndex : BlockIndexes]

GoodBlocks(bs) == \A i \in 1..Len(bs) : GoodBlock(bs[i])

IndexFits(bs, index) ==
  /\ \A k \in DOMAIN index : index[k] \in 1..Len(bs) /\ k \in KeysIn(bs[index[k]])
  /\ \A i \in 1..Len(bs) : \A k \in KeysIn(bs[i]) : k \in DOMAIN index /\ index[k] = i

GoodBlman(m) ==
  m \in Blmans /\ GoodBlocks(m.blocks) /\ IndexFits(m.blocks, m.blockIndex)

Count(m) == Cardinality(DOMAIN m.blockIndex)

\* Every old block is as it was or dirty.
Touched(bs, new) ==
  /\ Len(bs) <= Len(new)
  /\ \A i \in 1..Len(bs) : new[i] = bs[i] \/ new[i].dirty

PutBlock(s, i, c) == [s EXCEPT ![i] = c]
IsPut(s, i, c, new) ==
  Len(new) = Len(s) /\ new[i] = c /\ \A j \in 1..Len(s) : j # i => new[j] = s[j]

LEMMA PutBlockIs ==
  ASSUME NEW S, NEW s \in Seq(S), NEW i \in 1..Len(s), NEW c \in S
  PROVE  PutBlock(s, i, c) \in Seq(S) /\ IsPut(s, i, c, PutBlock(s, i, c))
<1>1. /\ [s EXCEPT ![i] = c] \in Seq(S) /\ Len([s EXCEPT ![i] = c]) = Len(s)
      /\ \A j \in 1..Len(s) : [s EXCEPT ![i] = c][j] = IF j = i THEN c ELSE s[j]
  BY ExceptSeq
<1>2. PutBlock(s, i, c) = [s EXCEPT ![i] = c]
  BY DEF PutBlock
<1> QED  BY <1>1, <1>2 DEF IsPut

LEMMA TouchedIsTransitive ==
  ASSUME NEW a, NEW b, NEW c, Len(a) \in Nat, Len(b) \in Nat, Len(c) \in Nat,
         Touched(a, b), Touched(b, c)
  PROVE  Touched(a, c)
<1>1. PICK x \in Nat, y \in Nat, z \in Nat : x = Len(a) /\ y = Len(b) /\ z = Len(c)
  OBVIOUS
<1>2. x <= y /\ y <= z
  BY <1>1 DEF Touched
<1>3. x <= z /\ \A i \in 1..x : i \in 1..y
  BY <1>2
<1>4. /\ \A i \in 1..x : b[i] = a[i] \/ b[i].dirty
      /\ \A i \in 1..y : c[i] = b[i] \/ c[i].dirty
  BY <1>1 DEF Touched
<1>5. \A i \in 1..x : c[i] = a[i] \/ c[i].dirty
  BY <1>3, <1>4
<1> QED  BY <1>1, <1>3, <1>5 DEF Touched

LEMMA TouchedIsReflexive ==
  ASSUME NEW a, Len(a) \in Nat
  PROVE  Touched(a, a)
BY DEF Touched

LEMMA GoodParts ==
  ASSUME NEW m, GoodBlman(m)
  PROVE  /\ m.blocks \in Seq(BlockSet) /\ Len(m.blocks) \in Nat
         /\ m.blockIndex \in BlockIndexes /\ DOMAIN m.blockIndex \subseteq RecordKey
         /\ \A k \in DOMAIN m.blockIndex : m.blockIndex[k] \in Nat
         /\ m = [blocks |-> m.blocks, blockIndex |-> m.blockIndex]
<1>1. m.blocks \in Seq(BlockSet) /\ m.blockIndex \in BlockIndexes
  BY DEF GoodBlman, Blmans
<1>2. PICK K \in SUBSET RecordKey : m.blockIndex \in [K -> Nat]
  BY <1>1 DEF BlockIndexes
<1>3. m = [blocks |-> m.blocks, blockIndex |-> m.blockIndex]
  BY DEF GoodBlman, Blmans
<1> QED  BY <1>1, <1>2, <1>3, LenProperties

\* The tree after block i has become c.
IndexAfter(m, i, c, index) ==
  /\ \A k \in KeysIn(c) :
       /\ k \in DOMAIN index /\ index[k] = i
       /\ k \notin DOMAIN m.blockIndex \/ m.blockIndex[k] = i
  /\ \A k \in DOMAIN m.blockIndex :
       m.blockIndex[k] # i => k \in DOMAIN index /\ index[k] = m.blockIndex[k]
  /\ \A k \in DOMAIN index :
       k \in KeysIn(c) \/ (k \in DOMAIN m.blockIndex /\ m.blockIndex[k] # i)

LEMMA BlockReplaced ==
  ASSUME NEW m, GoodBlman(m), NEW i \in 1..Len(m.blocks), NEW c, GoodBlock(c), c.dirty,
         NEW index \in BlockIndexes, IndexAfter(m, i, c, index)
  PROVE  /\ GoodBlman([blocks |-> PutBlock(m.blocks, i, c), blockIndex |-> index])
         /\ Touched(m.blocks, PutBlock(m.blocks, i, c))
         /\ Len(PutBlock(m.blocks, i, c)) = Len(m.blocks)
<1> DEFINE s == PutBlock(m.blocks, i, c)
<1>1. PICK n \in Nat : n = Len(m.blocks) /\ m.blocks \in Seq(BlockSet)
  BY GoodParts
<1>2. c \in BlockSet
  BY DEF GoodBlock
<1>3. /\ s \in Seq(BlockSet) /\ Len(s) = n /\ s[i] = c
      /\ \A j \in 1..n : j # i => s[j] = m.blocks[j]
  <2>1. m.blocks \in Seq(BlockSet) /\ i \in 1..Len(m.blocks) /\ c \in BlockSet
    BY <1>1, <1>2
  <2>2. s \in Seq(BlockSet) /\ IsPut(m.blocks, i, c, s)
    BY <2>1, PutBlockIs
  <2> QED  BY <1>1, <2>2 DEF IsPut
<1> HIDE DEF s
<1>4. GoodBlocks(s)
  BY <1>1, <1>3 DEF GoodBlman, GoodBlocks
<1>5. /\ \A k \in DOMAIN m.blockIndex :
           m.blockIndex[k] \in 1..n /\ k \in KeysIn(m.blocks[m.blockIndex[k]])
      /\ \A j \in 1..n : \A k \in KeysIn(m.blocks[j]) :
           k \in DOMAIN m.blockIndex /\ m.blockIndex[k] = j
  BY <1>1 DEF GoodBlman, IndexFits
<1>6. ASSUME NEW k \in DOMAIN index PROVE index[k] \in 1..n /\ k \in KeysIn(s[index[k]])
  <2>1. CASE k \in KeysIn(c)
    BY <1>1, <1>3, <2>1 DEF IndexAfter
  <2>2. CASE k \in DOMAIN m.blockIndex /\ m.blockIndex[k] # i
    <3>1. index[k] = m.blockIndex[k]
      BY <2>2 DEF IndexAfter
    <3> QED  BY <1>3, <1>5, <2>2, <3>1
  <2> QED  BY <2>1, <2>2 DEF IndexAfter
<1>7. ASSUME NEW j \in 1..n, NEW k \in KeysIn(s[j]) PROVE k \in DOMAIN index /\ index[k] = j
  <2>1. CASE j = i
    BY <1>3, <2>1 DEF IndexAfter
  <2>2. CASE j # i
    BY <1>3, <1>5, <2>2 DEF IndexAfter
  <2> QED  BY <2>1, <2>2
<1>8. IndexFits(s, index)
  BY <1>3, <1>6, <1>7 DEF IndexFits
<1>9. GoodBlman([blocks |-> s, blockIndex |-> index])
  BY <1>3, <1>4, <1>8 DEF GoodBlman, Blmans
<1>10. Touched(m.blocks, s)
  BY <1>1, <1>3 DEF Touched
<1> QED  BY <1>1, <1>3, <1>9, <1>10 DEF s

\* new is m with dirty blocks where it changed, as many blocks, and a tree of K.
Changed(m, new, K) ==
  /\ GoodBlman(new)
  /\ Touched(m.blocks, new.blocks)
  /\ Len(new.blocks) = Len(m.blocks)
  /\ DOMAIN new.blockIndex = K

LEMMA Unchanged ==
  ASSUME NEW m, GoodBlman(m)
  PROVE  Changed(m, m, DOMAIN m.blockIndex)
BY GoodParts, TouchedIsReflexive DEF Changed

LEMMA ChangedTwice ==
  ASSUME NEW a, NEW b, NEW c, NEW K, NEW L, GoodBlman(a), Changed(a, b, K), Changed(b, c, L)
  PROVE  Changed(a, c, L)
<1>1. Len(a.blocks) \in Nat /\ Len(b.blocks) \in Nat /\ Len(c.blocks) \in Nat
  BY GoodParts DEF Changed
<1>2. Touched(a.blocks, c.blocks)
  BY <1>1, TouchedIsTransitive DEF Changed
<1> QED  BY <1>2 DEF Changed

Restricted(f, K) == [x \in K |-> f[x]]

LEMMA RestrictedIs ==
  ASSUME NEW f \in BlockIndexes, NEW K \in SUBSET DOMAIN f
  PROVE  /\ Restricted(f, K) \in BlockIndexes /\ DOMAIN Restricted(f, K) = K
         /\ \A k \in K : Restricted(f, K)[k] = f[k]
<1>1. PICK L \in SUBSET RecordKey : f \in [L -> Nat]
  BY DEF BlockIndexes
<1>2. K \in SUBSET RecordKey /\ \A k \in K : f[k] \in Nat
  BY <1>1
<1>3. Restricted(f, K) \in [K -> Nat]
  BY <1>2 DEF Restricted
<1> QED  BY <1>2, <1>3 DEF BlockIndexes, Restricted

\* As many blocks, none with less free space.
Roomy(bs, new) ==
  Len(new) = Len(bs) /\ \A i \in 1..Len(bs) : new[i].free >= bs[i].free

FreeIsNat(bs) == \A i \in 1..Len(bs) : bs[i].free \in Nat

LEMMA FreeIsNatural ==
  ASSUME NEW m, GoodBlman(m)
  PROVE  FreeIsNat(m.blocks)
BY DEF GoodBlman, GoodBlocks, GoodBlock, BlockSet, FreeIsNat

LEMMA RoomyIsReflexive ==
  ASSUME NEW m, GoodBlman(m)
  PROVE  Roomy(m.blocks, m.blocks)
<1>1. FreeIsNat(m.blocks)
  BY FreeIsNatural
<1> QED  BY <1>1 DEF Roomy, FreeIsNat

LEMMA RoomyIsTransitive ==
  ASSUME NEW a, NEW b, NEW c, FreeIsNat(a), FreeIsNat(b), FreeIsNat(c), Roomy(a, b), Roomy(b, c)
  PROVE  Roomy(a, c)
<1>1. Len(b) = Len(a) /\ Len(c) = Len(a)
  BY DEF Roomy
<1>2. ASSUME NEW i \in 1..Len(a) PROVE c[i].free >= a[i].free
  <2>1. a[i].free \in Nat /\ b[i].free \in Nat /\ c[i].free \in Nat
    BY <1>1 DEF FreeIsNat
  <2>2. b[i].free >= a[i].free /\ c[i].free >= b[i].free
    BY <1>1 DEF Roomy
  <2> QED  BY <2>1, <2>2
<1> QED  BY <1>1, <1>2 DEF Roomy

\* What a node and its block have to do with each other.
LEMMA NodeParts ==
  ASSUME NEW m, GoodBlman(m), NEW k \in DOMAIN m.blockIndex
  PROVE  /\ m.blockIndex[k] \in 1..Len(m.blocks)
         /\ GoodBlock(m.blocks[m.blockIndex[k]])
         /\ k \in KeysIn(m.blocks[m.blockIndex[k]])
         /\ \A y : (y \in KeysIn(m.blocks[m.blockIndex[k]]))
                     <=> (y \in DOMAIN m.blockIndex /\ m.blockIndex[y] = m.blockIndex[k])
<1>1. /\ m.blockIndex[k] \in 1..Len(m.blocks)
      /\ k \in KeysIn(m.blocks[m.blockIndex[k]])
  BY DEF GoodBlman, IndexFits
<1>2. GoodBlock(m.blocks[m.blockIndex[k]])
  BY <1>1 DEF GoodBlman, GoodBlocks
<1>3. ASSUME NEW y \in KeysIn(m.blocks[m.blockIndex[k]])
      PROVE  y \in DOMAIN m.blockIndex /\ m.blockIndex[y] = m.blockIndex[k]
  BY <1>1 DEF GoodBlman, IndexFits
<1>4. ASSUME NEW y \in DOMAIN m.blockIndex, m.blockIndex[y] = m.blockIndex[k]
      PROVE  y \in KeysIn(m.blocks[m.blockIndex[k]])
  BY <1>4 DEF GoodBlman, IndexFits
<1> QED  BY <1>1, <1>2, <1>3, <1>4

\* The block of a node becomes c, which has its keys, or all but the node's.
LEMMA NodeReplaced ==
  ASSUME NEW m, GoodBlman(m), NEW k \in DOMAIN m.blockIndex, NEW c, GoodBlock(c), c.dirty,
         NEW gone \in {{}, {k}}, KeysIn(c) = KeysIn(m.blocks[m.blockIndex[k]]) \ gone
  PROVE  Changed(m, [blocks |-> PutBlock(m.blocks, m.blockIndex[k], c),
                     blockIndex |-> Restricted(m.blockIndex, DOMAIN m.blockIndex \ gone)],
                 DOMAIN m.blockIndex \ gone)
<1> DEFINE K == DOMAIN m.blockIndex \ gone
           index == Restricted(m.blockIndex, K)
<1>1. PICK i \in 1..Len(m.blocks) : i = m.blockIndex[k]
  BY NodeParts
<1>2. index \in BlockIndexes /\ DOMAIN index = K /\ \A y \in K : index[y] = m.blockIndex[y]
  BY GoodParts, RestrictedIs
<1>3. \A y : (y \in KeysIn(m.blocks[i])) <=> (y \in DOMAIN m.blockIndex /\ m.blockIndex[y] = i)
  BY <1>1, NodeParts
<1> HIDE DEF index
<1>4. IndexAfter(m, i, c, index)
  <2>1. \A y : (y \in KeysIn(c)) <=> (y \in K /\ m.blockIndex[y] = i)
    BY <1>1, <1>3
  <2>2. \A y \in gone : m.blockIndex[y] = i
    BY <1>1
  <2>3. \A y \in DOMAIN m.blockIndex : m.blockIndex[y] # i => y \in K
    BY <2>2
  <2> QED  BY <1>2, <2>1, <2>3 DEF IndexAfter
<1>5. /\ GoodBlman([blocks |-> PutBlock(m.blocks, i, c), blockIndex |-> index])
      /\ Touched(m.blocks, PutBlock(m.blocks, i, c))
      /\ Len(PutBlock(m.blocks, i, c)) = Len(m.blocks)
  BY <1>2, <1>4, BlockReplaced
<1>6. Changed(m, [blocks |-> PutBlock(m.blocks, i, c), blockIndex |-> index], K)
  BY <1>2, <1>5 DEF Changed
<1> QED  BY <1>1, <1>6 DEF index

\* blman_delete_record_by_node.
LEMMA DeleteNodeIsGood ==
  ASSUME NEW m, GoodBlman(m), NEW k \in DOMAIN m.blockIndex
  PROVE  Changed(m, DeleteNode(m, k), DOMAIN m.blockIndex \ {k})
<1> DEFINE i == m.blockIndex[k]
           c == DeleteRecordByKey(m.blocks[i], k)
<1>1. GoodBlock(m.blocks[i]) /\ k \in KeysIn(m.blocks[i])
  BY NodeParts
<1>2. GoodBlock(c) /\ c.dirty /\ KeysIn(c) = KeysIn(m.blocks[i]) \ {k}
  BY <1>1, DeleteByKeyIsGood
<1>3. DeleteNode(m, k) = [blocks |-> PutBlock(m.blocks, i, c),
                          blockIndex |-> Restricted(m.blockIndex, DOMAIN m.blockIndex \ {k})]
  BY DEF DeleteNode, PutBlock, Restricted, Fn!Restrict
<1> HIDE DEF c
<1>4. {k} \in {{}, {k}}
  OBVIOUS
<1>5. Changed(m, [blocks |-> PutBlock(m.blocks, i, c),
                  blockIndex |-> Restricted(m.blockIndex, DOMAIN m.blockIndex \ {k})],
              DOMAIN m.blockIndex \ {k})
  BY <1>2, <1>4, NodeReplaced
<1> QED  BY <1>3, <1>5

LEMMA DeleteNodeFrees ==
  ASSUME NEW m, GoodBlman(m), NEW k \in DOMAIN m.blockIndex
  PROVE  Roomy(m.blocks, DeleteNode(m, k).blocks)
<1> DEFINE c == DeleteRecordByKey(m.blocks[m.blockIndex[k]], k)
<1>1. PICK i \in 1..Len(m.blocks) :
        i = m.blockIndex[k] /\ GoodBlock(m.blocks[i]) /\ k \in KeysIn(m.blocks[i])
  BY NodeParts
<1>2. DeleteNode(m, k).blocks = PutBlock(m.blocks, i, c)
  BY <1>1 DEF DeleteNode, PutBlock
<1>3. c.free >= m.blocks[i].free /\ GoodBlock(c)
  BY <1>1, FreeAfterDelete, DeleteByKeyIsGood
<1> HIDE DEF c
<1>4. IsPut(m.blocks, i, c, PutBlock(m.blocks, i, c))
  <2>1. m.blocks \in Seq(BlockSet) /\ c \in BlockSet
    BY <1>3, GoodParts DEF GoodBlock
  <2> QED  BY <2>1, PutBlockIs
<1>5. FreeIsNat(m.blocks)
  BY FreeIsNatural
<1> QED  BY <1>2, <1>3, <1>4, <1>5 DEF IsPut, Roomy, FreeIsNat

\* Phase 1 of blman_write_record.
IsUpdateInPlace(one, m, k) ==
  /\ one.done \in BOOLEAN
  /\ one.done => k \in DOMAIN m.blockIndex /\ Changed(m, one.blman, DOMAIN m.blockIndex)
  /\ ~one.done => Changed(m, one.blman, DOMAIN m.blockIndex \ {k})
  /\ k \notin DOMAIN m.blockIndex => one.blman = m

LEMMA UpdateInPlaceIsGood ==
  ASSUME NEW m, GoodBlman(m), NEW k, NEW r \in Seq(Nat)
  PROVE  IsUpdateInPlace(UpdateInPlace(m, k, r), m, k)
<1>1. CASE k \notin DOMAIN m.blockIndex
  <2>1. UpdateInPlace(m, k, r) = [done |-> FALSE, blman |-> m]
    BY <1>1 DEF UpdateInPlace
  <2>2. Changed(m, m, DOMAIN m.blockIndex) /\ DOMAIN m.blockIndex \ {k} = DOMAIN m.blockIndex
    BY <1>1, Unchanged
  <2>3. Changed(m, m, DOMAIN m.blockIndex \ {k})
    BY <2>2
  <2>4. UpdateInPlace(m, k, r).done = FALSE /\ UpdateInPlace(m, k, r).blman = m
    BY <2>1
  <2> QED  BY <1>1, <2>3, <2>4 DEF IsUpdateInPlace
<1>2. CASE k \in DOMAIN m.blockIndex
  <2> DEFINE i == m.blockIndex[k]
             u == UpdateRecord(m.blocks[i], k, r)
             K == DOMAIN m.blockIndex
  <2>1. UpdateInPlace(m, k, r) = Updated(m, k, u)
    BY <1>2 DEF UpdateInPlace
  <2>2. GoodBlock(m.blocks[i]) /\ k \in KeysIn(m.blocks[i])
    BY <1>2, NodeParts
  <2>3. IsUpdate(u, m.blocks[i], k)
    BY <2>2, UpdateIsGood
  <2> HIDE DEF u
  <2>4. CASE u.ok
    <3>1. u.ok = TRUE /\ GoodBlock(u.block) /\ u.block.dirty
          /\ KeysIn(u.block) = KeysIn(m.blocks[i]) \ {}
      BY <2>3, <2>4 DEF IsUpdate
    <3>2. m.blockIndex = Restricted(m.blockIndex, K \ {}) /\ K \ {} = K
      <4>0. m.blockIndex \in BlockIndexes
        BY GoodParts
      <4>1. PICK L \in SUBSET RecordKey : m.blockIndex \in [L -> Nat]
        BY <4>0 DEF BlockIndexes
      <4>2. DOMAIN m.blockIndex = L
        BY <4>1
      <4>3. m.blockIndex = [x \in L |-> m.blockIndex[x]]
        BY <4>1
      <4> QED  BY <4>2, <4>3 DEF Restricted
    <3>3. Updated(m, k, u) = [done |-> TRUE,
                              blman |-> [blocks |-> PutBlock(m.blocks, i, u.block),
                                         blockIndex |-> Restricted(m.blockIndex, K \ {})]]
      BY <3>1, <3>2 DEF Updated, PutBlock
    <3>4. {} \in {{}, {k}}
      OBVIOUS
    <3>5. Changed(m, [blocks |-> PutBlock(m.blocks, i, u.block),
                      blockIndex |-> Restricted(m.blockIndex, K \ {})], K \ {})
      BY <1>2, <3>1, <3>4, NodeReplaced
    <3> QED  BY <1>2, <2>1, <3>2, <3>3, <3>5 DEF IsUpdateInPlace
  <2>5. CASE ~u.ok
    <3>1. u.ok = FALSE /\ GoodBlock(u.block) /\ u.block.dirty
          /\ KeysIn(u.block) = KeysIn(m.blocks[i]) \ {k}
      BY <2>3, <2>5 DEF IsUpdate
    <3>2. Updated(m, k, u) = [done |-> FALSE,
                              blman |-> [blocks |-> PutBlock(m.blocks, i, u.block),
                                         blockIndex |-> Restricted(m.blockIndex, K \ {k})]]
      BY <3>1 DEF Updated, PutBlock, Restricted, Fn!Restrict
    <3>3. {k} \in {{}, {k}}
      OBVIOUS
    <3>4. Changed(m, [blocks |-> PutBlock(m.blocks, i, u.block),
                      blockIndex |-> Restricted(m.blockIndex, K \ {k})], K \ {k})
      BY <1>2, <3>1, <3>3, NodeReplaced
    <3> QED  BY <1>2, <2>1, <3>2, <3>4 DEF IsUpdateInPlace
  <2> QED  BY <2>3, <2>4, <2>5
<1> QED  BY <1>1, <1>2

(***************************************************************************)
(* The first node.                                                         *)
(***************************************************************************)

LEMMA LowAndHigh ==
  ASSUME NEW x \in Nat
  PROVE  (x % Base) \in Nat /\ (x \div Base) \in Nat
<1>1. Base \in Nat /\ Base > 0
  BY BlockManagerAssumption
<1> QED  BY <1>1

LEMMA LeastOf ==
  ASSUME NEW K, K \subseteq Nat, K # {}
  PROVE  \E x \in K : \A y \in K : ~(y < x)
<1>1. PICK x \in K : \A y \in K : <<y, x>> \notin Less
  BY LessIsWellFounded, WFMin
<1>2. \A y \in K : ~(y < x)
  BY <1>1 DEF Less
<1> QED  BY <1>2

\* avl_t_first finds a node of a tree that has any.
LEMMA FirstNodeIsThere ==
  ASSUME NEW K \in SUBSET RecordKey, K # {}
  PROVE  FirstNode(K) \in K
<1>1. K \subseteq Nat
  BY BlockManagerAssumption
<1>2. \A x \in K : (x % Base) \in Nat /\ (x \div Base) \in Nat
  BY <1>1, LowAndHigh
<1> DEFINE L == {(x % Base) : x \in K}
<1>3. PICK l \in L : \A y \in L : ~(y < l)
  <2>1. L \subseteq Nat /\ L # {}
    BY <1>2
  <2> HIDE DEF L
  <2> QED  BY <2>1, LeastOf
<1> DEFINE J == {x \in K : (x % Base) = l}
           H == {(x \div Base) : x \in J}
<1>4. J # {} /\ H # {} /\ H \subseteq Nat
  BY <1>2, <1>3
<1>5. PICK h \in H : \A y \in H : ~(y < h)
  BY <1>4, LeastOf
<1>6. PICK v \in K : (v % Base) = l /\ (v \div Base) = h
  BY <1>5
<1>7. ASSUME NEW u \in K PROVE ~Before(u, v)
  <2>1. ~((u % Base) < l)
    BY <1>3
  <2>2. (u % Base) = l => ~((u \div Base) < h)
    BY <1>5
  <2> QED  BY <1>6, <2>1, <2>2 DEF Before
<1>8. \E x \in K : \A u \in K : ~Before(u, x)
  BY <1>7
<1> QED  BY <1>8, Zenon DEF FirstNode

LEMMA TreesAreFinite ==
  ASSUME NEW K \in SUBSET RecordKey
  PROVE  IsFiniteSet(K) /\ Cardinality(K) \in Nat
<1>1. PICK n \in Nat : RecordKey \subseteq 0..n
  <2>1. PICK b \in Nat : b = Base /\ b # 0
    BY BlockManagerAssumption
  <2>2. b * b - 1 \in Nat
    <3>1. b * b \in Nat /\ b * b > 0
      BY <2>1
    <3> QED  BY <3>1
  <2> QED  BY <2>1, <2>2, BlockManagerAssumption
<1>2. 0 \in Int /\ n \in Int
  OBVIOUS
<1>3. IsFiniteSet(0..n)
  BY <1>2, FS_Interval
<1>4. K \in SUBSET (0..n)
  BY <1>1
<1>5. IsFiniteSet(K)
  BY <1>3, <1>4, FS_Subset
<1> QED  BY <1>5, FS_CardinalityType

LEMMA TreeWithout ==
  ASSUME NEW K \in SUBSET RecordKey, NEW k \in K
  PROVE  /\ Cardinality(K \ {k}) = Cardinality(K) - 1
         /\ Cardinality(K \ {k}) \in Nat /\ Cardinality(K) \in Nat
<1>1. IsFiniteSet(K) /\ Cardinality(K) \in Nat
  BY TreesAreFinite
<1>2. Cardinality(K \ {k}) = Cardinality(K) - 1
  BY <1>1, FS_RemoveElement
<1>3. K \ {k} \in SUBSET RecordKey
  OBVIOUS
<1>4. Cardinality(K \ {k}) \in Nat
  BY <1>3, TreesAreFinite
<1> QED  BY <1>1, <1>2, <1>4

LEMMA TreeWith ==
  ASSUME NEW K \in SUBSET RecordKey, NEW k \in RecordKey, k \notin K
  PROVE  Cardinality(K \cup {k}) = Cardinality(K) + 1
<1>1. IsFiniteSet(K)
  BY TreesAreFinite
<1> QED  BY <1>1, FS_AddElement

LEMMA EmptyTree ==
  ASSUME NEW K \in SUBSET RecordKey
  PROVE  (Cardinality(K) = 0) <=> (K = {})
<1>1. IsFiniteSet(K)
  BY TreesAreFinite
<1> QED  BY <1>1, FS_EmptySet

(***************************************************************************)
(* Phase 2: the loop that makes room.                                      *)
(***************************************************************************)

\* What the loop can have made of m after some turns.
RoomSet(m) ==
  {t \in [blman : Blmans, removed : Nat, oldRecord : BOOLEAN] :
     /\ Changed(m, t.blman, DOMAIN t.blman.blockIndex)
     /\ DOMAIN t.blman.blockIndex \subseteq DOMAIN m.blockIndex
     /\ Roomy(m.blocks, t.blman.blocks)}

IsTurn(t, new) ==
  /\ new.oldRecord => new.blman = t.blman
  /\ ~new.oldRecord => Count(new.blman) = Count(t.blman) - 1

LEMMA RoomSetParts ==
  ASSUME NEW m, NEW t \in RoomSet(m)
  PROVE  /\ GoodBlman(t.blman) /\ t.removed \in Nat /\ t.oldRecord \in BOOLEAN
         /\ Changed(m, t.blman, DOMAIN t.blman.blockIndex)
         /\ DOMAIN t.blman.blockIndex \in SUBSET DOMAIN m.blockIndex
         /\ DOMAIN t.blman.blockIndex \in SUBSET RecordKey
         /\ Count(t.blman) \in Nat /\ Roomy(m.blocks, t.blman.blocks)
         /\ t = [blman |-> t.blman, removed |-> t.removed, oldRecord |-> t.oldRecord]
<1>1. /\ t \in [blman : Blmans, removed : Nat, oldRecord : BOOLEAN]
      /\ Changed(m, t.blman, DOMAIN t.blman.blockIndex)
      /\ DOMAIN t.blman.blockIndex \subseteq DOMAIN m.blockIndex
      /\ Roomy(m.blocks, t.blman.blocks)
  BY DEF RoomSet
<1>2. t = [blman |-> t.blman, removed |-> t.removed, oldRecord |-> t.oldRecord]
  BY <1>1
<1>3. GoodBlman(t.blman)
  BY <1>1 DEF Changed
<1>4. DOMAIN t.blman.blockIndex \in SUBSET RecordKey
  BY <1>3, GoodParts
<1>5. Count(t.blman) \in Nat
  BY <1>4, TreesAreFinite DEF Count
<1> QED  BY <1>1, <1>2, <1>3, <1>4, <1>5

LEMMA InRoomSet ==
  ASSUME NEW m, NEW b, NEW n \in Nat, NEW o \in BOOLEAN, Changed(m, b, DOMAIN b.blockIndex),
         DOMAIN b.blockIndex \subseteq DOMAIN m.blockIndex, Roomy(m.blocks, b.blocks)
  PROVE  [blman |-> b, removed |-> n, oldRecord |-> o] \in RoomSet(m)
<1>1. b \in Blmans
  BY DEF Changed, GoodBlman
<1> QED  BY <1>1 DEF RoomSet

LEMMA RemoveFirstIsGood ==
  ASSUME NEW m, GoodBlman(m), NEW t \in RoomSet(m), DOMAIN t.blman.blockIndex # {}, NEW k
  PROVE  RemoveFirst(t, k) \in RoomSet(m) /\ IsTurn(t, RemoveFirst(t, k))
<1> DEFINE K == DOMAIN t.blman.blockIndex
           first == FirstNode(K)
           d == DeleteNode(t.blman, first)
<1>1. /\ GoodBlman(t.blman) /\ t.removed \in Nat /\ t.oldRecord \in BOOLEAN
      /\ Changed(m, t.blman, K) /\ K \in SUBSET DOMAIN m.blockIndex /\ K \in SUBSET RecordKey
      /\ Roomy(m.blocks, t.blman.blocks)
      /\ t = [blman |-> t.blman, removed |-> t.removed, oldRecord |-> t.oldRecord]
  BY RoomSetParts
<1>2. first \in K
  BY <1>1, FirstNodeIsThere
<1>3. CASE t.oldRecord \/ k < first
  <2>1. RemoveFirst(t, k) = [t EXCEPT !.oldRecord = TRUE]
    BY <1>3 DEF RemoveFirst
  <2>2. RemoveFirst(t, k) = [blman |-> t.blman, removed |-> t.removed, oldRecord |-> TRUE]
    BY <1>1, <2>1
  <2>3. [blman |-> t.blman, removed |-> t.removed, oldRecord |-> TRUE] \in RoomSet(m)
    BY <1>1, InRoomSet
  <2> QED  BY <2>2, <2>3 DEF IsTurn
<1>4. CASE ~(t.oldRecord \/ k < first)
  <2>1. RemoveFirst(t, k) = [blman |-> d, removed |-> t.removed + 1, oldRecord |-> FALSE]
    BY <1>4 DEF RemoveFirst
  <2>2. Changed(t.blman, d, K \ {first}) /\ Roomy(t.blman.blocks, d.blocks)
    BY <1>1, <1>2, DeleteNodeIsGood, DeleteNodeFrees
  <2> HIDE DEF d
  <2>3. Changed(m, d, K \ {first})
    <3>1. GoodBlman(m)
      OBVIOUS
    <3> QED  BY <1>1, <2>2, ChangedTwice
  <2>4. DOMAIN d.blockIndex = K \ {first}
    BY <2>3 DEF Changed
  <2>5. Changed(m, d, DOMAIN d.blockIndex) /\ DOMAIN d.blockIndex \subseteq DOMAIN m.blockIndex
    BY <1>1, <2>3, <2>4
  <2>6. t.removed + 1 \in Nat /\ Roomy(m.blocks, d.blocks)
    <3>1. FreeIsNat(m.blocks) /\ FreeIsNat(t.blman.blocks) /\ FreeIsNat(d.blocks)
      BY <1>1, <2>3, FreeIsNatural DEF Changed
    <3> QED  BY <1>1, <2>2, <3>1, RoomyIsTransitive
  <2>7. RemoveFirst(t, k) \in RoomSet(m)
    BY <2>1, <2>5, <2>6, InRoomSet
  <2>8. Count(d) = Count(t.blman) - 1
    BY <1>1, <1>2, <2>4, TreeWithout DEF Count
  <2> QED  BY <2>1, <2>7, <2>8 DEF IsTurn
<1> QED  BY <1>3, <1>4

\* The turns of the loop: n of them leave at least Count(m) - n nodes.
IsLoop(h, m, k, n) ==
  h = [i \in 0..n |-> IF i = 0 THEN [blman |-> m, removed |-> 0, oldRecord |-> FALSE]
                      ELSE RemoveFirst(h[i - 1], k)]

LEMMA LoopExists ==
  ASSUME NEW m, GoodBlman(m), NEW k, NEW n \in Nat, n = Count(m)
  PROVE  \E h : IsLoop(h, m, k, n)
<1> DEFINE base == [blman |-> m, removed |-> 0, oldRecord |-> FALSE]
           T == RoomSet(m)
           step == [p \in (1..n) \X T |->
                      IF DOMAIN p[2].blman.blockIndex = {} THEN p[2] ELSE RemoveFirst(p[2], k)]
<1>1. base \in T
  BY Unchanged, RoomyIsReflexive, InRoomSet
<1>2. ASSUME NEW i \in 1..n, NEW t \in T
      PROVE  step[<<i, t>>] = IF DOMAIN t.blman.blockIndex = {} THEN t ELSE RemoveFirst(t, k)
  OBVIOUS
<1>3. ASSUME NEW i \in 1..n, NEW t \in T PROVE step[<<i, t>>] \in T
  <2>1. CASE DOMAIN t.blman.blockIndex = {}
    BY <1>2, <2>1
  <2>2. CASE DOMAIN t.blman.blockIndex # {}
    BY <1>2, <2>2, RemoveFirstIsGood
  <2> QED  BY <2>1, <2>2
<1> HIDE DEF step, base, T
<1>4. PICK f \in [0..n -> T] : f[0] = base /\ \A i \in 1..n : f[i] = step[<<i, f[i - 1]>>]
  <2>1. Inside(n, T, step)
    BY <1>3 DEF Inside
  <2>2. \E f \in [0..n -> T] : Steps(f, n, base, step)
    BY <1>1, <2>1, Iterated
  <2> QED  BY <2>2 DEF Steps
<1> DEFINE S == {i \in Nat : i <= n => Count(f[i].blman) + i >= n}
<1>5. 0 \in S
  <2>1. f[0].blman = m
    BY <1>4 DEF base
  <2> QED  BY <2>1
<1>6. ASSUME NEW i \in Nat, i + 1 <= n, Count(f[i].blman) + i >= n
      PROVE  f[i + 1] = RemoveFirst(f[i], k) /\ Count(f[i + 1].blman) + (i + 1) >= n
  <2>1. i \in 0..n /\ i + 1 \in 1..n /\ (i + 1) - 1 = i
    BY <1>6
  <2>2. f[i] \in T
    BY <1>4, <2>1
  <2>3. f[i + 1] = step[<<i + 1, f[i]>>]
    BY <1>4, <2>1
  <2>4. /\ DOMAIN f[i].blman.blockIndex \in SUBSET RecordKey /\ Count(f[i].blman) \in Nat
    BY <2>2, RoomSetParts DEF T
  <2>5. Count(f[i].blman) # 0
    BY <1>6, <2>4
  <2>6. DOMAIN f[i].blman.blockIndex # {}
    BY <2>4, <2>5, EmptyTree DEF Count
  <2>7. f[i + 1] = RemoveFirst(f[i], k)
    BY <1>2, <2>1, <2>2, <2>3, <2>6
  <2>8. IsTurn(f[i], f[i + 1])
    BY <2>2, <2>6, <2>7, RemoveFirstIsGood DEF T
  <2>9. f[i + 1].blman = f[i].blman \/ Count(f[i + 1].blman) = Count(f[i].blman) - 1
    BY <2>8 DEF IsTurn
  <2> QED  BY <1>6, <2>4, <2>7, <2>9
<1>7. ASSUME NEW i \in Nat, i \in S PROVE i + 1 \in S
  BY <1>6, <1>7
<1> HIDE DEF S
<1>8. Nat \subseteq S
  BY <1>5, <1>7, SetInduction
<1>9. ASSUME NEW i \in 1..n PROVE f[i] = RemoveFirst(f[i - 1], k)
  <2>1. PICK j \in Nat : j = i - 1 /\ j + 1 = i /\ j + 1 <= n /\ j <= n
    <3>1. i - 1 \in Nat /\ (i - 1) + 1 = i /\ (i - 1) + 1 <= n /\ i - 1 <= n
      OBVIOUS
    <3> QED  BY <3>1
  <2>2. Count(f[j].blman) + j >= n
    BY <1>8, <2>1 DEF S
  <2> QED  BY <1>6, <2>1, <2>2
<1>10. f = [i \in 0..n |-> IF i = 0 THEN base ELSE RemoveFirst(f[i - 1], k)]
  <2>1. ASSUME NEW i \in 0..n PROVE f[i] = IF i = 0 THEN base ELSE RemoveFirst(f[i - 1], k)
    <3>1. CASE i = 0
      BY <1>4, <3>1
    <3>2. CASE i # 0
      <4>1. i \in 1..n
        BY <3>2
      <4> QED  BY <1>9, <3>2, <4>1
    <3> QED  BY <3>1, <3>2
  <2> QED  BY <1>4, <2>1
<1> QED  BY <1>10 DEF IsLoop, base

LEMMA LoopIsGood ==
  ASSUME NEW m, GoodBlman(m), NEW k, NEW n \in Nat, n = Count(m), NEW h, IsLoop(h, m, k, n)
  PROVE  \A i \in 0..n : h[i] \in RoomSet(m)
<1> DEFINE S == {i \in Nat : i <= n => h[i] \in RoomSet(m) /\ Count(h[i].blman) + i >= n}
<1>0. /\ \A i \in 0..n : h[i] = IF i = 0 THEN [blman |-> m, removed |-> 0, oldRecord |-> FALSE]
                                ELSE RemoveFirst(h[i - 1], k)
  BY DEF IsLoop
<1>1. 0 \in S
  <2>1. h[0] = [blman |-> m, removed |-> 0, oldRecord |-> FALSE]
    <3>1. 0 \in 0..n
      OBVIOUS
    <3> QED  BY <1>0, <3>1
  <2>2. h[0] \in RoomSet(m)
    BY <2>1, Unchanged, RoomyIsReflexive, InRoomSet
  <2> QED  BY <2>1, <2>2
<1>2. ASSUME NEW i \in Nat, i \in S PROVE i + 1 \in S
  <2> SUFFICES ASSUME i + 1 <= n
               PROVE  h[i + 1] \in RoomSet(m) /\ Count(h[i + 1].blman) + (i + 1) >= n
    OBVIOUS
  <2>1. i \in 0..n /\ i + 1 \in 0..n /\ i + 1 # 0 /\ (i + 1) - 1 = i
    OBVIOUS
  <2>2. h[i] \in RoomSet(m) /\ Count(h[i].blman) + i >= n
    BY <1>2
  <2>3. h[i + 1] = RemoveFirst(h[i], k)
    BY <1>0, <2>1
  <2>4. DOMAIN h[i].blman.blockIndex \in SUBSET RecordKey /\ Count(h[i].blman) \in Nat
    BY <2>2, RoomSetParts
  <2>5. Count(h[i].blman) # 0
    BY <2>2, <2>4
  <2>6. DOMAIN h[i].blman.blockIndex # {}
    BY <2>4, <2>5, EmptyTree DEF Count
  <2>7. h[i + 1] \in RoomSet(m) /\ IsTurn(h[i], h[i + 1])
    BY <2>2, <2>3, <2>6, RemoveFirstIsGood
  <2>8. h[i + 1].blman = h[i].blman \/ Count(h[i + 1].blman) = Count(h[i].blman) - 1
    BY <2>7 DEF IsTurn
  <2> QED  BY <2>2, <2>4, <2>7, <2>8
<1> HIDE DEF S
<1>3. Nat \subseteq S
  BY <1>1, <1>2, SetInduction
<1> QED  BY <1>3 DEF S

\* The loop at the limit: nothing to do, or one turn.
IsRoom(w, m, lim) ==
  /\ Count(m) < lim => w.blman = m /\ w.oldRecord = FALSE
  /\ Count(m) = lim => /\ w.oldRecord => w.blman = m
                       /\ ~w.oldRecord => Count(w.blman) = lim - 1

LEMMA RoomMadeIsGood ==
  ASSUME NEW m, GoodBlman(m), NEW k, NEW lim \in Nat \ {0}
  PROVE  RoomMade(m, k, lim) \in RoomSet(m) /\ IsRoom(RoomMade(m, k, lim), m, lim)
<1>1. PICK n \in Nat : n = Count(m)
  <2>1. DOMAIN m.blockIndex \in SUBSET RecordKey
    BY GoodParts
  <2> QED  BY <2>1, TreesAreFinite DEF Count
<1> DEFINE last == IF n >= lim THEN n - lim + 1 ELSE 0
<1>2. \E h : IsLoop(h, m, k, n) /\ RoomMade(m, k, lim) = h[last]
  <2>1. \E h : h = [i \in 0..n |->
                      IF i = 0 THEN [blman |-> m, removed |-> 0, oldRecord |-> FALSE]
                      ELSE RemoveFirst(h[i - 1], k)]
    <3>1. \E h : IsLoop(h, m, k, n)
      BY <1>1, LoopExists
    <3> QED  BY <3>1 DEF IsLoop
  <2>2. n = Cardinality(DOMAIN m.blockIndex)
    BY <1>1 DEF Count
  <2> QED  BY <2>1, <2>2, Zenon DEF IsLoop, RoomMade
<1>3. PICK h : IsLoop(h, m, k, n) /\ RoomMade(m, k, lim) = h[last]
  BY <1>2
<1>4. \A i \in 0..n : h[i] \in RoomSet(m)
  BY <1>1, <1>3, LoopIsGood
<1>5. last \in 0..n
  OBVIOUS
<1>6. h[0] = [blman |-> m, removed |-> 0, oldRecord |-> FALSE]
  BY <1>3 DEF IsLoop
<1>7. CASE n < lim
  <2>1. last = 0 /\ n # lim
    BY <1>7
  <2>2. RoomMade(m, k, lim) = h[0]
    BY <1>3, <2>1
  <2>3. RoomMade(m, k, lim).blman = m /\ RoomMade(m, k, lim).oldRecord = FALSE
    BY <1>6, <2>2
  <2> QED  BY <1>1, <1>3, <1>4, <1>5, <2>1, <2>3 DEF IsRoom
<1>8. CASE n = lim
  <2>1. last = 1 /\ 1 \in 0..n /\ 1 - 1 = 0 /\ ~(n < lim)
    BY <1>8
  <2>2. h[1] = RemoveFirst(h[0], k)
    <3>1. h[1] = IF 1 = 0 THEN [blman |-> m, removed |-> 0, oldRecord |-> FALSE]
                 ELSE RemoveFirst(h[1 - 1], k)
      BY <1>3, <2>1 DEF IsLoop
    <3> QED  BY <2>1, <3>1
  <2>3. DOMAIN h[0].blman.blockIndex # {} /\ h[0] \in RoomSet(m) /\ h[0].blman = m
    <3>1. DOMAIN m.blockIndex # {}
      <4>1. Cardinality(DOMAIN m.blockIndex) # 0 /\ DOMAIN m.blockIndex \in SUBSET RecordKey
        BY <1>1, <1>8, GoodParts DEF Count
      <4> QED  BY <4>1, EmptyTree
    <3> QED  BY <1>4, <1>6, <3>1
  <2>4. IsTurn(h[0], h[1])
    BY <2>2, <2>3, RemoveFirstIsGood
  <2>5. RoomMade(m, k, lim) = h[1]
    BY <1>3, <2>1
  <2>6. /\ h[1].oldRecord => h[1].blman = m
        /\ ~h[1].oldRecord => Count(h[1].blman) = lim - 1
    BY <1>1, <1>8, <2>3, <2>4 DEF IsTurn
  <2>7. IsRoom(RoomMade(m, k, lim), m, lim)
    BY <1>1, <2>1, <2>5, <2>6 DEF IsRoom
  <2> QED  BY <1>4, <2>1, <2>5, <2>7
<1>9. CASE n > lim
  <2>1. ~(n < lim) /\ n # lim
    BY <1>9
  <2> QED  BY <1>1, <1>3, <1>4, <1>5, <2>1 DEF IsRoom
<1> QED  BY <1>7, <1>8, <1>9

(***************************************************************************)
(* Phase 3: the record is written to a block with room or to a new one.    *)
(***************************************************************************)

\* new is m with the record of one key more.
Added(m, new, k) ==
  /\ GoodBlman(new)
  /\ Touched(m.blocks, new.blocks)
  /\ DOMAIN new.blockIndex = DOMAIN m.blockIndex \cup {k}

WithKey(f, k, i) == [y \in DOMAIN f \cup {k} |-> IF y \in DOMAIN f THEN f[y] ELSE i]

LEMMA WithKeyIs ==
  ASSUME NEW f \in BlockIndexes, NEW k \in RecordKey, k \notin DOMAIN f, NEW i \in Nat
  PROVE  /\ WithKey(f, k, i) \in BlockIndexes /\ DOMAIN WithKey(f, k, i) = DOMAIN f \cup {k}
         /\ WithKey(f, k, i)[k] = i /\ \A y \in DOMAIN f : WithKey(f, k, i)[y] = f[y]
<1>1. PICK L \in SUBSET RecordKey : f \in [L -> Nat]
  BY DEF BlockIndexes
<1>2. WithKey(f, k, i) \in [L \cup {k} -> Nat]
  BY <1>1 DEF WithKey
<1>3. L \cup {k} \in SUBSET RecordKey
  OBVIOUS
<1> QED  BY <1>1, <1>2, <1>3 DEF BlockIndexes, WithKey

\* blman_realloc_blocks: one more block, with no record.
LEMMA BlockAdded ==
  ASSUME NEW m, GoodBlman(m)
  PROVE  /\ GoodBlman([blocks |-> Append(m.blocks, InitBlock), blockIndex |-> m.blockIndex])
         /\ Touched(m.blocks, Append(m.blocks, InitBlock))
         /\ Len(Append(m.blocks, InitBlock)) = Len(m.blocks) + 1
         /\ Append(m.blocks, InitBlock)[Len(m.blocks) + 1] = InitBlock
<1> DEFINE s == Append(m.blocks, InitBlock)
<1>1. PICK n \in Nat : n = Len(m.blocks) /\ m.blocks \in Seq(BlockSet)
  BY GoodParts
<1>2. InitBlock \in BlockSet /\ GoodBlock(InitBlock) /\ KeysIn(InitBlock) = {}
  BY InitBlockIsGood DEF GoodBlock
<1>3. /\ s \in Seq(BlockSet) /\ Len(s) = n + 1
      /\ \A i \in 1..n : s[i] = m.blocks[i]
      /\ s[n + 1] = InitBlock
  <2>1. PICK t \in Seq(BlockSet), e \in BlockSet : t = m.blocks /\ e = InitBlock
    BY <1>1, <1>2
  <2>2. /\ Append(t, e) \in Seq(BlockSet) /\ Len(Append(t, e)) = Len(t) + 1
        /\ \A i \in 1..Len(t) : Append(t, e)[i] = t[i]
        /\ Append(t, e)[Len(t) + 1] = e
    BY AppendProperties
  <2> QED  BY <1>1, <2>1, <2>2
<1> HIDE DEF s
<1>4. \A i \in 1..(n + 1) : i \in 1..n \/ i = n + 1
  OBVIOUS
<1>5. \A i \in 1..n : i \in 1..(n + 1)
  OBVIOUS
<1>6. GoodBlocks(s)
  BY <1>1, <1>2, <1>3, <1>4 DEF GoodBlman, GoodBlocks
<1>7. IndexFits(s, m.blockIndex)
  <2>1. /\ \A k \in DOMAIN m.blockIndex :
             m.blockIndex[k] \in 1..n /\ k \in KeysIn(m.blocks[m.blockIndex[k]])
        /\ \A j \in 1..n : \A k \in KeysIn(m.blocks[j]) :
             k \in DOMAIN m.blockIndex /\ m.blockIndex[k] = j
    BY <1>1 DEF GoodBlman, IndexFits
  <2>2. \A k \in DOMAIN m.blockIndex :
          m.blockIndex[k] \in 1..(n + 1) /\ k \in KeysIn(s[m.blockIndex[k]])
    BY <1>3, <1>5, <2>1
  <2>3. ASSUME NEW j \in 1..(n + 1), NEW k \in KeysIn(s[j])
        PROVE  k \in DOMAIN m.blockIndex /\ m.blockIndex[k] = j
    BY <1>2, <1>3, <1>4, <2>1
  <2> QED  BY <1>3, <2>2, <2>3 DEF IndexFits
<1>8. m.blockIndex \in BlockIndexes
  BY GoodParts
<1>9. GoodBlman([blocks |-> s, blockIndex |-> m.blockIndex])
  BY <1>3, <1>6, <1>7, <1>8 DEF GoodBlman, Blmans
<1>10. Touched(m.blocks, s)
  BY <1>1, <1>3 DEF Touched
<1> QED  BY <1>1, <1>3, <1>9, <1>10 DEF s

LEMMA GreatestOf ==
  ASSUME NEW n \in Nat, NEW K, K \subseteq 1..n, K # {}
  PROVE  \E x \in K : \A y \in K : x >= y
<1> DEFINE D == {n - x : x \in K}
<1>1. D \subseteq Nat /\ D # {}
  <2>1. \A x \in 1..n : n - x \in Nat
    OBVIOUS
  <2> QED  BY <2>1
<1>2. PICK d \in D : \A y \in D : ~(y < d)
  <2> HIDE DEF D
  <2> QED  BY <1>1, LeastOf
<1>3. PICK x \in K : d = n - x
  BY <1>2
<1>4. ASSUME NEW y \in K PROVE x >= y
  <2>1. ~(n - y < n - x)
    BY <1>2, <1>3
  <2>2. x \in Nat /\ y \in Nat
    OBVIOUS
  <2> QED  BY <2>1, <2>2
<1> QED  BY <1>4

LEMMA RecordAdded ==
  ASSUME NEW m, GoodBlman(m), NEW k \in RecordKey, k \notin DOMAIN m.blockIndex,
         NEW r \in Seq(Nat), NEW i \in 1..Len(m.blocks), Fits(m.blocks[i], r)
  PROVE  Added(m, [blocks |-> PutBlock(m.blocks, i, WriteRecord(m.blocks[i], k, r)),
                   blockIndex |-> WithKey(m.blockIndex, k, i)], k)
<1> DEFINE c == WriteRecord(m.blocks[i], k, r)
           index == WithKey(m.blockIndex, k, i)
<1>1. GoodBlock(m.blocks[i])
  BY DEF GoodBlman, GoodBlocks
<1>2. k \notin KeysIn(m.blocks[i]) /\ k \in Nat
  BY BlockManagerAssumption DEF GoodBlman, IndexFits
<1>3. GoodBlock(c) /\ c.dirty /\ KeysIn(c) = KeysIn(m.blocks[i]) \cup {k}
  BY <1>1, <1>2, WriteRecordIsGood
<1>4. /\ index \in BlockIndexes /\ DOMAIN index = DOMAIN m.blockIndex \cup {k}
      /\ index[k] = i /\ \A y \in DOMAIN m.blockIndex : index[y] = m.blockIndex[y]
  <2>1. m.blockIndex \in BlockIndexes /\ i \in Nat
    BY GoodParts
  <2> QED  BY ZenonT(30), <2>1, WithKeyIs
<1> HIDE DEF c, index
<1>5. IndexAfter(m, i, c, index)
  <2>1. \A y \in KeysIn(m.blocks[i]) : y \in DOMAIN m.blockIndex /\ m.blockIndex[y] = i
    BY DEF GoodBlman, IndexFits
  <2>2. \A y \in DOMAIN m.blockIndex : m.blockIndex[y] = i => y \in KeysIn(m.blocks[i])
    BY DEF GoodBlman, IndexFits
  <2>3. ASSUME NEW y \in KeysIn(c)
        PROVE  /\ y \in DOMAIN index /\ index[y] = i
               /\ y \notin DOMAIN m.blockIndex \/ m.blockIndex[y] = i
    <3>1. CASE y = k
      BY <1>4, <3>1
    <3>2. CASE y \in KeysIn(m.blocks[i])
      BY <1>4, <2>1, <3>2
    <3> QED  BY <1>3, <3>1, <3>2
  <2>4. ASSUME NEW y \in DOMAIN index
        PROVE  y \in KeysIn(c) \/ (y \in DOMAIN m.blockIndex /\ m.blockIndex[y] # i)
    BY <1>3, <1>4, <2>2
  <2> QED  BY <1>4, <2>3, <2>4 DEF IndexAfter
<1>6. /\ GoodBlman([blocks |-> PutBlock(m.blocks, i, c), blockIndex |-> index])
      /\ Touched(m.blocks, PutBlock(m.blocks, i, c))
  BY <1>3, <1>4, <1>5, BlockReplaced
<1> QED  BY <1>4, <1>6 DEF Added, c, index

LEMMA Append3IsGood ==
  ASSUME NEW m, GoodBlman(m), NEW k \in RecordKey, k \notin DOMAIN m.blockIndex,
         NEW r \in Seq(Nat), Len(r) <= MaxRecordSize
  PROVE  Added(m, Append3(m, k, r), k)
<1> DEFINE room == {i \in DOMAIN m.blocks : Fits(m.blocks[i], r)}
<1>1. PICK n \in Nat : n = Len(m.blocks) /\ m.blocks \in Seq(BlockSet) /\ DOMAIN m.blocks = 1..n
  BY GoodParts, LenProperties
<1>2. CASE room = {}
  <2> DEFINE bs == Append(m.blocks, InitBlock)
             more == [blocks |-> bs, blockIndex |-> m.blockIndex]
  <2>1. Append3(m, k, r) = [blocks |-> PutBlock(bs, Len(bs), WriteRecord(bs[Len(bs)], k, r)),
                            blockIndex |-> WithKey(m.blockIndex, k, Len(bs))]
    BY <1>2 DEF Append3, PutBlock, WithKey
  <2>2. /\ GoodBlman(more) /\ Touched(m.blocks, bs)
        /\ Len(bs) = n + 1 /\ bs[n + 1] = InitBlock
    BY <1>1, BlockAdded
  <2>3. more.blocks = bs /\ more.blockIndex = m.blockIndex
    OBVIOUS
  <2>4. Fits(InitBlock, r)
    <3>1. Len(r) \in Nat /\ RDFSize \in Nat /\ CIDFOffset \in Nat /\ Len(r) <= CIDFOffset - RDFSize
      BY LenProperties, BlockAssumption DEF MaxRecordSize
    <3>2. InitBlock.free = CIDFOffset
      BY DEF InitBlock
    <3> QED  BY <3>1, <3>2 DEF Fits
  <2> HIDE DEF more, bs
  <2>5. n + 1 \in 1..Len(more.blocks)
    BY <2>2, <2>3
  <2>6. Added(more, [blocks |-> PutBlock(more.blocks, n + 1, WriteRecord(more.blocks[n + 1], k, r)),
                     blockIndex |-> WithKey(more.blockIndex, k, n + 1)], k)
    BY <2>2, <2>3, <2>4, <2>5, RecordAdded
  <2>7. Added(more, Append3(m, k, r), k)
    BY <2>1, <2>2, <2>3, <2>6
  <2>8. Len(Append3(m, k, r).blocks) \in Nat /\ Len(bs) \in Nat
    BY <2>2, <2>7, GoodParts DEF Added
  <2>9. Touched(m.blocks, Append3(m, k, r).blocks)
    BY <1>1, <2>2, <2>3, <2>7, <2>8, TouchedIsTransitive DEF Added
  <2> QED  BY <2>3, <2>7, <2>9 DEF Added
<1>3. CASE room # {}
  <2> DEFINE i == Sets!Max(room)
  <2>1. Append3(m, k, r) = [blocks |-> PutBlock(m.blocks, i, WriteRecord(m.blocks[i], k, r)),
                            blockIndex |-> WithKey(m.blockIndex, k, i)]
    BY <1>3 DEF Append3, PutBlock, WithKey
  <2>2. i \in room
    <3>1. room \subseteq 1..n
      BY <1>1
    <3> HIDE DEF room
    <3>2. \E x \in room : \A y \in room : x >= y
      BY <1>3, <3>1, GreatestOf
    <3> QED  BY <3>2, Zenon DEF Sets!Max
  <2>3. i \in 1..Len(m.blocks) /\ Fits(m.blocks[i], r)
    BY <1>1, <2>2
  <2> HIDE DEF i
  <2> QED  BY <2>1, <2>3, RecordAdded
<1> QED  BY <1>2, <1>3

(***************************************************************************)
(* blman_write_record as a whole.                                          *)
(***************************************************************************)

\* What is stored is no longer than the record.
LEMMA PackedIs ==
  ASSUME packing \in Packings, NEW r \in Seq(Nat)
  PROVE  /\ Packed(r) \in Seq(Nat) /\ Len(Packed(r)) \in Nat /\ Len(Packed(r)) <= Len(r)
         /\ ~RecordTooBig(r) => Len(Packed(r)) <= MaxRecordSize
<1>1. Packed(r) \in Seq(Nat) /\ Len(Packed(r)) <= Len(r)
  <2>1. CASE r \in DOMAIN packing
    <3>1. packing[r] \in Seq(Nat) /\ Len(packing[r]) < Len(r)
      BY <2>1, BlockManagerAssumption
    <3>2. Len(packing[r]) \in Nat /\ Len(r) \in Nat
      BY <3>1, LenProperties
    <3> QED  BY <2>1, <3>1, <3>2 DEF Packed
  <2>2. CASE r \notin DOMAIN packing
    <3>1. Len(r) \in Nat
      BY LenProperties
    <3> QED  BY <2>2, <3>1 DEF Packed
  <2> QED  BY <2>1, <2>2
<1>2. Len(Packed(r)) \in Nat /\ Len(r) \in Nat /\ MaxRecordSize \in Nat
  <2>1. MaxRecordSize \in Nat
    BY BlockAssumption DEF MaxRecordSize
  <2> QED  BY <1>1, <2>1, LenProperties
<1> QED  BY <1>1, <1>2 DEF RecordTooBig

IsWrite(w, m, lim) ==
  /\ GoodBlman(w.blman) /\ Touched(m.blocks, w.blman.blocks)
  /\ w.reallocated = (Len(w.blman.blocks) > Len(m.blocks))
  /\ w.oldRecord \in BOOLEAN
  /\ w.oldRecord => Len(w.blman.blocks) = Len(m.blocks)
  /\ Count(m) <= lim => Count(w.blman) <= lim /\ (w.oldRecord => w.blman = m)

LEMMA CountIsNat ==
  ASSUME NEW m, GoodBlman(m)
  PROVE  Count(m) \in Nat /\ DOMAIN m.blockIndex \in SUBSET RecordKey
<1>1. DOMAIN m.blockIndex \in SUBSET RecordKey
  BY GoodParts
<1> QED  BY <1>1, TreesAreFinite DEF Count

LEMMA WriteIsGood ==
  ASSUME NEW m, GoodBlman(m), NEW k \in RecordKey, NEW r \in Seq(Nat), Len(r) <= MaxRecordSize,
         NEW lim \in Nat \ {0}
  PROVE  IsWrite(StoreRecord(m, k, r, lim), m, lim)
<1> DEFINE w == StoreRecord(m, k, r, lim)
           one == UpdateInPlace(m, k, r)
           made == RoomMade(one.blman, k, lim)
           added == Append3(made.blman, k, r)
           K == DOMAIN m.blockIndex
<1>1. IsUpdateInPlace(one, m, k)
  BY UpdateInPlaceIsGood
<1>2. w = UpdateOrInsert(m, one, k, r, lim)
  BY DEF StoreRecord
<1>3. Count(m) \in Nat /\ K \in SUBSET RecordKey
  BY CountIsNat
<1> HIDE DEF w, one
<1>4. ASSUME one.done PROVE IsWrite(w, m, lim)
  <2>1. w = Written(m, one.blman, 0, FALSE)
    BY <1>2, <1>4 DEF UpdateOrInsert
  <2>2. Changed(m, one.blman, K)
    BY <1>1, <1>4 DEF IsUpdateInPlace
  <2>3. Count(one.blman) = Count(m)
    BY <2>2 DEF Changed, Count
  <2>4. /\ w.blman = one.blman /\ w.oldRecord = FALSE
        /\ w.reallocated = (Len(one.blman.blocks) > Len(m.blocks))
    BY <2>1 DEF Written
  <2>5. GoodBlman(w.blman) /\ Touched(m.blocks, w.blman.blocks)
    BY <2>2, <2>4 DEF Changed
  <2>6. Count(m) <= lim => Count(w.blman) <= lim
    BY <2>3, <2>4
  <2>7. w.oldRecord \in BOOLEAN /\ ~w.oldRecord
    BY <2>4
  <2>8. w.reallocated = (Len(w.blman.blocks) > Len(m.blocks))
    BY <2>4
  <2> QED  BY <2>5, <2>6, <2>7, <2>8, Zenon DEF IsWrite
<1>5. ASSUME ~one.done PROVE IsWrite(w, m, lim)
  <2>1. w = Insert(m, made, k, r)
    BY <1>2, <1>5 DEF UpdateOrInsert
  <2>2. Changed(m, one.blman, K \ {k}) /\ GoodBlman(one.blman) /\ (k \notin K => one.blman = m)
    BY <1>1, <1>5 DEF IsUpdateInPlace, Changed
  <2>3. made \in RoomSet(one.blman) /\ IsRoom(made, one.blman, lim)
    BY <2>2, RoomMadeIsGood
  <2> HIDE DEF made
  <2>4. /\ GoodBlman(made.blman) /\ made.oldRecord \in BOOLEAN
        /\ Changed(one.blman, made.blman, DOMAIN made.blman.blockIndex)
        /\ DOMAIN made.blman.blockIndex \in SUBSET DOMAIN one.blman.blockIndex
        /\ DOMAIN made.blman.blockIndex \in SUBSET RecordKey
        /\ Count(made.blman) \in Nat
    BY <2>3, RoomSetParts
  <2>5. Changed(m, made.blman, DOMAIN made.blman.blockIndex)
    BY <2>2, <2>4, ChangedTwice
  <2>6. k \notin DOMAIN made.blman.blockIndex
    BY <2>2, <2>4 DEF Changed
  <2>7. PICK c \in Nat, d \in Nat : c = Count(m) /\ d = Count(one.blman) /\ d <= c /\ (k \in K => d < c)
    <3>1. DOMAIN one.blman.blockIndex = K \ {k}
      BY <2>2 DEF Changed
    <3>2. CASE k \in K
      <4>1. /\ Cardinality(K \ {k}) = Cardinality(K) - 1
            /\ Cardinality(K \ {k}) \in Nat /\ Cardinality(K) \in Nat
        BY <1>3, <3>2, TreeWithout
      <4>2. Count(one.blman) = Count(m) - 1 /\ Count(one.blman) \in Nat
        BY <3>1, <4>1 DEF Count
      <4> QED  BY <1>3, <4>2
    <3>3. CASE k \notin K
      BY <1>3, <2>2, <3>3
    <3> QED  BY <3>2, <3>3
  <2>8. CASE made.oldRecord
    <3>1. w = Written(m, made.blman, made.removed, made.oldRecord)
      BY <2>1, <2>8 DEF Insert
    <3>2. /\ w.blman = made.blman /\ w.oldRecord = TRUE
          /\ w.reallocated = (Len(made.blman.blocks) > Len(m.blocks))
      BY <2>4, <2>8, <3>1 DEF Written
    <3>3. ASSUME c <= lim PROVE made.blman = m
      <4>1. ~(d < lim)
        BY <2>3, <2>7, <2>8 DEF IsRoom
      <4>2. d = lim /\ ~(d < c)
        BY <2>7, <3>3, <4>1
      <4>3. made.blman = one.blman
        BY <2>3, <2>7, <2>8, <4>2 DEF IsRoom
      <4> QED  BY <2>2, <2>7, <4>2, <4>3
    <3>4. /\ GoodBlman(w.blman) /\ Touched(m.blocks, w.blman.blocks)
          /\ Len(w.blman.blocks) = Len(m.blocks)
      BY <2>5, <3>2 DEF Changed
    <3>5. Count(m) <= lim => Count(w.blman) <= lim /\ w.blman = m
      BY <2>7, <3>2, <3>3
    <3>6. w.oldRecord \in BOOLEAN
      BY <3>2
    <3>7. w.reallocated = (Len(w.blman.blocks) > Len(m.blocks))
      BY <3>2
    <3> QED  BY <3>4, <3>5, <3>6, <3>7, Zenon DEF IsWrite
  <2>9. CASE ~made.oldRecord
    <3>1. w = Written(m, added, made.removed, made.oldRecord)
      BY <2>1, <2>9 DEF Insert
    <3>2. Added(made.blman, added, k)
      BY <2>4, <2>6, Append3IsGood
    <3> HIDE DEF added
    <3>3. /\ w.blman = added /\ w.oldRecord = FALSE
          /\ w.reallocated = (Len(added.blocks) > Len(m.blocks))
      BY <2>4, <2>9, <3>1 DEF Written
    <3>4. Touched(m.blocks, added.blocks)
      <4>1. Len(m.blocks) \in Nat /\ Len(made.blman.blocks) \in Nat /\ Len(added.blocks) \in Nat
        BY <2>4, <3>2, GoodParts DEF Added
      <4>2. Touched(m.blocks, made.blman.blocks) /\ Touched(made.blman.blocks, added.blocks)
        BY <2>5, <3>2 DEF Changed, Added
      <4> QED  BY <4>1, <4>2, TouchedIsTransitive
    <3>5. Count(added) = Count(made.blman) + 1
      <4>1. DOMAIN added.blockIndex = DOMAIN made.blman.blockIndex \cup {k}
        BY <3>2 DEF Added
      <4> QED  BY <2>4, <2>6, <4>1, TreeWith DEF Count
    <3>6. ASSUME c <= lim PROVE Count(added) <= lim
      <4>1. CASE d < lim
        <5>1. made.blman = one.blman
          BY <2>3, <2>7, <4>1 DEF IsRoom
        <5> QED  BY <2>7, <3>5, <4>1, <5>1
      <4>2. CASE d = lim
        <5>1. Count(made.blman) = lim - 1
          BY <2>3, <2>7, <2>9, <4>2 DEF IsRoom
        <5> QED  BY <3>5, <5>1
      <4> QED  BY <2>7, <3>6, <4>1, <4>2
    <3>7. GoodBlman(w.blman) /\ Touched(m.blocks, w.blman.blocks)
      BY <3>2, <3>3, <3>4 DEF Added
    <3>8. Count(m) <= lim => Count(w.blman) <= lim
      BY <2>7, <3>3, <3>6
    <3>9. w.oldRecord \in BOOLEAN /\ ~w.oldRecord
      BY <3>3
    <3>10. w.reallocated = (Len(w.blman.blocks) > Len(m.blocks))
      BY <3>3
    <3> QED  BY <3>7, <3>8, <3>9, <3>10, Zenon DEF IsWrite
  <2> QED  BY <2>4, <2>8, <2>9
<1> QED  BY <1>1, <1>4, <1>5 DEF IsUpdateInPlace, w

(***************************************************************************)
(* Defragmentation: every record is written again.                         *)
(***************************************************************************)

Held(lim) == {m \in Blmans : GoodBlman(m) /\ Count(m) <= lim}

Writable(es) == \A i \in 1..Len(es) : es[i].key \in RecordKey /\ es[i].rec \in Seq(Nat)

LEMMA EmptyBlmanIsGood == GoodBlman(EmptyBlman) /\ Count(EmptyBlman) = 0
<1> DEFINE bs == EmptyBlman.blocks
           index == EmptyBlman.blockIndex
<1>1. bs = <<InitBlock>> /\ index = <<>> /\ EmptyBlman = [blocks |-> bs, blockIndex |-> index]
  BY DEF EmptyBlman
<1>2. GoodBlock(InitBlock) /\ KeysIn(InitBlock) = {} /\ InitBlock \in BlockSet
  BY InitBlockIsGood DEF GoodBlock
<1>3. bs \in Seq(BlockSet) /\ Len(bs) = 1 /\ bs[1] = InitBlock
  BY <1>1, <1>2
<1>4. index \in BlockIndexes /\ DOMAIN index = {}
  <2>1. index \in [{} -> Nat] /\ {} \in SUBSET RecordKey
    BY <1>1
  <2> QED  BY <2>1 DEF BlockIndexes
<1>5. EmptyBlman \in Blmans
  BY <1>1, <1>3, <1>4 DEF Blmans
<1> HIDE DEF bs, index
<1>6. GoodBlocks(bs)
  BY <1>2, <1>3 DEF GoodBlocks
<1>7. IndexFits(bs, index)
  BY <1>2, <1>3, <1>4 DEF IndexFits
<1>8. GoodBlman(EmptyBlman)
  BY <1>5, <1>6, <1>7 DEF GoodBlman, bs, index
<1>9. Cardinality({}) = 0
  BY FS_EmptySet
<1> QED  BY <1>4, <1>8, <1>9 DEF Count, index

LEMMA HeldWrites ==
  ASSUME packing \in Packings, NEW lim \in Nat \ {0}, NEW m \in Held(lim),
         NEW e, e.key \in RecordKey, e.rec \in Seq(Nat)
  PROVE  Rewritten(m, e, lim) \in Held(lim)
<1>1. GoodBlman(m) /\ Count(m) <= lim
  BY DEF Held
<1>2. CASE RecordTooBig(e.rec)
  BY <1>2 DEF Rewritten
<1>3. CASE ~RecordTooBig(e.rec)
  <2> DEFINE w == StoreRecord(m, e.key, Packed(e.rec), lim)
  <2>1. IsWrite(w, m, lim)
    BY <1>1, <1>3, PackedIs, WriteIsGood
  <2>2. Rewritten(m, e, lim) = w.blman
    BY <1>3 DEF Rewritten, blman_write_record
  <2> HIDE DEF w
  <2> QED  BY <1>1, <2>1, <2>2 DEF IsWrite, Held, GoodBlman
<1> QED  BY <1>2, <1>3

\* The turns of the loop over the records of a block.
IsWriteLoop(h, m, es, lim) ==
  /\ h[0] = m
  /\ \A i \in 1..Len(es) : h[i] = Rewritten(h[i - 1], es[i], lim)
  /\ \A i \in 0..Len(es) : h[i] \in Held(lim)

LEMMA WriteAllLoop ==
  ASSUME packing \in Packings, NEW lim \in Nat \ {0}, NEW m \in Held(lim),
         NEW es, Len(es) \in Nat, Writable(es)
  PROVE  \E h : IsWriteLoop(h, m, es, lim) /\ WriteAll(m, es, lim) = h[Len(es)]
<1>1. PICK n \in Nat : n = Len(es)
  OBVIOUS
<1> DEFINE T == Held(lim)
           G(i, t) == Rewritten(t, es[i], lim)
           step == [p \in (1..n) \X T |-> G(p[1], p[2])]
<1>2. ASSUME NEW i \in 1..n, NEW t \in T PROVE G(i, t) \in T
  <2>1. es[i].key \in RecordKey /\ es[i].rec \in Seq(Nat)
    BY <1>1 DEF Writable
  <2> QED  BY <2>1, HeldWrites
<1>3. \A i \in 1..n, t \in T : step[<<i, t>>] = G(i, t)
  OBVIOUS
<1> HIDE DEF step, T, G
<1>4. PICK f \in [0..n -> T] : f[0] = m /\ \A i \in 1..n : f[i] = step[<<i, f[i - 1]>>]
  <2>1. Inside(n, T, step)
    BY <1>2, <1>3 DEF Inside
  <2>2. m \in T
    BY DEF T
  <2>3. \E f \in [0..n -> T] : Steps(f, n, m, step)
    BY <2>1, <2>2, Iterated
  <2> QED  BY <2>3 DEF Steps
<1>5. f = [i \in 0..n |-> IF i = 0 THEN m ELSE G(i, f[i - 1])]
  <2>1. ASSUME NEW i \in 0..n PROVE f[i] = IF i = 0 THEN m ELSE G(i, f[i - 1])
    <3>1. CASE i = 0
      BY <1>4, <3>1
    <3>2. CASE i # 0
      <4>1. i \in 1..n /\ i - 1 \in 0..n
        BY <3>2
      <4>2. f[i - 1] \in T /\ f[i] = step[<<i, f[i - 1]>>]
        BY <1>4, <4>1
      <4> QED  BY <1>3, <3>2, <4>1, <4>2
    <3> QED  BY <3>1, <3>2
  <2> QED  BY <1>4, <2>1
<1>6. \E h : h = [i \in 0..n |-> IF i = 0 THEN m ELSE G(i, h[i - 1])] /\ WriteAll(m, es, lim) = h[n]
  BY <1>1, <1>5, Zenon DEF WriteAll, G
<1>7. PICK h : h = [i \in 0..n |-> IF i = 0 THEN m ELSE G(i, h[i - 1])] /\ WriteAll(m, es, lim) = h[n]
  BY <1>6
<1> DEFINE S == {i \in Nat : i <= n => h[i] \in T}
<1>8. 0 \in S
  <2>1. 0 \in 0..n
    OBVIOUS
  <2>2. h[0] = m
    BY <1>7, <2>1
  <2> QED  BY <2>2 DEF T
<1>9. ASSUME NEW i \in Nat, i \in S PROVE i + 1 \in S
  <2> SUFFICES ASSUME i + 1 <= n PROVE h[i + 1] \in T
    OBVIOUS
  <2>1. i + 1 \in 0..n /\ i + 1 \in 1..n /\ i + 1 # 0 /\ (i + 1) - 1 = i
    OBVIOUS
  <2>2. h[i + 1] = G(i + 1, h[i])
    BY <1>7, <2>1
  <2>3. h[i] \in T
    BY <1>9
  <2> QED  BY <1>2, <2>1, <2>2, <2>3
<1> HIDE DEF S
<1>10. Nat \subseteq S
  BY <1>8, <1>9, SetInduction
<1>11. \A i \in 0..n : h[i] \in T
  BY <1>10 DEF S
<1>12. h[0] = m
  <2>1. 0 \in 0..n
    OBVIOUS
  <2> QED  BY <1>7, <2>1
<1>13. ASSUME NEW i \in 1..n PROVE h[i] = G(i, h[i - 1])
  <2>1. i \in 0..n /\ i # 0
    OBVIOUS
  <2> QED  BY <1>7, <2>1
<1>14. IsWriteLoop(h, m, es, lim)
  BY <1>1, <1>11, <1>12, <1>13 DEF IsWriteLoop, T, G
<1> QED  BY <1>1, <1>7, <1>14

LEMMA WriteAllIsGood ==
  ASSUME packing \in Packings, NEW lim \in Nat \ {0}, NEW m \in Held(lim),
         NEW es, Len(es) \in Nat, Writable(es)
  PROVE  WriteAll(m, es, lim) \in Held(lim)
<1>1. PICK h : IsWriteLoop(h, m, es, lim) /\ WriteAll(m, es, lim) = h[Len(es)]
  BY WriteAllLoop
<1>2. Len(es) \in 0..Len(es)
  OBVIOUS
<1> QED  BY <1>1, <1>2 DEF IsWriteLoop

LEMMA RecordsAreWritable ==
  ASSUME NEW m, GoodBlman(m), NEW i \in 1..Len(m.blocks)
  PROVE  Len(GetRecords(m.blocks[i])) \in Nat /\ Writable(GetRecords(m.blocks[i]))
<1> DEFINE b == m.blocks[i]
<1>1. GoodBlock(b) /\ KeysIn(b) \subseteq RecordKey
  <2>1. GoodBlock(b) /\ KeysIn(b) \subseteq DOMAIN m.blockIndex
    BY DEF GoodBlman, GoodBlocks, IndexFits
  <2> QED  BY <2>1, GoodParts
<1> HIDE DEF b
<1>2. Len(b.rdfs) \in Nat
  BY <1>1, GoodIsWellFormed
<1>3. /\ Len(GetRecords(b)) = Len(b.rdfs)
      /\ \A j \in 1..Len(b.rdfs) :
           /\ GetRecords(b)[j].key \in KeysIn(b) /\ GetRecords(b)[j].rec \in Seq(Nat)
  BY <1>1, RecordsRead
<1>4. Writable(GetRecords(b))
  BY <1>1, <1>3 DEF Writable
<1> QED  BY <1>2, <1>3, <1>4 DEF b

\* The turns of the loop over the blocks.
IsBlockLoop(h, to, m, lim) ==
  /\ h[0] = to
  /\ \A i \in 1..Len(m.blocks) : h[i] = WriteAll(h[i - 1], GetRecords(m.blocks[i]), lim)
  /\ \A i \in 0..Len(m.blocks) : h[i] \in Held(lim)

LEMMA WriteBlocksLoop ==
  ASSUME packing \in Packings, NEW lim \in Nat \ {0}, NEW to \in Held(lim), NEW m, GoodBlman(m)
  PROVE  \E h : IsBlockLoop(h, to, m, lim) /\ WriteBlocks(to, m, lim) = h[Len(m.blocks)]
<1>1. PICK n \in Nat : n = Len(m.blocks)
  BY GoodParts
<1> DEFINE T == Held(lim)
           G(i, t) == WriteAll(t, GetRecords(m.blocks[i]), lim)
           step == [p \in (1..n) \X T |-> G(p[1], p[2])]
<1>2. ASSUME NEW i \in 1..n, NEW t \in T PROVE G(i, t) \in T
  <2>1. Len(GetRecords(m.blocks[i])) \in Nat /\ Writable(GetRecords(m.blocks[i]))
    BY <1>1, RecordsAreWritable
  <2> QED  BY <2>1, WriteAllIsGood
<1>3. \A i \in 1..n, t \in T : step[<<i, t>>] = G(i, t)
  OBVIOUS
<1> HIDE DEF step, T, G
<1>4. PICK f \in [0..n -> T] : f[0] = to /\ \A i \in 1..n : f[i] = step[<<i, f[i - 1]>>]
  <2>1. Inside(n, T, step)
    BY <1>2, <1>3 DEF Inside
  <2>2. to \in T
    BY DEF T
  <2>3. \E f \in [0..n -> T] : Steps(f, n, to, step)
    BY <2>1, <2>2, Iterated
  <2> QED  BY <2>3 DEF Steps
<1>5. f = [i \in 0..n |-> IF i = 0 THEN to ELSE G(i, f[i - 1])]
  <2>1. ASSUME NEW i \in 0..n PROVE f[i] = IF i = 0 THEN to ELSE G(i, f[i - 1])
    <3>1. CASE i = 0
      BY <1>4, <3>1
    <3>2. CASE i # 0
      <4>1. i \in 1..n /\ i - 1 \in 0..n
        BY <3>2
      <4>2. f[i - 1] \in T /\ f[i] = step[<<i, f[i - 1]>>]
        BY <1>4, <4>1
      <4> QED  BY <1>3, <3>2, <4>1, <4>2
    <3> QED  BY <3>1, <3>2
  <2> QED  BY <1>4, <2>1
<1>6. \E h : /\ h = [i \in 0..n |-> IF i = 0 THEN to ELSE G(i, h[i - 1])]
             /\ WriteBlocks(to, m, lim) = h[n]
  BY <1>1, <1>5, Zenon DEF WriteBlocks, G
<1>7. PICK h : /\ h = [i \in 0..n |-> IF i = 0 THEN to ELSE G(i, h[i - 1])]
               /\ WriteBlocks(to, m, lim) = h[n]
  BY <1>6
<1> DEFINE S == {i \in Nat : i <= n => h[i] \in T}
<1>8. 0 \in S
  <2>1. 0 \in 0..n
    OBVIOUS
  <2>2. h[0] = to
    BY <1>7, <2>1
  <2> QED  BY <2>2 DEF T
<1>9. ASSUME NEW i \in Nat, i \in S PROVE i + 1 \in S
  <2> SUFFICES ASSUME i + 1 <= n PROVE h[i + 1] \in T
    OBVIOUS
  <2>1. i + 1 \in 0..n /\ i + 1 \in 1..n /\ i + 1 # 0 /\ (i + 1) - 1 = i
    OBVIOUS
  <2>2. h[i + 1] = G(i + 1, h[i])
    BY <1>7, <2>1
  <2>3. h[i] \in T
    BY <1>9
  <2> QED  BY <1>2, <2>1, <2>2, <2>3
<1> HIDE DEF S
<1>10. Nat \subseteq S
  BY <1>8, <1>9, SetInduction
<1>11. \A i \in 0..n : h[i] \in T
  BY <1>10 DEF S
<1>12. h[0] = to
  <2>1. 0 \in 0..n
    OBVIOUS
  <2> QED  BY <1>7, <2>1
<1>13. ASSUME NEW i \in 1..n PROVE h[i] = G(i, h[i - 1])
  <2>1. i \in 0..n /\ i # 0
    OBVIOUS
  <2> QED  BY <1>7, <2>1
<1>14. IsBlockLoop(h, to, m, lim)
  BY <1>1, <1>11, <1>12, <1>13 DEF IsBlockLoop, T, G
<1> QED  BY <1>1, <1>7, <1>14

LEMMA WriteBlocksIsGood ==
  ASSUME packing \in Packings, NEW lim \in Nat \ {0}, NEW to \in Held(lim), NEW m, GoodBlman(m)
  PROVE  WriteBlocks(to, m, lim) \in Held(lim)
<1>1. PICK h : IsBlockLoop(h, to, m, lim) /\ WriteBlocks(to, m, lim) = h[Len(m.blocks)]
  BY WriteBlocksLoop
<1>2. Len(m.blocks) \in Nat
  BY GoodParts
<1>3. Len(m.blocks) \in 0..Len(m.blocks)
  BY <1>2
<1> QED  BY <1>1, <1>3 DEF IsBlockLoop

LEMMA DefragmentIsGood ==
  ASSUME packing \in Packings, NEW m, GoodBlman(m), NEW lim \in Nat \ {0}
  PROVE  blman_defragment_data(m, lim) \in Held(lim)
<1>1. CASE m.blockIndex = <<>>
  <2>1. blman_defragment_data(m, lim) = m
    BY <1>1 DEF blman_defragment_data
  <2>2. Count(m) = 0
    <3>1. Cardinality({}) = 0
      BY FS_EmptySet
    <3>2. DOMAIN m.blockIndex = {}
      BY <1>1
    <3> QED  BY <3>1, <3>2 DEF Count
  <2> QED  BY <2>1, <2>2 DEF Held, GoodBlman
<1>2. CASE m.blockIndex # <<>>
  <2>1. EmptyBlman \in Held(lim)
    BY EmptyBlmanIsGood DEF Held, GoodBlman
  <2>2. WriteBlocks(EmptyBlman, m, lim) \in Held(lim)
    BY <2>1, WriteBlocksIsGood
  <2> QED  BY <1>2, <2>2 DEF blman_defragment_data
<1> QED  BY <1>1, <1>2

(***************************************************************************)
(* A defragmentation that makes no record longer takes no more blocks than *)
(* there were: writing the records of one block opens at most one new      *)
(* block, in which all those that are left have room.                      *)
(***************************************************************************)

\* What a record takes with its RDF.
Size(r) == Len(r) + RDFSize

LastFree(m) == m.blocks[Len(m.blocks)].free

\* k was not in t: it was added, or the record was too old.
IsInsert(w, t, k, r) ==
  /\ DOMAIN w.blockIndex \subseteq DOMAIN t.blockIndex \cup {k}
  /\ \/ Len(w.blocks) = Len(t.blocks) /\ LastFree(w) + Size(r) >= LastFree(t)
     \/ /\ Len(w.blocks) = Len(t.blocks) + 1 /\ LastFree(w) + Size(r) = CIDFOffset
        /\ LastFree(t) < Size(r)

LEMMA SizesAreNat ==
  ASSUME NEW r \in Seq(Nat)
  PROVE  Len(r) \in Nat /\ RDFSize \in Nat /\ CIDFOffset \in Nat /\ Size(r) \in Nat
<1>1. Len(r) \in Nat /\ RDFSize \in Nat /\ CIDFOffset \in Nat
  BY LenProperties, BlockAssumption
<1> QED  BY <1>1 DEF Size

LEMMA LastFreeIsNat ==
  ASSUME NEW m, GoodBlman(m), Len(m.blocks) # 0
  PROVE  Len(m.blocks) \in 1..Len(m.blocks) /\ LastFree(m) \in Nat
<1>1. Len(m.blocks) \in Nat
  BY GoodParts
<1>2. Len(m.blocks) \in 1..Len(m.blocks)
  BY <1>1
<1>3. FreeIsNat(m.blocks)
  BY FreeIsNatural
<1> QED  BY <1>2, <1>3 DEF FreeIsNat, LastFree

LEMMA Append3Takes ==
  ASSUME NEW m, GoodBlman(m), Len(m.blocks) # 0, NEW k \in RecordKey,
         k \notin DOMAIN m.blockIndex, NEW r \in Seq(Nat), Len(r) <= MaxRecordSize
  PROVE  IsInsert(Append3(m, k, r), m, k, r)
<1> DEFINE room == {i \in DOMAIN m.blocks : Fits(m.blocks[i], r)}
           new == Append3(m, k, r)
<1>1. PICK n \in Nat : n = Len(m.blocks) /\ m.blocks \in Seq(BlockSet) /\ DOMAIN m.blocks = 1..n
  BY GoodParts, LenProperties
<1>2. Added(m, new, k)
  BY Append3IsGood
<1>3. GoodBlman(new) /\ DOMAIN new.blockIndex \subseteq DOMAIN m.blockIndex \cup {k}
  BY <1>2 DEF Added
<1>4. PICK c \in Nat, z \in Nat, o \in Nat, l \in Nat :
        c = Size(r) /\ z = RDFSize /\ o = CIDFOffset /\ l = Len(r) /\ c = l + z
  BY SizesAreNat DEF Size
<1>5. n \in 1..n /\ LastFree(m) = m.blocks[n].free /\ LastFree(m) \in Nat
  BY <1>1, LastFreeIsNat DEF LastFree
<1>6. CASE room = {}
  <2> DEFINE bs == Append(m.blocks, InitBlock)
             b == WriteRecord(bs[Len(bs)], k, r)
  <2>1. new.blocks = PutBlock(bs, Len(bs), b)
    BY <1>6 DEF Append3, PutBlock
  <2>2. Len(bs) = n + 1 /\ bs[n + 1] = InitBlock /\ bs \in Seq(BlockSet)
    <3>1. PICK t \in Seq(BlockSet), e \in BlockSet : t = m.blocks /\ e = InitBlock
      BY <1>1, InitBlockIsGood DEF GoodBlock
    <3>2. /\ Append(t, e) \in Seq(BlockSet) /\ Len(Append(t, e)) = Len(t) + 1
          /\ Append(t, e)[Len(t) + 1] = e
      BY AppendProperties
    <3> QED  BY <1>1, <3>1, <3>2
  <2>3. b.free = o - (l + z)
    <3>1. b = WriteRecord(InitBlock, k, r)
      BY <2>2
    <3>2. WriteRecord(InitBlock, k, r).free = InitBlock.free - (Len(r) + RDFSize)
      BY DEF WriteRecord
    <3>3. InitBlock.free = CIDFOffset
      BY DEF InitBlock
    <3> QED  BY <1>4, <3>1, <3>2, <3>3
  <2> HIDE DEF bs, b
  <2>4. Len(new.blocks) = n + 1 /\ new.blocks[n + 1] = b
    <3>1. n + 1 \in 1..Len(bs)
      BY <2>2
    <3>2. new.blocks = [bs EXCEPT ![n + 1] = b]
      BY <2>1, <2>2 DEF PutBlock
    <3>3. Len(bs) \in Nat /\ DOMAIN bs = 1..(n + 1)
      BY <2>2, LenProperties
    <3>4. DOMAIN new.blocks = 1..(n + 1) /\ new.blocks[n + 1] = b
      BY <3>1, <3>2, <3>3
    <3>5. new.blocks \in Seq(BlockSet)
      BY <1>3, GoodParts
    <3>6. DOMAIN new.blocks = 1..Len(new.blocks) /\ Len(new.blocks) \in Nat
      BY <3>5, LenProperties
    <3> QED  BY <3>4, <3>6
  <2>5. LastFree(new) = o - (l + z)
    BY <2>3, <2>4 DEF LastFree
  <2>6. LastFree(new) + c = o
    BY <1>4, <2>5
  <2>7. LastFree(m) < c
    <3>1. ~Fits(m.blocks[n], r)
      BY <1>1, <1>5, <1>6
    <3> QED  BY <1>4, <1>5, <3>1 DEF Fits
  <2> QED  BY <1>1, <1>3, <1>4, <2>4, <2>6, <2>7 DEF IsInsert
<1>7. CASE room # {}
  <2> DEFINE i == Sets!Max(room)
             b == WriteRecord(m.blocks[i], k, r)
  <2>1. new.blocks = PutBlock(m.blocks, i, b)
    BY <1>7 DEF Append3, PutBlock
  <2>2. i \in room
    <3>1. room \subseteq 1..n
      BY <1>1
    <3> HIDE DEF room
    <3>2. \E x \in room : \A y \in room : x >= y
      BY <1>7, <3>1, GreatestOf
    <3> QED  BY <3>2, Zenon DEF Sets!Max
  <2>3. i \in 1..n /\ b.free = m.blocks[i].free - (l + z)
    BY <1>1, <1>4, <2>2 DEF WriteRecord
  <2> HIDE DEF i, b
  <2>4. new.blocks = [m.blocks EXCEPT ![i] = b]
    BY <2>1 DEF PutBlock
  <2>5. DOMAIN new.blocks = 1..n /\ new.blocks[n] = IF n = i THEN b ELSE m.blocks[n]
    BY <1>1, <1>5, <2>4
  <2>6. Len(new.blocks) = n
    <3>1. new.blocks \in Seq(BlockSet)
      BY <1>3, GoodParts
    <3>2. DOMAIN new.blocks = 1..Len(new.blocks) /\ Len(new.blocks) \in Nat
      BY <3>1, LenProperties
    <3> QED  BY <2>5, <3>2
  <2>7. LastFree(new) + c >= LastFree(m)
    <3>1. LastFree(new) = new.blocks[n].free
      BY <2>6 DEF LastFree
    <3>2. CASE n = i
      <4>1. LastFree(new) = LastFree(m) - (l + z)
        BY <1>5, <2>3, <2>5, <3>1, <3>2
      <4> QED  BY <1>4, <1>5, <4>1
    <3>3. CASE n # i
      <4>1. LastFree(new) = LastFree(m)
        BY <1>5, <2>5, <3>1, <3>3
      <4> QED  BY <1>4, <1>5, <4>1
    <3> QED  BY <3>2, <3>3
  <2> QED  BY <1>1, <1>3, <1>4, <2>6, <2>7 DEF IsInsert
<1> QED  BY <1>6, <1>7

LEMMA InsertTakes ==
  ASSUME NEW m, GoodBlman(m), Len(m.blocks) # 0, NEW k \in RecordKey,
         k \notin DOMAIN m.blockIndex, NEW r \in Seq(Nat), Len(r) <= MaxRecordSize,
         NEW lim \in Nat \ {0}
  PROVE  IsInsert(StoreRecord(m, k, r, lim).blman, m, k, r)
<1> DEFINE w == StoreRecord(m, k, r, lim)
           made == RoomMade(m, k, lim)
<1>1. w = Insert(m, made, k, r)
  <2>1. UpdateInPlace(m, k, r) = [done |-> FALSE, blman |-> m]
    BY DEF UpdateInPlace
  <2> QED  BY <2>1 DEF StoreRecord, UpdateOrInsert
<1>2. made \in RoomSet(m)
  BY RoomMadeIsGood
<1> HIDE DEF w, made
<1>3. /\ GoodBlman(made.blman) /\ made.oldRecord \in BOOLEAN
      /\ DOMAIN made.blman.blockIndex \subseteq DOMAIN m.blockIndex
      /\ Roomy(m.blocks, made.blman.blocks)
  BY <1>2, RoomSetParts
<1>4. Len(m.blocks) \in 1..Len(m.blocks) /\ LastFree(m) \in Nat
  BY LastFreeIsNat
<1>5. Len(made.blman.blocks) = Len(m.blocks) /\ Len(made.blman.blocks) # 0
      /\ LastFree(made.blman) >= LastFree(m)
  BY <1>3, <1>4 DEF Roomy, LastFree
<1>6. LastFree(made.blman) \in Nat
  BY <1>3, <1>5, LastFreeIsNat
<1>7. PICK c \in Nat : c = Size(r)
  BY SizesAreNat
<1>8. CASE made.oldRecord
  <2>1. w.blman = made.blman
    BY <1>1, <1>8 DEF Insert, Written
  <2>2. LastFree(w.blman) + c >= LastFree(m)
    BY <1>4, <1>5, <1>6, <2>1
  <2> QED  BY <1>3, <1>5, <1>7, <2>1, <2>2 DEF IsInsert, w
<1>9. CASE ~made.oldRecord
  <2> DEFINE added == Append3(made.blman, k, r)
  <2>1. w.blman = added
    BY <1>1, <1>9 DEF Insert, Written
  <2>2. k \notin DOMAIN made.blman.blockIndex
    BY <1>3
  <2>3. IsInsert(added, made.blman, k, r) /\ Added(made.blman, added, k)
    BY <1>3, <1>5, <2>2, Append3Takes, Append3IsGood
  <2> HIDE DEF added
  <2>4. LastFree(added) \in Nat
    <3>1. GoodBlman(added) /\ Touched(made.blman.blocks, added.blocks)
      BY <2>3 DEF Added
    <3>2. Len(made.blman.blocks) \in Nat /\ Len(added.blocks) \in Nat
      BY <1>3, <3>1, GoodParts
    <3>3. Len(added.blocks) # 0
      BY <1>5, <3>1, <3>2 DEF Touched
    <3> QED  BY <3>1, <3>3, LastFreeIsNat
  <2>5. DOMAIN added.blockIndex \subseteq DOMAIN m.blockIndex \cup {k}
    BY <1>3, <2>3 DEF IsInsert
  <2>6. CASE /\ Len(added.blocks) = Len(made.blman.blocks)
             /\ LastFree(added) + Size(r) >= LastFree(made.blman)
    <3>1. LastFree(added) + c >= LastFree(m)
      BY <1>4, <1>5, <1>6, <1>7, <2>4, <2>6
    <3> QED  BY <1>5, <1>7, <2>1, <2>5, <2>6, <3>1 DEF IsInsert, w
  <2>7. CASE /\ Len(added.blocks) = Len(made.blman.blocks) + 1
             /\ LastFree(added) + Size(r) = CIDFOffset /\ LastFree(made.blman) < Size(r)
    <3>1. LastFree(m) < c
      BY <1>4, <1>5, <1>6, <1>7, <2>7
    <3> QED  BY <1>5, <1>7, <2>1, <2>5, <2>7, <3>1 DEF IsInsert, w
  <2> QED  BY <2>3, <2>6, <2>7 DEF IsInsert
<1> QED  BY <1>3, <1>8, <1>9

\* No more than L blocks, or one more in which all but "used" is free.
Within(m, L, used) ==
  \/ Len(m.blocks) # 0 /\ Len(m.blocks) <= L
  \/ Len(m.blocks) = L + 1 /\ LastFree(m) + used >= CIDFOffset

LEMMA StillWithin ==
  ASSUME NEW m, GoodBlman(m), NEW w, GoodBlman(w), NEW L \in Nat, NEW u \in Nat,
         Within(m, L, u), NEW k, NEW r \in Seq(Nat), IsInsert(w, m, k, r),
         u + Size(r) <= CIDFOffset
  PROVE  Within(w, L, u + Size(r))
<1>1. PICK c \in Nat, o \in Nat : c = Size(r) /\ o = CIDFOffset
  BY SizesAreNat
<1>2. PICK a \in Nat, b \in Nat : a = Len(m.blocks) /\ b = Len(w.blocks)
  BY GoodParts
<1>3. a # 0
  BY <1>2 DEF Within
<1>4. b = a \/ b = a + 1
  BY <1>2 DEF IsInsert
<1>5. b # 0
  BY <1>3, <1>4
<1>6. PICK f \in Nat, g \in Nat : f = LastFree(m) /\ g = LastFree(w)
  BY <1>2, <1>3, <1>5, LastFreeIsNat
<1>7. (a <= L) \/ (a = L + 1 /\ f + u >= o)
  BY <1>1, <1>2, <1>6 DEF Within
<1>8. (b = a /\ g + c >= f) \/ (b = a + 1 /\ g + c = o /\ f < c)
  BY <1>1, <1>2, <1>6 DEF IsInsert
<1>9. u + c <= o
  BY <1>1
<1>10. (b <= L) \/ (b = L + 1 /\ g + (u + c) >= o)
  BY <1>7, <1>8, <1>9
<1> QED  BY <1>1, <1>2, <1>5, <1>6, <1>10 DEF Within

LEMMA WithinMore ==
  ASSUME NEW m, GoodBlman(m), NEW L \in Nat, NEW u \in Nat, NEW v \in Nat, u <= v,
         Within(m, L, u)
  PROVE  Within(m, L, v)
<1>1. CASE Len(m.blocks) # 0 /\ Len(m.blocks) <= L
  BY <1>1 DEF Within
<1>2. CASE Len(m.blocks) = L + 1 /\ LastFree(m) + u >= CIDFOffset
  <2>1. Len(m.blocks) # 0
    BY <1>2
  <2>2. PICK f \in Nat, o \in Nat : f = LastFree(m) /\ o = CIDFOffset
    BY <2>1, LastFreeIsNat, BlockAssumption
  <2>3. f + v >= o
    BY <1>2, <2>2
  <2> QED  BY <1>2, <2>2, <2>3 DEF Within
<1> QED  BY <1>1, <1>2 DEF Within

\* No record of the block is longer when it is written again.
NoneLonger(b) == \A i \in 1..Len(b.rdfs) : ~RepackedLonger(b, i)

\* The records of one block.
LEMMA WriteAllTakes ==
  ASSUME packing \in Packings,
         NEW lim \in Nat \ {0}, NEW t \in Held(lim), NEW L \in Nat, Within(t, L, 0),
         NEW b, GoodBlock(b), NoneLonger(b), KeysIn(b) \subseteq RecordKey,
         KeysIn(b) \cap DOMAIN t.blockIndex = {}
  PROVE  LET w == WriteAll(t, GetRecords(b), lim)
         IN  /\ Len(w.blocks) # 0 /\ Len(w.blocks) <= L + 1
             /\ DOMAIN w.blockIndex \subseteq DOMAIN t.blockIndex \cup KeysIn(b)
<1> DEFINE es == GetRecords(b)
           Written1(j) == {b.rdfs[i].key : i \in 1..j}
<1>1. PICK n \in Nat : n = Len(b.rdfs)
  BY GoodIsWellFormed
<1>2. /\ Len(es) = n
      /\ \A i \in 1..n :
           /\ es[i].key \in KeysIn(b) /\ es[i].rec \in Seq(Nat)
           /\ es[i].key = b.rdfs[i].key /\ b.rdfs[i].len \in Nat
           /\ ~RecordTooBig(es[i].rec) => ~(Len(Packed(es[i].rec)) > b.rdfs[i].len)
  <2>1. \A i \in 1..n : b.rdfs[i].len \in Nat
    <3>1. b.rdfs \in Seq(RDFs)
      BY DEF GoodBlock, BlockSet
    <3>2. \A i \in 1..n : b.rdfs[i] \in RDFs
      BY <1>1, <3>1
    <3> QED  BY <3>2 DEF RDFs
  <2> QED  BY <1>1, <2>1, RecordsRead DEF NoneLonger, RepackedLonger
<1>3. Writable(es)
  BY <1>2 DEF Writable
<1>4. /\ Used(b, 0) = 0
      /\ \A j \in 1..n : /\ Used(b, j - 1) \in Nat
                         /\ Used(b, j) = Used(b, j - 1) + (b.rdfs[j].len + RDFSize)
                         /\ Used(b, j) <= CIDFOffset
  BY <1>1, UsedIs
<1>5. UniqueKeys(b.rdfs)
  BY DEF GoodBlock
<1> HIDE DEF es
<1>6. PICK h : IsWriteLoop(h, t, es, lim) /\ WriteAll(t, es, lim) = h[n]
  <2>1. Len(es) \in Nat
    BY <1>2
  <2> QED  BY <1>2, <1>3, <2>1, WriteAllLoop
<1>7. /\ h[0] = t
      /\ \A i \in 1..n : h[i] = Rewritten(h[i - 1], es[i], lim)
      /\ \A i \in 0..n : h[i] \in Held(lim)
  BY <1>2, <1>6 DEF IsWriteLoop
<1> DEFINE S == {i \in Nat : i <= n => /\ Within(h[i], L, Used(b, i))
                                       /\ DOMAIN h[i].blockIndex
                                            \subseteq DOMAIN t.blockIndex \cup Written1(i)}
<1>8. 0 \in S
  BY <1>4, <1>7
<1>9. ASSUME NEW i \in Nat, i \in S PROVE i + 1 \in S
  <2> SUFFICES ASSUME i + 1 <= n
               PROVE  /\ Within(h[i + 1], L, Used(b, i + 1))
                      /\ DOMAIN h[i + 1].blockIndex
                           \subseteq DOMAIN t.blockIndex \cup Written1(i + 1)
    OBVIOUS
  <2>1. i \in 0..n /\ i + 1 \in 0..n /\ i + 1 \in 1..n /\ (i + 1) - 1 = i
    OBVIOUS
  <2>2. PICK j \in 1..n : j = i + 1 /\ j - 1 = i
    BY <2>1
  <2>3. /\ Within(h[i], L, Used(b, i))
        /\ DOMAIN h[i].blockIndex \subseteq DOMAIN t.blockIndex \cup Written1(i)
    BY <1>9
  <2>4. GoodBlman(h[i]) /\ GoodBlman(h[j])
    BY <1>7, <2>1, <2>2 DEF Held
  <2> DEFINE k == es[j].key
             r == es[j].rec
             p == Packed(r)
  <2>5. /\ k \in RecordKey /\ r \in Seq(Nat) /\ k = b.rdfs[j].key
        /\ h[j] = Rewritten(h[i], es[j], lim)
    BY <1>2, <1>7, <2>2
  <2>6. k \notin DOMAIN h[i].blockIndex
    <3>1. k \notin DOMAIN t.blockIndex
      BY <1>2, <2>2
    <3>2. ASSUME NEW x \in 1..i, b.rdfs[x].key = b.rdfs[j].key PROVE FALSE
      <4>1. x \in 1..n /\ j \in 1..n /\ x # j
        BY <2>1, <2>2
      <4> QED  BY <1>1, <1>5, <3>2, <4>1 DEF UniqueKeys
    <3>3. k \notin Written1(i)
      BY <2>5, <3>2
    <3> QED  BY <2>3, <3>1, <3>3
  <2>7. PICK u \in Nat, v \in Nat, len \in Nat, z \in Nat :
          /\ u = Used(b, i) /\ v = Used(b, j) /\ len = b.rdfs[j].len /\ z = RDFSize
          /\ v = u + (len + z) /\ v <= CIDFOffset
    <3>1. Used(b, i) \in Nat /\ RDFSize \in Nat /\ b.rdfs[j].len \in Nat
      BY <1>2, <1>4, <2>2, BlockAssumption
    <3>2. Used(b, j) = Used(b, i) + (b.rdfs[j].len + RDFSize) /\ Used(b, j) <= CIDFOffset
      BY <1>4, <2>2
    <3>3. Used(b, j) \in Nat
      BY <3>1, <3>2
    <3> QED  BY <3>1, <3>2, <3>3
  <2>8. Written1(i) \subseteq Written1(j) /\ k \in Written1(j)
    BY <2>2, <2>5
  <2>9. ~RecordTooBig(r) => ~(Len(p) > len)
    BY <1>2, <2>2, <2>7
  <2>10. p \in Seq(Nat) /\ Len(p) \in Nat /\ (~RecordTooBig(r) => Len(p) <= MaxRecordSize)
    BY <2>5, PackedIs
  <2> HIDE DEF S
  <2>11. CASE RecordTooBig(r)
    <3>1. h[j] = h[i]
      BY <2>5, <2>11 DEF Rewritten
    <3>2. u <= v
      BY <2>7
    <3>3. Within(h[i], L, v)
      BY <2>3, <2>4, <2>7, <3>2, WithinMore
    <3> QED  BY <2>2, <2>3, <2>7, <2>8, <3>1, <3>3
  <2>12. CASE ~RecordTooBig(r)
    <3>1. h[j] = StoreRecord(h[i], k, p, lim).blman
      BY <2>5, <2>12 DEF Rewritten, blman_write_record
    <3> HIDE DEF k, r, p
    <3>2. Len(h[i].blocks) # 0
      <4>1. L + 1 # 0
        OBVIOUS
      <4> QED  BY <2>3, <4>1 DEF Within
    <3>3. IsInsert(h[j], h[i], k, p)
      BY <2>4, <2>5, <2>6, <2>10, <2>12, <3>1, <3>2, InsertTakes
    <3>4. Size(p) = Len(p) + z
      BY <2>7 DEF Size
    <3>5. PICK q \in Nat : q = u + Size(p) /\ q <= v /\ q <= CIDFOffset
      <4>1. PICK l \in Nat : l = Len(p) /\ l <= len
        BY <2>9, <2>10, <2>12
      <4>2. l <= len /\ v = u + (len + z)
        BY <2>7, <4>1
      <4>3. u + (l + z) \in Nat /\ u + (l + z) <= v
        BY <4>2
      <4>4. u + (l + z) = u + Size(p)
        BY <3>4, <4>1
      <4>5. PICK o \in Nat : o = CIDFOffset /\ v <= o
        BY <2>7, BlockAssumption
      <4>6. u + (l + z) <= o
        BY <4>3, <4>5
      <4> QED  BY <4>3, <4>4, <4>5, <4>6
    <3>6. Within(h[j], L, q)
      BY <2>3, <2>4, <2>7, <2>10, <3>3, <3>5, StillWithin
    <3>7. Within(h[j], L, v)
      BY <2>4, <3>5, <3>6, WithinMore
    <3>8. DOMAIN h[j].blockIndex \subseteq DOMAIN t.blockIndex \cup Written1(j)
      BY <2>3, <2>8, <3>3 DEF IsInsert
    <3> QED  BY <2>2, <2>7, <3>7, <3>8
  <2> QED  BY <2>11, <2>12
<1> HIDE DEF S
<1>10. n \in S
  BY <1>8, <1>9, SetInduction
<1>11. /\ Within(h[n], L, Used(b, n))
       /\ DOMAIN h[n].blockIndex \subseteq DOMAIN t.blockIndex \cup Written1(n)
  BY <1>10 DEF S
<1>12. Len(h[n].blocks) # 0 /\ Len(h[n].blocks) <= L + 1
  <2>1. Len(h[n].blocks) \in Nat
    <3>1. GoodBlman(h[n])
      BY <1>7 DEF Held
    <3> QED  BY <3>1, GoodParts
  <2> QED  BY <1>11, <2>1 DEF Within
<1>13. Written1(n) = KeysIn(b)
  BY <1>1 DEF KeysIn
<1> QED  BY <1>6, <1>11, <1>12, <1>13 DEF es

LEMMA DefragmentTakes ==
  ASSUME packing \in Packings, NEW m, GoodBlman(m), NEW lim \in Nat \ {0},
         \A i \in 1..Len(m.blocks) : NoneLonger(m.blocks[i])
  PROVE  Len(blman_defragment_data(m, lim).blocks) <= Len(m.blocks)
<1>1. PICK n \in Nat : n = Len(m.blocks)
  BY GoodParts
<1>2. CASE m.blockIndex = <<>>
  <2>1. blman_defragment_data(m, lim) = m
    BY <1>2 DEF blman_defragment_data
  <2>2. n <= n
    OBVIOUS
  <2> QED  BY <1>1, <2>1, <2>2
<1>3. CASE m.blockIndex # <<>>
  <2> DEFINE Before1(i) == UNION {KeysIn(m.blocks[x]) : x \in 1..i}
  <2>1. n # 0
    <3>1. DOMAIN m.blockIndex # {}
      <4>1. PICK K \in SUBSET RecordKey : m.blockIndex \in [K -> Nat]
        <5>1. m.blockIndex \in BlockIndexes
          BY GoodParts
        <5> QED  BY <5>1 DEF BlockIndexes
      <4>2. CASE K = {}
        <5>1. m.blockIndex = <<>>
          BY <4>1, <4>2
        <5> QED  BY <1>3, <5>1
      <4>3. CASE K # {}
        BY <4>1, <4>3
      <4> QED  BY <4>2, <4>3
    <3>2. PICK k \in DOMAIN m.blockIndex : m.blockIndex[k] \in 1..n
      BY <1>1, <3>1, NodeParts
    <3> QED  BY <3>2
  <2>2. EmptyBlman \in Held(lim)
    BY EmptyBlmanIsGood DEF Held, GoodBlman
  <2>3. PICK h : IsBlockLoop(h, EmptyBlman, m, lim) /\ WriteBlocks(EmptyBlman, m, lim) = h[n]
    BY <1>1, <2>2, WriteBlocksLoop
  <2>4. /\ h[0] = EmptyBlman
        /\ \A i \in 1..n : h[i] = WriteAll(h[i - 1], GetRecords(m.blocks[i]), lim)
        /\ \A i \in 0..n : h[i] \in Held(lim)
    BY <1>1, <2>3 DEF IsBlockLoop
  <2> DEFINE S == {i \in Nat : i <= n => /\ Within(h[i], i, 0)
                                         /\ i # 0 => Len(h[i].blocks) <= i
                                         /\ DOMAIN h[i].blockIndex \subseteq Before1(i)}
  <2>5. 0 \in S
    <3>1. Len(EmptyBlman.blocks) = 0 + 1 /\ LastFree(EmptyBlman) = CIDFOffset
      <4>1. EmptyBlman.blocks = <<InitBlock>> /\ InitBlock.free = CIDFOffset
        BY DEF EmptyBlman, InitBlock
      <4>2. Len(<<InitBlock>>) = 1 /\ <<InitBlock>>[1] = InitBlock /\ 0 + 1 = 1
        OBVIOUS
      <4> QED  BY <4>1, <4>2 DEF LastFree
    <3>2. CIDFOffset + 0 >= CIDFOffset
      BY BlockAssumption
    <3>3. Within(EmptyBlman, 0, 0)
      BY <3>1, <3>2 DEF Within
    <3>4. DOMAIN EmptyBlman.blockIndex = {}
      BY DEF EmptyBlman
    <3> QED  BY <2>4, <3>3, <3>4
  <2>6. ASSUME NEW i \in Nat, i \in S PROVE i + 1 \in S
    <3> SUFFICES ASSUME i + 1 <= n
                 PROVE  /\ Within(h[i + 1], i + 1, 0) /\ Len(h[i + 1].blocks) <= i + 1
                        /\ DOMAIN h[i + 1].blockIndex \subseteq Before1(i + 1)
      OBVIOUS
    <3>1. PICK j \in 1..n : j = i + 1 /\ j - 1 = i /\ i \in 0..n
      <4>1. i + 1 \in 1..n /\ (i + 1) - 1 = i /\ i \in 0..n
        OBVIOUS
      <4> QED  BY <4>1
    <3>2. Within(h[i], i, 0) /\ DOMAIN h[i].blockIndex \subseteq Before1(i)
      BY <2>6, <3>1
    <3> HIDE DEF S
    <3> DEFINE b == m.blocks[j]
    <3>3. GoodBlock(b) /\ NoneLonger(b) /\ KeysIn(b) \subseteq RecordKey
      <4>1. GoodBlock(b) /\ KeysIn(b) \subseteq DOMAIN m.blockIndex
        BY <1>1, <3>1 DEF GoodBlman, GoodBlocks, IndexFits
      <4>2. NoneLonger(b)
        BY <1>1, <3>1
      <4> QED  BY <4>1, <4>2, GoodParts
    <3>4. KeysIn(b) \cap DOMAIN h[i].blockIndex = {}
      <4>1. ASSUME NEW k \in KeysIn(b), NEW x \in 1..i, k \in KeysIn(m.blocks[x]) PROVE FALSE
        <5>1. x \in 1..n /\ x # j
          BY <3>1
        <5>2. m.blockIndex[k] = j /\ m.blockIndex[k] = x
          BY <1>1, <3>1, <4>1, <5>1 DEF GoodBlman, IndexFits
        <5> QED  BY <5>1, <5>2
      <4> QED  BY <3>2, <4>1
    <3>5. h[i] \in Held(lim) /\ h[j] = WriteAll(h[i], GetRecords(b), lim)
      BY <2>4, <3>1
    <3> HIDE DEF b
    <3>6. /\ Len(h[j].blocks) # 0 /\ Len(h[j].blocks) <= i + 1
          /\ DOMAIN h[j].blockIndex \subseteq DOMAIN h[i].blockIndex \cup KeysIn(b)
      BY <3>2, <3>3, <3>4, <3>5, WriteAllTakes
    <3>7. Before1(i) \cup KeysIn(b) \subseteq Before1(j)
      BY <3>1 DEF b
    <3>8. DOMAIN h[j].blockIndex \subseteq Before1(j)
      BY <3>2, <3>6, <3>7
    <3> QED  BY <3>1, <3>6, <3>8 DEF Within
  <2> HIDE DEF S
  <2>7. n \in S
    BY <2>5, <2>6, SetInduction
  <2>8. Len(h[n].blocks) <= n
    BY <2>1, <2>7 DEF S
  <2> QED  BY <1>1, <1>3, <2>3, <2>8 DEF blman_defragment_data
<1> QED  BY <1>2, <1>3

(***************************************************************************)
(* Blocks on disk.                                                         *)
(***************************************************************************)

Cleaned(bs) == [i \in DOMAIN bs |-> Clean(bs[i])]

LEMMA CleanIsGood ==
  ASSUME NEW b, GoodBlock(b)
  PROVE  /\ GoodBlock(Clean(b)) /\ KeysIn(Clean(b)) = KeysIn(b) /\ Clean(b).dirty = FALSE
         /\ b.dirty = FALSE => Clean(b) = b
<1> DEFINE c == Clean(b)
<1>1. b \in BlockSet
  BY DEF GoodBlock
<1>2. c \in BlockSet
  BY <1>1 DEF Clean, BlockSet
<1>3. /\ c.location = b.location /\ c.free = b.free /\ c.dirty = FALSE
      /\ c.rdfs = b.rdfs /\ c.data = b.data
  BY <1>1 DEF Clean, BlockSet
<1>4. b.dirty = FALSE => c = b
  BY <1>1 DEF Clean, BlockSet
<1>5. Len(c.data) = Len(b.data)
  BY <1>3
<1> HIDE DEF c
<1>6. GoodBlock(c) /\ KeysIn(c) = KeysIn(b)
  BY <1>2, <1>3, <1>5, SameLayout
<1> QED  BY <1>3, <1>4, <1>6 DEF c

\* blman_clear_dirty_flags.
LEMMA CleanedIsGood ==
  ASSUME NEW m, GoodBlman(m)
  PROVE  /\ GoodBlman([blocks |-> Cleaned(m.blocks), blockIndex |-> m.blockIndex])
         /\ Len(Cleaned(m.blocks)) = Len(m.blocks)
         /\ \A i \in 1..Len(m.blocks) :
              /\ Cleaned(m.blocks)[i] = Clean(m.blocks[i])
              /\ Cleaned(m.blocks)[i].dirty = FALSE
<1> DEFINE s == Cleaned(m.blocks)
<1>1. PICK n \in Nat : n = Len(m.blocks) /\ m.blocks \in Seq(BlockSet) /\ DOMAIN m.blocks = 1..n
  BY GoodParts, LenProperties
<1>2. \A i \in 1..n : GoodBlock(m.blocks[i])
  BY <1>1 DEF GoodBlman, GoodBlocks
<1>3. \A i \in 1..n : s[i] = Clean(m.blocks[i])
  BY <1>1 DEF Cleaned
<1>4. \A i \in 1..n : GoodBlock(s[i]) /\ KeysIn(s[i]) = KeysIn(m.blocks[i]) /\ s[i].dirty = FALSE
  BY <1>2, <1>3, CleanIsGood
<1>5. s \in Seq(BlockSet) /\ Len(s) = n
  <2>1. \A i \in 1..n : s[i] \in BlockSet
    BY <1>4 DEF GoodBlock
  <2>2. s \in [1..n -> BlockSet]
    BY <1>1, <2>1 DEF Cleaned
  <2> HIDE DEF s
  <2>3. s \in Seq(BlockSet)
    BY <2>2, SeqDef
  <2>4. DOMAIN s = 1..Len(s) /\ Len(s) \in Nat
    BY <2>3, LenProperties
  <2> QED  BY <2>2, <2>3, <2>4
<1> HIDE DEF s
<1>6. GoodBlocks(s)
  BY <1>4, <1>5 DEF GoodBlocks
<1>7. IndexFits(s, m.blockIndex)
  <2>1. IndexFits(m.blocks, m.blockIndex)
    BY DEF GoodBlman
  <2> QED  BY <1>1, <1>4, <1>5, <2>1 DEF IndexFits
<1>8. m.blockIndex \in BlockIndexes
  BY GoodParts
<1>9. GoodBlman([blocks |-> s, blockIndex |-> m.blockIndex])
  BY <1>5, <1>6, <1>7, <1>8 DEF GoodBlman, Blmans
<1> QED  BY <1>1, <1>3, <1>4, <1>5, <1>9 DEF s

LEMMA MinOfOne ==
  ASSUME NEW a \in Nat
  PROVE  Sets!Min({a}) = a
<1>1. \E x \in {a} : \A y \in {a} : x <= y
  OBVIOUS
<1>2. Sets!Min({a}) \in {a}
  BY <1>1, Zenon DEF Sets!Min
<1> QED  BY <1>2

LEMMA KeysOfIs ==
  ASSUME NEW b, GoodBlock(b)
  PROVE  KeysOf(b) = KeysIn(b)
BY GoodIsWellFormed DEF KeysOf, KeysIn

\* blman_create builds the tree there was when the blocks were written.
LEMMA LoadedIs ==
  ASSUME NEW bs, NEW index, GoodBlman([blocks |-> bs, blockIndex |-> index])
  PROVE  LoadedBlman(bs) = [blocks |-> bs, blockIndex |-> index]
<1> DEFINE U == UNION {KeysOf(bs[i]) : i \in DOMAIN bs}
           At(k) == {i \in DOMAIN bs : k \in KeysOf(bs[i])}
           m == [blocks |-> bs, blockIndex |-> index]
<1>1. m.blocks = bs /\ m.blockIndex = index
  OBVIOUS
<1>2. PICK n \in Nat : n = Len(bs) /\ DOMAIN bs = 1..n
  BY <1>1, GoodParts, LenProperties
<1>3. /\ \A i \in 1..n : GoodBlock(bs[i])
      /\ \A k \in DOMAIN index : index[k] \in 1..n /\ k \in KeysIn(bs[index[k]])
      /\ \A i \in 1..n : \A k \in KeysIn(bs[i]) : k \in DOMAIN index /\ index[k] = i
  BY <1>1, <1>2 DEF GoodBlman, GoodBlocks, IndexFits
<1>4. \A i \in 1..n : KeysOf(bs[i]) = KeysIn(bs[i])
  BY <1>3, KeysOfIs
<1>5. U = DOMAIN index
  <2>1. ASSUME NEW k \in U PROVE k \in DOMAIN index
    BY <1>2, <1>3, <1>4
  <2>2. ASSUME NEW k \in DOMAIN index PROVE k \in U
    <3>1. index[k] \in DOMAIN bs /\ k \in KeysOf(bs[index[k]])
      BY <1>2, <1>3, <1>4
    <3> QED  BY <3>1
  <2> QED  BY <2>1, <2>2
<1>6. ASSUME NEW k \in DOMAIN index PROVE Sets!Min(At(k)) = index[k]
  <2>1. At(k) = {index[k]}
    BY <1>2, <1>3, <1>4
  <2>2. index[k] \in Nat
    BY <1>3
  <2> QED  BY <2>1, <2>2, MinOfOne
<1>7. PICK K \in SUBSET RecordKey : index \in [K -> Nat]
  BY <1>1, GoodParts DEF BlockIndexes
<1>8. index = [k \in U |-> Sets!Min(At(k))]
  BY <1>5, <1>6, <1>7
<1>9. LoadedBlman(bs) = [blocks |-> bs, blockIndex |-> [k \in U |-> Sets!Min(At(k))]]
  BY DEF LoadedBlman
<1> QED  BY <1>8, <1>9

(***************************************************************************)
(* The inductive invariant.                                                *)
(***************************************************************************)

\* Blocks and tree are good.
StateIsGood ==
  /\ GoodBlman(Blman) /\ limit \in Nat \ {0} /\ packing \in Packings
  /\ queued \in BOOLEAN /\ relocate \in BOOLEAN

\* What blman_create makes of the extent is good, and clean.
DiskIsGood == GoodBlman(LoadedBlman(disk)) /\ \A i \in 1..Len(disk) : disk[i].dirty = FALSE

\* Block for block: dirty, or on disk.
Mirrored(bs, d) ==
  Len(d) = Len(bs) /\ \A i \in 1..Len(bs) : bs[i].dirty \/ d[i] = Clean(bs[i])

DiskFollows == (~queued => ~relocate) /\ (~relocate => Mirrored(blocks, disk))

AllClean(bs) == \A i \in 1..Len(bs) : bs[i].dirty = FALSE

\* While the limit never falls it bounds the records, so that a write that is
\* refused changes nothing: what does not wait is clean.
LimitIsKept == ~LowerLimit => Count(Blman) <= limit /\ (~queued => AllClean(blocks))

BlockManagerInv == StateIsGood /\ DiskIsGood /\ DiskFollows /\ LimitIsKept

(***************************************************************************)
(* What a step leaves alone.                                               *)
(***************************************************************************)

LEMMA StillMirrored ==
  ASSUME NEW bs, NEW new, NEW d, Len(bs) \in Nat, Mirrored(bs, d), Touched(bs, new),
         Len(new) = Len(bs)
  PROVE  Mirrored(new, d)
<1>1. PICK n \in Nat : n = Len(bs)
  OBVIOUS
<1>2. /\ Len(d) = n /\ Len(new) = n
      /\ \A i \in 1..n : bs[i].dirty \/ d[i] = Clean(bs[i])
      /\ \A i \in 1..n : new[i] = bs[i] \/ new[i].dirty
  BY <1>1 DEF Mirrored, Touched
<1>3. \A i \in 1..n : new[i].dirty \/ d[i] = Clean(new[i])
  BY <1>2
<1> QED  BY <1>1, <1>2, <1>3 DEF Mirrored

\* The blocks and the tree become those of m.
LEMMA BecomesIs ==
  ASSUME NEW m, GoodBlman(m), Becomes(m)
  PROVE  Blman' = m /\ blocks' = m.blocks
<1>1. blocks' = m.blocks /\ blockIndex' = m.blockIndex
  BY DEF Becomes
<1>2. Blman' = [blocks |-> blocks', blockIndex |-> blockIndex']
  BY DEF Blman
<1>3. m = [blocks |-> m.blocks, blockIndex |-> m.blockIndex]
  BY GoodParts
<1> QED  BY <1>1, <1>2, <1>3

\* The state and the blocks, by name.
LEMMA InvParts ==
  ASSUME BlockManagerInv
  PROVE  /\ GoodBlman(Blman) /\ Blman.blocks = blocks /\ Blman.blockIndex = blockIndex
         /\ Len(blocks) \in Nat /\ blocks \in Seq(BlockSet)
         /\ limit \in Nat \ {0} /\ packing \in Packings
         /\ queued \in BOOLEAN /\ relocate \in BOOLEAN
         /\ GoodBlman(LoadedBlman(disk)) /\ \A i \in 1..Len(disk) : disk[i].dirty = FALSE
         /\ (~queued => ~relocate) /\ (~relocate => Mirrored(blocks, disk))
         /\ ~LowerLimit => Count(Blman) <= limit /\ (~queued => AllClean(blocks))
<1>1. GoodBlman(Blman) /\ Blman.blocks = blocks /\ Blman.blockIndex = blockIndex
  BY DEF BlockManagerInv, StateIsGood, Blman
<1>2. Len(Blman.blocks) \in Nat /\ Blman.blocks \in Seq(BlockSet)
  BY <1>1, GoodParts
<1>3. Len(blocks) \in Nat /\ blocks \in Seq(BlockSet)
  BY <1>1, <1>2
<1> QED  BY <1>1, <1>3, Zenon DEF BlockManagerInv, StateIsGood, DiskIsGood, DiskFollows, LimitIsKept

\* A step of a client leaves the extent alone.
LEMMA ClientStep ==
  ASSUME BlockManagerInv, UNCHANGED <<limit, packing, disk>>,
         NEW m, GoodBlman(m), Becomes(m),
         queued' \in BOOLEAN, relocate' \in BOOLEAN, (~queued' => ~relocate'),
         ~relocate' => ~relocate /\ Touched(blocks, m.blocks) /\ Len(m.blocks) = Len(blocks),
         ~LowerLimit => Count(m) <= limit,
         ~LowerLimit /\ ~queued' => AllClean(m.blocks)
  PROVE  BlockManagerInv'
<1>1. Blman' = m /\ blocks' = m.blocks /\ limit' = limit /\ packing' = packing /\ disk' = disk
  BY BecomesIs
<1>2. StateIsGood'
  BY <1>1, InvParts DEF StateIsGood
<1>3. DiskIsGood'
  BY <1>1, InvParts DEF DiskIsGood
<1>4. DiskFollows'
  <2>1. ASSUME ~relocate' PROVE Mirrored(m.blocks, disk)
    BY <2>1, InvParts, StillMirrored
  <2> QED  BY <1>1, <2>1 DEF DiskFollows
<1>5. LimitIsKept'
  BY <1>1 DEF LimitIsKept
<1> QED  BY <1>2, <1>3, <1>4, <1>5 DEF BlockManagerInv

(***************************************************************************)
(* The actions.                                                            *)
(***************************************************************************)

LEMMA NoBlocksAreGood == GoodBlman([blocks |-> <<>>, blockIndex |-> <<>>])
<1> DEFINE m == [blocks |-> <<>>, blockIndex |-> <<>>]
<1>1. m.blocks \in Seq(BlockSet) /\ Len(m.blocks) = 0
  OBVIOUS
<1>2. m.blockIndex \in BlockIndexes /\ DOMAIN m.blockIndex = {}
  <2>1. <<>> \in [{} -> Nat] /\ {} \in SUBSET RecordKey
    OBVIOUS
  <2> QED  BY <2>1 DEF BlockIndexes
<1>3. GoodBlocks(m.blocks) /\ IndexFits(m.blocks, m.blockIndex)
  BY <1>1, <1>2 DEF GoodBlocks, IndexFits
<1>4. m \in Blmans
  BY <1>1, <1>2 DEF Blmans
<1> QED  BY <1>3, <1>4 DEF GoodBlman

LEMMA InitIsGood ==
  ASSUME Init
  PROVE  BlockManagerInv
<1>1. Blman = EmptyBlman
  BY DEF Init, Blman, EmptyBlman
<1>2. limit \in Nat \ {0}
  BY BlockManagerAssumption DEF Init
<1>3. StateIsGood
  BY <1>1, <1>2, EmptyBlmanIsGood DEF Init, StateIsGood
<1>4. DiskIsGood
  <2>1. LoadedBlman(<<>>) = [blocks |-> <<>>, blockIndex |-> <<>>]
    BY NoBlocksAreGood, LoadedIs
  <2>2. disk = <<>> /\ 1..Len(disk) = {}
    BY DEF Init
  <2> QED  BY <2>1, <2>2, NoBlocksAreGood DEF DiskIsGood
<1>5. DiskFollows
  BY DEF Init, DiskFollows
<1>6. LimitIsKept
  BY <1>1, <1>2, EmptyBlmanIsGood DEF Init, LimitIsKept
<1> QED  BY <1>3, <1>4, <1>5, <1>6 DEF BlockManagerInv

\* blman_write_record under the guard of the writes.
LEMMA WriteOf ==
  ASSUME BlockManagerInv, NEW k \in RecordKey, NEW r \in Rec, ~RecordTooBig(r)
  PROVE  IsWrite(blman_write_record(Blman, k, r, limit), Blman, limit)
<1>1. r \in Seq(Nat)
  BY BlockManagerAssumption
<1>2. Packed(r) \in Seq(Nat) /\ Len(Packed(r)) <= MaxRecordSize
  BY <1>1, InvParts, PackedIs
<1> QED  BY <1>2, InvParts, WriteIsGood DEF blman_write_record

LEMMA WriteOldKeeps ==
  ASSUME BlockManagerInv, NEW k \in RecordKey, NEW r \in Rec, WriteOld(k, r)
  PROVE  BlockManagerInv'
<1> DEFINE w == blman_write_record(Blman, k, r, limit)
<1>1. /\ ~RecordTooBig(r) /\ w.oldRecord /\ Becomes(w.blman)
      /\ UNCHANGED <<limit, packing, queued, relocate, disk>>
  BY DEF WriteOld
<1>2. IsWrite(w, Blman, limit)
  BY <1>1, WriteOf
<1> HIDE DEF w
<1>3. /\ GoodBlman(w.blman) /\ Touched(blocks, w.blman.blocks)
      /\ Len(w.blman.blocks) = Len(blocks)
  BY <1>1, <1>2, InvParts DEF IsWrite
<1>4. ~LowerLimit => w.blman = Blman
  BY <1>1, <1>2, InvParts DEF IsWrite
<1>5. ~LowerLimit => Count(w.blman) <= limit /\ (~queued' => AllClean(w.blman.blocks))
  BY <1>1, <1>4, InvParts
<1> QED  BY <1>1, <1>3, <1>5, InvParts, ClientStep

LEMMA WriteDataKeeps ==
  ASSUME BlockManagerInv, NEW k \in RecordKey, NEW r \in Rec, WriteData(k, r)
  PROVE  BlockManagerInv'
<1> DEFINE w == blman_write_record(Blman, k, r, limit)
<1>1. PICK after \in DefragAfterRecordDelete :
        /\ ~RecordTooBig(r)
        /\ Becomes(IF NeedsDefrag(w, after) THEN blman_defragment_data(w.blman, limit)
                   ELSE w.blman)
        /\ relocate' = (relocate \/ Relocates(w, after))
        /\ queued' = TRUE
        /\ UNCHANGED <<limit, packing, disk>>
  BY DEF WriteData
<1>2. IsWrite(w, Blman, limit)
  BY <1>1, WriteOf
<1> HIDE DEF w
<1>3. GoodBlman(w.blman) /\ (~LowerLimit => Count(w.blman) <= limit)
  BY <1>2, InvParts DEF IsWrite
<1>4. relocate' \in BOOLEAN /\ (~relocate' => ~relocate /\ ~w.reallocated)
      /\ (NeedsDefrag(w, after) => relocate')
  <2>1. w.reallocated \in BOOLEAN
    <3>1. w.reallocated = (Len(w.blman.blocks) > Len(Blman.blocks))
      BY <1>2, Zenon DEF IsWrite
    <3>2. CASE Len(w.blman.blocks) > Len(Blman.blocks)
      BY <3>1, <3>2
    <3>3. CASE ~(Len(w.blman.blocks) > Len(Blman.blocks))
      BY <3>1, <3>3
    <3> QED  BY <3>2, <3>3
  <2>2. NeedsDefrag(w, after) \in BOOLEAN
    BY DEF NeedsDefrag
  <2> QED  BY <1>1, <2>1, <2>2, InvParts, Zenon DEF Relocates
<1>5. CASE NeedsDefrag(w, after)
  <2> DEFINE m == blman_defragment_data(w.blman, limit)
  <2>1. m \in Held(limit)
    BY <1>3, InvParts, DefragmentIsGood
  <2>2. Becomes(m)
    BY <1>1, <1>5
  <2> HIDE DEF m
  <2>3. GoodBlman(m) /\ Count(m) <= limit
    BY <2>1 DEF Held
  <2> QED  BY <1>1, <1>4, <1>5, <2>2, <2>3, ClientStep
<1>6. CASE ~NeedsDefrag(w, after)
  <2>1. Becomes(w.blman)
    BY <1>1, <1>6
  <2>2. Touched(blocks, w.blman.blocks) /\ Len(blocks) <= Len(w.blman.blocks)
    BY <1>2, InvParts DEF IsWrite, Touched
  <2>3. ~w.reallocated => ~(Len(w.blman.blocks) > Len(blocks))
    BY <1>2, InvParts DEF IsWrite
  <2>4. Len(w.blman.blocks) \in Nat /\ Len(blocks) \in Nat
    BY <1>3, InvParts, GoodParts
  <2>5. ~w.reallocated => Len(w.blman.blocks) = Len(blocks)
    BY <2>2, <2>3, <2>4
  <2> QED  BY <1>1, <1>3, <1>4, <2>1, <2>2, <2>5, ClientStep
<1> QED  BY <1>5, <1>6

LEMMA DeleteDataKeeps ==
  ASSUME BlockManagerInv, NEW k \in RecordKey, DeleteData(k)
  PROVE  BlockManagerInv'
<1>1. /\ Becomes(IF k \in DOMAIN blockIndex THEN DeleteNode(Blman, k) ELSE Blman)
      /\ queued' = TRUE /\ UNCHANGED <<limit, packing, relocate, disk>>
  BY DEF DeleteData
<1>2. CASE k \in DOMAIN blockIndex
  <2> DEFINE m == DeleteNode(Blman, k)
  <2>1. Becomes(m)
    BY <1>1, <1>2
  <2>2. Changed(Blman, m, DOMAIN blockIndex \ {k})
    BY <1>2, InvParts, DeleteNodeIsGood
  <2> HIDE DEF m
  <2>3. /\ GoodBlman(m) /\ Touched(blocks, m.blocks) /\ Len(m.blocks) = Len(blocks)
        /\ DOMAIN m.blockIndex = DOMAIN blockIndex \ {k}
    BY <2>2, InvParts DEF Changed
  <2>4. ~LowerLimit => Count(m) <= limit
    <3>1. Count(Blman) \in Nat /\ DOMAIN blockIndex \in SUBSET RecordKey
      BY InvParts, CountIsNat
    <3>2. IsFiniteSet(DOMAIN blockIndex)
      BY <3>1, TreesAreFinite
    <3>3. Cardinality(DOMAIN blockIndex \ {k}) <= Cardinality(DOMAIN blockIndex)
      BY <3>2, FS_Subset
    <3>4. Count(m) <= Count(Blman) /\ Count(m) \in Nat
      BY <2>3, <3>3, InvParts, CountIsNat DEF Count
    <3> QED  BY <3>1, <3>4, InvParts
  <2> QED  BY <1>1, <2>1, <2>3, <2>4, InvParts, ClientStep
<1>3. CASE k \notin DOMAIN blockIndex
  <2>1. Becomes(Blman)
    BY <1>1, <1>3
  <2>2. Touched(blocks, blocks)
    BY InvParts, TouchedIsReflexive
  <2> QED  BY <1>1, <2>1, <2>2, InvParts, ClientStep
<1> QED  BY <1>2, <1>3

LEMMA DefragmentDataKeeps ==
  ASSUME BlockManagerInv, DefragmentData
  PROVE  BlockManagerInv'
<1> DEFINE m == blman_defragment_data(Blman, limit)
<1>1. Becomes(m) /\ queued' = TRUE /\ relocate' = TRUE /\ UNCHANGED <<limit, packing, disk>>
  BY DEF DefragmentData
<1>2. m \in Held(limit)
  BY InvParts, DefragmentIsGood
<1> HIDE DEF m
<1>3. GoodBlman(m) /\ Count(m) <= limit
  BY <1>2 DEF Held
<1> QED  BY <1>1, <1>3, ClientStep

\* The blocks are clean, and so on disk.
LEMMA FlushStep ==
  ASSUME BlockManagerInv, blocks' = Cleaned(blocks), disk' = Cleaned(blocks),
         UNCHANGED <<blockIndex, limit, packing>>, queued' = FALSE, relocate' = FALSE
  PROVE  BlockManagerInv'
<1> DEFINE s == Cleaned(blocks)
           m == [blocks |-> s, blockIndex |-> blockIndex]
<1>1. /\ GoodBlman(m) /\ Len(s) = Len(blocks)
      /\ \A i \in 1..Len(blocks) : s[i].dirty = FALSE
  <2>1. GoodBlman([blocks |-> Cleaned(Blman.blocks), blockIndex |-> Blman.blockIndex])
        /\ Len(Cleaned(Blman.blocks)) = Len(Blman.blocks)
        /\ \A i \in 1..Len(Blman.blocks) : Cleaned(Blman.blocks)[i].dirty = FALSE
    BY InvParts, CleanedIsGood
  <2> QED  BY <2>1, InvParts
<1>2. Blman' = m
  BY DEF Blman
<1>3. LoadedBlman(s) = m
  BY <1>1, LoadedIs
<1> HIDE DEF s
<1>4. PICK n \in Nat : n = Len(blocks)
  BY InvParts
<1>5. \A i \in 1..n : s[i].dirty = FALSE /\ s[i] = Clean(s[i])
  <2>1. \A i \in 1..n : GoodBlock(s[i])
    BY <1>1, <1>4 DEF GoodBlman, GoodBlocks
  <2> QED  BY <1>1, <1>4, <2>1, CleanIsGood
<1>6. disk' = s /\ blocks' = s /\ Len(s) = n
  BY <1>1, <1>4 DEF s
<1>7. StateIsGood'
  BY <1>1, <1>2, InvParts DEF StateIsGood
<1>8. DiskIsGood'
  BY <1>1, <1>3, <1>5, <1>6 DEF DiskIsGood
<1>9. DiskFollows'
  <2>1. Mirrored(s, s)
    BY <1>5, <1>6 DEF Mirrored
  <2> QED  BY <1>6, <2>1 DEF DiskFollows
<1>10. LimitIsKept'
  <2>1. AllClean(s)
    BY <1>5, <1>6 DEF AllClean
  <2>2. Count(m) = Count(Blman)
    BY DEF Count, Blman
  <2> QED  BY <1>2, <1>6, <2>1, <2>2, InvParts DEF LimitIsKept
<1> QED  BY <1>7, <1>8, <1>9, <1>10 DEF BlockManagerInv

LEMMA WithRelocateFlagKeeps ==
  ASSUME BlockManagerInv, WriteDataWithRelocateFlag
  PROVE  BlockManagerInv'
<1>1. blocks' = Cleaned(blocks) /\ disk' = Cleaned(blocks)
  BY DEF WriteDataWithRelocateFlag, ClearDirtyFlags, Cleaned
<1> QED  BY <1>1, FlushStep DEF WriteDataWithRelocateFlag

LEMMA WithoutRelocateFlagKeeps ==
  ASSUME BlockManagerInv, WriteDataWithoutRelocateFlag
  PROVE  BlockManagerInv'
<1>1. blocks' = Cleaned(blocks)
  BY DEF WriteDataWithoutRelocateFlag, ClearDirtyFlags, Cleaned
<1>2. Mirrored(blocks, disk) /\ relocate = FALSE
  BY InvParts DEF WriteDataWithoutRelocateFlag
<1>3. PICK n \in Nat : n = Len(blocks) /\ DOMAIN blocks = 1..n
  BY InvParts, LenProperties
<1>4. Len(disk) = n
  BY <1>2, <1>3 DEF Mirrored
<1>5. disk = LoadedBlman(disk).blocks /\ DOMAIN disk = 1..n
  <2>1. LoadedBlman(disk).blocks = disk
    BY DEF LoadedBlman
  <2>2. disk \in Seq(BlockSet)
    BY <2>1, InvParts, GoodParts
  <2> QED  BY <1>4, <2>1, <2>2, LenProperties
<1>6. \A i \in 1..n : blocks[i].dirty \/ disk[i] = Clean(blocks[i])
  BY <1>2, <1>3 DEF Mirrored
<1>7. disk' = [i \in 1..n |-> IF blocks[i].dirty THEN Clean(blocks[i]) ELSE disk[i]]
  <2>1. DOMAIN disk \cup DOMAIN blocks = 1..n
    BY <1>3, <1>5
  <2>2. disk' = [i \in DOMAIN disk \cup DOMAIN blocks |->
                IF i \in DOMAIN blocks /\ blocks[i].dirty THEN Clean(blocks[i])
                ELSE IF i \in DOMAIN disk THEN disk[i] ELSE Clean(blocks[i])]
    BY DEF WriteDataWithoutRelocateFlag
  <2> QED  BY <1>3, <1>5, <2>1, <2>2
<1>8. disk' = [i \in 1..n |-> Clean(blocks[i])]
  BY <1>6, <1>7
<1>9. disk' = Cleaned(blocks)
  BY <1>3, <1>8 DEF Cleaned
<1>10. relocate' = FALSE
  BY <1>2 DEF WriteDataWithoutRelocateFlag
<1> QED  BY <1>1, <1>9, <1>10, FlushStep DEF WriteDataWithoutRelocateFlag

LEMMA EvictAndLoadKeeps ==
  ASSUME BlockManagerInv, EvictAndLoad
  PROVE  BlockManagerInv'
<1> DEFINE m == LoadedBlman(disk)
<1>1. ~queued /\ Becomes(m) /\ UNCHANGED <<limit, packing, queued, relocate, disk>>
  BY DEF EvictAndLoad
<1>2. GoodBlman(m) /\ m.blocks = disk
  BY InvParts DEF LoadedBlman
<1>3. Mirrored(blocks, disk) /\ ~relocate
  BY <1>1, InvParts
<1>4. PICK n \in Nat : n = Len(blocks) /\ n = Len(disk)
  BY <1>3, InvParts DEF Mirrored
<1>5. Blman' = m /\ blocks' = disk
  BY <1>1, <1>2, BecomesIs
<1>6. \A i \in 1..n : GoodBlock(disk[i]) /\ disk[i].dirty = FALSE
  BY <1>2, <1>4, InvParts DEF GoodBlman, GoodBlocks
<1>7. \A i \in 1..n : disk[i] = Clean(disk[i])
  BY <1>6, CleanIsGood
<1>8. ~LowerLimit => m = Blman
  <2>1. SUFFICES ASSUME ~LowerLimit PROVE m = Blman
    OBVIOUS
  <2>2. AllClean(blocks)
    BY <1>1, <2>1, InvParts
  <2>3. \A i \in 1..n : GoodBlock(blocks[i]) /\ blocks[i].dirty = FALSE
    BY <1>4, <2>2, InvParts DEF AllClean, GoodBlman, GoodBlocks
  <2>4. \A i \in 1..n : disk[i] = Clean(blocks[i]) /\ Clean(blocks[i]) = blocks[i]
    <3>1. \A i \in 1..n : blocks[i].dirty \/ disk[i] = Clean(blocks[i])
      BY <1>3, <1>4 DEF Mirrored
    <3>2. \A i \in 1..n : Clean(blocks[i]) = blocks[i]
      BY <2>3, CleanIsGood
    <3> QED  BY <2>3, <3>1, <3>2
  <2>5. disk = blocks
    <3>1. disk \in Seq(BlockSet) /\ blocks \in Seq(BlockSet)
      BY <1>2, InvParts, GoodParts
    <3>2. \A i \in 1..n : disk[i] = blocks[i]
      BY <2>4
    <3> QED  BY <1>4, <3>1, <3>2, SeqEqual
  <2>6. Blman = [blocks |-> blocks, blockIndex |-> blockIndex]
    BY DEF Blman
  <2>7. LoadedBlman(blocks) = [blocks |-> blocks, blockIndex |-> blockIndex]
    BY <2>6, InvParts, LoadedIs
  <2> QED  BY <2>5, <2>6, <2>7
<1> HIDE DEF m
<1>9. StateIsGood'
  BY <1>1, <1>2, <1>5, InvParts DEF StateIsGood
<1>10. DiskIsGood'
  BY <1>1, InvParts DEF DiskIsGood
<1>11. DiskFollows'
  <2>1. Mirrored(disk, disk)
    BY <1>4, <1>7 DEF Mirrored
  <2> QED  BY <1>1, <1>3, <1>5, <2>1 DEF DiskFollows
<1>12. LimitIsKept'
  <2>1. AllClean(disk)
    BY <1>4, <1>6 DEF AllClean
  <2> QED  BY <1>1, <1>5, <1>8, <2>1, InvParts DEF LimitIsKept
<1> QED  BY <1>9, <1>10, <1>11, <1>12 DEF BlockManagerInv

LEMMA SetLimitKeeps ==
  ASSUME BlockManagerInv, NEW new \in Limits \cup {DefaultLimit}, SetLimit(new)
  PROVE  BlockManagerInv'
<1>1. /\ LowerLimit \/ limit <= new
      /\ limit' = new /\ UNCHANGED <<blocks, blockIndex, packing, queued, relocate, disk>>
  BY DEF SetLimit
<1>2. new \in Nat \ {0}
  BY BlockManagerAssumption
<1>3. Blman' = Blman
  BY <1>1 DEF Blman
<1>4. StateIsGood' /\ DiskIsGood' /\ DiskFollows'
  BY <1>1, <1>2, <1>3, InvParts DEF StateIsGood, DiskIsGood, DiskFollows
<1>5. LimitIsKept'
  <2>1. Count(Blman) \in Nat
    BY InvParts, CountIsNat
  <2>2. ~LowerLimit => Count(Blman) <= new
    BY <1>1, <1>2, <2>1, InvParts
  <2> QED  BY <1>1, <1>3, <2>2, InvParts DEF LimitIsKept
<1> QED  BY <1>4, <1>5 DEF BlockManagerInv

(***************************************************************************)
(* The theorems.                                                           *)
(***************************************************************************)

LEMMA StepKeeps ==
  ASSUME BlockManagerInv, [Next]_vars
  PROVE  BlockManagerInv'
<1>1. CASE UNCHANGED vars
  BY <1>1 DEF vars, BlockManagerInv, StateIsGood, DiskIsGood, DiskFollows, LimitIsKept, Blman
<1>2. ASSUME NEW k \in RecordKey, NEW r \in Rec, WriteTooBig(k, r)
      PROVE  BlockManagerInv'
  BY <1>2 DEF WriteTooBig, BlockManagerInv, StateIsGood, DiskIsGood, DiskFollows,
              LimitIsKept, Blman
<1>3. ASSUME LoadDefaults PROVE BlockManagerInv'
  BY <1>3, SetLimitKeeps DEF LoadDefaults
<1>4. ASSUME LoadConfigured PROVE BlockManagerInv'
  BY <1>4, SetLimitKeeps DEF LoadConfigured
<1>5. ASSUME LoadPacking PROVE BlockManagerInv'
  BY <1>5 DEF LoadPacking, BlockManagerInv, StateIsGood, DiskIsGood, DiskFollows,
              LimitIsKept, Blman
<1> QED  BY <1>1, <1>2, <1>3, <1>4, <1>5, WriteOldKeeps, WriteDataKeeps, DeleteDataKeeps,
            DefragmentDataKeeps, WithRelocateFlagKeeps, WithoutRelocateFlagKeeps,
            EvictAndLoadKeeps DEF Next

\* Good blocks, a tree that fits them, an extent that reads back, and blocks
\* that differ from it only when they are dirty, through every operation of
\* BlockManager.c and every flush.
THEOREM BlockManagerIsInvariant == Spec => []BlockManagerInv
<1>1. Init => BlockManagerInv
  BY InitIsGood
<1>2. BlockManagerInv /\ [Next]_vars => BlockManagerInv'
  BY StepKeeps
<1> QED  BY <1>1, <1>2, PTL DEF Spec

\* The CIDF of every block counts what is in it, whatever sequence of writes,
\* updates, deletes and defragmentations made it: free space, data and RDFs
\* fill it exactly, and free never falls below zero.
THEOREM BlocksStayWellFormed == Spec => []BlocksWellFormed
<1>1. BlockManagerInv => BlocksWellFormed
  <2>1. SUFFICES ASSUME BlockManagerInv, NEW i \in DOMAIN blocks PROVE WellFormed(blocks[i])
    BY DEF BlocksWellFormed
  <2>2. i \in 1..Len(blocks)
    BY <2>1, InvParts, LenProperties
  <2>3. GoodBlock(blocks[i])
    BY <2>1, <2>2, InvParts DEF GoodBlman, GoodBlocks
  <2> QED  BY <2>3, GoodIsWellFormed
<1> QED  BY <1>1, BlockManagerIsInvariant, PTL

\* The AVL tree has a node for every RDF and no other, each naming the block of
\* its record, also after blman_create has rebuilt it from the extent.
THEOREM IndexAlwaysMatchesBlocks == Spec => []IndexMatchesBlocks
<1>1. BlockManagerInv => IndexMatchesBlocks
  <2>1. SUFFICES ASSUME BlockManagerInv PROVE IndexMatchesBlocks
    OBVIOUS
  <2>2. DOMAIN blocks = 1..Len(blocks) /\ GoodBlocks(blocks) /\ IndexFits(blocks, blockIndex)
    BY <2>1, InvParts, LenProperties DEF GoodBlman
  <2>3. \A i \in DOMAIN blocks :
          /\ GoodBlock(blocks[i]) /\ KeysOf(blocks[i]) = KeysIn(blocks[i])
          /\ NumRDFs(blocks[i]) = Len(blocks[i].rdfs)
    BY <2>2, KeysOfIs, GoodIsWellFormed DEF GoodBlocks
  <2>4. ASSUME NEW k \in DOMAIN blockIndex PROVE k \in KeysOf(blocks[blockIndex[k]])
    BY <2>2, <2>3 DEF IndexFits
  <2>5. ASSUME NEW i \in DOMAIN blocks, NEW n \in 1..NumRDFs(blocks[i])
        PROVE  /\ blocks[i].rdfs[n].key \in DOMAIN blockIndex
               /\ blockIndex[blocks[i].rdfs[n].key] = i
               /\ \A o \in 1..NumRDFs(blocks[i]) \ {n} :
                    blocks[i].rdfs[n].key # blocks[i].rdfs[o].key
    <3>1. blocks[i].rdfs[n].key \in KeysIn(blocks[i])
      BY <2>3 DEF KeysIn
    <3>2. UniqueKeys(blocks[i].rdfs)
      BY <2>3 DEF GoodBlock
    <3>3. \A o \in 1..NumRDFs(blocks[i]) \ {n} :
            blocks[i].rdfs[n].key # blocks[i].rdfs[o].key
      BY <2>3, <3>2 DEF UniqueKeys
    <3> QED  BY <2>2, <3>1, <3>3 DEF IndexFits
  <2> QED  BY <2>4, <2>5 DEF IndexMatchesBlocks
<1> QED  BY <1>1, BlockManagerIsInvariant, PTL

\* WriteDataWithoutRelocateFlag finds as many blocks in memory as there are in
\* the extent it writes them over: eRIF_RelocateBlocks is set whenever a block
\* is added or the blocks are made anew.
THEOREM InPlaceAlwaysFits == Spec => []InPlaceFits
<1>1. BlockManagerInv => InPlaceFits
  <2>1. SUFFICES ASSUME BlockManagerInv, ~relocate PROVE Len(blocks) = Len(disk)
    BY DEF InPlaceFits
  <2> QED  BY <2>1, InvParts DEF Mirrored
<1> QED  BY <1>1, BlockManagerIsInvariant, PTL

\* Blocks that do not wait for the storage thread are on disk as they are in
\* memory, so CheckMemory may free them, as long as no reload lowers
\* RecordLimit (the run blockmanager_lowered shows that it may not when one
\* does).
THEOREM UnqueuedStaysOnDisk ==
  ASSUME ~LowerLimit
  PROVE  Spec => []UnqueuedIsOnDisk
<1>1. BlockManagerInv => UnqueuedIsOnDisk
  <2>1. SUFFICES ASSUME BlockManagerInv, ~queued
                 PROVE  disk = [i \in DOMAIN blocks |-> Clean(blocks[i])]
    BY DEF UnqueuedIsOnDisk
  <2>2. Mirrored(blocks, disk) /\ AllClean(blocks)
    BY <2>1, InvParts
  <2>3. LoadedBlman(disk).blocks = disk
    BY DEF LoadedBlman
  <2>4. disk \in Seq(BlockSet)
    BY <2>1, <2>3, InvParts, GoodParts
  <2>5. PICK n \in Nat : n = Len(blocks) /\ n = Len(disk) /\ DOMAIN blocks = 1..n
    BY <2>1, <2>2, InvParts, LenProperties DEF Mirrored
  <2>6. \A i \in 1..n : disk[i] = Clean(blocks[i])
    BY <2>2, <2>5 DEF Mirrored, AllClean
  <2>7. disk = [i \in 1..n |-> disk[i]]
    BY <2>4, <2>5
  <2> QED  BY <2>5, <2>6, <2>7
<1> QED  BY <1>1, BlockManagerIsInvariant, PTL

\* A defragmentation makes an X bigger only when a record of it is longer when
\* it is written again, because it was compressed under another configuration
\* or by a client; never because of the order in which the records are written
\* or of the holes between them.  DefragmentDataInternal lowers m_memoryUsed by
\* the difference of the sizes, also when the X has grown.
THEOREM DefragmentationGrowsOnlyByRepacking == Spec => []DefragmentGrowsOnlyByRepacking
<1>1. BlockManagerInv => DefragmentGrowsOnlyByRepacking
  <2> DEFINE longer == \E i \in DOMAIN blocks :
                         \E n \in 1..NumRDFs(blocks[i]) : RepackedLonger(blocks[i], n)
             m == blman_defragment_data(Blman, limit)
  <2>1. SUFFICES ASSUME BlockManagerInv, ~longer PROVE ~(Len(m.blocks) > Len(blocks))
    BY DEF DefragmentGrowsOnlyByRepacking
  <2>2. \A i \in 1..Len(blocks) : NoneLonger(blocks[i])
    <3>1. DOMAIN blocks = 1..Len(blocks) /\ GoodBlocks(blocks)
      BY <2>1, InvParts, LenProperties DEF GoodBlman
    <3>2. \A i \in 1..Len(blocks) : NumRDFs(blocks[i]) = Len(blocks[i].rdfs)
      BY <3>1, GoodIsWellFormed DEF GoodBlocks
    <3> QED  BY <2>1, <3>1, <3>2 DEF NoneLonger
  <2>3. Len(m.blocks) <= Len(Blman.blocks)
    BY <2>1, <2>2, InvParts, DefragmentTakes
  <2>4. Len(m.blocks) \in Nat
    <3>1. m \in Held(limit)
      BY <2>1, InvParts, DefragmentIsGood
    <3> QED  BY <3>1, GoodParts DEF Held
  <2> HIDE DEF m
  <2> QED  BY <2>1, <2>3, <2>4, InvParts
<1> QED  BY <1>1, BlockManagerIsInvariant, PTL
=============================================================================
