-------------------------- MODULE ConcurrentHashMap --------------------------
(***************************************************************************)
(* tbb::concurrent_hash_map as Storage uses it for m_dataIndexes: find and *)
(* insert with an accessor, erase of an accessor, from many threads, while *)
(* the table grows and buckets are rehashed when they are first touched.   *)
(*                                                                         *)
(* The hash of a key is the key (HashCompare in IndexBlock.h).  A list of  *)
(* nodes is a set, the mapped value is left out.  An action ends where     *)
(* another thread can see or change what the thread reads next; what a     *)
(* thread does to a list under its bucket's lock is one action.            *)
(*                                                                         *)
(* The mutexes are TBB's spin_rw_mutex, external: of a bucket it is        *)
(* modelled with readers, a writer and an upgrade that waits for the other *)
(* readers; of a node only write locks are used.                           *)
(***************************************************************************)
EXTENDS Naturals, Sequences, FiniteSets

CONSTANTS
  Key,         \* the keys, natural numbers
  Thread,      \* threads with one accessor each
  Node,        \* bound: addresses of nodes
  FirstBlock,  \* first_block, 8 in the code
  MaxMask,     \* bound: my_mask, the table does not grow beyond it
  RehashReq,   \* rehash_req, the node_list of a bucket not rehashed yet
  None         \* NULL

Ops     == {"find", "insert", "erase"}
CallSet == [op : Ops, key : Key, answer : {"none", "yes", "no"}]

ASSUME HashMapAssumption ==
  /\ Key \subseteq Nat
  /\ FirstBlock \in Nat \ {0} /\ MaxMask \in Nat \ {0}
  /\ \A s \in SUBSET Node : s # RehashReq
  /\ None \notin Key \cup Node \cup Thread \cup CallSet

VARIABLES
  mask,     \* my_mask
  claimed,  \* segments k with my_table[k] # NULL, but for the embedded one
  list,     \* node_list of each bucket, or RehashReq
  lock,     \* mutex of each bucket
  nodeKey,  \* item.first of each node, None when the node is not allocated
  item,     \* mutex of each node: the thread that has it
  acc,      \* the accessor of each thread: its node or None
  pc,       \* where each thread is
  call,     \* what it was asked, and the answer once that is certain
  m,        \* its copy of the mask
  stack,    \* buckets it has, or is about to get: one and, while it is
            \* rehashed, its parent, and so on
  n,        \* the node its search found, or it linked
  tmp,      \* tmp_n
  probe,    \* the bucket check_rehashing_collision is to look at
  grow      \* grow_segment

table  == <<mask, claimed>>
local  == <<m, stack, n, tmp, probe, grow>>
vars   == <<table, list, lock, nodeKey, item, acc, pc, call, local>>

Mutex(r, w, u) == [readers |-> r, writer |-> w, upgrading |-> u]
Bucket         == 0..MaxMask

\* 1 << i.
Pow2[i \in Nat] == IF i = 0 THEN 1 ELSE 2 * Pow2[i - 1]

\* h & mask, for a mask of the form Pow2[i] - 1.
Masked(h, mk) == h % (mk + 1)

\* __TBB_Log2 of h > 0.
Log2(h) == CHOOSE i \in 0..h : Pow2[i] <= h /\ h < Pow2[i + 1]

\* The bucket that bucket h > 1 is split from, and the mask h is full under.
Parent(h)   == h % Pow2[Log2(h)]
FullMask(h) == Pow2[Log2(h) + 1] - 1

\* The bucket of hash h under the next mask after mk that it differs in.
\* Mutant: under the new mask.
NextApplicableLast(h, mk) == Masked(h, mask)
NextApplicable(h, mk) ==
  LET IsSet(i) == Pow2[i] > mk /\ (h \div Pow2[i]) % 2 = 1
      bit == CHOOSE i \in 0..h : IsSet(i) /\ \A j \in 0..(i - 1) : ~IsSet(j)
  IN  h % Pow2[bit + 1]

\* Every node in some list.
Linked == UNION {list[b] : b \in {c \in Bucket : list[c] # RehashReq}}

TypeOK ==
  /\ mask \in {Pow2[i] - 1 : i \in 1..Log2(MaxMask + 1)}
  /\ claimed \subseteq 1..Log2(MaxMask + 1)
  /\ list \in [Bucket -> (SUBSET Node) \cup {RehashReq}]
  /\ lock \in [Bucket -> [readers : SUBSET Thread, writer : Thread \cup {None},
                          upgrading : Thread \cup {None}]]
  /\ nodeKey \in [Node -> Key \cup {None}]
  /\ item \in [Node -> Thread \cup {None}]
  /\ acc \in [Thread -> Node \cup {None}]
  /\ call \in [Thread -> CallSet \cup {None}]
  /\ stack \in [Thread -> Seq(Bucket)]
  /\ n \in [Thread -> Node \cup {None}]
  /\ tmp \in [Thread -> Node \cup {None}]

Init ==
  /\ mask = 1
  /\ claimed = {}
  /\ list = [b \in Bucket |-> IF b <= 1 THEN {} ELSE RehashReq]
  /\ lock = [b \in Bucket |-> Mutex({}, None, None)]
  /\ nodeKey = [i \in Node |-> None]
  /\ item = [i \in Node |-> None]
  /\ acc = [t \in Thread |-> None]
  /\ pc = [t \in Thread |-> "idle"]
  /\ call = [t \in Thread |-> None]
  /\ m = [t \in Thread |-> 1]
  /\ stack = [t \in Thread |-> <<>>]
  /\ n = [t \in Thread |-> None]
  /\ tmp = [t \in Thread |-> None]
  /\ probe = [t \in Thread |-> None]
  /\ grow = [t \in Thread |-> 0]

(***************************************************************************)
(* The bucket locks.                                                       *)
(***************************************************************************)
Top(t)      == stack[t][Len(stack[t])]
IsWriter(t) == lock[Top(t)].writer = t

CanRead(b)  == lock[b].writer = None /\ lock[b].upgrading = None
CanWrite(b) == lock[b].writer = None /\ lock[b].readers = {}

Reading(t)  == [lock EXCEPT ![Top(t)] = Mutex(@.readers \cup {t}, @.writer, @.upgrading)]
Writing(t)  == [lock EXCEPT ![Top(t)] = Mutex({}, t, None)]

\* lock without what t has of bucket Top(t).
Released(t) ==
  [lock EXCEPT ![Top(t)] = Mutex(@.readers \ {t}, IF @.writer = t THEN None ELSE @.writer,
                                 @.upgrading)]

Goto(t, where) == pc' = [pc EXCEPT ![t] = where]

\* After the constructor of a bucket_accessor: on with rehash_bucket when the
\* bucket is a parent, else with the operation.
Entered(t, depth) == Goto(t, IF depth > 1 THEN "rehash" ELSE "search")

\* restart: the accessor is gone, the bucket is looked up under mask mk.
Restart(t, mk) ==
  /\ m' = [m EXCEPT ![t] = mk]
  /\ stack' = [stack EXCEPT ![t] = <<Masked(call[t].key, mk)>>]
  /\ Goto(t, "look")

(***************************************************************************)
(* bucket_accessor::acquire and rehash_bucket.                             *)
(***************************************************************************)

\* The first look at node_list.
Look(t) ==
  /\ pc[t] = "look"
  /\ Goto(t, IF list[Top(t)] = RehashReq THEN "try" ELSE "lock")
  /\ UNCHANGED <<table, list, lock, nodeKey, item, acc, call, local>>

\* try_acquire as a writer; who gets the bucket unrehashed marks it and goes
\* on with the parent.
TryRehash(t) ==
  /\ pc[t] = "try" /\ CanWrite(Top(t))
  /\ lock' = Writing(t)
  /\ IF list[Top(t)] = RehashReq
     THEN /\ list' = [list EXCEPT ![Top(t)] = {}]
          /\ stack' = [stack EXCEPT ![t] = Append(@, Parent(Top(t)))]
          /\ Goto(t, "look")
     ELSE Entered(t, Len(stack[t])) /\ UNCHANGED <<list, stack>>
  /\ UNCHANGED <<table, nodeKey, item, acc, call, m, n, tmp, probe, grow>>

TryFails(t) ==
  /\ pc[t] = "try" /\ ~CanWrite(Top(t))
  /\ Goto(t, "lock")
  /\ UNCHANGED <<table, list, lock, nodeKey, item, acc, call, local>>

\* scoped_t::acquire: exclude wants to write, everybody else to read.
Acquire(t) ==
  /\ pc[t] = "lock"
  /\ IF call[t].op = "erase" /\ Len(stack[t]) = 1
     THEN CanWrite(Top(t)) /\ lock' = Writing(t)
     ELSE CanRead(Top(t)) /\ lock' = Reading(t)
  /\ Entered(t, Len(stack[t]))
  /\ UNCHANGED <<table, list, nodeKey, item, acc, call, local>>

\* The nodes of bucket b that belong to its child.
Moving(b, child) == {i \in list[b] : Masked(nodeKey[i], FullMask(child)) = child}

\* rehash_bucket with the parent on top and the child below it: a reader that
\* has to move nodes upgrades first.
\* Mutant: it moves them as a reader.
MayMoveUnlocked(t, child) == TRUE
MayMove(t, child) == IsWriter(t) \/ Moving(Top(t), child) = {}

Rehash(t) ==
  /\ pc[t] = "rehash"
  /\ \E child \in {stack[t][Len(stack[t]) - 1]}, b \in {Top(t)} :
       /\ MayMove(t, child)
       /\ list' = [list EXCEPT ![b] = @ \ Moving(b, child),
                               ![child] = @ \cup Moving(b, child)]
  /\ lock' = Released(t)
  /\ stack' = [stack EXCEPT ![t] = SubSeq(@, 1, Len(@) - 1)]
  /\ Entered(t, Len(stack[t]) - 1)
  /\ UNCHANGED <<table, nodeKey, item, acc, call, m, n, tmp, probe, grow>>

MustUpgrade(t) ==
  /\ pc[t] = "rehash"
  /\ ~MayMove(t, stack[t][Len(stack[t]) - 1])
  /\ Goto(t, "upgrade")
  /\ UNCHANGED <<table, list, lock, nodeKey, item, acc, call, local>>

(***************************************************************************)
(* upgrade_to_writer, in rehash_bucket and in an insertion.                *)
(***************************************************************************)
BeginUpgrade(t) ==
  /\ pc[t] = "upgrade" /\ lock[Top(t)].upgrading = None
  /\ lock' = [lock EXCEPT ![Top(t)] = Mutex(@.readers, @.writer, t)]
  /\ Goto(t, "upgrading")
  /\ UNCHANGED <<table, list, nodeKey, item, acc, call, local>>

\* The result is TRUE: nobody wrote in between.
EndUpgrade(t) ==
  /\ pc[t] = "upgrading" /\ lock[Top(t)].readers = {t}
  /\ lock' = Writing(t)
  /\ Goto(t, IF Len(stack[t]) > 1 THEN "rehash" ELSE "race")
  /\ UNCHANGED <<table, list, nodeKey, item, acc, call, local>>

\* With other readers, one of which may upgrade, or a writer waiting: the lock
\* is given up and taken again, the result is FALSE.
YieldUpgrade(t) ==
  /\ pc[t] = "upgrade" /\ lock[Top(t)].readers # {t}
  /\ lock' = Released(t)
  /\ Goto(t, "reacquire")
  /\ UNCHANGED <<table, list, nodeKey, item, acc, call, local>>

\* "restart" in rehash_bucket, "Rerun search_list" in lookup.
Reacquire(t) ==
  /\ pc[t] = "reacquire" /\ CanWrite(Top(t))
  /\ lock' = Writing(t)
  /\ Goto(t, IF Len(stack[t]) > 1 THEN "rehash" ELSE "again")
  /\ UNCHANGED <<table, list, nodeKey, item, acc, call, local>>

(***************************************************************************)
(* Calls and returns.                                                      *)
(***************************************************************************)
Calls(t, op, k) ==
  /\ pc[t] = "idle"
  /\ call' = [call EXCEPT ![t] = [op |-> op, key |-> k, answer |-> "none"]]
  /\ m' = [m EXCEPT ![t] = mask]
  /\ stack' = [stack EXCEPT ![t] = <<Masked(k, mask)>>]
  /\ Goto(t, "look")
  /\ UNCHANGED <<table, list, lock, nodeKey, item, acc, n, tmp, probe, grow>>

\* find and insert with an accessor, which they release first.
Lookup(t, op, k) == op \in {"find", "insert"} /\ acc[t] = None /\ Calls(t, op, k)

\* erase(accessor).
Exclude(t) == acc[t] # None /\ Calls(t, "erase", nodeKey[acc[t]])

\* The accessor goes out of scope.
ReleaseAccessor(t) ==
  /\ pc[t] = "idle" /\ acc[t] # None
  /\ item' = [item EXCEPT ![acc[t]] = None]
  /\ acc' = [acc EXCEPT ![t] = None]
  /\ UNCHANGED <<table, list, lock, nodeKey, pc, call, local>>

\* From here on the answer is a.
Answer(t, a) == call' = [call EXCEPT ![t].answer = a]

(***************************************************************************)
(* lookup.                                                                 *)
(***************************************************************************)
Found(t) == {i \in list[Top(t)] : nodeKey[i] = call[t].key}

\* search_bucket finds a node, also "unfortunately, it did".
SearchHits(t) ==
  /\ pc[t] \in {"search", "again"} /\ call[t].op # "erase"
  /\ \E i \in Found(t) : n' = [n EXCEPT ![t] = i]
  /\ lock' = IF pc[t] = "again"
             THEN [lock EXCEPT ![Top(t)] = Mutex({t}, None, None)] ELSE lock
  /\ Goto(t, "item")
  /\ UNCHANGED <<table, list, nodeKey, item, acc, call, m, stack, tmp, probe, grow>>

FreeNodes == {i \in Node : nodeKey[i] = None}

\* It does not; an insertion allocates its node, unless it already has, and
\* needs the bucket as a writer.  The allocator reuses addresses as soon as
\* it can: it returns the first free one.
SearchMisses(t) ==
  /\ pc[t] \in {"search", "again"} /\ call[t].op # "erase"
  /\ Found(t) = {}
  /\ IF call[t].op = "insert" /\ tmp[t] = None
     THEN /\ FreeNodes # {}  \* bound: Node
          /\ \E i \in {CHOOSE j \in FreeNodes : TRUE} :
               /\ nodeKey' = [nodeKey EXCEPT ![i] = call[t].key]
               /\ tmp' = [tmp EXCEPT ![t] = i]
     ELSE UNCHANGED <<nodeKey, tmp>>
  /\ Goto(t, IF call[t].op = "find" \/ IsWriter(t) THEN "race" ELSE "upgrade")
  /\ UNCHANGED <<table, list, lock, item, acc, call, m, stack, n, probe, grow>>

\* check_mask_race is FALSE: a find gives up, an erase was not first, an
\* insertion goes on.
NoRace(t) ==
  IF call[t].op = "insert"
  THEN /\ Goto(t, "link")
       /\ UNCHANGED <<lock, item, acc, call, stack>>
  ELSE /\ Answer(t, "no")
       /\ lock' = Released(t)
       /\ stack' = [stack EXCEPT ![t] = <<>>]
       /\ item' = [i \in Node |-> IF i = acc[t] THEN None ELSE item[i]]
       /\ acc' = [acc EXCEPT ![t] = None]
       /\ Goto(t, "return")

\* check_mask_race: was the mask changed, and does that move the key?
\* Mutant: it is not looked at.
SameBucketAssumed(h, m_old) == TRUE
SameBucket(h, m_old) == Masked(h, m_old) = Masked(h, mask)

CheckMaskRace(t) ==
  /\ pc[t] = "race"
  /\ m' = [m EXCEPT ![t] = mask]
  /\ IF SameBucket(call[t].key, m[t])
     THEN NoRace(t) /\ UNCHANGED probe
     ELSE /\ probe' = [probe EXCEPT ![t] = NextApplicable(call[t].key, m[t])]
          /\ Goto(t, "collision")
          /\ UNCHANGED <<lock, item, acc, call, stack>>
  /\ UNCHANGED <<table, list, nodeKey, n, tmp, grow>>

\* check_rehashing_collision: "check whether it is rehashing/ed".
CheckRehashingCollision(t) ==
  /\ pc[t] = "collision"
  /\ probe' = [probe EXCEPT ![t] = None]
  /\ IF list[probe[t]] = RehashReq
     THEN NoRace(t) /\ UNCHANGED m
     ELSE /\ lock' = Released(t)
          /\ Restart(t, m[t])
          /\ UNCHANGED <<item, acc, call>>
  /\ UNCHANGED <<table, list, nodeKey, n, tmp, grow>>

\* The number of buckets once segment k is there; the first segments come in
\* one block.
Buckets(k) == Pow2[IF k >= FirstBlock THEN k + 1 ELSE FirstBlock]

\* insert_new_node: the node is linked, and who finds the table full claims
\* the next segment.
InsertNewNode(t) ==
  /\ pc[t] = "link"
  /\ list' = [list EXCEPT ![Top(t)] = @ \cup {tmp[t]}]
  /\ n' = [n EXCEPT ![t] = tmp[t]]
  /\ tmp' = [tmp EXCEPT ![t] = None]
  /\ IF Cardinality(Linked) + 1 >= m[t] /\ Log2(m[t] + 1) \notin claimed
     THEN /\ Buckets(Log2(m[t] + 1)) <= MaxMask + 1  \* bound: MaxMask
          /\ claimed' = claimed \cup {Log2(m[t] + 1)}
          /\ grow' = [grow EXCEPT ![t] = Log2(m[t] + 1)]
     ELSE UNCHANGED <<claimed, grow>>
  /\ Answer(t, "yes")
  /\ Goto(t, "item")
  /\ UNCHANGED <<mask, lock, nodeKey, item, acc, m, stack, probe>>

\* result->try_acquire under the bucket's lock, which is then released.
TryAcquireItem(t) ==
  /\ pc[t] = "item" /\ item[n[t]] = None
  /\ item' = [item EXCEPT ![n[t]] = t]
  /\ acc' = [acc EXCEPT ![t] = n[t]]
  /\ n' = [n EXCEPT ![t] = None]
  /\ lock' = Released(t)
  /\ stack' = [stack EXCEPT ![t] = <<>>]
  /\ IF call[t].answer = "none" THEN Answer(t, IF call[t].op = "find" THEN "yes" ELSE "no") ELSE UNCHANGED call
  /\ Goto(t, IF grow[t] = 0 /\ tmp[t] = None THEN "return" ELSE "grow")
  /\ UNCHANGED <<table, list, nodeKey, m, tmp, probe, grow>>

\* "the wait takes really long, restart the operation".
\* Mutant: the bucket stays locked meanwhile.
GiveUpItemInside(t) == pc[t] = "item" /\ item[n[t]] # None /\ UNCHANGED vars

GiveUpItem(t) ==
  /\ pc[t] = "item" /\ item[n[t]] # None
  /\ lock' = Released(t)
  /\ n' = [n EXCEPT ![t] = None]
  /\ Restart(t, mask)
  /\ UNCHANGED <<table, list, nodeKey, item, acc, call, tmp, probe, grow>>

\* The mask once segment k is there.
\* Mutant: the number of buckets.
MaskWithBuckets(k) == Buckets(k)
MaskWith(k) == Buckets(k) - 1

\* check_growth: enable_segment publishes the new mask, an unused node goes.
EnableSegment(t) ==
  /\ pc[t] = "grow"
  /\ mask' = IF grow[t] = 0 THEN mask ELSE MaskWith(grow[t])
  /\ grow' = [grow EXCEPT ![t] = 0]
  /\ nodeKey' = [i \in Node |-> IF i = tmp[t] THEN None ELSE nodeKey[i]]
  /\ tmp' = [tmp EXCEPT ![t] = None]
  /\ Goto(t, "return")
  /\ UNCHANGED <<claimed, list, lock, item, acc, call, m, stack, n, probe>>

(***************************************************************************)
(* exclude.                                                                *)
(***************************************************************************)

\* "remove from container", if it is in this bucket.
ExcludeNode(t) ==
  /\ pc[t] = "search" /\ call[t].op = "erase"
  /\ acc[t] \in list[Top(t)]
  /\ list' = [list EXCEPT ![Top(t)] = @ \ {acc[t]}]
  /\ lock' = Released(t)
  /\ stack' = [stack EXCEPT ![t] = <<>>]
  /\ Answer(t, "yes")
  /\ Goto(t, "release")
  /\ UNCHANGED <<table, nodeKey, item, acc, m, n, tmp, probe, grow>>

\* "someone else was first", or the bucket was split.
ExcludeMisses(t) ==
  /\ pc[t] = "search" /\ call[t].op = "erase"
  /\ acc[t] \notin list[Top(t)]
  /\ Goto(t, "race")
  /\ UNCHANGED <<table, list, lock, nodeKey, item, acc, call, local>>

\* item_accessor.release(), then delete_node.
ReleaseItem(t) ==
  /\ pc[t] = "release"
  /\ item' = [item EXCEPT ![acc[t]] = None]
  /\ acc' = [acc EXCEPT ![t] = None]
  /\ n' = [n EXCEPT ![t] = acc[t]]
  /\ Goto(t, "delete")
  /\ UNCHANGED <<table, list, lock, nodeKey, call, m, stack, tmp, probe, grow>>

DeleteNode(t) ==
  /\ pc[t] = "delete"
  /\ nodeKey' = [nodeKey EXCEPT ![n[t]] = None]
  /\ n' = [n EXCEPT ![t] = None]
  /\ Goto(t, "return")
  /\ UNCHANGED <<table, list, lock, item, acc, call, m, stack, tmp, probe, grow>>

Return(t) ==
  /\ pc[t] = "return"
  /\ call' = [call EXCEPT ![t] = None]
  /\ m' = [m EXCEPT ![t] = 1]
  /\ Goto(t, "idle")
  /\ UNCHANGED <<table, list, lock, nodeKey, item, acc, stack, n, tmp, probe, grow>>

Step(t) ==
  \/ Look(t) \/ TryRehash(t) \/ TryFails(t) \/ Acquire(t)
  \/ Rehash(t) \/ MustUpgrade(t)
  \/ BeginUpgrade(t) \/ EndUpgrade(t) \/ YieldUpgrade(t) \/ Reacquire(t)
  \/ SearchHits(t) \/ SearchMisses(t)
  \/ CheckMaskRace(t) \/ CheckRehashingCollision(t)
  \/ InsertNewNode(t) \/ TryAcquireItem(t) \/ GiveUpItem(t) \/ EnableSegment(t)
  \/ ExcludeNode(t) \/ ExcludeMisses(t) \/ ReleaseItem(t) \/ DeleteNode(t)
  \/ Return(t)

Begin(t) == (\E op \in Ops, k \in Key : Lookup(t, op, k)) \/ Exclude(t)

Next == \E t \in Thread : Begin(t) \/ ReleaseAccessor(t) \/ Step(t)

Spec == Init /\ [][Next]_vars

(***************************************************************************)
(* What must hold.                                                         *)
(***************************************************************************)

\* No node is lost, doubled or touched after it was freed: a node is in the
\* list of one bucket at most, of the one a lookup of its key ends in; a key
\* has one node; what an accessor or a search refers to is allocated.
Ancestors(k) == {Masked(k, Pow2[i] - 1) : i \in 1..Log2(mask + 1)}

Home(k) == CHOOSE b \in Ancestors(k) :
             /\ list[b] # RehashReq
             /\ \A c \in Ancestors(k) : list[c] # RehashReq => c <= b

NodesAreHome ==
  (\A b \in Bucket : lock[b].writer = None) =>
    /\ \A b \in Bucket : list[b] # RehashReq =>
         \A i \in list[b] : nodeKey[i] # None /\ Home(nodeKey[i]) = b
    /\ \A i, j \in Linked : i # j => nodeKey[i] # nodeKey[j]

\* Who holds an accessor or waits for one under a bucket's lock refers to an
\* allocated node of his key, linked unless he is erasing it.
NoDanglingNode ==
  \A t \in Thread :
    /\ acc[t] # None => nodeKey[acc[t]] # None /\ item[acc[t]] = t
    /\ acc[t] # None /\ pc[t] # "release" => acc[t] \in Linked
    /\ pc[t] = "item" => nodeKey[n[t]] = call[t].key /\ n[t] \in list[Top(t)]

\* The lock of key k in the abstract map: who has its node, or just linked it.
HolderOf(k) ==
  LET nodes   == {i \in Linked : nodeKey[i] = k}
      holders == {t \in Thread : \/ acc[t] \in nodes
                                 \/ pc[t] = "item" /\ n[t] \in nodes /\ call[t].answer = "yes"}
  IN  IF holders = {} THEN None ELSE CHOOSE t \in holders : TRUE

LM == INSTANCE LockedMap
        WITH present <- {nodeKey[i] : i \in Linked},
             holder <- [k \in Key |-> HolderOf(k)]

\* Growing, rehashing and restarts are invisible: find, insert and erase act
\* at one moment each on a set of keys with one exclusive lock per key.
ImplementsLockedMap == LM!LSpec

(***************************************************************************)
(* Fairness: every thread gets on, and no accessor is kept for ever.  A    *)
(* writer that waits for a bucket gets it although readers come again and  *)
(* again: spin_rw_mutex has "writer-preference", a waiting writer's        *)
(* WRITER_PENDING keeps new readers out.                                   *)
(***************************************************************************)
Fairness ==
  \A t \in Thread :
    /\ WF_vars(Step(t) \/ ReleaseAccessor(t))
    /\ SF_vars(pc[t] = "lock" /\ call[t].op = "erase" /\ Acquire(t))

FairSpec == Spec /\ Fairness

Quiet == \A t \in Thread : pc[t] = "idle" /\ acc[t] = None

\* Threads never block each other, neither on bucket locks and upgrades nor on
\* an accessor that waits for one and is waited for: once no operations
\* begin, all that run come to their end.
OperationsEnd == []<><<\E t \in Thread : Begin(t)>>_vars \/ <>[]Quiet
=============================================================================
