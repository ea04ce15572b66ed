----------------------------- MODULE IndexBlock -----------------------------
(***************************************************************************)
(* IndexBlock.cpp: the index file in blocks of DRECs, written through a    *)
(* cache of blocks by the storage thread, which is its only user, and read *)
(* as a whole when the server starts.                                      *)
(*                                                                         *)
(* A DREC names an X and what its entry says (extent, length, CRC): one    *)
(* Value.  ICIDF.m_amountOfFreeSpace is counted in DRECs: ICIDFOffset is a *)
(* multiple of their size, 186 * 22.  A block is read and written whole.   *)
(***************************************************************************)
EXTENDS Naturals, Sequences, FiniteSets

CONSTANTS
  Key,              \* the X's
  Value,            \* what a DREC says of an X
  RecordsPerBlock,  \* DRECs of an index block, 186 in the code
  CacheBlocks,      \* IndexBlockCacheSize / INDEX_BLOCK_SIZE
  WrapBlocks,       \* 2^20: INDEX_BLOCK_SIZE times a uint32 is taken % 2^32
  None,             \* no slot, no DREC, NULL
  MaxBlocks,        \* bound: blocks of the index file
  MaxDeleted,       \* bound: deletions that wait for the storage thread
  MaxOrphans        \* bound: DRECs that belong to no entry after a crash

ASSUME IndexBlockAssumption ==
  /\ RecordsPerBlock \in Nat \ {0, 1} /\ CacheBlocks \in Nat /\ WrapBlocks \in Nat \ {0}
  /\ MaxBlocks \in Nat /\ MaxDeleted \in Nat /\ MaxOrphans \in Nat
  /\ None \notin Nat /\ None \notin Nat \X Nat /\ None \notin [key : Key, data : Value]

LRU == INSTANCE LRUCache
Sets == INSTANCE FiniteSetsExt
Seqs == INSTANCE SequencesExt
Fold == INSTANCE Folds

Offset == 0..(RecordsPerBlock - 1)
Slot   == (0..(MaxBlocks - 1)) \X Offset

VARIABLES
  entries,     \* the X's in m_dataIndexes
  slot,        \* m_IB_blockNumber and m_IB_recordOffset of their RecordIndex
  deleted,     \* slots in the copies of RecordIndexes that wait in DiskWriter
  file,        \* the index file: position / INDEX_BLOCK_SIZE to block
  blockCount,  \* m_blockCount
  freeBlocks,  \* m_freeBlocks
  diskBlocks,  \* m_rDiskBlockCache
  lru,         \* m_pLRUCache
  recent       \* history: the cached blocks in the order of their last use

memory == <<freeBlocks, diskBlocks, lru, recent>>
vars == <<entries, slot, deleted, file, blockCount, memory>>

\* The slots that hold a DREC.
Used == {s \in (DOMAIN file) \X Offset : file[s[1]].drec[s[2]] # None}

\* The DRECs nothing in memory refers to.
Orphans == Used \ (deleted \cup {slot[x] : x \in entries})

Init ==
  /\ entries = {}
  /\ slot = [x \in Key |-> None]
  /\ deleted = {}
  /\ file = <<>>
  /\ blockCount = 0
  /\ freeBlocks = {}
  /\ diskBlocks = <<>>
  /\ lru = LRU!EmptyChain
  /\ recent = <<>>

(***************************************************************************)
(* Blocks and their cache.                                                 *)
(***************************************************************************)

\* Mutant: as if the product were of 13 bits.
DiskPositionNarrow(b) == b % 2
DiskPosition(b) == b % WrapBlocks

\* The offsets of empty DRECs (IsEmptyDREC), and the first one.
\* Mutant: only the key is looked at, and an X may be 0.
EmptyOffsetsByKey(m) ==
  {o \in Offset : m.drec[o] = None \/ m.drec[o].key = CHOOSE x \in Key : TRUE}
EmptyOffsets(m) == {o \in Offset : m.drec[o] = None}
GetEmptyDREC(m) == Sets!Min(EmptyOffsets(m))

\* A sequence without b, which it names once at most.
Without(s, b) ==
  IF Seqs!Contains(s, b) THEN Seqs!RemoveAt(s, CHOOSE i \in 1..Len(s) : s[i] = b) ELSE s

\* The function f with m at b.
With(f, b, m) == [a \in DOMAIN f \cup {b} |-> IF a = b THEN m ELSE f[a]]

\* The cache c with b as the block used last.
Use(c, b) ==
  [blocks |-> c.blocks,
   lru    |-> LRU!Put(c.lru, b),
   recent |-> Append(Without(c.recent, b), b)]

\* The cache c without the block its LRU cache names as the oldest.
\* Mutant: LRUCache::remove is not called.
FreeOldestKeepsLRU(c) ==
  [c EXCEPT !.blocks = [b \in DOMAIN @ \ {LRU!Oldest(c.lru)} |-> @[b]],
            !.recent = Without(@, LRU!Oldest(c.lru))]

FreeOldest(c) ==
  [blocks |-> [b \in DOMAIN c.blocks \ {LRU!Oldest(c.lru)} |-> c.blocks[b]],
   lru    |-> LRU!Remove(c.lru, LRU!Oldest(c.lru)),
   recent |-> Without(c.recent, LRU!Oldest(c.lru))]

\* A miss frees one block when the cache is over its size, and no more.
\* Mutant: it never does.
RoomForBlockNever(c) == c
RoomForBlock(c) ==
  IF Cardinality(DOMAIN c.blocks) > CacheBlocks /\ LRU!Oldest(c.lru) # None
  THEN FreeOldest(c) ELSE c

Cached(c, b, m) == Use([c EXCEPT !.blocks = With(@, b, m)], b)

\* The cache after GetCachedDiskBlock(b).
GetCachedDiskBlock(c, b) ==
  IF b \in DOMAIN c.blocks THEN Use(c, b)
  ELSE Cached(RoomForBlock(c), b, file[DiskPosition(b)])

Cache == [blocks |-> diskBlocks, lru |-> lru, recent |-> recent]

CacheBecomes(c) == diskBlocks' = c.blocks /\ lru' = c.lru /\ recent' = c.recent

\* Block b becomes m in the cache c and in the file.
WriteBlock(c, b, m) ==
  /\ CacheBecomes([c EXCEPT !.blocks[b] = m])
  /\ file' = [file EXCEPT ![DiskPosition(b)] = m]

(***************************************************************************)
(* The entries, as Storage and DiskWriter change them.                     *)
(***************************************************************************)

\* m_dataIndexes.insert: a RecordIndex without a place in the index file.
NewEntry(x) ==
  /\ x \notin entries
  /\ entries' = entries \cup {x}
  /\ UNCHANGED <<slot, deleted, file, blockCount, memory>>

\* DeleteData(x): the RecordIndex is copied to the delete queue.  EraseRecord
\* returns at once for a copy without a DREC, so it is not kept here.
DeleteEntry(x) ==
  /\ x \in entries
  /\ Cardinality(deleted) < MaxDeleted
  /\ entries' = entries \ {x}
  /\ slot' = [slot EXCEPT ![x] = None]
  /\ deleted' = deleted \cup ({slot[x]} \ {None})
  /\ UNCHANGED <<file, blockCount, memory>>

(***************************************************************************)
(* WriteRecordIndexToDisk, called by Process for an entry.                 *)
(***************************************************************************)

Drec(x, v) == [key |-> x, data |-> v]

\* "x is existing rewrite".
RewriteRecord(x, v) ==
  /\ x \in entries /\ slot[x] # None
  /\ \E b \in {slot[x][1]}, c \in {GetCachedDiskBlock(Cache, slot[x][1])} :
       WriteBlock(c, b, [c.blocks[b] EXCEPT !.drec[slot[x][2]] = Drec(x, v)])
  /\ UNCHANGED <<entries, slot, deleted, blockCount, freeBlocks>>

\* Blocks of m_freeBlocks the "dirty fix" passes by and takes out of the set:
\* those before the first one with an empty DREC.
PassedBy ==
  {b \in freeBlocks : \A a \in 0..b : a \in freeBlocks =>
                        EmptyOffsets(file[DiskPosition(a)]) = {}}

\* The cache after they were looked at, in the order of their numbers.
PassBy ==
  Fold!MapThenFoldSet(LAMBDA b, c : GetCachedDiskBlock(c, b), Cache,
                      LAMBDA b : b, Sets!Max, PassedBy)

\* Block m with a DREC more.
WithRecord(m, x, v) ==
  [free |-> m.free - 1, drec |-> [m.drec EXCEPT ![GetEmptyDREC(m)] = Drec(x, v)]]

\* Does block m stay in m_freeBlocks?
HasRoom(m) == m.free >= 1

\* "write to block with free space".
WriteToFreeBlock(x, v) ==
  /\ x \in entries /\ slot[x] = None
  /\ freeBlocks # PassedBy
  /\ \E b \in {Sets!Min(freeBlocks \ PassedBy)} :
     \E c \in {GetCachedDiskBlock(PassBy, b)} :
     \E m \in {c.blocks[b]} :
       /\ WriteBlock(c, b, WithRecord(m, x, v))
       /\ slot' = [slot EXCEPT ![x] = <<b, GetEmptyDREC(m)>>]
       /\ freeBlocks' = IF HasRoom(WithRecord(m, x, v)) THEN freeBlocks \ PassedBy
                        ELSE freeBlocks \ (PassedBy \cup {b})
  /\ UNCHANGED <<entries, deleted, blockCount>>

\* "we have no empty block": a new one, at the end of the file.
EmptyBlock == [free |-> RecordsPerBlock, drec |-> [o \in Offset |-> None]]

WriteToNewBlock(x, v) ==
  /\ x \in entries /\ slot[x] = None
  /\ freeBlocks = PassedBy
  /\ blockCount < MaxBlocks
  /\ \E m \in {WithRecord(EmptyBlock, x, v)} :
       /\ CacheBecomes(Cached(PassBy, blockCount, m))
       /\ file' = With(file, Cardinality(DOMAIN file), m)
  /\ slot' = [slot EXCEPT ![x] = <<blockCount, 0>>]
  /\ freeBlocks' = {blockCount}
  /\ blockCount' = blockCount + 1
  /\ UNCHANGED <<entries, deleted>>

(***************************************************************************)
(* EraseRecord, called for a deletion that waited in DiskWriter.           *)
(***************************************************************************)

\* Mutant: the free space of the block is not counted up.
WithoutRecordUncounted(m, o) == [m EXCEPT !.drec[o] = None]
WithoutRecord(m, o) == [free |-> m.free + 1, drec |-> [m.drec EXCEPT ![o] = None]]

EraseRecord(s) ==
  /\ s \in deleted
  /\ \E b \in {s[1]}, c \in {GetCachedDiskBlock(Cache, s[1])} :
       WriteBlock(c, b, WithoutRecord(c.blocks[b], s[2]))
  /\ freeBlocks' = freeBlocks \cup {s[1]}
  /\ deleted' = deleted \ {s}
  /\ UNCHANGED <<entries, slot, blockCount>>

(***************************************************************************)
(* The next start, after a clean shutdown or a crash: IndexBlock::Init.    *)
(* The blocks are parsed in parallel and insert keeps the first entry of   *)
(* an X, so any of its DRECs may win.                                      *)
(***************************************************************************)
RecordsOf(x) == {s \in Used : file[s[1]].drec[s[2]].key = x}

FillIndex ==
  /\ \E found \in {[x \in Key |-> RecordsOf(x)]} :
       /\ entries' = {x \in Key : found[x] # {}}
       /\ slot' \in {f \in [Key -> UNION {found[x] : x \in Key} \cup {None}] :
                       \A x \in Key : IF found[x] = {} THEN f[x] = None ELSE f[x] \in found[x]}
  /\ freeBlocks' = {b \in DOMAIN file : HasRoom(file[b])}

Restart ==
  /\ FillIndex
  /\ deleted' = {}
  /\ blockCount' = Cardinality(DOMAIN file)
  /\ diskBlocks' = <<>> /\ lru' = LRU!EmptyChain /\ recent' = <<>>
  /\ UNCHANGED file
  /\ Cardinality(Orphans') <= MaxOrphans

Next ==
  \/ \E x \in Key :
       \/ NewEntry(x)
       \/ DeleteEntry(x)
       \/ \E v \in Value :
            RewriteRecord(x, v) \/ WriteToFreeBlock(x, v) \/ WriteToNewBlock(x, v)
  \/ \E s \in deleted : EraseRecord(s)
  \/ Restart

Spec == Init /\ [][Next]_vars

(***************************************************************************)
(* What must hold.                                                         *)
(***************************************************************************)

\* The block cache is the file: every cached block is what a read of its own
\* place would bring, so a block freed without a write loses nothing and
\* EraseRecord and WriteRecordIndexToDisk never change an outdated copy.
CacheIsFile ==
  \A b \in DOMAIN diskBlocks : b \in DOMAIN file /\ diskBlocks[b] = file[b]

\* "must be in block marked with freespace": the free space counted in each
\* block is its number of empty DRECs, and m_freeBlocks names exactly the
\* blocks that have one, so GetEmptyDREC never returns NULL and no DREC stays
\* empty while the file grows.
FreeBlocksHaveRoom ==
  /\ \A b \in DOMAIN file : file[b].free = Cardinality(EmptyOffsets(file[b]))
  /\ freeBlocks = {b \in DOMAIN file : EmptyOffsets(file[b]) # {}}
  /\ DOMAIN file = 0..(blockCount - 1)

\* The linked list of the LRU cache and its map hold the cached blocks, in the
\* order of their last use from either end: what GetCachedDiskBlock frees is
\* the block used longest ago, and nothing is cached that it cannot free.
ChainIsRecency ==
  /\ LRU!IsChain(lru, recent)
  /\ LRU!CachedKeys(lru) = DOMAIN diskBlocks
  /\ Len(recent) = Cardinality(DOMAIN diskBlocks)

\* Once the cache is over IndexBlockCacheSize only a new block of the index
\* file makes it grow: a miss frees as much as it reads.
GrowsOnlyByNewBlocks ==
  [][Cardinality(DOMAIN diskBlocks') > Cardinality(DOMAIN diskBlocks) =>
       \/ Cardinality(DOMAIN diskBlocks) <= CacheBlocks
       \/ blockCount' > blockCount]_vars

\* The DRECs of the file by the slots they are in.
Slots == [s \in Used |-> file[s[1]].drec[s[2]]]

SF == INSTANCE SlotFile WITH slots <- Slots, at <- slot

\* Blocks, caches, free counters and crashes implement the slots Storage
\* counts on: the first DREC of an entry goes to a slot that was empty, a
\* rewrite and an erasure hit that slot, a start finds the DREC of every X.
ImplementsSlotFile == SF!FSpec
=============================================================================
