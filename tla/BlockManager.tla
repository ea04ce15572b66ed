---------------------------- MODULE BlockManager ----------------------------
(***************************************************************************)
(* The records of one X: BlockManager.c over Block.c, with the branches of *)
(* Storage::WriteData that decide whether and how they go back to disk.    *)
(* Every operation runs under the accessor of X, so each is one step; the  *)
(* storage thread's part is one step per flush.                            *)
(***************************************************************************)
EXTENDS Block, FiniteSets

CONSTANTS
  RecordKey,                \* the Y's: timestamps, written as naturals
  Rec,                      \* the records clients write
  Base,                     \* values of a byte: a Y has two of them here
  Limits,                   \* what RecordLimit may be in the configuration; one
                            \* no X reaches stands for EnableRecordLimit = "no"
  DefaultLimit,             \* what init_config_default_values makes it, 1000
  LowerLimit,               \* may a reload of the configuration lower it?
  DefragAfterRecordDelete,  \* what g_cfg.DefragAfterRecordDelete may be
  Packings                  \* what RecordSizeForCompression and
                            \* GzipCompressionLevel may be: each names the
                            \* records it makes shorter, with their gzip

ASSUME BlockManagerAssumption ==
  /\ Base \in Nat \ {0}
  /\ RecordKey \subseteq 0..(Base * Base - 1)
  /\ Rec \subseteq Seq(Nat)
  /\ Limits \cup {DefaultLimit} \subseteq Nat \ {0}
  /\ LowerLimit \in BOOLEAN
  /\ DefragAfterRecordDelete \subseteq Nat
  /\ \A z \in Packings : \A r \in DOMAIN z :
       /\ z[r] \in Seq(Nat) /\ Len(z[r]) < Len(r)
       /\ z[r] \in DOMAIN Gunzip /\ Gunzip[z[r]] = r

VARIABLES
  blocks,      \* the array of blocks
  blockIndex,  \* the AVL tree: a function from the Y's to their block number
  limit,       \* g_cfg.RecordLimit
  packing,     \* g_cfg.RecordSizeForCompression and GzipCompressionLevel
  queued,      \* does X wait for the storage thread (eRIF_InDiskWriteQueue)?
  relocate,    \* eRIF_RelocateBlocks
  disk,        \* the blocks in the extent of X; <<>> when it has none
  op           \* the last operation of a client and how it ended

vars == <<blocks, blockIndex, limit, packing, queued, relocate, disk, op>>

Sets == INSTANCE FiniteSetsExt
Fn   == INSTANCE Functions

(***************************************************************************)
(* BlockManager.c.  A blman is [blocks, blockIndex].                       *)
(***************************************************************************)

\* blman_create(NULL, 0), and the first lines of blman_defragment_data.
EmptyBlman == [blocks |-> <<InitBlock>>, blockIndex |-> <<>>]

\* The Y's in the RDFs of a block.
KeysOf(b) == {b.rdfs[i].key : i \in 1..NumRDFs(b)}

\* blman_create(blocks, n): a Y met twice keeps its first node.
LoadedBlman(bs) ==
  [blocks |-> bs,
   blockIndex |-> [k \in UNION {KeysOf(bs[i]) : i \in DOMAIN bs} |->
                     Sets!Min({i \in DOMAIN bs : k \in KeysOf(bs[i])})]]

\* blockindex_cmp: memcmp of two little-endian integers looks at the low
\* byte first.
Before(a, b) ==
  \/ a % Base < b % Base
  \/ a % Base = b % Base /\ a \div Base < b \div Base

\* blman_delete_record_by_node.
DeleteNode(m, k) ==
  [blocks |-> [m.blocks EXCEPT ![m.blockIndex[k]] = DeleteRecordByKey(@, k)],
   blockIndex |-> Fn!Restrict(m.blockIndex, DOMAIN m.blockIndex \ {k})]

\* Phase 1 of blman_write_record: an update in place, or the node goes; u is
\* what Block_UpdateRecord made of the block.
\* Mutant: the node stays.
UpdatedKeepsNode(m, k, u) ==
  [done |-> u.ok,
   blman |-> [blocks |-> [m.blocks EXCEPT ![m.blockIndex[k]] = u.block],
              blockIndex |-> m.blockIndex]]

Updated(m, k, u) ==
  [done |-> u.ok,
   blman |-> [blocks |-> [m.blocks EXCEPT ![m.blockIndex[k]] = u.block],
              blockIndex |-> IF u.ok THEN m.blockIndex
                             ELSE Fn!Restrict(m.blockIndex, DOMAIN m.blockIndex \ {k})]]

UpdateInPlace(m, k, r) ==
  IF k \notin DOMAIN m.blockIndex THEN [done |-> FALSE, blman |-> m]
  ELSE Updated(m, k, UpdateRecord(m.blocks[m.blockIndex[k]], k, r))

\* avl_t_first.
FirstNode(K) == CHOOSE v \in K : \A u \in K : ~Before(u, v)

\* A turn of the loop of phase 2: the first node goes, unless it is newer than
\* the record to write.
\* Mutant: "newer" is not checked.
RemoveFirstUnchecked(made, k) ==
  [blman |-> DeleteNode(made.blman, FirstNode(DOMAIN made.blman.blockIndex)),
   removed |-> made.removed + 1, oldRecord |-> FALSE]

RemoveFirst(made, k) ==
  LET first == FirstNode(DOMAIN made.blman.blockIndex) IN
  IF made.oldRecord \/ k < first THEN [made EXCEPT !.oldRecord = TRUE]
  ELSE [blman |-> DeleteNode(made.blman, first),
        removed |-> made.removed + 1, oldRecord |-> FALSE]

\* Phase 2: until count is below the limit.
RoomMade(m, k, lim) ==
  LET count    == Cardinality(DOMAIN m.blockIndex)
      after[i \in 0..count] ==
        IF i = 0 THEN [blman |-> m, removed |-> 0, oldRecord |-> FALSE]
        ELSE RemoveFirst(after[i - 1], k)
  IN  after[IF count >= lim THEN count - lim + 1 ELSE 0]

\* Phase 3: the last block with room, else a new one.
Append3(m, k, r) ==
  LET room == {i \in DOMAIN m.blocks : Fits(m.blocks[i], r)}
      bs   == IF room = {} THEN Append(m.blocks, InitBlock) ELSE m.blocks
      i    == IF room = {} THEN Len(bs) ELSE Sets!Max(room)
  IN  [blocks |-> [bs EXCEPT ![i] = WriteRecord(@, k, r)],
       blockIndex |-> [y \in DOMAIN m.blockIndex \cup {k} |->
                         IF y \in DOMAIN m.blockIndex THEN m.blockIndex[y] ELSE i]]

\* The phases together: the new blman and what the status tells the caller.
Written(m, new, removed, oldRecord) ==
  [blman |-> new, removed |-> removed, oldRecord |-> oldRecord,
   reallocated |-> Len(new.blocks) > Len(m.blocks)]

Insert(m, made, k, r) ==
  Written(m, IF made.oldRecord THEN made.blman ELSE Append3(made.blman, k, r),
          made.removed, made.oldRecord)

UpdateOrInsert(m, one, k, r, lim) ==
  IF one.done THEN Written(m, one.blman, 0, FALSE)
  ELSE Insert(m, RoomMade(one.blman, k, lim), k, r)

StoreRecord(m, k, r, lim) == UpdateOrInsert(m, UpdateInPlace(m, k, r), k, r, lim)

\* Phase 0: gzip is stored instead when it is shorter.
Packed(r) == IF r \in DOMAIN packing THEN packing[r] ELSE r

\* The size check, of the record as the client sent it or as it was read.
RecordTooBig(r) == Len(r) > MaxRecordSize

\* blman_write_record of a record that passes it.
blman_write_record(m, k, r, lim) == StoreRecord(m, k, Packed(r), lim)

\* All records of a block are written again, whatever blman_write_record
\* returns: the record that is too big once decompressed is not there any more.
Rewritten(m, e, lim) ==
  IF RecordTooBig(e.rec) THEN m ELSE blman_write_record(m, e.key, e.rec, lim).blman

WriteAll(m, es, lim) ==
  LET after[i \in 0..Len(es)] == IF i = 0 THEN m ELSE Rewritten(after[i - 1], es[i], lim)
  IN  after[Len(es)]

\* The records of all blocks of m are written to "to".
WriteBlocks(to, m, lim) ==
  LET after[i \in 0..Len(m.blocks)] ==
        IF i = 0 THEN to ELSE WriteAll(after[i - 1], GetRecords(m.blocks[i]), lim)
  IN  after[Len(m.blocks)]

\* blman_defragment_data: into an empty manager.
\* Mutant: the old blocks are kept and written to.
blman_defragment_dataKept(m, lim) ==
  IF m.blockIndex = <<>> THEN m
  ELSE WriteBlocks([blocks |-> m.blocks, blockIndex |-> <<>>], m, lim)

blman_defragment_data(m, lim) ==
  IF m.blockIndex = <<>> THEN m ELSE WriteBlocks(EmptyBlman, m, lim)

(***************************************************************************)
(* The operations on X.                                                    *)
(***************************************************************************)

Blman == [blocks |-> blocks, blockIndex |-> blockIndex]

Becomes(m) == \E new \in {m} : blocks' = new.blocks /\ blockIndex' = new.blockIndex

\* The entry Storage::WriteData inserts, before its first record.
Init ==
  /\ blocks = EmptyBlman.blocks
  /\ blockIndex = EmptyBlman.blockIndex
  /\ limit \in Limits /\ packing \in Packings
  /\ queued = TRUE /\ relocate = TRUE
  /\ disk = <<>>
  /\ op = <<"internal">>

\* eBMS_FailRecordTooBig.
WriteTooBig(k, r) ==
  /\ RecordTooBig(r)
  /\ op' = <<"write", k, r, FALSE>>
  /\ UNCHANGED <<blocks, blockIndex, limit, packing, queued, relocate, disk>>

\* eBMS_OldRecord: whatever blman_write_record did, X is not queued.
WriteOld(k, r) ==
  \E w \in {blman_write_record(Blman, k, r, limit)} :
    /\ ~RecordTooBig(r)
    /\ w.oldRecord
    /\ Becomes(w.blman)
    /\ op' = <<"write", k, r, FALSE>>
    /\ UNCHANGED <<limit, packing, queued, relocate, disk>>

\* eBMS_NeedDefrag.
NeedsDefrag(w, after) == w.removed > 0 /\ w.removed >= after

\* Must the blocks move to another extent?  Mutant: not after NeedDefrag.
RelocatesGrown(w, after) == w.reallocated
Relocates(w, after) == w.reallocated \/ NeedsDefrag(w, after)

\* The other branches of WriteData.
WriteData(k, r) ==
  \E after \in DefragAfterRecordDelete, w \in {blman_write_record(Blman, k, r, limit)} :
    /\ ~RecordTooBig(r)
    /\ ~w.oldRecord
    /\ Becomes(IF NeedsDefrag(w, after) THEN blman_defragment_data(w.blman, limit)
               ELSE w.blman)
    /\ relocate' = (relocate \/ Relocates(w, after))
    /\ queued' = TRUE
    /\ op' = <<"write", k, r, TRUE>>
    /\ UNCHANGED <<limit, packing, disk>>

\* DeleteData(x, y); X is queued whether y was there or not.
DeleteData(k) ==
  /\ Becomes(IF k \in DOMAIN blockIndex THEN DeleteNode(Blman, k) ELSE Blman)
  /\ queued' = TRUE
  /\ op' = <<"delete", k>>
  /\ UNCHANGED <<limit, packing, relocate, disk>>

\* DefragmentData(x).
DefragmentData ==
  /\ Becomes(blman_defragment_data(Blman, limit))
  /\ queued' = TRUE /\ relocate' = TRUE
  /\ op' = <<"defragment">>
  /\ UNCHANGED <<limit, packing, disk>>

Clean(b) == [b EXCEPT !.dirty = FALSE]
ClearDirtyFlags == blocks' = [i \in DOMAIN blocks |-> Clean(blocks[i])]

\* The storage thread, with and without eRIF_RelocateBlocks: all blocks into
\* a new extent, or the dirty ones over the old.
WriteDataWithRelocateFlag ==
  /\ queued /\ relocate
  /\ ClearDirtyFlags
  /\ disk' = blocks'
  /\ queued' = FALSE /\ relocate' = FALSE
  /\ op' = <<"internal">>
  /\ UNCHANGED <<blockIndex, limit, packing>>

WriteDataWithoutRelocateFlag ==
  /\ queued /\ ~relocate
  /\ ClearDirtyFlags
  /\ disk' = [i \in DOMAIN disk \cup DOMAIN blocks |->
                IF i \in DOMAIN blocks /\ blocks[i].dirty THEN Clean(blocks[i])
                ELSE IF i \in DOMAIN disk THEN disk[i] ELSE Clean(blocks[i])]
  /\ queued' = FALSE
  /\ op' = <<"internal">>
  /\ UNCHANGED <<blockIndex, limit, packing, relocate>>

\* CheckMemory frees the blocks, CheckBlockManager reads them back.
EvictAndLoad ==
  /\ ~queued
  /\ Becomes(LoadedBlman(disk))
  /\ op' = <<"internal">>
  /\ UNCHANGED <<limit, packing, queued, relocate, disk>>

\* A reload of the configuration: LoadConfig sets the default values in g_cfg,
\* which everybody reads meanwhile, and then each value that is configured.
SetLimit(new) ==
  /\ LowerLimit \/ limit <= new
  /\ limit' = new
  /\ op' = <<"internal">>
  /\ UNCHANGED <<blocks, blockIndex, packing, queued, relocate, disk>>

LoadDefaults   == SetLimit(DefaultLimit)
LoadConfigured == \E new \in Limits : SetLimit(new)

\* It may also change what is compressed, and how well.
LoadPacking ==
  /\ packing' \in Packings
  /\ op' = <<"internal">>
  /\ UNCHANGED <<blocks, blockIndex, limit, queued, relocate, disk>>

Next ==
  \/ \E k \in RecordKey, r \in Rec : WriteTooBig(k, r) \/ WriteOld(k, r) \/ WriteData(k, r)
  \/ \E k \in RecordKey : DeleteData(k)
  \/ DefragmentData
  \/ WriteDataWithRelocateFlag
  \/ WriteDataWithoutRelocateFlag
  \/ EvictAndLoad
  \/ LoadDefaults
  \/ LoadConfigured
  \/ LoadPacking

Spec == Init /\ [][Next]_vars

(***************************************************************************)
(* What must hold.                                                         *)
(***************************************************************************)

\* The counters of every block agree with its contents: free space, data and
\* RDFs fill it exactly and never overlap.
BlocksWellFormed == \A i \in DOMAIN blocks : WellFormed(blocks[i])

\* The AVL tree and the blocks agree: a node for every RDF and no other, each
\* naming the block of its record; no Y is in two places.
IndexMatchesBlocks ==
  /\ \A k \in DOMAIN blockIndex : k \in KeysOf(blocks[blockIndex[k]])
  /\ \A i \in DOMAIN blocks : \A n \in 1..NumRDFs(blocks[i]) :
       /\ blocks[i].rdfs[n].key \in DOMAIN blockIndex
       /\ blockIndex[blocks[i].rdfs[n].key] = i
       /\ \A o \in 1..NumRDFs(blocks[i]) \ {n} :
            blocks[i].rdfs[n].key # blocks[i].rdfs[o].key

\* WriteDataWithoutRelocateFlag never writes past the extent of X: without
\* eRIF_RelocateBlocks there are as many blocks as on disk.
InPlaceFits == ~relocate => Len(blocks) = Len(disk)

\* "cannot delete this record by MemoryWatcher if is wating in disk queue":
\* blocks that do not wait for the storage thread are on disk as they are in
\* memory, so they can be freed and read back.
UnqueuedIsOnDisk == ~queued => disk = [i \in DOMAIN blocks |-> Clean(blocks[i])]

\* Is the n-th record of a block longer when it is written again?  It was
\* compressed under another configuration, or by the client.
RepackedLonger(b, n) ==
  LET r == GetRecords(b)[n].rec
  IN  ~RecordTooBig(r) /\ Len(Packed(r)) > b.rdfs[n].len

\* A defragmentation makes an X bigger only when a record of it is longer when
\* it is written again, never because of the order of the records or of the
\* holes in the blocks.  DefragmentDataInternal takes it that it never does:
\* both of its branches lower m_memoryUsed by the difference of the sizes.
DefragmentGrowsOnlyByRepacking ==
  Len(blman_defragment_data(Blman, limit).blocks) > Len(blocks) =>
    \E i \in DOMAIN blocks : \E n \in 1..NumRDFs(blocks[i]) : RepackedLonger(blocks[i], n)

\* What clients find under the Y's of this X.
Records == [k \in DOMAIN blockIndex |-> GetRecord(blocks[blockIndex[k]], k)]

LM == INSTANCE LimitedMap
        WITH records <- Records, Unpack <- Unpacked, TooBig <- RecordTooBig,
             Limits <- Limits \cup {DefaultLimit}

\* Blocks, tree, flushes and reloads implement a map with a record limit: a
\* record never changes, moves to another Y, vanishes or comes back except by
\* the operation that is meant to do so.
ImplementsMap == LM!MSpec

\* "delete 1st one (the oldest)": a write that makes room removes the records
\* with the smallest timestamps.
RemovesOldest ==
  [][\A k \in RecordKey, r \in Rec :
       (op' = <<"write", k, r, TRUE>> /\ op' # op) =>
          \A gone \in DOMAIN blockIndex \ DOMAIN blockIndex',
             kept \in DOMAIN blockIndex' \ {k} : gone < kept]_vars
=============================================================================
