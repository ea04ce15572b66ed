# TransDB: specifications, model checking and proofs

TransDB is a server for records addressed by two 64-bit numbers: X (say, a user)
and Y (a timestamp). All records of one X live in one run of 4 kB blocks of a
data file; an index file holds one entry, a DREC, per X. Clients speak a binary
protocol; worker threads execute their requests in memory; one storage thread
writes changed X's back to the two files.

This directory models the parts of the server where a mistake would lose,
mix up or resurrect data, or stop the server: TLA+ modules, TLC runs on small
instances, and theorems checked by TLAPS. `PROJECT.json` lists components, runs,
mutants, theorems, findings and hazards, and maps each definition to its source
lines.

## 1. The system

### 1.1 Components, their state and their operations

| Component (src/src/console) | State | Operations | Module |
|---|---|---|---|
| **Storage** (Storage.cpp) | `m_dataIndexes`: X to RecordIndex (block manager, place on disk, flags, CRC), in a concurrent hash map with one exclusive lock (accessor) per X; `m_memoryUsed` | WriteData, ReadData, DeleteData(x), DeleteData(x,y), GetAllX/Y, DefragmentData, CheckMemory (eviction), CheckBlockManager (reading back), Init, ~Storage, run | `Storage`, `StorageRestart`; per-record branches of WriteData in `BlockManager` |
| **DiskWriter** (DiskWriter.cpp) | `m_pQueue` (X's to write), `m_pRIDelQueue` (RecordIndexes to erase), `m_rFreeSpace`, the data file, `m_rDiskWriteTasks` (requests left to the storage thread) | Queue, QueueIndexDeletetion, Remove, Process, AddFreeSpace, GetFreeSpacePos, ReallocDataFile, DefragmentFreeSpace, QueueTask, ProcessTasks | `Storage` (extents as units), `FreeSpace` (with lengths), `Sockets` (tasks) |
| **IndexBlock** (IndexBlock.cpp) | index file: blocks of DRECs; blocks with free DRECs (`m_freeBlocks`); block cache with an LRU chain | WriteRecordIndexToDisk, EraseRecord, Init/FillIndex, LoadFreeSpaceFromIndexDef | `IndexBlock`, abstract: `SlotFile` (a DREC is a slot in `Storage` and `StorageRestart`); the free map in `FreeSpace` |
| **BlockManager** (BlockManager.c) | array of blocks and AVL tree from Y to block number, for one X | create, write, read, delete, defragment, dirty flags | `BlockManager`, abstract: `LimitedMap` |
| **Block** (Block.c) | 4 kB: records from the front, record descriptors (RDF) from the back | init, write, update in place, delete, get | `Block` |
| **LRUCache** (LRUCache.cpp) | a doubly linked list with a hash map: one per worker (X's), one in IndexBlock (blocks) | put, remove, get | `LRUCache`, used by `IndexBlock`; a set per worker in `Storage` |
| **tbb::concurrent_hash_map** (src/tbb, vendored) | the map behind `m_dataIndexes`: buckets and nodes with a lock each, a mask that grows | find, insert and erase with an accessor; growing, lazy rehashing | `ConcurrentHashMap`, abstract: `LockedMap` |
| **ClientSocket, ClientSocketHolder** | per socket: receive buffer, ring buffer for output, queue of packets; map of all sockets and its lock | OnRead, OutPacket, ProcessQueue, SendPing, pong; SendPacket, Update | `Sockets` |
| **ClientSocketWorker(Task)** | two bounded task queues (read, write), worker threads | QueuePacket, get, one handler per opcode, reply or leave the reply to the storage thread | `Sockets` (queues, replies), `Storage` (what a handler does) |
| **Configuration** (CfgDefines, ConfigWatcher) | `g_cfg`, read by all threads without a lock | LoadConfig at start and on a change of the file: defaults first, then each value | RecordLimit and compression in `BlockManager` |
| **Start/shutdown** (main.cpp, Launcher.cpp) | `g_stopEvent` | join workers, ~Storage, next Init | `StorageRestart` |
| PythonInterface, StatGenerator, Windows service, load tester, web interface | - | - | not modelled: see 7 |

### 1.2 Interactions

- Network thread -> task queues (bounded, `put` blocks) -> workers -> Storage
  under the accessor of X -> reply through ClientSocketHolder under its lock.
- Workers -> DiskWriter: `Queue` (flag plus entry), `QueueIndexDeletetion`,
  `Remove`; each has its own small lock, held for one call.
- Workers -> the task list of DiskWriter: requests to dump or defragment the free
  space. The storage thread takes them in `ProcessTasks` and replies itself, or
  starts a thread that replies with the dump.
- Storage thread -> `Process` every `DiskFlushCoef` seconds: swaps the delete
  queue and erases, swaps the write queue and writes item by item, each under
  the accessor of its X. It also rebuilds the free map (DefragmentFreeSpace).
  It is the only user of IndexBlock once the server runs.
- Workers -> eviction after every task: an X is freed when it is the oldest of
  the worker's own LRU cache and does not wait for the storage thread.
- Main thread -> `Update` every 500 ms: pong timeouts, pings, queued packets.
- Configuration thread -> `g_cfg`, at any moment.

### 1.3 What is hard

- **Flag, queue, memory and files of one X** change in different steps of
  different threads. An X can be written again while it is being flushed,
  evicted right after, deleted and recreated before its deletion is processed.
- **Reuse of space**: an extent given up must not be written by another X while
  a DREC on disk still names it.
- **Crash and restart**: the files are written without a journal.
- **One block, many DRECs**: an index block is always written whole from a
  cached copy; a stale copy, a wrong counter or a broken LRU chain would hit the
  DRECs of other X's.
- **The lock per X itself**: the map grows and splits its buckets while threads
  look for keys in them and wait for each other's accessors.
- **Blocks**: data, free space and RDFs share one block; update in place,
  append, removal at the limit and relocation choose between each other.
- **Backpressure**: bounded queues, a ring buffer, and one lock for all sockets.

### 1.4 What makes each component correct

| Component | Correctness |
|---|---|
| Storage + DiskWriter | a lookup finds the last accepted write (`ReadsSeeLastWrite`); what waits for the disk stays in memory (`PendingStaysInMemory`); what was freed can be read back (`EvictedIsReadable`); extents are never shared or lost (`SpacePartition`); the flag goes only after the commit (`CommitBeforeClear`); memory is reachable for eviction (`LoadedIsEvictable`) |
| Start/shutdown | a clean shutdown leaves exactly what accepted writes stored (`ShutdownFlushesAll`); what is flagged is queued (`FlaggedIsQueued`); a crash loses only unflushed changes (`CrashLosesOnlyPending`); everything gets to the disk in the end (`StoredIsFlushed`, `DeletedIsErased`) |
| IndexBlock, LRUCache | slots that keep what was written to them (`ImplementsSlotFile`); cache and file agree (`CacheIsFile`); counters, `m_freeBlocks` and blocks agree (`FreeBlocksHaveRoom`); the chain is the order of use (`ChainIsRecency`); the cache keeps to its size but for new blocks (`GrowsOnlyByNewBlocks`) |
| concurrent_hash_map | a set of keys with a lock each (`ImplementsLockedMap`); no node is lost, doubled or freed while in use (`NodesAreHome`, `NoDanglingNode`); nobody waits for ever (`OperationsEnd`) |
| BlockManager, Block | a map with a limit (`ImplementsMap`); counters, descriptors and tree agree with the bytes (`BlocksWellFormed`, `IndexMatchesBlocks`); memory and disk differ only for a queued X (`UnqueuedIsOnDisk`); in-place writes stay in the extent (`InPlaceFits`); a defragmentation needs more blocks only if a record is longer when it is written again (`DefragmentGrowsOnlyByRepacking`) |
| FreeSpace | extents, free pieces and pieces given up tile the file (`FileIsTiled`); no empty list (`NoEmptyList`); the index is always loadable (`IndexIsLoadable`); growing is the last resort (`GrowsOnlyWhenFull`); rebuilding merges (`DefragmentMerges`) |
| Sockets | every request is answered once, or dropped for a named reason (`RepliesConserved`); streamed frames stay whole (`FramesKeptByLock`); clients cannot stop threads (`StreamEnds`, `NetworkGetsOn`, `PingEnds`) |

The hazards, each at its line, are in `PROJECT.json`.

## 2. The modules

### Storage, StorageInvariant, StorageProofs

The granularity is one X and one critical section. Each operation on an X runs
under that X's exclusive accessor, so no other thread can see it half done: it is
one action (that the map gives an accessor to one thread at a time, even while it
grows, is what `ConcurrentHashMap` shows). The exception is `DeleteData(x)`,
which erases the entry, gives the
accessor up, and only then calls `DiskWriter::Remove`: two actions, `DeleteData`
and `RemoveFromQueue`. `Process` is one action per critical section: swapping the
deletions (`TakeDeletions`), one per deletion (`EraseRecord`), swapping the items
(`TakeItems`), one per item (`SkipDeleted`, `FlushInPlace`, `FlushRelocated`), and
`FinishProcess`, which makes the extents given up free.

| Code | Model |
|---|---|
| `m_dataIndexes` and the fields of RecordIndex | `dataIndexes`, `blockManager`, `recordStart`, `ibSlot`, `flags`, `crc32` |
| E_RIF bits | `flags[x]`, a set |
| `m_pQueue`, `m_pRIDelQueue`, `m_rFreeSpace` | `queue`, `delQueue`, `freeSpace` |
| Process's swapped copies, `rFreeSpaceToAdd` | `batch`, `delBatch`, `toFree` |
| one LRUCache per worker | `lru`, sets: which X is the oldest is left open |
| data and index file | `file` (extents it has), `dataFile`, `indexFile` |
| - | `store`, `refused`: history, what accepted writes last stored, and the X's whose memory a refused write changed |

Abstracted: the records of an X are one value; an extent is one element whatever
its length; a DREC is a slot; a CRC is the value it was computed from;
`CheckMemory` may run at any time (memory pressure is left open).

A write that `blman_write_record` refuses is one of two actions. If the record is too
big, or too old with nothing removed, it only touches the X and is covered by
`ReadData`. `RefuseData`: records were removed before the refusal, as happens under a
lowered limit; the blocks in memory change and the X is not queued
(Storage.cpp:338-346). If it waits for the disk anyway, its flush takes the change
along; if not, X is in `refused` until it is queued, evicted or deleted.

`StorageInvariant` holds the inductive invariant in two halves, one about the
structure and one about the values clients stored; `StorageProofs` the theorems.

### StorageRestart, RestartInvariant, RestartProofs

Extends Storage with `Stop` (workers joined, storage thread out of `run`),
`FinalProcess` (~Storage calls Process once more if `HasTasks`), `Restart` (Init
reads the index file) and `Crash`: memory is gone and Init runs on the files, in
which the extent of one item may hold anything: its blocks are written one after the
other and the DREC after them. After a crash `store`
is what the files hold, and `CrashLosesOnlyPending` says for which X's that
may differ from before. Whether a crash may fall while an X has two DRECs is the
constant `CrashOnTwoDRECs`. An index block is written in one step; one written in part
is not modelled. `RestartInvariant` adds what restarts need to the
invariant of Storage, `RestartProofs` has the theorems.

### IndexBlock, LRUCache, SlotFile, IndexBlockProofs

The index file is a function from block numbers to blocks; a block has its counter
of free DRECs and the DRECs, each empty or an X with a value (extent, length
and CRC, which IndexBlock only copies). The storage thread is the only user,
so every call is one action.

| Code | Model |
|---|---|
| index file, `m_blockCount` | `file`, `blockCount` |
| `m_freeBlocks` | `freeBlocks` |
| `m_rDiskBlockCache`, `m_pLRUCache` | `diskBlocks`, `lru` |
| `m_IB_blockNumber`, `m_IB_recordOffset` of the entries, and of copies in the delete queue | `slot`, `deleted` |
| WriteRecordIndexToDisk | `RewriteRecord`, `WriteToFreeBlock`, `WriteToNewBlock` |
| its "dirty fix" that passes by full blocks of `m_freeBlocks` | `PassedBy`, `PassBy` |
| EraseRecord | `EraseRecord` |
| GetCachedDiskBlock | an operator on the cache |
| Init, FillIndex | `Restart`, from any state: a clean start or one after a crash |
| - | `recent`: history, the cached blocks in the order of use |

`LRUCache` has the chain as operators on a record with `first`, `last` and the
records of the list; a pointer is a key. `IsChain` ties it to a sequence.

`SlotFile` is the promise that `Storage` builds on: an X keeps the slot of its first
write, which held no DREC before; only erasing empties a slot; a load finds one
of the DRECs of every X. `IndexBlock` refines it, `slots` being the DRECs in the
file and `at` being `slot`. An X may have two DRECs after a crash; FillIndex
takes either (its loop over the blocks is parallel) and the other one stays:
`MaxOrphans` bounds how many.

### ConcurrentHashMap, LockedMap, HashMapProofs

concurrent_hash_map.h as Storage calls it: `find` and `insert` with an accessor,
`erase(accessor)`. An action ends where another thread can see or change what
the thread reads next; `pc` says where a thread is.

| Code | Model |
|---|---|
| `my_mask`, `my_table[k]` | `mask`, `claimed` |
| `node_list` and mutex of a bucket | `list` (a set of nodes, or `RehashReq`), `lock` (readers, writer, who upgrades) |
| a node: key and mutex | `nodeKey`, `item` |
| accessor; the locals `m`, `n`, `tmp_n`, `grow_segment` | `acc`; `m`, `n`, `tmp`, `grow` |
| bucket_accessor's, nested in rehash_bucket | `stack` |
| bucket_accessor::acquire, rehash_bucket | `Look`, `TryRehash`, `TryFails`, `Acquire`, `Rehash`, `MustUpgrade` |
| upgrade_to_writer | `BeginUpgrade`, `EndUpgrade`, `YieldUpgrade`, `Reacquire` |
| lookup | `SearchHits`, `SearchMisses`, `CheckMaskRace`, `CheckRehashingCollision`, `InsertNewNode`, `TryAcquireItem`, `GiveUpItem`, `EnableSegment` |
| exclude | `ExcludeNode`, `ExcludeMisses`, `ReleaseItem`, `DeleteNode` |

The mutex (spin_rw_mutex, whose slow paths are in a binary) is modelled from its
header and its use. `LockedMap` is the abstract object: find, insert and erase
take effect at one moment between call and return.

### Block, BlockProofs, BlockManager, BlockManagerProofs, LimitedMap

`Block` models the layout: bytes of data, the descriptors, and the counters that
the code keeps. Gzip is the function `Gunzip`: the byte sequences that are gzip,
with what they decompress to. Block_GetRecord and Block_GetRecords hand a record
out decompressed, whoever packed it.

`BlockManager` models array and tree, `blman_write_record` with its branches
(update in place, delete and append, removal at the limit, new block),
defragmentation, dirty flags, both ways to write to disk, eviction and reading
back, and the branches of `Storage::WriteData` that decide between them.

`packing` stands for the configured compression (`RecordSizeForCompression`,
`GzipCompressionLevel`): which records it makes shorter, and to what.
`blman_write_record` stores `Packed(r)`; a defragmentation writes each record
again as it was read, that is decompressed, under the configuration of that
moment, and takes no notice of a status (`Rewritten`): a record a client had
packed itself may be too big by then, and is lost.

`LimitedMap` is what the component promises: a function from keys to records with
at most `limit` entries, in which only the operation that should changes anything;
a record that is gzip may read decompressed (`Reread`), and a defragmentation may
lose one that is too big then (`Lost` leaves these out). The refinement maps the
blocks and the tree to that function (`Records`). The loops of the code (over
RDFs, over the records to remove, over the records to write again) are functions
of the number of turns.

A block has `CIDFOffset` bytes instead of 4092 and an RDF has `RDFSize` bytes;
records are byte sequences of three lengths chosen so that one fits several
times, one fits once, and one is refused; two more are gzip, of the second as the
server packs it and of the third as a client may. Keys have two bytes in base 2, so that
the byte order of the tree (`memcmp` on little-endian integers) differs from the
numerical one.

A reload of the configuration is two actions, `LoadDefaults` and `LoadConfigured`:
LoadConfig first fills `g_cfg`, which every thread reads, with default values
and then sets each value that is configured. A limit that no X reaches stands for
`EnableRecordLimit = "no"`. `LoadPacking` changes the compression. An operation sees one
configuration from its beginning to its end.

### FreeSpace, FreeSpaceProofs

Positions and lengths in blocks. `m_rFreeSpace` is a function from lengths to
lists of positions, with `GetFreeSpacePos` (exact fit, else the next longer one,
split), `AddFreeSpace`, growth by `ReallocDataFile`, the rebuild from the DRECs
with its corruption check, and restart. The rebuild walks over the DRECs sorted by
position; the model says for each position which gap the walk finds in front
of it (`GapBefore`), and adds the gaps in ascending order (`Gaps`, `AddPieces`).

### Sockets, SocketsProofs

One network thread, two task queues with their workers, the storage thread with
the task list of DiskWriter, the threads that dump the free space, the main thread
in `Update`.

A thread's place in its code is a record (`net`, `worker[w]`, `main`); a worker
has a reply to the request it takes (`GetTask`), leaves it to the storage thread
(`QueueTask`) or never replies (`HandleGetAllX`, an opcode whose handler is
empty). Which of the three depends on the opcode, which is left open.
`ProcessTasks` takes one task at a time, where the code takes all that wait, and
either answers or hands it to a dump thread; the code starts one for every dump,
the set `DumpThread` bounds how many run.

Two histories count for each client: `owed`, requests without a whole reply, and
`dropped`, those of them that were given up. `lock` is the holder's recursive
mutex. A reply is only its size: small ones are sent at once or queued, ones
bigger than the write buffer are streamed in chunks with the lock held and a
bounded number of tries. The write buffer is a count of bytes.

The socket library is not in the tree (empty submodule `src/shared`); assumed of
it are a ring buffer that takes all of a write or nothing, a thread that delivers
input and drains output, and `Disconnect` that calls `OnDisconnect`. Sockets are
never reused: an id is given out once. Time is left out: a ping may be due and a
pong overdue at any visit. A send that fails although there was room
(`OUTPACKET_RESULT_SOCKET_ERROR`) is left out.

## 3. The runs

| Run | Instance | States | Shows |
|---|---|---|---|
| `storage` | 2 X's, 2 workers, 2 values, 2 extents, 2 slots | 583,000 | races of workers with each other and with Process; two X's share extents and slots; also checks `IInv`, the invariant of the proofs |
| `restart` | 1 X, 1 worker, 3 extents, 1 crash | 107,000 | shutdown, crash, liveness of flushing; also checks `RInv`, the invariant of the proofs |
| `restart_race` | 2 workers, no crash | - | **violation** of `ShutdownFlushesAll` (finding 1) |
| `restart_redelete` | 1 worker, X deleted again before its deletion is processed | - | **violation** of `ShutdownFlushesAll` (finding 2) |
| `blockmanager` | 3 keys, blocks of 5, limits 2 and 3, default 2, never lowered, with and without compression | 32,600 | structure of blocks and tree through writes, deletes, defragmentation, flush, eviction, reload; refinement of `LimitedMap` |
| `blockmanager_order` | 3 keys, limit 2 | - | **violation** of `RemovesOldest` (finding 3) |
| `blockmanager_lowered` | 3 keys, no limit configured, default 1 | - | **violation** of `UnqueuedIsOnDisk` (finding 4) |
| `freespace` | 3 X's of 1 to 3 blocks, file of at most 7, growth by 2 | 117,000 | tiling, splitting, growth, merging |
| `indexblock` | 3 X's, 2 values, 2 DRECs per block, 3 blocks, cache of 1, 1 waiting deletion, 1 orphan | 173,000 | cache, chain and counters; refinement of `SlotFile` through restarts |
| `hashmap` | 2 threads, 2 keys, 3 nodes, 2 buckets that become 8 | 173,000 | refinement of `LockedMap`; no dangling node; every operation ends |
| `sockets` | 1 client, 1 reader, 1 writer, storage thread, 1 dump thread, buffer of 4 headers | 48,000 | conservation of replies, framing, liveness without pings |
| `sockets_ping` | the same | - | **violation** of `PingEnds` (finding 5) |

Why the bounds are enough for the cases that matter:

- *Storage*. With two X's and two extents, one X relocates into the extent the
  other one gave up: reuse happens all the time. Two slots allow the DRECs of
  an X in the map and in the delete queue or in Process's copy at the same time.
  Two values tell old data from new. Symmetry is used only in runs that check no
  liveness. What this run cannot say about more X's and workers, the theorems do.
- *StorageRestart*. Three extents let an X move while one extent is given up and
  another one is free. `MaxCrashes` = 1: after a crash the state is one that a clean
  start could have, except for the history. `RedeleteBeforeFlush` = FALSE and one
  worker exclude findings 1 and 2, which have runs of their own; `FlaggedIsQueued` does
  not hold with two workers, which is finding 1. `CrashOnTwoDRECs` = FALSE excludes a
  crash after which an X that was stored may have its older data, or a deleted one be
  back (a hazard).
- *BlockManager*. Three records reach an X of several blocks, a removal at the
  limit, and both outcomes of an update in place. Two configurations, one that compresses
  the record of three bytes to two and one that compresses nothing, make a stored
  record shorter or longer than the one that is written again; the record of two bytes
  that a client packed is too big once it is decompressed. The run keeps to reloads that do
  not lower the limit, because of finding 4: at first the default or a higher one
  is configured, and a reload may raise it. `MCView` leaves out the history
  variable `op`, which no action and no invariant reads, and the blocks on disk
  that the next flush overwrites unread.
- *FreeSpace*. `MaxFileSize` = 7 with pieces of up to 3 blocks gives splits with a
  rest of 1 and of 2, fragmentation that forces growth although the sum of
  the free blocks would do, and merges of three neighbours.
- *IndexBlock*. Two DRECs per block make a block full, half full and empty. Three
  blocks and a cache that frees one when it holds two (or more, after new
  blocks) make the LRU chain three long, so that its middle is used again.
  Positions that wrap at 2^20 blocks (`WrapBlocks`) are in the model but not reached.
- *ConcurrentHashMap*. `FirstBlock` is 3 instead of 8, so the first insertion lets
  the table grow from 2 buckets to 8. Keys 3 and 7 are both in bucket 1 before;
  afterwards 3 is split from 1, and 7 from 3: a rehash that has to rehash the
  parent first. Three nodes: both keys in the map, and one that lost the race to
  insert. `Node` and `MaxMask` bound the run: an insertion that finds no free node,
  or fills a table that may not grow, does not go on. Three nodes are never too
  many for the table of 8, so that only the first growth is seen here; the theorems
  hold for any bounds.
- *Sockets*. The buffer holds a header and 3 units: a small reply fits once, one
  of 4 (here a dump) never fits with its header, one of 5 is sent as 2 + 2 + 1. `MaxTries`
  is 1 for the code's 100. Of `MaxRequests` = 3 unanswered requests one can keep the lock
  with a stream, one fill a task queue, and one wait in `put`; one reader, one writer and
  the two other threads that reply are enough to cut a frame open and to wait for
  each other.

Deadlock is checked in every run. Each property of a passing run has a mutant in
`PROJECT.json`: a definition replaced by a plausible wrong one, named after it
in the module, under which TLC finds the property violated.

## 4. Fairness

- `StorageRestart`: weak fairness of the steps of Process, of ~Storage's Process
  and of Restart. `Storage::run` (Storage.cpp:740-762) calls Process
  every `DiskFlushCoef` seconds unless it is -1, which turns flushing off and is
  not covered; Process itself only loops over finite copies of its queues. The same
  thread also runs ProcessTasks, whose replies need the holder's lock: while the main
  thread is stuck with it (finding 5), nothing is flushed either. Workers
  are not assumed to do anything. A deletion or write may be overtaken by later
  ones, so the liveness properties end in "or the client did something else".
- `Sockets`: strong fairness of each worker, of the storage and dump threads, of the
  main thread, of `QueuePacket` and of `OnDisconnect`. Strong, because these wait for a
  mutex that others take and release again and again: the main thread sleeps 500 ms
  between two updates, so a waiting thread gets its turn. Clients owe nothing: requests,
  reading and disconnecting are not fair. `NetworkGetsOn` is stated for servers with
  pings disabled (`PingSendInterval` = -1), because of finding 5.
- `ConcurrentHashMap`: weak fairness of each thread's next step and of giving its
  accessor up (accessors are local variables of the functions of Storage), and
  strong fairness of one step: getting a bucket as a writer, to erase a key.
  Readers that find the accessor of a key taken give its bucket up and take it
  again for ever; that the writer gets in is spin_rw_mutex's writer preference
  (spin_rw_mutex.h:41: a waiting writer's `WRITER_PENDING` keeps new readers
  out). Without it `OperationsEnd` fails in the run. Calls are not fair: the
  property is about the time when no more of them begin.

## 5. What is proved

Each theorem holds for all values of the constants that satisfy the named
assumptions of its module: any number of X's, workers, clients, extents and blocks
of any sizes. The assumptions only give types (`None` is no value, sizes are
positive numbers), but for those stated below.

### Storage (StorageProofs)

| Theorem | Statement |
|---|---|
| `Invariance` | `Spec => []IInv` |
| `TypeCorrect` | `Spec => []TypeOK` |
| `ReadsAreCorrect` | `Spec => []ReadsSeeLastWrite` |
| `PendingIsSafe` | `Spec => []PendingStaysInMemory` |
| `EvictionIsSafe` | `Spec => []EvictedIsReadable` |
| `SpaceIsPartitioned` | `Spec => []SpacePartition` |
| `CommitIsBeforeClear` | `Spec => CommitBeforeClear` |
| `MemoryIsReachable` | `Spec => []LoadedIsEvictable` |

`ReadsSeeLastWrite` is about accepted writes. A refused write that removed records
(finding 4) makes an exception that the property names: until its blocks leave memory
such an X is read without those records, and its extent holds what the last accepted
write left. `RefusedInv` says when an X can be in that state: in memory and not queued.

That a lookup finds the last accepted write depends, for an evicted X, on
the contents of its extent: no flush of another X may have hit it. A flush
writes to the X's own extent or to a free one, and it frees the old one. So
extents must not be shared, and that must survive deletions that sit in queues
while the X is created again, written and deleted again. The invariant that
carries this is **ownership**: every RecordIndex that names a DREC, be it in the
map, in the delete queue or in Process's copy of it, names a DREC that is in the
index file under the same X and with the same extent, and the RecordIndexes of one
X name different ones (`OwnerInv`). Together with `SpacePartition` (different
DRECs, different extents, all disjoint from the free ones) an X's extent
is nobody else's. Flags are tied to each other and to the extent (`FlagInv`),
absent entries to nothing (`DeadInv`), `rFreeSpaceToAdd` to one Process call
(`BatchInv`). These make `StructInv`, which does not look at what clients stored.
`ValueInv` does: memory (`MemoryInv`) and, for X's that do not wait, the disk
(`CleanInv`) hold what was stored; `CrcInv` says the same of the CRC. `IInv` is the
conjunction; TLC checks it in `storage`.

The proof has one lemma per action. `LoadedIsEvictable` has an invariant of its own,
`CommitBeforeClear` follows from `IInv` and its primed form step by step. The model
leaves which X is oldest open and the map of the code has one lock per key, so no
assumption about scheduling enters. What `ReadsAreCorrect` says about findings 1
and 2: reads in the running server are right in spite of them; what is wrong is
what is on disk afterwards.

### Restart and crash (RestartProofs)

| Theorem | Statement |
|---|---|
| `RestartStructure`, `RestartTypes`, `RestartKeepsPartition` | `RSpec => []RStructInv`, `[]RTypeOK`, `[]SpacePartition` |
| `FlagsFollowQueue` | `RSpec /\ []NoRemoveRace => []FlaggedIsQueued` |
| `OneWorkerIsSafe` | with one worker, `RSpec => []NoRemoveRace` |
| `RestartKeepsInvariant` | if `~RedeleteBeforeFlush` and `~CrashOnTwoDRECs`, `RSpec /\ []NoRemoveRace => []RInv` |
| `ReadsAreCorrectAfterRestart` | under the same hypotheses, `[]ReadsSeeLastWrite` |
| `ShutdownIsComplete` | under the same hypotheses, `[]ShutdownFlushesAll` |
| `CrashIsContained` | under the same hypotheses, `CrashLosesOnlyPending` |

The structure survives whatever happens: `StructInv` does not mention what was
stored, so a restart that loses data keeps it. That nothing is lost needs two
more facts. Each DREC has an owner, an entry of the map or of a delete queue, that
will rewrite or erase it (`OwnedInv`); and each flagged X is in a queue or being
written (`FlaggedIsQueued`). The code keeps neither in general, hence three hypotheses:

- `NoRemoveRace`, no X is in the map while a worker still owes `Remove` of an earlier
  deletion of it, excludes finding 1 for any number of workers (the run has one, where
  the race cannot happen).
- `~RedeleteBeforeFlush` excludes finding 2.
- `~CrashOnTwoDRECs` excludes a crash after an X was deleted, written again and flushed
  before its deletion was. Which of its DRECs the next start takes is then
  left to chance (a hazard).

Without either of the first two TLC finds the violation. The theorems of the first row
and `FlagsFollowQueue` do not need the last two.

Finding 4 is no hypothesis but an exception inside the properties, as in
`ReadsSeeLastWrite`: `ShutdownFlushesAll`, `StoredIsFlushed` and `CrashLosesOnlyPending`
compare with `store`, what accepted writes left. Records that a refused write removed
in memory only are in the files after a shutdown, and are back after a restart.

`CrashIsContained` covers a crash between any two steps of the storage thread, and one
that leaves the blocks of an item on disk in full or in part without its DREC. It does
not cover the crash on two DRECs, nor one in the middle of an index block, which
may hit the DRECs of other X's. `CrcInv` is not
in `RInv`: a crash in an in-place write changes the data but not the CRC in
the DREC.

### Sockets (SocketsProofs)

`TypesAndLock` (`[]TypeOK`), `FramesStayWhole` (`[]FramesKeptByLock`),
`RequestsAreAccountedFor` (`[]RepliesConserved`), for any number of clients,
workers and dump threads and any buffer size, chunk size and number of tries. The
last does not say that every request is answered. It says that each one of a
connected client without a whole reply is at exactly one place, with the network
thread, in one of the three queues, with the thread that replies or in the packet
queue, or else was dropped in one of three ways: by HandleGetAllX, by a stream
that found no room for its header, by a stream that gave up.

The three are one inductive invariant. `TypeOK` says where each thread may be and
that a worker or the main thread has the lock exactly where the code has it; that
one thread at a time streams follows from it. Counting is done on positions in
queues (`Places`): appending, taking the head and dropping what belongs to a
client change the count by what they should. That a count of owed replies never
gets negative needs that each reply sent was owed, which is conservation: so types
are not provable alone.

### IndexBlock (IndexBlockProofs)

| Theorem | Statement |
|---|---|
| `CachedBlocksAreTheFile` | `Spec => []CacheIsFile` |
| `FreeSpaceIsCounted` | `Spec => []FreeBlocksHaveRoom` |
| `ChainIsOrderOfUse` | `Spec => []ChainIsRecency` |
| `CacheKeepsItsSize` | `Spec => GrowsOnlyByNewBlocks` |
| `SlotFileIsImplemented` | `Spec => ImplementsSlotFile`, the refinement of `SlotFile` |

All under `MaxBlocks <= WrapBlocks`: the index file stays below 2^20 blocks, 4 GB. Beyond
that the code computes the position of a block in 32 bits, block 2^20 is block 0
(a hazard), and the theorems are false. The inductive invariant has four parts:
blocks of the file are well formed (`FileInv`), counters count (`CountInv`), every X
of the map is in the slot it names and no two share one (`SlotInv`), and the cached
blocks are the file's and the chain names them (`CacheInv`). From `CountInv`
it follows that no block in `m_freeBlocks` is full, so the "dirty fix" in
WriteRecordIndexToDisk has nothing to pass by. For the chain there are lemmas about
sequences without repetition: moving a key to the front, adding and removing one,
on the linked list and on the sequence it stands for. The refinement is proved
action by action: each maps to an action of `SlotFile` or to a stutter.

### FreeSpace (FreeSpaceProofs)

| Theorem | Statement |
|---|---|
| `FileAlwaysTiled` | `Spec => []FileIsTiled` |
| `NoListEmpty` | `Spec => []NoEmptyList` |
| `AlwaysLoadable` | `Spec => []IndexIsLoadable` |
| `GrowthOnlyWhenFull` | `Spec => GrowsOnlyWhenFull` |
| `DefragmentAlwaysMerges` | `Spec => DefragmentMerges` |

The invariant (`Good`): lists of the map are not empty and without repetitions, extents,
free pieces and pieces given up are different from each other, and together they
tile the file, said of positions instead of sets of blocks (`Tiles`): every
position is in a piece, and two pieces are apart. One layer of lemmas is about
lists (what `AddFreeSpace`, `TakeBack`, `AddPieces` do to the set of pieces), one
about tilings (a piece cut in two, one added at the end), and one, the longest,
about the rebuild: the gap in front of a position begins where the nearest extent
before it ends, so extents and gaps tile the file again (`GapsTile`). That
`GetFreeSpacePos` misses no piece that is long enough (`Finds`) gives
`GrowsOnlyWhenFull`; that two tilings with the same extents leave the same rest
gives `DefragmentMerges`.

### Blocks and records (BlockProofs, BlockManagerProofs)

| Theorem | Statement |
|---|---|
| `BlocksStayWellFormed` | `Spec => []BlocksWellFormed` |
| `IndexAlwaysMatchesBlocks` | `Spec => []IndexMatchesBlocks` |
| `InPlaceAlwaysFits` | `Spec => []InPlaceFits` |
| `UnqueuedStaysOnDisk` | if `~LowerLimit`, `Spec => []UnqueuedIsOnDisk` |
| `DefragmentationGrowsOnlyByRepacking` | `Spec => []DefragmentGrowsOnlyByRepacking` |

For any size of a block and of an RDF, any records, limits and number of blocks. All
but `UnqueuedStaysOnDisk` hold through lowered limits too; that one needs
`~LowerLimit`, which excludes finding 4 and nothing else. What the assumptions of the modules ask
is that an RDF fits into a block, that keys have two bytes of `Base` values, and that
no configured limit is 0 (with which the code's loop does not end, a hazard).

`BlockProofs` is about one block. `GoodBlock` is `WellFormed` with types and "no key
twice". Each operation of Block.c makes a good block of a good one, dirty, and with
the keys it should have (`WriteRecordIsGood`, `DeleteByKeyIsGood`, `UpdateIsGood`);
a record's bytes lie within the data (`RecordIsInside`), whose positions are sums of
lengths (`PositionsAdd`, `PositionsMove`). The sum in front of a position, and so
everything above, is an induction over the RDFs.

`BlockManagerProofs` puts blocks together. `GoodBlman`: good blocks, and a tree with
exactly the keys of the blocks. Every phase of `blman_write_record` keeps it
(`UpdateInPlaceIsGood`, `RoomMadeIsGood`, `Append3IsGood`), changes only blocks it
makes dirty (`Touched`) and knows when it adds one; `WriteIsGood` and
`DefragmentIsGood` say so of whole operations. The invariant adds the extent
(`DiskIsGood`: what `blman_create` makes of it is good and clean), the link between
memory and extent (`DiskFollows`: without eRIF_RelocateBlocks as many blocks, each
dirty or on disk) and the limit (`LimitIsKept`). The last is what `UnqueuedIsOnDisk`
needs: the code does not queue an X whose write is refused, which is right only if
a refused write changes nothing, and that is so only while the X has no more records
than the limit. `LimitIsKept` therefore counts: the loop of phase 2 leaves
`limit - 1` records or stops at its first turn, and a defragmentation under the
limit writes no more than it may (`Held`).

A defragmentation may need more blocks than before: a record stored compressed
under an earlier configuration, or packed by the client, may be longer when it is
written again. `DefragmentationGrowsOnlyByRepacking` says that this is the only
reason, so neither the order of the records nor the holes are one. It compares two
fillings of blocks, and the new one puts records in whichever block has room. The
argument, for records that are not longer (`NoneLonger`), is `WriteAllTakes`. It
goes through the old blocks one by one: what is left of an old block takes no more
bytes and RDFs than the block has (`Used`, `UsedIs`), so the first of its records
that opens a new block leaves one in which all the others have room (`Within`,
`StillWithin`), and each old block opens at most one new one.

TLC finds the invariant true of the instance of `blockmanager`, and without its last
part also of one in which limits fall.

Loops are proved by induction over the number of turns. The library's induction
theorems take an operator, which tlapm cannot instantiate here; their form with a
set works: a set that contains 0 and with n also n + 1 contains all naturals
(`SetInduction`), applied to the set of the n for which the claim holds. That a
recursive function has the values its equation says is proved in the same way
(`Iterated`).

### The hash map (HashMapProofs)

`HashMapIsInvariant` proves an inductive invariant, `HashMapInv`, for any set of
natural numbers as keys, any threads and nodes, any `FirstBlock` and any mask the
table may grow to. From it follow `HashMapTypeOK`, `HashMapNodesAreHome` and
`HashMapHasNoDanglingNode` (`[]TypeOK`, `[]NodesAreHome`, `[]NoDanglingNode`). Why
none of them is inductive alone, and what is:

- *Buckets are remainders.* The buckets that the key k passes through while the table
  grows are `k % Pow2[i]`: `OnPath(b, k)`. The first part of the module is arithmetic,
  by induction over a set of numbers (`SetInduction`): remainders by growing powers
  of two grow, the low bits of the low bits are the low bits (`ModTwice`), `Parent(b)` is
  the last bucket before b on the path of b (`ParentIs`), which nodes rehash_bucket
  moves (`MovesIfOnPath`), where check_rehashing_collision looks (`NextApplicableIs`).
- *Complete buckets.* A bucket that a thread has marked and not filled yet is on that
  thread's `stack`, below its parent. All others that are not `RehashReq` are
  `Complete`. With a bucket its ancestors are complete (rehash_bucket rehashes the
  parent first), and each node is in the last complete bucket of its key's path
  (`IsHome`). This is what `NodesAreHome` becomes while somebody writes.
- *Locks.* Who rehashes a bucket has it as a writer, all the way down its stack; every
  lock of a thread is one of its stack; who links, or excludes, is a writer
  (`Locks`). So the step of one thread changes no list that another one reads
  (`OthersLocks`, `OthersNodes`, `OthersSearch`: what a thread knows survives the
  steps of all others; the rest of each proof is about the thread that steps).
- *The race with growth.* A search that found nothing under an old mask is right
  only if its bucket is still the home of the key. `SearchFits` says what the thread
  knows at each `pc`: after check_mask_race that its bucket is the one under the
  current mask (`HomeByMask`), after check_rehashing_collision that the next bucket on
  the path is not rehashed, and so neither is any later one (`HomeByProbe`). An
  insertion stays right although the mask may grow before it links: it is a writer
  of the bucket that any later one would be split from.
- *Growth.* Only one thread grows the table (`claimed`), and the next mask is the next
  one there can be (`NextMask`), although segment indexes below `FirstBlock` all
  come in one block.
- *Nodes.* A node is linked, or known to one thread only (`Private`: allocated and
  not linked, or excluded and not deleted), or free. So what an accessor or a search
  refers to cannot be freed, and the allocator may reuse addresses at once.

`LockedMapIsImplemented` (`ImplementsLockedMap`) is the refinement. The abstract lock of a
key is with the thread whose accessor has the linked node of the key, or that has
just linked it and waits for the node's lock (`Has`); no two threads can be either
(`OneHolder`). A find fails, and an insertion or an erasure takes effect, at one step:
`AbsentKey` is what makes a miss true at the moment it is decided, under the last
mask; `InsertNewNodeIsInsert`, `TryAcquireItemIsAcquire`, `ExcludeNodeIsErase`,
`NoRaceIsMiss` name the others. All other steps change nothing in the abstract
map: rehashing moves nodes and leaves the set of linked nodes as it is
(`RehashInvisible`). So an erase with an accessor never fails: nobody else can be
first, as Storage uses the map, although the code provides for it
(concurrent_hash_map.h:1091).

The model was changed for the proofs: powers of two are a recursive function (`Pow2`),
the bound `MaxMask` stops the step that claims a segment and not the one that adds it.

### Only model-checked

- All liveness: TLAPS has no proof rule for fairness and ENABLED.
- `ImplementsMap`, the refinement of `LimitedMap` by `BlockManager`: it speaks of the
  bytes of the records, which the lemmas above only locate (see 8).

## 6. Findings

1. **A delete races with a write** (`restart_race`, Storage.cpp:419). DeleteData(x)
   calls `Remove(x)` after it gave up the accessor. Another worker may have stored
   x again in between; its queue entry is removed. x keeps its flag, so no
   eviction frees it, but nothing writes it either; a clean shutdown loses it,
   although `~Storage` says "do all pending disk writes + delete".
2. **A second delete replaces the first** (`restart_redelete`, DiskWriter.cpp:64). The
   delete queue is keyed by X. Delete, write, delete before the next Process:
   the second deletion names no DREC and replaces the one that does. The
   old DREC stays and X is back after the next start.
3. **"the oldest" is not the oldest** (`blockmanager_order`, BlockManager.c:61). The
   tree compares little-endian integers with `memcmp`.
4. **A refused write under a lowered limit** (`blockmanager_lowered`, Storage.cpp:338)
   removes records from memory and does not queue the X. Nobody needs to lower the
   limit for that: any reload of the configuration has the default one in
   `g_cfg` for a while, also on a server that has none. Until the X is evicted reads miss
   the removed records, afterwards they are back. In `Storage` this is `RefuseData`, and
   the exception that `ReadsSeeLastWrite` names.
5. **SendPing never gives up** (`sockets_ping`, ClientSocket.cpp:404). `count` is
   never incremented. If the client stops reading, or disconnects before the
   ping is sent, the main thread loops for ever with the holder's lock: no
   worker can reply, the network thread waits in RemoveSocket, and
   `g_stopEvent` is no longer looked at.

Met while modelling, listed as hazards and not as findings: HandleGetActivityID
answers without the holder's lock, into a frame that is being streamed; a streamed
reply that is given up leaves a truncated frame on an open connection; a reply as
big as the write buffer never fits and blocks the packet queue; OnRead returns
when the contiguous part of the read buffer ends before the packet does, and waits
for more input; RecordLimit 0 never ends a loop; some 16-bit counters wrap; the
cache of index blocks grows with every new block, whatever size is configured;
block 2^20 of the index file has the position of block 0; the branch of WriteData
that defragments does not count the growth by the write in `m_memoryUsed`,
although its comment (Storage.cpp:350) says the function takes care of it, and
both branches lower it when the X grows by being defragmented; a defragmentation
loses a record that its client had packed and that is too big once it is
decompressed, because the status of the write is ignored (BlockManager.c:388); a
record that a client packed reads back unpacked; HandleGetAllX does not answer, so
its client waits.

## 7. Not modelled

- GetStats, Crc32Check and the handlers for statistics, log and configuration: they
  read and format. GetAllX lists what the index file says while the storage
  thread writes it: it may miss an X that is not flushed yet.
- `m_memoryUsed`: in `Storage` eviction may happen at any time, which covers every
  value; that the count itself drifts is a hazard.
- The order of a worker's LRU cache in `Storage`: any X of the cache may be the
  oldest, which covers every order. The chain itself is in `LRUCache`.
- A full disk, a file that cannot be opened: the code logs and goes on, and what
  happens then is decided in the library that is not in the tree; a hazard.
- A crash in the middle of an index block (hazard). The blocks of data on disk one by
  one: after a crash the extent that was being written holds anything, as one value; and
  what a start makes of an extent whose blocks do not fit each other (see 8).
- A crash while an X has two DRECs: `StorageRestart` has it (`CrashOnTwoDRECs`), but only
  the structural theorems speak of it (hazard). `IndexBlock` has it too.
- The other values that a reload of the configuration sets to their defaults for a
  moment (among them sizes in MB where bytes are meant), and its listeners.
- The bytes of a request, compression of replies, latency and Nagle switching. Records
  are compressed in `BlockManager`; left out are records that decompress to 64 kB or
  more, whose 16-bit length wraps, and bytes that look like gzip and do not decompress
  (they are handed out as they are).
- A reload of the configuration in the middle of one operation on the blocks: each
  operation of `BlockManager` sees one configuration.
- What a dump of the free space contains, and which of the two tasks a request asks for:
  either may be taken.
- Of TBB: insertion without an accessor (FillIndex, before anybody else runs),
  iteration, rehash, clear; parallel_for, parallel_sort, concurrent_vector and
  concurrent_unordered_set, which are used within one function as loops and
  containers; and the rest of the library, which the program does not use.
- Python interface (calls scripts; its data operations go through Storage),
  statistics, Windows service, load tester, web interface.

## 8. Plan

Done, in this order: Storage, its restart, the block manager, the free space, the
proofs about Storage, the sockets, the index file with its cache, the hash
map, the reload of the configuration, the proofs about restart, sockets, index file,
free space, blocks and hash map. Next:

1. **Proofs** that `BlockManager` implements `LimitedMap`: what each operation of
   Block.c does to the bytes of the records it does not mention, then each
   action a step of the map.
2. **Crash in place**: blocks of an X on disk one by one, in `BlockManager`; after
   such a crash a Y may be in two blocks or in none.
3. **Composition**: `Storage` with the slots of `IndexBlock` in place of its own, once
   the instance can be made small enough.
