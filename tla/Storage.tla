------------------------------- MODULE Storage -------------------------------
(***************************************************************************)
(* The storage engine of TransDB at the granularity of one X: worker       *)
(* threads read, write, delete and evict the block manager of an X while   *)
(* the storage thread writes queued X's to the data and the index file.    *)
(*                                                                         *)
(* What is one step: every operation on an X runs under the accessor of    *)
(* that X (an exclusive lock of m_dataIndexes), so it is atomic for every  *)
(* other thread.  DeleteData(x) is the exception: it gives the accessor    *)
(* up before it calls DiskWriter::Remove, so it is two steps.  Process is  *)
(* one step per queue it empties and one per item it writes.               *)
(*                                                                         *)
(* What is abstracted: the records of an X are one Value (BlockManager     *)
(* models them), an extent of the data file is one Pos whatever its length *)
(* (FreeSpace models lengths), a DREC of the index file is one Slot, and a *)
(* CRC32 is the value it was computed from.                                *)
(***************************************************************************)
EXTENDS FiniteSets

CONSTANTS
  Key,      \* the X's
  Worker,   \* ClientSocketWorkerTask threads, readers and writers
  Value,    \* what the blocks of an X can hold
  Pos,      \* extents of the data file
  Slot,     \* DRECs of the index file
  None      \* NULL, -1, "no such entry"

\* E_RIF, the flags of a RecordIndex.
Relocate    == "RelocateBlocks"
Dirty       == "Dirty"
InDiskQueue == "InDiskWriteQueue"
Flag        == {Relocate, Dirty, InDiskQueue}

\* A DREC of the index file, and the copy QueueIndexDeletetion keeps.
DREC     == [key : Key, start : Pos, crc : Value]
Deletion == [start : Pos \cup {None}, slot : Slot \cup {None}]

\* None is no value of anything else.
ASSUME NoneAssumption ==
  /\ None \notin Key /\ None \notin Value /\ None \notin Pos /\ None \notin Slot
  /\ None \notin DREC /\ None \notin Deletion

VARIABLES
  \* m_dataIndexes: the X's in the map and the fields of their RecordIndex
  dataIndexes, blockManager, recordStart, ibSlot, flags, crc32,
  \* DiskWriter: m_pQueue, m_pRIDelQueue, m_rFreeSpace
  queue, delQueue, freeSpace,
  \* Process: where it is, its copies of both queues, rFreeSpaceToAdd
  phase, delBatch, batch, toFree,
  \* the LRU cache of each worker; the X whose Remove a worker still owes
  lru, removing,
  \* the disk: extents the data file has, their contents, the index file
  file, dataFile, indexFile,
  \* history: what the last accepted write, deletion or defragmentation left
  \* under each X; the X's whose blocks a refused write changed since, in
  \* memory only
  store, refused

indexVars  == <<dataIndexes, blockManager, recordStart, ibSlot, flags, crc32>>
workerVars == <<lru, removing>>
diskVars   == <<file, dataFile, indexFile>>
procVars   == <<phase, delBatch, batch, toFree>>
history    == <<store, refused>>
vars == <<indexVars, queue, delQueue, freeSpace, procVars, workerVars, diskVars, history>>

\* Every value of every variable.
TypeOK ==
  /\ dataIndexes \in SUBSET Key
  /\ blockManager \in [Key -> Value \cup {None}]
  /\ recordStart \in [Key -> Pos \cup {None}]
  /\ ibSlot \in [Key -> Slot \cup {None}]
  /\ flags \in [Key -> SUBSET Flag]
  /\ crc32 \in [Key -> Value \cup {None}]
  /\ queue \in SUBSET Key
  /\ delQueue \in [Key -> Deletion \cup {None}]
  /\ freeSpace \in SUBSET Pos
  /\ phase \in {"idle", "deletes", "items"}
  /\ delBatch \in [Key -> Deletion \cup {None}]
  /\ batch \in SUBSET Key
  /\ toFree \in SUBSET Pos
  /\ lru \in [Worker -> SUBSET Key]
  /\ removing \in [Worker -> Key \cup {None}]
  /\ file \in SUBSET Pos
  /\ dataFile \in [Pos -> Value \cup {None}]
  /\ indexFile \in [Slot -> DREC \cup {None}]
  /\ store \in [Key -> Value \cup {None}]
  /\ refused \in SUBSET Key

\* A first start: Init preallocates the data file, all of it free.
Init ==
  /\ dataIndexes = {}
  /\ blockManager = [x \in Key |-> None]
  /\ recordStart = [x \in Key |-> None]
  /\ ibSlot = [x \in Key |-> None]
  /\ flags = [x \in Key |-> {}]
  /\ crc32 = [x \in Key |-> None]
  /\ queue = {}
  /\ delQueue = [x \in Key |-> None]
  /\ phase = "idle"
  /\ delBatch = [x \in Key |-> None]
  /\ batch = {}
  /\ toFree = {}
  /\ lru = [w \in Worker |-> {}]
  /\ removing = [w \in Worker |-> None]
  /\ file \in SUBSET Pos
  /\ freeSpace = file
  /\ dataFile = [p \in Pos |-> None]
  /\ indexFile = [s \in Slot |-> None]
  /\ store = [x \in Key |-> None]
  /\ refused = {}

(***************************************************************************)
(* Worker threads.                                                         *)
(***************************************************************************)

\* A worker between two tasks, or in one, but not inside DeleteData(x).
Idle(w) == removing[w] = None

\* CheckBlockManager: the blocks in memory, else those read from the file.
Loaded(x) ==
  IF blockManager[x] # None THEN blockManager[x] ELSE dataFile[recordStart[x]]

\* Mutant: the LRU cache of the worker is not told.
TouchWithoutLRU(w, x, v) ==
  /\ lru' = lru
  /\ blockManager' = [blockManager EXCEPT ![x] = v]

\* rLRUCache.put(x), and the block manager of x now holding v.
Touch(w, x, v) ==
  /\ lru' = [lru EXCEPT ![w] = @ \cup {x}]
  /\ blockManager' = [blockManager EXCEPT ![x] = v]

\* Mutant: eRIF_InDiskWriteQueue is not set.
QueueWithoutFlag(x, callerFlags) ==
  /\ queue' = queue \cup {x}
  /\ flags' = [flags EXCEPT ![x] = @ \cup callerFlags]

\* DiskWriter::Queue, with the flags its caller has just set.
Queue(x, callerFlags) ==
  /\ queue' = queue \cup {x}
  /\ flags' = [flags EXCEPT ![x] = @ \cup callerFlags \cup {InDiskQueue}]

\* ReadData(x), ReadData(x, y) and GetAllY; a missing x is not read.  Also
\* WriteData of a record that is too big, or too old with nothing removed.
ReadData(w, x) ==
  /\ Idle(w) /\ x \in dataIndexes
  /\ Touch(w, x, Loaded(x))
  /\ UNCHANGED <<dataIndexes, recordStart, ibSlot, flags, crc32, queue, delQueue,
                 freeSpace, procVars, removing, diskVars, history>>

\* WriteData with eBMS_OldRecord after blman_write_record removed records, at
\* a RecordLimit that a reload lowered: the blocks change, x is not queued.
\* When x waits for the storage thread already, its flush takes them along.
RefuseData(w, x, v) ==
  /\ Idle(w) /\ x \in dataIndexes /\ v # Loaded(x)
  /\ Touch(w, x, v)
  /\ IF InDiskQueue \in flags[x]
     THEN store' = [store EXCEPT ![x] = v] /\ refused' = refused
     ELSE store' = store /\ refused' = refused \cup {x}
  /\ UNCHANGED <<dataIndexes, recordStart, ibSlot, flags, crc32, queue, delQueue,
                 freeSpace, procVars, removing, diskVars>>

\* WriteData when m_dataIndexes.insert creates the entry.
InsertData(w, x, v) ==
  /\ Idle(w) /\ x \notin dataIndexes
  /\ dataIndexes' = dataIndexes \cup {x}
  /\ Touch(w, x, v)
  /\ recordStart' = [recordStart EXCEPT ![x] = None]
  /\ ibSlot' = [ibSlot EXCEPT ![x] = None]
  /\ crc32' = [crc32 EXCEPT ![x] = None]
  /\ Queue(x, {Relocate, Dirty})
  /\ store' = [store EXCEPT ![x] = v]
  /\ UNCHANGED <<delQueue, freeSpace, procVars, removing, diskVars, refused>>

\* The record map of x becomes v and x is queued with these flags.
ModifyData(w, x, v, callerFlags) ==
  /\ Idle(w) /\ x \in dataIndexes
  /\ Touch(w, x, v)
  /\ Queue(x, callerFlags)
  /\ store' = [store EXCEPT ![x] = v]
  /\ refused' = refused \ {x}
  /\ UNCHANGED <<dataIndexes, recordStart, ibSlot, crc32, delQueue, freeSpace,
                 procVars, removing, diskVars>>

\* Mutant: an accepted write does not queue the changed X.
UpdateUnqueued(w, x, v) ==
  /\ Idle(w) /\ x \in dataIndexes
  /\ Touch(w, x, v)
  /\ store' = [store EXCEPT ![x] = v]
  /\ refused' = refused \ {x}
  /\ UNCHANGED <<dataIndexes, recordStart, ibSlot, flags, crc32, queue, delQueue,
                 freeSpace, procVars, removing, diskVars>>

\* WriteData on an existing entry with eBMS_Ok, and DeleteData(x, y).
UpdateData(w, x, v) == ModifyData(w, x, v, {})

\* WriteData with eBMS_ReallocatedBlocks or eBMS_NeedDefrag.
GrowData(w, x, v) == ModifyData(w, x, v, {Relocate, Dirty})

\* DefragmentData: the records are unpacked and written again, which may
\* change or lose one that a client had packed itself.
DefragmentData(w, x, v) == ModifyData(w, x, v, {Relocate, Dirty})

\* DeleteData(x) up to m_dataIndexes.erase; an x that is not there is
\* removed from the disk queue all the same.
DeleteData(w, x) ==
  /\ Idle(w)
  /\ removing' = [removing EXCEPT ![w] = x]
  /\ IF x \in dataIndexes
     THEN /\ lru' = [lru EXCEPT ![w] = @ \ {x}]
          /\ delQueue' = [delQueue EXCEPT
                            ![x] = [start |-> recordStart[x], slot |-> ibSlot[x]]]
          /\ dataIndexes' = dataIndexes \ {x}
          /\ blockManager' = [blockManager EXCEPT ![x] = None]
          /\ recordStart' = [recordStart EXCEPT ![x] = None]
          /\ ibSlot' = [ibSlot EXCEPT ![x] = None]
          /\ flags' = [flags EXCEPT ![x] = {}]
          /\ crc32' = [crc32 EXCEPT ![x] = None]
          /\ store' = [store EXCEPT ![x] = None]
          /\ refused' = refused \ {x}
     ELSE UNCHANGED <<lru, delQueue, indexVars, history>>
  /\ UNCHANGED <<queue, freeSpace, procVars, diskVars>>

\* The end of DeleteData(x): DiskWriter::Remove, without the accessor of x.
RemoveFromQueue(w) ==
  /\ ~Idle(w)
  /\ queue' = queue \ {removing[w]}
  /\ removing' = [removing EXCEPT ![w] = None]
  /\ UNCHANGED <<indexVars, delQueue, freeSpace, procVars, lru, diskVars, history>>

\* May CheckMemory free the blocks of x?  Mutant: eRIF_Dirty is looked at,
\* which an update in place does not set.
EvictableClean(x) == Dirty \notin flags[x]
Evictable(x) == InDiskQueue \notin flags[x]

\* One turn of the loop of CheckMemory, under memory pressure.  Which x is
\* the oldest of the worker's LRU cache is left open.
CheckMemory(w, x) ==
  /\ Idle(w) /\ x \in lru[w]
  /\ Evictable(x)
  /\ blockManager' = [blockManager EXCEPT ![x] = None]
  /\ lru' = [lru EXCEPT ![w] = @ \ {x}]
  /\ refused' = refused \ {x}
  /\ UNCHANGED <<dataIndexes, recordStart, ibSlot, flags, crc32, queue, delQueue,
                 freeSpace, procVars, removing, diskVars, store>>

(***************************************************************************)
(* The storage thread: DiskWriter::Process and DefragmentFreeSpace.        *)
(***************************************************************************)

\* ProcessIndexDeleteQueue takes all of m_pRIDelQueue.
TakeDeletions ==
  /\ phase = "idle"
  /\ phase' = "deletes"
  /\ delBatch' = delQueue
  /\ delQueue' = [x \in Key |-> None]
  /\ UNCHANGED <<indexVars, queue, freeSpace, batch, toFree, workerVars, diskVars, history>>

\* Mutant: the extent is freed and the DREC stays.
EraseRecordKeepsDREC(x) ==
  /\ phase = "deletes" /\ delBatch[x] # None
  /\ freeSpace' = freeSpace \cup ({delBatch[x].start} \ {None})
  /\ delBatch' = [delBatch EXCEPT ![x] = None]
  /\ UNCHANGED <<indexVars, queue, delQueue, phase, batch, toFree, workerVars,
                 diskVars, history>>

\* One deletion: AddFreeSpace if it has an extent, EraseRecord if a DREC.
EraseRecord(x) ==
  /\ phase = "deletes" /\ delBatch[x] # None
  /\ freeSpace' = freeSpace \cup ({delBatch[x].start} \ {None})
  /\ indexFile' = [s \in Slot |-> IF s = delBatch[x].slot THEN None ELSE indexFile[s]]
  /\ delBatch' = [delBatch EXCEPT ![x] = None]
  /\ UNCHANGED <<indexVars, queue, delQueue, phase, batch, toFree, workerVars,
                 file, dataFile, history>>

\* Mutant: eRIF_InDiskWriteQueue goes when the item leaves the queue.
TakeItemsUnflagged ==
  /\ phase = "deletes" /\ \A x \in Key : delBatch[x] = None
  /\ phase' = IF queue = {} THEN "idle" ELSE "items"
  /\ batch' = queue
  /\ queue' = {}
  /\ flags' = [x \in Key |-> flags[x] \ {InDiskQueue}]
  /\ UNCHANGED <<dataIndexes, blockManager, recordStart, ibSlot, crc32, delQueue,
                 freeSpace, delBatch, toFree, workerVars, diskVars, history>>

\* Process goes on with the items of m_pQueue, or returns when there is none.
TakeItems ==
  /\ phase = "deletes" /\ \A x \in Key : delBatch[x] = None
  /\ phase' = IF queue = {} THEN "idle" ELSE "items"
  /\ batch' = queue
  /\ queue' = {}
  /\ UNCHANGED <<indexVars, delQueue, freeSpace, delBatch, toFree, workerVars,
                 diskVars, history>>

\* "Data deleted before written to disk".
SkipDeleted(x) ==
  /\ phase = "items" /\ x \in batch \ dataIndexes
  /\ batch' = batch \ {x}
  /\ UNCHANGED <<indexVars, queue, delQueue, freeSpace, phase, delBatch, toFree,
                 workerVars, diskVars, history>>

\* The DREC of x, else any empty one (WriteRecordIndexToDisk).
DiskSlots(x) ==
  IF ibSlot[x] # None THEN {ibSlot[x]} ELSE {s \in Slot : indexFile[s] = None}

\* Must the DREC of x be written?  The CRC32 counts as dirty when it changed.
\* Mutant: only the CRC32 counts.
IndexOutdatedByCrc(x) == crc32[x] # blockManager[x]
IndexOutdated(x) == Dirty \in flags[x] \/ crc32[x] # blockManager[x]

\* The flags Process clears: x may have been queued again meanwhile.
\* Mutants: that is not looked at; eRIF_InDiskWriteQueue stays.
ClearedFlagsUnchecked(x) == {Relocate, Dirty, InDiskQueue}
ClearedFlagsKept(x) == {Relocate, Dirty}
ClearedFlags(x) == {Relocate, Dirty} \cup (IF x \in queue THEN {} ELSE {InDiskQueue})

\* Process after the data of x are written at p: CRC, index, flags.
CommitItem(x, p) ==
  /\ recordStart' = [recordStart EXCEPT ![x] = p]
  /\ dataFile' = [dataFile EXCEPT ![p] = blockManager[x]]
  /\ crc32' = [crc32 EXCEPT ![x] = blockManager[x]]
  /\ IF IndexOutdated(x)
     THEN \E s \in DiskSlots(x) :
            /\ ibSlot' = [ibSlot EXCEPT ![x] = s]
            /\ indexFile' = [indexFile EXCEPT
                 ![s] = [key |-> x, start |-> p, crc |-> blockManager[x]]]
     ELSE UNCHANGED <<ibSlot, indexFile>>
  /\ flags' = [flags EXCEPT ![x] = @ \ ClearedFlags(x)]
  /\ batch' = batch \ {x}
  /\ UNCHANGED <<dataIndexes, blockManager, queue, delQueue, phase, delBatch,
                 workerVars, history>>

\* WriteDataWithoutRelocateFlag: over the old data.
FlushInPlace(x) ==
  /\ phase = "items" /\ x \in batch \cap dataIndexes
  /\ Relocate \notin flags[x]
  /\ CommitItem(x, recordStart[x])
  /\ UNCHANGED <<freeSpace, toFree, file>>

\* WriteDataWithRelocateFlag: into free space, or an extent the file grows
\* by when there is none; the old extent waits in rFreeSpaceToAdd.
FlushRelocated(x, p) ==
  /\ phase = "items" /\ x \in batch \cap dataIndexes
  /\ Relocate \in flags[x]
  /\ \/ p \in freeSpace
     \/ freeSpace = {} /\ p \notin file
  /\ freeSpace' = freeSpace \ {p}
  /\ file' = file \cup {p}
  /\ toFree' = toFree \cup ({recordStart[x]} \ {None})
  /\ CommitItem(x, p)

\* The end of Process: the extents given up become free.
FinishProcess ==
  /\ phase = "items" /\ batch = {}
  /\ phase' = "idle"
  /\ freeSpace' = freeSpace \cup toFree
  /\ toFree' = {}
  /\ UNCHANGED <<indexVars, queue, delQueue, delBatch, batch, workerVars, diskVars, history>>

\* DefragmentFreeSpace: free is what no DREC of the index file covers.
Indexed == {indexFile[s].start : s \in {t \in Slot : indexFile[t] # None}}

\* Mutant: called by another thread while Process runs.
DefragmentFreeSpaceAnytime ==
  /\ freeSpace' = file \ Indexed
  /\ UNCHANGED <<indexVars, queue, delQueue, procVars, workerVars, diskVars, history>>

DefragmentFreeSpace ==
  /\ phase = "idle"
  /\ freeSpace' = file \ Indexed
  /\ UNCHANGED <<indexVars, queue, delQueue, procVars, workerVars, diskVars, history>>

WorkerNext(w) ==
  \/ \E x \in Key :
       \/ ReadData(w, x)
       \/ DeleteData(w, x)
       \/ CheckMemory(w, x)
       \/ \E v \in Value :
            \/ InsertData(w, x, v)
            \/ UpdateData(w, x, v)
            \/ GrowData(w, x, v)
            \/ DefragmentData(w, x, v)
            \/ RefuseData(w, x, v)
  \/ RemoveFromQueue(w)

DiskNext ==
  \/ TakeDeletions
  \/ \E x \in Key :
       \/ EraseRecord(x)
       \/ SkipDeleted(x)
       \/ FlushInPlace(x)
       \/ \E p \in Pos : FlushRelocated(x, p)
  \/ TakeItems
  \/ FinishProcess
  \/ DefragmentFreeSpace

Next == (\E w \in Worker : WorkerNext(w)) \/ DiskNext

Spec == Init /\ [][Next]_vars

(***************************************************************************)
(* What must hold.                                                         *)
(***************************************************************************)

\* A lookup of x under its accessor finds what the last accepted write left
\* under x, whether its blocks are in memory, queued, or were freed by
\* CheckMemory and have to be read back: no eviction, flush, relocation, reuse
\* of an extent or rebuild of the free space loses or mixes up data.  The
\* exception is an x whose records a refused write removed: until its blocks
\* leave memory the lookup misses those records, and the file keeps what the
\* last accepted write left, so that they come back.
ReadsSeeLastWrite ==
  \A x \in Key :
    IF x \in dataIndexes
    THEN /\ store[x] # None
         /\ IF x \in refused
            THEN blockManager[x] # None /\ dataFile[recordStart[x]] = store[x]
            ELSE Loaded(x) = store[x]
    ELSE store[x] = None

\* Process never meets an item without blocks, and CheckMemory never frees
\* blocks that are still to be written: whatever is queued or being processed
\* and still in the map is in memory and carries eRIF_InDiskWriteQueue.
PendingStaysInMemory ==
  \A x \in dataIndexes :
    /\ x \in queue \cup batch => InDiskQueue \in flags[x]
    /\ InDiskQueue \in flags[x] => blockManager[x] # None

\* CheckBlockManager never meets "this cannot happen, else it causes a
\* crash", and never logs a CRC32 error: an X without blocks in memory has a
\* place on disk, holding what its CRC was computed from.
EvictedIsReadable ==
  \A x \in dataIndexes : blockManager[x] = None =>
    /\ Relocate \notin flags[x]
    /\ recordStart[x] # None
    /\ dataFile[recordStart[x]] = crc32[x]

\* The data file is split, with nothing lost and nothing counted twice, into
\* the extents the index file covers, the free ones and those Process frees
\* when it ends; no two DRECs cover one extent.
SpacePartition ==
  /\ file = Indexed \cup freeSpace \cup toFree
  /\ Indexed \cap freeSpace = {} /\ Indexed \cap toFree = {} /\ freeSpace \cap toFree = {}
  /\ \A s, t \in Slot :
       (indexFile[s] # None /\ indexFile[t] # None /\ s # t) =>
         indexFile[s].start # indexFile[t].start

\* Blocks in memory are in the LRU cache of some worker: CheckMemory can
\* reach everything the memory limit counts.
LoadedIsEvictable ==
  \A x \in dataIndexes : blockManager[x] # None => \E w \in Worker : x \in lru[w]

\* "Commit transaction before clear flag": eRIF_InDiskWriteQueue of an X that
\* stays in the map goes only when data and DREC are on disk.
CommitBeforeClear ==
  [][\A x \in dataIndexes \cap dataIndexes' :
       (InDiskQueue \in flags[x] /\ InDiskQueue \notin flags'[x]) =>
         \E s \in Slot :
           indexFile'[s] # None /\ indexFile'[s].key = x
           /\ dataFile'[indexFile'[s].start] = store'[x]]_vars

\* eRIF_InDiskWriteQueue says that x waits for the disk thread: a flagged x
\* is in the queue or among the items being processed.
FlaggedIsQueued ==
  \A x \in dataIndexes : InDiskQueue \in flags[x] => x \in queue \cup batch

=============================================================================
