---------------------------- MODULE StorageProofs ----------------------------
(***************************************************************************)
(* Proofs about Storage, for every set of X's, workers, values, extents    *)
(* and slots: the inductive invariant, and what follows from it.  First    *)
(* the structure, action by action; then the values; then the CRCs.        *)
(***************************************************************************)
EXTENDS StorageInvariant, TLAPS

LEMMA InitStruct == Init => StructInv
<1> SUFFICES ASSUME Init PROVE StructInv
  OBVIOUS
<1> USE NoneAssumption DEF Init
<1>1. TypeOK
  BY DEF TypeOK, DREC, Deletion, Flag
<1>2. DeadInv /\ PendingStaysInMemory /\ RefusedInv /\ FlagInv /\ DataInv /\ BatchInv
  BY DEF DeadInv, PendingStaysInMemory, RefusedInv, FlagInv, DataInv, BatchInv
<1>3. OwnerInv
  BY DEF OwnerInv, Owns
<1>4. SpacePartition
  BY DEF SpacePartition, Indexed
<1> QED
  BY <1>1, <1>2, <1>3, <1>4 DEF StructInv

\* A step that changes no variable.
LEMMA StutterStruct == StructInv /\ UNCHANGED vars => StructInv'
  BY DEF StructInv, vars, history, indexVars, procVars, workerVars, diskVars, TypeOK,
         DeadInv, PendingStaysInMemory, RefusedInv, FlagInv, OwnerInv, Owns, DataInv,
         BatchInv,
         SpacePartition, Indexed

\* The RecordIndex of an X with an extent has a DREC that names this extent.
LEMMA ExtentIsIndexed ==
  ASSUME StructInv, NEW x \in Key, recordStart[x] # None
  PROVE  /\ ibSlot[x] \in Slot /\ indexFile[ibSlot[x]] \in DREC
         /\ indexFile[ibSlot[x]].key = x /\ indexFile[ibSlot[x]].start = recordStart[x]
         /\ recordStart[x] \in Indexed /\ recordStart[x] \in Pos
<1>1. ibSlot[x] \in Slot /\ indexFile[ibSlot[x]] # None
      /\ indexFile[ibSlot[x]].key = x /\ indexFile[ibSlot[x]].start = recordStart[x]
  BY DEF StructInv, OwnerInv, Owns, TypeOK
<1>2. indexFile[ibSlot[x]] \in DREC /\ recordStart[x] \in Pos
  BY <1>1 DEF StructInv, TypeOK
<1>3. recordStart[x] \in Indexed
  BY <1>1 DEF Indexed
<1> QED
  BY <1>1, <1>2, <1>3

\* No two X's have the same extent.
LEMMA ExtentsDiffer ==
  ASSUME StructInv, NEW x \in Key, NEW y \in Key, x # y, recordStart[x] # None
  PROVE  recordStart[x] # recordStart[y]
<1>1. SUFFICES ASSUME recordStart[y] = recordStart[x] PROVE FALSE
  OBVIOUS
<1>2. ibSlot[x] \in Slot /\ indexFile[ibSlot[x]] \in DREC
      /\ indexFile[ibSlot[x]].key = x /\ indexFile[ibSlot[x]].start = recordStart[x]
  BY ExtentIsIndexed
<1>3. ibSlot[y] \in Slot /\ indexFile[ibSlot[y]] \in DREC
      /\ indexFile[ibSlot[y]].key = y /\ indexFile[ibSlot[y]].start = recordStart[x]
  BY <1>1, ExtentIsIndexed
<1> QED
  BY <1>2, <1>3, NoneAssumption DEF StructInv, SpacePartition

\* CheckBlockManager finds blocks, in memory or in the file.
LEMMA LoadedIsValue ==
  ASSUME StructInv, NEW x \in dataIndexes
  PROVE  Loaded(x) \in Value
<1> USE DEF StructInv
<1>1. x \in Key
  BY DEF TypeOK
<1>2. CASE blockManager[x] # None
  BY <1>1, <1>2 DEF Loaded, TypeOK
<1>3. CASE blockManager[x] = None
  <2>1. recordStart[x] # None
    BY <1>3 DEF PendingStaysInMemory, RefusedInv, FlagInv
  <2>2. dataFile[recordStart[x]] # None /\ recordStart[x] \in Pos
    BY <1>1, <2>1, ExtentIsIndexed, NoneAssumption DEF DataInv
  <2> QED
    BY <1>3, <2>2 DEF Loaded, TypeOK
<1> QED
  BY <1>2, <1>3

LEMMA ReadDataStruct ==
  ASSUME StructInv, NEW w \in Worker, NEW x \in Key, ReadData(w, x)
  PROVE  StructInv'
<1> USE NoneAssumption DEF StructInv
<1>0. x \in dataIndexes /\ Loaded(x) \in Value
  BY LoadedIsValue DEF ReadData
<1> DEFINE v == Loaded(x)
<1>1. blockManager' = [blockManager EXCEPT ![x] = v] /\ v \in Value /\ v # None
  BY <1>0 DEF ReadData, Touch
<1> HIDE DEF v
<1>2. TypeOK'
  BY <1>1 DEF ReadData, Touch, TypeOK, procVars, diskVars, history
<1>3. DeadInv' /\ PendingStaysInMemory' /\ RefusedInv' /\ FlagInv' /\ BatchInv'
  BY <1>0, <1>1 DEF ReadData, DeadInv, PendingStaysInMemory, RefusedInv, FlagInv,
     BatchInv, TypeOK,
                    procVars, diskVars, history
<1>4. OwnerInv' /\ SpacePartition' /\ DataInv'
  BY DEF ReadData, OwnerInv, Owns, SpacePartition, Indexed, DataInv, procVars, diskVars,
     history
<1> QED
  BY <1>2, <1>3, <1>4

LEMMA InsertDataStruct ==
  ASSUME StructInv, NEW w \in Worker, NEW x \in Key, NEW v \in Value, InsertData(w, x, v)
  PROVE  StructInv'
<1> USE NoneAssumption DEF StructInv
<1>1. TypeOK'
  BY DEF InsertData, Touch, Queue, TypeOK, Flag, procVars, diskVars, history
<1>2. DeadInv'
  BY DEF InsertData, Touch, Queue, TypeOK, DeadInv
<1>3. PendingStaysInMemory' /\ RefusedInv' /\ FlagInv' /\ BatchInv'
  BY DEF InsertData, Touch, Queue, TypeOK, PendingStaysInMemory, RefusedInv, FlagInv,
     BatchInv,
         Relocate, Dirty, InDiskQueue, procVars, diskVars, history
<1>4. OwnerInv'
  BY DEF InsertData, TypeOK, DeadInv, OwnerInv, Owns, procVars, diskVars, history
<1>5. SpacePartition' /\ DataInv'
  BY DEF InsertData, SpacePartition, Indexed, DataInv, procVars, diskVars, history
<1> QED
  BY <1>1, <1>2, <1>3, <1>4, <1>5

LEMMA RefuseDataStruct ==
  ASSUME StructInv, NEW w \in Worker, NEW x \in Key, NEW v \in Value, RefuseData(w, x, v)
  PROVE  StructInv'
<1> USE NoneAssumption DEF StructInv
<1>1. /\ x \in dataIndexes /\ blockManager' = [blockManager EXCEPT ![x] = v]
      /\ dataIndexes' = dataIndexes /\ flags' = flags /\ queue' = queue /\ batch' = batch
      /\ refused' = refused \/ (refused' = refused \cup {x} /\ InDiskQueue \notin flags[x])
      /\ store' = store \/ store' = [store EXCEPT ![x] = v]
  BY DEF RefuseData, Touch, procVars
<1>2. TypeOK'
  BY <1>1 DEF RefuseData, Touch, TypeOK, procVars, diskVars
<1>3. DeadInv' /\ PendingStaysInMemory' /\ RefusedInv'
  BY <1>1 DEF RefuseData, DeadInv, PendingStaysInMemory, RefusedInv, TypeOK
<1>4. FlagInv' /\ BatchInv'
  BY DEF RefuseData, FlagInv, BatchInv, procVars
<1>5. OwnerInv' /\ SpacePartition' /\ DataInv'
  BY DEF RefuseData, OwnerInv, Owns, SpacePartition, Indexed, DataInv, procVars, diskVars
<1> QED
  BY <1>2, <1>3, <1>4, <1>5

LEMMA ModifyDataStruct ==
  ASSUME StructInv, NEW w \in Worker, NEW x \in Key, NEW v \in Value,
         NEW callerFlags \in {{}, {Relocate, Dirty}}, ModifyData(w, x, v, callerFlags)
  PROVE  StructInv'
<1> USE NoneAssumption DEF StructInv
<1>1. TypeOK'
  BY DEF ModifyData, Touch, Queue, TypeOK, Flag, procVars, diskVars, history
<1>2. DeadInv'
  BY DEF ModifyData, Touch, Queue, TypeOK, DeadInv
<1>3. PendingStaysInMemory' /\ RefusedInv' /\ FlagInv' /\ BatchInv'
  BY DEF ModifyData, Touch, Queue, TypeOK, PendingStaysInMemory, RefusedInv, FlagInv,
     BatchInv,
         Relocate, Dirty, InDiskQueue, procVars, diskVars, history
<1>4. OwnerInv' /\ SpacePartition' /\ DataInv'
  BY DEF ModifyData, OwnerInv, Owns, SpacePartition, Indexed, DataInv, procVars,
     diskVars, history
<1> QED
  BY <1>1, <1>2, <1>3, <1>4

LEMMA DeleteDataStruct ==
  ASSUME StructInv, NEW w \in Worker, NEW x \in Key, DeleteData(w, x)
  PROVE  StructInv'
<1> USE NoneAssumption DEF StructInv
<1>1. CASE x \in dataIndexes
  <2> USE <1>1
  <2>1. TypeOK'
    <3>1. [start |-> recordStart[x], slot |-> ibSlot[x]] \in Deletion
      BY DEF TypeOK, Deletion
    <3>2. delQueue' \in [Key -> Deletion \cup {None}]
      BY <3>1 DEF DeleteData, TypeOK
    <3>3. /\ dataIndexes' \in SUBSET Key
          /\ blockManager' \in [Key -> Value \cup {None}]
          /\ recordStart' \in [Key -> Pos \cup {None}]
          /\ ibSlot' \in [Key -> Slot \cup {None}]
          /\ flags' \in [Key -> SUBSET Flag]
          /\ crc32' \in [Key -> Value \cup {None}]
          /\ store' \in [Key -> Value \cup {None}] /\ refused' \in SUBSET Key
      BY SMTT(30) DEF DeleteData, TypeOK
    <3>4. lru' \in [Worker -> SUBSET Key] /\ removing' \in [Worker -> Key \cup {None}]
      BY DEF DeleteData, TypeOK
    <3> QED
      BY <3>2, <3>3, <3>4 DEF DeleteData, TypeOK, procVars, diskVars, history
  <2>2. DeadInv'
    BY DEF DeleteData, TypeOK, DeadInv
  <2>3. PendingStaysInMemory' /\ RefusedInv' /\ FlagInv' /\ BatchInv'
    BY DEF DeleteData, TypeOK, PendingStaysInMemory, RefusedInv, FlagInv, BatchInv,
       procVars, diskVars, history
  <2>4. OwnerInv'
    BY DEF DeleteData, TypeOK, OwnerInv, Owns, procVars, diskVars, history
  <2>5. SpacePartition' /\ DataInv'
    BY DEF DeleteData, SpacePartition, Indexed, DataInv, procVars, diskVars, history
  <2> QED
    BY <2>1, <2>2, <2>3, <2>4, <2>5
<1>2. CASE x \notin dataIndexes
  BY <1>2 DEF DeleteData, TypeOK, DeadInv, PendingStaysInMemory, RefusedInv, FlagInv,
     OwnerInv, Owns,
     DataInv, BatchInv, SpacePartition, Indexed, indexVars, procVars, diskVars, history
<1> QED
  BY <1>1, <1>2

LEMMA RemoveFromQueueStruct ==
  ASSUME StructInv, NEW w \in Worker, RemoveFromQueue(w)
  PROVE  StructInv'
BY DEF StructInv, RemoveFromQueue, TypeOK, DeadInv, PendingStaysInMemory, RefusedInv,
   FlagInv,
   OwnerInv, Owns, DataInv, BatchInv, SpacePartition, Indexed, indexVars, procVars,
   diskVars, history

LEMMA CheckMemoryStruct ==
  ASSUME StructInv, NEW w \in Worker, NEW x \in Key, CheckMemory(w, x)
  PROVE  StructInv'
<1> USE NoneAssumption DEF StructInv
<1>1. TypeOK'
  BY DEF CheckMemory, Evictable, TypeOK, procVars, diskVars, history
<1>2. DeadInv' /\ PendingStaysInMemory' /\ RefusedInv' /\ FlagInv' /\ BatchInv'
  BY DEF CheckMemory, Evictable, TypeOK, DeadInv, PendingStaysInMemory, RefusedInv,
     FlagInv, BatchInv, procVars,
         diskVars, history
<1>3. OwnerInv' /\ SpacePartition' /\ DataInv'
  BY DEF CheckMemory, OwnerInv, Owns, SpacePartition, Indexed, DataInv, procVars,
     diskVars, history
<1> QED
  BY <1>1, <1>2, <1>3

LEMMA TakeDeletionsStruct ==
  ASSUME StructInv, TakeDeletions
  PROVE  StructInv'
<1> USE NoneAssumption DEF StructInv
<1>1. TypeOK'
  BY DEF TakeDeletions, TypeOK, indexVars, workerVars, diskVars, history
<1>2. DeadInv' /\ PendingStaysInMemory' /\ RefusedInv' /\ FlagInv' /\ BatchInv'
  BY DEF TakeDeletions, DeadInv, PendingStaysInMemory, RefusedInv, FlagInv, BatchInv,
     indexVars, diskVars, history
<1>3. OwnerInv'
  BY DEF TakeDeletions, OwnerInv, Owns, indexVars, diskVars, history
<1>4. SpacePartition' /\ DataInv'
  BY DEF TakeDeletions, SpacePartition, Indexed, DataInv, diskVars, history
<1> QED
  BY <1>1, <1>2, <1>3, <1>4

LEMMA EraseRecordStruct ==
  ASSUME StructInv, NEW x \in Key, EraseRecord(x)
  PROVE  StructInv'
<1> USE NoneAssumption DEF StructInv
<1> DEFINE start == delBatch[x].start
           slot  == delBatch[x].slot
<1>0. start \in Pos \cup {None} /\ slot \in Slot \cup {None} /\ Owns(x, start, slot)
  BY DEF EraseRecord, TypeOK, Deletion, OwnerInv
<1>1. TypeOK'
  BY <1>0 DEF EraseRecord, TypeOK, indexVars, workerVars, history
<1>2. DeadInv' /\ PendingStaysInMemory' /\ RefusedInv' /\ FlagInv' /\ BatchInv' /\ DataInv'
  BY DEF EraseRecord, DeadInv, PendingStaysInMemory, RefusedInv, FlagInv, BatchInv,
     DataInv, TypeOK,
         indexVars, workerVars, history
<1>3. OwnerInv'
  BY <1>0 DEF EraseRecord, TypeOK, Deletion, OwnerInv, Owns, indexVars
<1>4. SpacePartition'
  <2>1. CASE slot = None
    <3>1. start = None /\ indexFile' = indexFile /\ freeSpace' = freeSpace
      BY <1>0, <2>1 DEF EraseRecord, TypeOK, Owns
    <3> QED
      BY SMTT(30), <3>1 DEF EraseRecord, SpacePartition, Indexed
  <2>2. CASE slot # None
    <3>1. /\ slot \in Slot /\ indexFile[slot] # None /\ indexFile[slot].start = start
          /\ indexFile'[slot] = None
          /\ \A s \in Slot \ {slot} : indexFile'[s] = indexFile[s]
      BY <1>0, <2>2 DEF EraseRecord, Owns
    <3>2. start \in Indexed /\ start # None
      BY <3>1 DEF TypeOK, DREC, Indexed
    <3>3. Indexed' = Indexed \ {start}
      BY <3>1 DEF SpacePartition, Indexed
    <3>4. freeSpace' = freeSpace \cup {start} /\ toFree' = toFree /\ file' = file
      BY <3>2 DEF EraseRecord
    <3>5. \A s, t \in Slot :
            (indexFile'[s] # None /\ indexFile'[t] # None /\ s # t) =>
              indexFile'[s].start # indexFile'[t].start
      BY <3>1 DEF SpacePartition
    <3> QED
      BY <3>2, <3>3, <3>4, <3>5 DEF SpacePartition
  <2> QED
    BY <2>1, <2>2
<1> QED
  BY <1>1, <1>2, <1>3, <1>4

LEMMA TakeItemsStruct ==
  ASSUME StructInv, TakeItems
  PROVE  StructInv'
<1> USE DEF StructInv
<1>1. TypeOK'
  BY DEF TakeItems, TypeOK, indexVars, workerVars, diskVars, history
<1>2. DeadInv' /\ PendingStaysInMemory' /\ RefusedInv' /\ FlagInv' /\ DataInv'
  BY DEF TakeItems, DeadInv, PendingStaysInMemory, RefusedInv, FlagInv, DataInv,
     indexVars, diskVars, history
<1>3. OwnerInv' /\ SpacePartition'
  BY DEF TakeItems, OwnerInv, Owns, SpacePartition, Indexed, indexVars, diskVars, history
<1>4. BatchInv'
  BY DEF TakeItems, BatchInv
<1> QED
  BY <1>1, <1>2, <1>3, <1>4

LEMMA SkipDeletedStruct ==
  ASSUME StructInv, NEW x \in Key, SkipDeleted(x)
  PROVE  StructInv'
BY DEF StructInv, SkipDeleted, TypeOK, DeadInv, PendingStaysInMemory, RefusedInv,
   FlagInv, OwnerInv,
   Owns, DataInv, BatchInv, SpacePartition, Indexed, indexVars, workerVars, diskVars,
   history

LEMMA FinishProcessStruct ==
  ASSUME StructInv, FinishProcess
  PROVE  StructInv'
BY DEF StructInv, FinishProcess, TypeOK, DeadInv, PendingStaysInMemory, RefusedInv,
   FlagInv, OwnerInv,
   Owns, DataInv, BatchInv, SpacePartition, Indexed, indexVars, workerVars, diskVars,
   history

LEMMA DefragmentFreeSpaceStruct ==
  ASSUME StructInv, DefragmentFreeSpace
  PROVE  StructInv'
BY DEF StructInv, DefragmentFreeSpace, TypeOK, DeadInv, PendingStaysInMemory, RefusedInv,
   FlagInv,
   OwnerInv, Owns, DataInv, BatchInv, SpacePartition, Indexed, indexVars, procVars,
   workerVars, diskVars, history

\* An item of Process that is still in the map has its blocks in memory, as an
\* accepted write left them.
LEMMA ItemInMemory ==
  ASSUME StructInv, NEW x \in batch \cap dataIndexes
  PROVE  /\ x \in Key /\ InDiskQueue \in flags[x] /\ blockManager[x] \in Value
         /\ x \notin refused
BY DEF StructInv, PendingStaysInMemory, RefusedInv, TypeOK

\* Where an item may be written: its own extent, or one no DREC covers; it
\* moves only if eRIF_RelocateBlocks says so.
Target(x, p) ==
  /\ p \in Pos
  /\ p = recordStart[x] \/ p \notin Indexed
  /\ Relocate \notin flags[x] => p = recordStart[x]

LEMMA InPlaceTarget ==
  ASSUME StructInv, NEW x \in Key, FlushInPlace(x)
  PROVE  /\ x \in batch \cap dataIndexes /\ CommitItem(x, recordStart[x])
         /\ recordStart[x] # None /\ Target(x, recordStart[x])
BY DEF FlushInPlace, StructInv, FlagInv, TypeOK, Target

LEMMA RelocatedTarget ==
  ASSUME StructInv, NEW x \in Key, NEW p \in Pos, FlushRelocated(x, p)
  PROVE  /\ x \in batch \cap dataIndexes /\ CommitItem(x, p)
         /\ Target(x, p) /\ p \notin Indexed /\ p \notin toFree
BY DEF FlushRelocated, StructInv, SpacePartition, Target

\* A target of x is not the extent of another X.
LEMMA TargetIsNotAnothers ==
  ASSUME StructInv, NEW x \in Key, NEW p, Target(x, p), NEW y \in Key \ {x},
         recordStart[y] # None
  PROVE  recordStart[y] # p
BY ExtentIsIndexed, ExtentsDiffer DEF Target

\* After an item is committed, x owns a DREC that names p: the one it had, or
\* one that was empty.
LEMMA CommitOwns ==
  ASSUME StructInv, NEW x \in batch \cap dataIndexes, NEW p, Target(x, p), CommitItem(x, p)
  PROVE  \E s \in Slot :
           /\ ibSlot' = [ibSlot EXCEPT ![x] = s]
           /\ indexFile'[s] # None /\ indexFile'[s].key = x /\ indexFile'[s].start = p
           /\ indexFile' \in [Slot -> DREC \cup {None}]
           /\ \A t \in Slot \ {s} : indexFile'[t] = indexFile[t]
           /\ \/ s = ibSlot[x]
              \/ ibSlot[x] = None /\ recordStart[x] = None /\ indexFile[s] = None
<1> USE NoneAssumption DEF StructInv, Target
<1>0. x \in Key /\ Owns(x, recordStart[x], ibSlot[x]) /\ ibSlot[x] \in Slot \cup {None}
  BY DEF TypeOK, OwnerInv
<1>1. blockManager[x] \in Value
  BY ItemInMemory
<1>2. CASE IndexOutdated(x)
  <2>1. PICK s \in DiskSlots(x) :
          /\ ibSlot' = [ibSlot EXCEPT ![x] = s]
          /\ indexFile' = [indexFile EXCEPT
               ![s] = [key |-> x, start |-> p, crc |-> blockManager[x]]]
    BY <1>2 DEF CommitItem
  <2>2. [key |-> x, start |-> p, crc |-> blockManager[x]] \in DREC
    BY <1>0, <1>1 DEF DREC
  <2>3. [key |-> x, start |-> p, crc |-> blockManager[x]] # None
    BY <2>2
  <2>4. s \in Slot
    BY <1>0 DEF DiskSlots
  <2>5. \/ s = ibSlot[x]
        \/ ibSlot[x] = None /\ recordStart[x] = None /\ indexFile[s] = None
    BY <1>0 DEF DiskSlots, Owns
  <2> QED
    BY <2>1, <2>2, <2>3, <2>4, <2>5 DEF TypeOK
<1>3. CASE ~IndexOutdated(x)
  <2>1. ibSlot' = ibSlot /\ indexFile' = indexFile
    BY <1>3 DEF CommitItem
  <2>2. recordStart[x] = p
    BY <1>3 DEF IndexOutdated, FlagInv
  <2> QED
    BY <1>0, <2>1, <2>2 DEF Owns, TypeOK
<1> QED
  BY <1>2, <1>3

LEMMA CommitIndexed ==
  ASSUME StructInv, NEW x \in batch \cap dataIndexes, NEW p, Target(x, p), CommitItem(x, p)
  PROVE  /\ Indexed' = (Indexed \ {recordStart[x]}) \cup {p}
         /\ recordStart[x] # None => recordStart[x] \in Indexed
         /\ \A s, t \in Slot :
              (indexFile'[s] # None /\ indexFile'[t] # None /\ s # t) =>
                indexFile'[s].start # indexFile'[t].start
<1> USE NoneAssumption DEF StructInv
<1>0. x \in Key /\ Owns(x, recordStart[x], ibSlot[x]) /\ ibSlot[x] \in Slot \cup {None}
  BY DEF TypeOK, OwnerInv
<1>1. PICK s \in Slot :
        /\ indexFile'[s] # None /\ indexFile'[s].start = p
        /\ \A t \in Slot \ {s} : indexFile'[t] = indexFile[t]
        /\ \/ s = ibSlot[x]
           \/ ibSlot[x] = None /\ recordStart[x] = None /\ indexFile[s] = None
  BY CommitOwns
<1>2. \/ indexFile[s] # None /\ indexFile[s].start = recordStart[x]
      \/ indexFile[s] = None /\ recordStart[x] = None
  BY <1>0, <1>1 DEF Owns
<1>3. None \notin Indexed
  BY DEF Indexed, TypeOK, DREC
<1>4. \A t \in Slot \ {s} : indexFile[t] # None =>
        indexFile[t].start # recordStart[x] /\ indexFile[t].start # p
  BY <1>2, <1>3 DEF Target, SpacePartition, Indexed
<1>5. Indexed' = (Indexed \ {recordStart[x]}) \cup {p}
  BY <1>1, <1>2, <1>4 DEF Indexed
<1>6. recordStart[x] # None => recordStart[x] \in Indexed
  BY <1>2 DEF Indexed
<1> QED
  BY <1>1, <1>4, <1>5, <1>6 DEF SpacePartition

\* What CommitItem keeps, wherever x is written.
LEMMA CommitItemStruct ==
  ASSUME StructInv, NEW x \in batch \cap dataIndexes, NEW p, Target(x, p), CommitItem(x, p)
  PROVE  /\ DeadInv' /\ PendingStaysInMemory' /\ FlagInv' /\ RefusedInv' /\ OwnerInv' /\ DataInv'
         /\ (freeSpace' \in SUBSET Pos /\ toFree' \in SUBSET Pos /\ file' \in SUBSET Pos)
              => TypeOK'
<1> USE NoneAssumption DEF StructInv
<1>0. x \in Key /\ x \in dataIndexes /\ p \in Pos
  BY DEF TypeOK, Target
<1>1. InDiskQueue \in flags[x] /\ blockManager[x] \in Value
  BY ItemInMemory
<1>2. PICK s \in Slot :
        /\ ibSlot' = [ibSlot EXCEPT ![x] = s]
        /\ indexFile'[s] # None /\ indexFile'[s].key = x /\ indexFile'[s].start = p
        /\ indexFile' \in [Slot -> DREC \cup {None}]
        /\ \A t \in Slot \ {s} : indexFile'[t] = indexFile[t]
        /\ \/ s = ibSlot[x]
           \/ ibSlot[x] = None /\ recordStart[x] = None /\ indexFile[s] = None
  BY CommitOwns
<1>3. DeadInv'
  BY <1>0, <1>2 DEF CommitItem, TypeOK, DeadInv
<1>4. PendingStaysInMemory' /\ FlagInv'
  BY <1>0 DEF CommitItem, ClearedFlags, TypeOK, PendingStaysInMemory, FlagInv, Relocate, Dirty,
              InDiskQueue
<1>5. RefusedInv'
  BY <1>0, <1>1 DEF CommitItem, RefusedInv, TypeOK, history
<1>6. OwnerInv'
  <2>1. SUFFICES ASSUME NEW y \in Key PROVE OwnerInv!(y)'
    BY DEF OwnerInv
  <2>2. delQueue' = delQueue /\ delBatch' = delBatch
    BY DEF CommitItem
  <2>3. CASE y = x
    BY <1>0, <1>2, <2>2, <2>3 DEF OwnerInv, Owns, CommitItem, TypeOK, Deletion
  <2>4. CASE y # x
    <3>1. recordStart'[y] = recordStart[y] /\ ibSlot'[y] = ibSlot[y]
      BY <1>0, <1>2, <2>4 DEF CommitItem, TypeOK
    <3>2. \A start, slot : (slot \in Slot \cup {None} /\ Owns(y, start, slot))
                             => Owns(y, start, slot)'
      BY <1>0, <1>2, <2>4, ItemInMemory DEF OwnerInv, Owns
    <3>3. /\ ibSlot[y] \in Slot \cup {None}
          /\ delQueue[y] # None => delQueue[y].slot \in Slot \cup {None}
          /\ delBatch[y] # None => delBatch[y].slot \in Slot \cup {None}
      BY DEF TypeOK, Deletion
    <3> QED
      BY <2>2, <3>1, <3>2, <3>3 DEF OwnerInv
  <2> QED
    BY <2>3, <2>4
<1>7. DataInv'
  <2>1. dataFile' = [dataFile EXCEPT ![p] = blockManager[x]] /\ blockManager[x] # None
    BY <1>1 DEF CommitItem
  <2> QED
    BY <1>0, <1>2, <2>1 DEF DataInv, TypeOK, DREC
<1>8. (freeSpace' \in SUBSET Pos /\ toFree' \in SUBSET Pos /\ file' \in SUBSET Pos)
        => TypeOK'
  <2>1. ibSlot' \in [Key -> Slot \cup {None}] /\ indexFile' \in [Slot -> DREC \cup {None}]
    BY <1>2 DEF TypeOK
  <2>2. /\ recordStart' \in [Key -> Pos \cup {None}]
        /\ dataFile' \in [Pos -> Value \cup {None}]
        /\ crc32' \in [Key -> Value \cup {None}]
        /\ flags' \in [Key -> SUBSET Flag]
    BY <1>0, <1>1 DEF CommitItem, TypeOK
  <2> QED
    BY <2>1, <2>2 DEF CommitItem, TypeOK, workerVars, history
<1> QED
  BY <1>3, <1>4, <1>5, <1>6, <1>7, <1>8

LEMMA FlushInPlaceStruct ==
  ASSUME StructInv, NEW x \in Key, FlushInPlace(x)
  PROVE  StructInv'
<1> USE DEF StructInv
<1>1. /\ x \in batch \cap dataIndexes /\ CommitItem(x, recordStart[x])
      /\ recordStart[x] # None /\ Target(x, recordStart[x])
  BY InPlaceTarget
<1>2. freeSpace' = freeSpace /\ toFree' = toFree /\ file' = file /\ phase = "items"
      /\ phase' = phase /\ delBatch' = delBatch
  BY DEF FlushInPlace, CommitItem
<1>3. BatchInv'
  BY <1>2 DEF BatchInv
<1>4. SpacePartition'
  BY <1>1, <1>2, CommitIndexed DEF SpacePartition
<1>5. freeSpace' \in SUBSET Pos /\ toFree' \in SUBSET Pos /\ file' \in SUBSET Pos
  BY <1>2 DEF TypeOK
<1> QED
  BY <1>1, <1>3, <1>4, <1>5, CommitItemStruct

LEMMA FlushRelocatedStruct ==
  ASSUME StructInv, NEW x \in Key, NEW p \in Pos, FlushRelocated(x, p)
  PROVE  StructInv'
<1> USE NoneAssumption DEF StructInv
<1>1. /\ x \in batch \cap dataIndexes /\ CommitItem(x, p)
      /\ Target(x, p) /\ p \notin Indexed /\ p \notin toFree
  BY RelocatedTarget
<1>2. /\ freeSpace' = freeSpace \ {p} /\ file' = file \cup {p}
      /\ toFree' = toFree \cup ({recordStart[x]} \ {None})
      /\ phase = "items" /\ phase' = phase /\ delBatch' = delBatch
  BY DEF FlushRelocated, CommitItem
<1>3. BatchInv'
  BY <1>2 DEF BatchInv
<1>4. SpacePartition'
  <2>1. Indexed' = (Indexed \ {recordStart[x]}) \cup {p}
    BY <1>1, CommitIndexed
  <2>2. recordStart[x] # None => recordStart[x] \in Indexed
    BY <1>1, CommitIndexed
  <2>3. None \notin Indexed
    BY DEF Indexed, TypeOK, DREC
  <2>4. \A s, t \in Slot :
          (indexFile'[s] # None /\ indexFile'[t] # None /\ s # t) =>
            indexFile'[s].start # indexFile'[t].start
    BY <1>1, CommitIndexed
  <2> QED
    BY <1>1, <1>2, <2>1, <2>2, <2>3, <2>4 DEF SpacePartition
<1>5. freeSpace' \in SUBSET Pos /\ toFree' \in SUBSET Pos /\ file' \in SUBSET Pos
  BY <1>1, <1>2 DEF TypeOK
<1> QED
  BY <1>1, <1>3, <1>4, <1>5, CommitItemStruct

\* Every step but a flush is one of these; the lemmas above cover them all.
LEMMA WorkerStruct ==
  ASSUME StructInv, NEW w \in Worker, WorkerNext(w)
  PROVE  StructInv'
<1>1. ASSUME NEW x \in Key, ReadData(w, x) PROVE StructInv'
  BY <1>1, ReadDataStruct
<1>2. ASSUME NEW x \in Key, NEW v \in Value, DefragmentData(w, x, v) PROVE StructInv'
  BY <1>2, ModifyDataStruct DEF DefragmentData
<1>3. ASSUME NEW x \in Key, DeleteData(w, x) PROVE StructInv'
  BY <1>3, DeleteDataStruct
<1>4. ASSUME NEW x \in Key, CheckMemory(w, x) PROVE StructInv'
  BY <1>4, CheckMemoryStruct
<1>5. ASSUME NEW x \in Key, NEW v \in Value, InsertData(w, x, v) PROVE StructInv'
  BY <1>5, InsertDataStruct
<1>6. ASSUME NEW x \in Key, NEW v \in Value, UpdateData(w, x, v) PROVE StructInv'
  BY <1>6, ModifyDataStruct DEF UpdateData
<1>7. ASSUME NEW x \in Key, NEW v \in Value, GrowData(w, x, v) PROVE StructInv'
  BY <1>7, ModifyDataStruct DEF GrowData
<1>8. ASSUME RemoveFromQueue(w) PROVE StructInv'
  BY <1>8, RemoveFromQueueStruct
<1>9. ASSUME NEW x \in Key, NEW v \in Value, RefuseData(w, x, v) PROVE StructInv'
  BY <1>9, RefuseDataStruct
<1> QED
  BY <1>1, <1>2, <1>3, <1>4, <1>5, <1>6, <1>7, <1>8, <1>9 DEF WorkerNext

LEMMA DiskStruct ==
  ASSUME StructInv, DiskNext
  PROVE  StructInv'
BY TakeDeletionsStruct, EraseRecordStruct, SkipDeletedStruct, FlushInPlaceStruct,
   FlushRelocatedStruct, TakeItemsStruct, FinishProcessStruct, DefragmentFreeSpaceStruct
DEF DiskNext

LEMMA NextStruct == StructInv /\ [Next]_vars => StructInv'
BY WorkerStruct, DiskStruct, StutterStruct DEF Next

-----------------------------------------------------------------------------
(***************************************************************************)
(* The values.                                                             *)
(***************************************************************************)

\* An X that no refused write changed is read as it was stored; one that was
\* changed is on disk as it was stored.
LEMMA LoadedIsStored ==
  ASSUME StructInv, ValueInv, NEW x \in dataIndexes
  PROVE  /\ store[x] # None
         /\ x \notin refused => Loaded(x) = store[x]
         /\ x \in refused => blockManager[x] # None /\ dataFile[recordStart[x]] = store[x]
<1>1. x \in Key /\ store[x] # None
  BY DEF StructInv, TypeOK, ValueInv, MemoryInv
<1>2. CASE x \notin refused /\ blockManager[x] # None
  BY <1>1, <1>2 DEF Loaded, ValueInv, MemoryInv
<1>3. CASE x \notin refused /\ blockManager[x] = None
  BY <1>1, <1>3 DEF Loaded, StructInv, PendingStaysInMemory, ValueInv, CleanInv
<1>4. CASE x \in refused
  BY <1>1, <1>4 DEF StructInv, RefusedInv, ValueInv, CleanInv
<1> QED
  BY <1>1, <1>2, <1>3, <1>4

LEMMA WorkerValue ==
  ASSUME StructInv, ValueInv, NEW w \in Worker, WorkerNext(w)
  PROVE  ValueInv'
<1> USE NoneAssumption DEF ValueInv
<1>0. TypeOK /\ PendingStaysInMemory /\ RefusedInv
  BY DEF StructInv
<1>1. ASSUME NEW x \in Key, ReadData(w, x) PROVE ValueInv'
  <2>1. x \in dataIndexes /\ (x \notin refused => Loaded(x) = store[x])
    BY <1>1, LoadedIsStored DEF ReadData
  <2>2. blockManager' = [blockManager EXCEPT ![x] = Loaded(x)]
    BY <1>1 DEF ReadData, Touch
  <2>3. MemoryInv'
    BY <1>0, <1>1, <2>1, <2>2 DEF ReadData, TypeOK, MemoryInv, history
  <2>4. CleanInv'
    BY <1>1 DEF ReadData, CleanInv, diskVars, history
  <2> QED
    BY <2>3, <2>4
<1>2. ASSUME NEW x \in Key, NEW v, v # None, NEW f, ModifyData(w, x, v, f)
      PROVE  ValueInv'
  BY <1>0, <1>2 DEF ModifyData, Touch, Queue, TypeOK, MemoryInv, CleanInv, diskVars
<1>3. ASSUME NEW x \in Key, NEW v \in Value, RefuseData(w, x, v) PROVE ValueInv'
  <2>1. /\ x \in dataIndexes /\ blockManager' = [blockManager EXCEPT ![x] = v]
        /\ dataIndexes' = dataIndexes /\ flags' = flags /\ recordStart' = recordStart
        /\ dataFile' = dataFile
    BY <1>3 DEF RefuseData, Touch, diskVars
  <2>2. CASE InDiskQueue \in flags[x]
    <3>1. store' = [store EXCEPT ![x] = v] /\ refused' = refused
      BY <1>3, <2>2 DEF RefuseData
    <3> QED
      BY <1>0, <2>1, <2>2, <3>1 DEF TypeOK, MemoryInv, CleanInv
  <2>3. CASE InDiskQueue \notin flags[x]
    <3>1. store' = store /\ refused' = refused \cup {x}
      BY <1>3, <2>3 DEF RefuseData
    <3> QED
      BY <1>0, <2>1, <3>1 DEF TypeOK, MemoryInv, CleanInv
  <2> QED
    BY <2>2, <2>3
<1>4. ASSUME NEW x \in Key, NEW v \in Value, InsertData(w, x, v) PROVE ValueInv'
  BY <1>0, <1>4 DEF InsertData, Touch, Queue, TypeOK, MemoryInv, CleanInv, diskVars
<1>5. ASSUME NEW x \in Key, DeleteData(w, x) PROVE ValueInv'
  BY <1>0, <1>5 DEF DeleteData, TypeOK, MemoryInv, CleanInv, indexVars, diskVars, history
<1>6. ASSUME NEW x \in Key, CheckMemory(w, x) PROVE ValueInv'
  BY <1>0, <1>6 DEF CheckMemory, Evictable, TypeOK, MemoryInv, CleanInv, diskVars
<1>7. ASSUME RemoveFromQueue(w) PROVE ValueInv'
  BY <1>7 DEF RemoveFromQueue, MemoryInv, CleanInv, indexVars, diskVars, history
<1> QED
  BY <1>1, <1>2, <1>3, <1>4, <1>5, <1>6, <1>7
  DEF WorkerNext, UpdateData, GrowData, DefragmentData

LEMMA CommitItemValue ==
  ASSUME StructInv, ValueInv, NEW x \in batch \cap dataIndexes, NEW p, Target(x, p),
         CommitItem(x, p)
  PROVE  ValueInv' /\ dataFile'[p] = store'[x]
<1> USE DEF ValueInv
<1>0. x \in Key /\ p \in Pos /\ TypeOK
  BY DEF StructInv, TypeOK, Target
<1>1. dataFile' = [dataFile EXCEPT ![p] = store[x]]
  BY <1>0, ItemInMemory, NoneAssumption DEF MemoryInv, CommitItem
<1>2. MemoryInv'
  BY DEF CommitItem, MemoryInv, history
<1>3. CleanInv'
  <2>1. SUFFICES ASSUME NEW y \in dataIndexes, InDiskQueue \notin flags'[y]
                 PROVE  dataFile'[recordStart'[y]] = store'[y]
    BY DEF CommitItem, CleanInv
  <2>2. CASE y = x
    BY <1>0, <1>1, <2>2 DEF CommitItem, TypeOK, history
  <2>3. CASE y # x
    <3>1. InDiskQueue \notin flags[y] /\ y \in Key
      BY <1>0, <2>1, <2>3 DEF CommitItem, TypeOK
    <3>2. recordStart[y] # None
      BY <3>1 DEF StructInv, FlagInv
    <3>3. recordStart[y] # p
      BY <1>0, <2>3, <3>1, <3>2, TargetIsNotAnothers
    <3> QED
      BY <1>0, <1>1, <2>3, <3>1, <3>2, <3>3 DEF CommitItem, TypeOK, CleanInv, history
  <2> QED
    BY <2>2, <2>3
<1> QED
  BY <1>0, <1>1, <1>2, <1>3 DEF CommitItem, TypeOK, history

LEMMA DiskValue ==
  ASSUME StructInv, ValueInv, DiskNext
  PROVE  ValueInv'
<1>1. ASSUME NEW x \in Key, FlushInPlace(x) PROVE ValueInv'
  BY <1>1, InPlaceTarget, CommitItemValue
<1>2. ASSUME NEW x \in Key, NEW p \in Pos, FlushRelocated(x, p) PROVE ValueInv'
  BY <1>2, RelocatedTarget, CommitItemValue
<1>3. ASSUME UNCHANGED <<indexVars, dataFile, history>> PROVE ValueInv'
  BY <1>3 DEF ValueInv, MemoryInv, CleanInv, indexVars, history
<1> QED
  BY <1>1, <1>2, <1>3 DEF DiskNext, TakeDeletions, EraseRecord, SkipDeleted, TakeItems,
     FinishProcess, DefragmentFreeSpace, diskVars, history

LEMMA NextValue == StructInv /\ ValueInv /\ [Next]_vars => ValueInv'
<1>1. ValueInv /\ UNCHANGED vars => ValueInv'
  BY DEF vars, history, indexVars, diskVars, ValueInv, MemoryInv, CleanInv
<1> QED
  BY <1>1, WorkerValue, DiskValue DEF Next

-----------------------------------------------------------------------------
(***************************************************************************)
(* The CRCs.                                                               *)
(***************************************************************************)

LEMMA NextCrc == StructInv /\ ValueInv /\ CrcInv /\ [Next]_vars => CrcInv'
<1> SUFFICES ASSUME StructInv, ValueInv, CrcInv, [Next]_vars PROVE CrcInv'
  OBVIOUS
<1>0. TypeOK
  BY DEF StructInv
<1>1. ASSUME NEW w \in Worker, WorkerNext(w) PROVE CrcInv'
  BY <1>0, <1>1 DEF WorkerNext, ReadData, DefragmentData, UpdateData, GrowData, ModifyData,
     RefuseData, InsertData, DeleteData, RemoveFromQueue, CheckMemory, Evictable, Queue,
     CrcInv, TypeOK,
     indexVars, history
<1>2. ASSUME NEW x \in batch \cap dataIndexes, NEW p, CommitItem(x, p) PROVE CrcInv'
  <2>1. crc32' = [crc32 EXCEPT ![x] = store[x]] /\ x \in Key
    BY <1>2, ItemInMemory, NoneAssumption DEF CommitItem, ValueInv, MemoryInv
  <2> QED
    BY <1>0, <1>2, <2>1 DEF CommitItem, CrcInv, TypeOK, history
<1>3. ASSUME UNCHANGED <<indexVars, store>> PROVE CrcInv'
  BY <1>3 DEF CrcInv, indexVars, history
<1> QED
  BY <1>1, <1>2, <1>3 DEF Next, DiskNext, FlushInPlace, FlushRelocated, TakeDeletions,
     EraseRecord, SkipDeleted, TakeItems, FinishProcess, DefragmentFreeSpace, vars, history

LEMMA InitIInv == Init => IInv
<1>1. Init => ValueInv /\ CrcInv
  BY DEF Init, ValueInv, MemoryInv, CleanInv, CrcInv
<1> QED
  BY <1>1, InitStruct DEF IInv

LEMMA NextIInv == IInv /\ [Next]_vars => IInv'
BY NextStruct, NextValue, NextCrc DEF IInv

\* Every reachable state satisfies the inductive invariant.
THEOREM Invariance == Spec => []IInv
BY InitIInv, NextIInv, PTL DEF Spec

\* Every variable keeps its type: in particular Process never commits an item
\* without blocks or extent (a NULL block manager or a start of -1).
THEOREM TypeCorrect == Spec => []TypeOK
<1>1. IInv => TypeOK
  BY DEF IInv, StructInv
<1> QED
  BY <1>1, Invariance, PTL

\* What ReadsSeeLastWrite of Storage says of the lookups of worker threads
\* holds whatever the number of X's, workers, extents and slots: eviction,
\* flush, relocation, deletion and the rebuild of the free space never lose
\* or mix up what an accepted write left.  Only a refused write that removed
\* records makes memory and disk differ, and then the disk has them still.
THEOREM ReadsAreCorrect == Spec => []ReadsSeeLastWrite
<1>1. IInv => ReadsSeeLastWrite
  BY LoadedIsStored DEF IInv, ReadsSeeLastWrite, ValueInv, MemoryInv
<1> QED
  BY <1>1, Invariance, PTL

\* CheckMemory never frees blocks that Process still has to write, and Process
\* finds the blocks of every item that is still in the map.
THEOREM PendingIsSafe == Spec => []PendingStaysInMemory
<1>1. IInv => PendingStaysInMemory
  BY DEF IInv, StructInv
<1> QED
  BY <1>1, Invariance, PTL

\* CheckBlockManager finds an extent, with the data its CRC was computed from,
\* for every X without blocks in memory.
THEOREM EvictionIsSafe == Spec => []EvictedIsReadable
<1>1. IInv => EvictedIsReadable
  BY DEF IInv, StructInv, ValueInv, EvictedIsReadable, PendingStaysInMemory, FlagInv,
     CleanInv, CrcInv
<1> QED
  BY <1>1, Invariance, PTL

\* DRECs, free space and the extents Process gives up split the data file.
THEOREM SpaceIsPartitioned == Spec => []SpacePartition
<1>1. IInv => SpacePartition
  BY DEF IInv, StructInv
<1> QED
  BY <1>1, Invariance, PTL

\* "Commit transaction before clear flag": Process clears
\* eRIF_InDiskWriteQueue only when data and DREC of x are on disk.
THEOREM CommitIsBeforeClear == Spec => CommitBeforeClear
<1> DEFINE OnDisk(x) ==
      (InDiskQueue \in flags[x] /\ InDiskQueue \notin flags'[x]) =>
        \E s \in Slot :
          indexFile'[s] # None /\ indexFile'[s].key = x
          /\ dataFile'[indexFile'[s].start] = store'[x]
<1>1. ASSUME IInv, [Next]_vars, NEW x \in dataIndexes \cap dataIndexes'
      PROVE  OnDisk(x)
  <2> SUFFICES ASSUME InDiskQueue \in flags[x], InDiskQueue \notin flags'[x]
               PROVE  \E s \in Slot :
                        indexFile'[s] # None /\ indexFile'[s].key = x
                        /\ dataFile'[indexFile'[s].start] = store'[x]
    OBVIOUS
  <2>0. x \in Key /\ TypeOK
    BY <1>1 DEF IInv, StructInv, TypeOK
  <2>1. ASSUME NEW y \in Key, NEW p, y \in batch \cap dataIndexes, Target(y, p),
               CommitItem(y, p)
        PROVE  \E s \in Slot :
                 indexFile'[s] # None /\ indexFile'[s].key = x
                 /\ dataFile'[indexFile'[s].start] = store'[x]
    <3>1. y = x
      BY <2>0, <2>1 DEF CommitItem, TypeOK
    <3>2. dataFile'[p] = store'[x]
      BY <1>1, <2>1, <3>1, CommitItemValue DEF IInv
    <3> QED
      BY <1>1, <2>1, <3>1, <3>2, CommitOwns DEF IInv
  <2>2. ASSUME NEW y \in Key, FlushInPlace(y)
        PROVE  y \in batch \cap dataIndexes /\ Target(y, recordStart[y])
               /\ CommitItem(y, recordStart[y])
    BY <1>1, <2>2, InPlaceTarget DEF IInv
  <2>3. ASSUME NEW y \in Key, NEW p \in Pos, FlushRelocated(y, p)
        PROVE  y \in batch \cap dataIndexes /\ Target(y, p) /\ CommitItem(y, p)
    BY <1>1, <2>3, RelocatedTarget DEF IInv
  <2>4. \/ \E y \in Key : FlushInPlace(y) \/ \E p \in Pos : FlushRelocated(y, p)
        \/ InDiskQueue \in flags'[x]
    <3>1. ASSUME NEW w \in Worker, WorkerNext(w) PROVE InDiskQueue \in flags'[x]
      <4>1. ASSUME NEW y \in Key, NEW v, NEW f, ModifyData(w, y, v, f)
            PROVE  InDiskQueue \in flags'[x]
        BY <2>0, <4>1 DEF ModifyData, Queue, TypeOK
      <4>2. ASSUME NEW y \in Key, NEW v, InsertData(w, y, v)
            PROVE  InDiskQueue \in flags'[x]
        BY <2>0, <4>2 DEF InsertData, Queue, TypeOK
      <4>3. ASSUME NEW y \in Key, DeleteData(w, y) PROVE InDiskQueue \in flags'[x]
        BY <2>0, <4>3, <1>1 DEF DeleteData, TypeOK, indexVars
      <4> QED
        BY <3>1, <4>1, <4>2, <4>3
        DEF WorkerNext, ReadData, RefuseData, DefragmentData, UpdateData, GrowData,
            CheckMemory, RemoveFromQueue, indexVars
    <3>2. ASSUME DiskNext
          PROVE  \/ \E y \in Key : FlushInPlace(y) \/ \E p \in Pos : FlushRelocated(y, p)
                 \/ InDiskQueue \in flags'[x]
      BY <3>2 DEF DiskNext, TakeDeletions, EraseRecord, SkipDeleted, TakeItems,
                  FinishProcess, DefragmentFreeSpace, indexVars
    <3> QED
      BY <1>1, <3>1, <3>2 DEF Next, vars, indexVars
  <2> QED
    BY <2>1, <2>2, <2>3, <2>4
<1>2. IInv /\ [Next]_vars => [\A x \in dataIndexes \cap dataIndexes' : OnDisk(x)]_vars
  BY <1>1
<1> QED
  BY <1>2, Invariance, PTL DEF Spec, CommitBeforeClear

\* A block manager in memory is in the LRU cache of a worker, so CheckMemory
\* can reach all the memory that m_memoryUsed counts.
THEOREM MemoryIsReachable == Spec => []LoadedIsEvictable
<1>1. Init => LoadedIsEvictable
  BY DEF Init, LoadedIsEvictable
<1>2. TypeOK /\ LoadedIsEvictable /\ [Next]_vars => LoadedIsEvictable'
  <2> SUFFICES ASSUME TypeOK, LoadedIsEvictable, [Next]_vars PROVE LoadedIsEvictable'
    OBVIOUS
  <2> USE DEF LoadedIsEvictable
  <2>1. ASSUME NEW w \in Worker, NEW x \in Key, NEW v, Touch(w, x, v),
               dataIndexes' \subseteq dataIndexes \cup {x}
        PROVE  LoadedIsEvictable'
    BY <2>1 DEF Touch, TypeOK
  <2>2. ASSUME NEW w \in Worker, NEW x \in Key, DeleteData(w, x) PROVE LoadedIsEvictable'
    BY <2>2 DEF DeleteData, TypeOK, indexVars
  <2>3. ASSUME NEW w \in Worker, NEW x \in Key, CheckMemory(w, x) PROVE LoadedIsEvictable'
    BY <2>3 DEF CheckMemory, Evictable, TypeOK
  <2>4. ASSUME NEW w \in Worker, WorkerNext(w) PROVE LoadedIsEvictable'
    <3>1. ASSUME NEW x \in Key,
                 \/ ReadData(w, x)
                 \/ \E v \in Value : \/ InsertData(w, x, v) \/ UpdateData(w, x, v)
                                    \/ GrowData(w, x, v) \/ DefragmentData(w, x, v)
                                    \/ RefuseData(w, x, v)
          PROVE  LoadedIsEvictable'
      BY <2>1, <3>1 DEF ReadData, DefragmentData, UpdateData, GrowData, ModifyData,
         RefuseData,
         InsertData
    <3>2. ASSUME RemoveFromQueue(w) PROVE LoadedIsEvictable'
      BY <3>2 DEF RemoveFromQueue, indexVars
    <3> QED
      BY <2>2, <2>3, <2>4, <3>1, <3>2 DEF WorkerNext
  <2>5. ASSUME DiskNext PROVE LoadedIsEvictable'
    BY <2>5 DEF DiskNext, TakeDeletions, EraseRecord, SkipDeleted, FlushInPlace,
       FlushRelocated, CommitItem, TakeItems, FinishProcess, DefragmentFreeSpace,
       indexVars, workerVars, history
  <2>6. CASE UNCHANGED vars
    BY <2>6 DEF vars, indexVars, workerVars, history
  <2> QED
    BY <2>4, <2>5, <2>6 DEF Next
<1> QED
  BY <1>1, <1>2, TypeCorrect, PTL DEF Spec
=============================================================================
