---------------------------- MODULE RestartProofs ----------------------------
(***************************************************************************)
(* Proofs about StorageRestart, for every set of X's, workers, values,     *)
(* extents and slots and every number of crashes.                          *)
(*                                                                         *)
(* Three layers.  The structure survives every restart and crash whatever  *)
(* clients do.  As long as no deletion races with a write (NoRemoveRace),  *)
(* each flagged X has its queue entry.  As long as, besides, no X is       *)
(* deleted again before its deletion is processed, and the process does    *)
(* not die while an X has two DRECs, nothing that was flushed or was still *)
(* queued is lost.                                                         *)
(***************************************************************************)
EXTENDS RestartInvariant, StorageProofs, FiniteSetTheorems

\* No X is deleted while a deletion of it waits in m_pRIDelQueue.
NoRedelete ==
  \A x \in Key :
    (x \in dataIndexes /\ delQueue'[x] # delQueue[x] /\ delQueue'[x] # None)
      => delQueue[x] = None

\* The steps of Working and FinalProcess are steps of Storage.
LEMMA RNextCases ==
  ASSUME [RNext]_rvars
  PROVE  \/ [Next]_vars /\ UNCHANGED <<mode, crashes>> /\ (~RedeleteBeforeFlush => NoRedelete)
         \/ Stop
         \/ Restart
         \/ Crash
<1>1. ASSUME Working
      PROVE  Next /\ UNCHANGED <<mode, crashes>> /\ (~RedeleteBeforeFlush => NoRedelete)
  BY <1>1 DEF Working, Next, NoRedelete, MayDelete
<1>2. ASSUME FinalProcess
      PROVE  Next /\ UNCHANGED <<mode, crashes>> /\ NoRedelete
  <2>1. DiskNext /\ UNCHANGED <<mode, crashes>>
    BY <1>2 DEF FinalProcess, DiskNext
  <2>2. delQueue' = delQueue \/ \A x \in Key : delQueue'[x] = None
    BY <2>1 DEF DiskNext, TakeDeletions, EraseRecord, SkipDeleted, FlushInPlace,
       FlushRelocated, CommitItem, TakeItems, FinishProcess, DefragmentFreeSpace
  <2> QED
    BY <2>1, <2>2 DEF Next, NoRedelete
<1>3. ASSUME UNCHANGED rvars
      PROVE  UNCHANGED vars /\ UNCHANGED <<mode, crashes>> /\ NoRedelete
  BY <1>3 DEF rvars, vars, NoRedelete
<1> QED
  BY <1>1, <1>2, <1>3 DEF RNext

-----------------------------------------------------------------------------
(***************************************************************************)
(* The structure.                                                          *)
(***************************************************************************)

\* Init on any index file whose DRECs have extents of their own, with data.
LEMMA LoadIndexStruct ==
  ASSUME StructInv, NEW pick \in Picks, LoadIndex(pick),
         dataFile' \in [Pos -> Value \cup {None}],
         \A p \in Pos : dataFile[p] # None => dataFile'[p] # None,
         store' \in [Key -> Value \cup {None}]
  PROVE  StructInv'
<1> USE NoneAssumption DEF StructInv
<1>0. OnDisk \subseteq Key
  BY DEF OnDisk, TypeOK, DREC
<1>1. \A x \in OnDisk : /\ pick[x] \in Slot /\ indexFile[pick[x]] \in DREC
                        /\ indexFile[pick[x]] # None /\ indexFile[pick[x]].key = x
  BY DEF Picks, DRECsOf, TypeOK
<1>2. \A x \in OnDisk : indexFile[pick[x]].start \in Pos /\ indexFile[pick[x]].crc \in Value
  BY <1>1 DEF DREC
<1>3. TypeOK'
  <2>1. /\ dataIndexes' \in SUBSET Key
        /\ blockManager' \in [Key -> Value \cup {None}]
        /\ recordStart' \in [Key -> Pos \cup {None}]
        /\ ibSlot' \in [Key -> Slot \cup {None}]
        /\ flags' \in [Key -> SUBSET Flag]
        /\ crc32' \in [Key -> Value \cup {None}]
    BY <1>0, <1>1, <1>2 DEF LoadIndex
  <2>2. file' \in SUBSET Pos /\ freeSpace' \in SUBSET Pos
        /\ indexFile' \in [Slot -> DREC \cup {None}]
    BY DEF LoadIndex, TypeOK
  <2> QED
    BY <2>1, <2>2 DEF LoadIndex, TypeOK
<1>4. DeadInv'
  BY DEF LoadIndex, DeadInv
<1>5. PendingStaysInMemory' /\ RefusedInv'
  BY <1>0 DEF LoadIndex, PendingStaysInMemory, RefusedInv
<1>6. FlagInv'
  BY <1>0, <1>2 DEF LoadIndex, FlagInv
<1>7. OwnerInv'
  <2>1. ASSUME NEW x \in OnDisk PROVE Owns(x, recordStart[x], ibSlot[x])'
    BY <1>0, <1>1, <2>1 DEF LoadIndex, Owns
  <2>2. ASSUME NEW x \in Key \ OnDisk PROVE Owns(x, recordStart[x], ibSlot[x])'
    BY <2>2 DEF LoadIndex, Owns
  <2>3. \A x \in Key : delQueue'[x] = None /\ delBatch'[x] = None
    BY DEF LoadIndex
  <2> QED
    BY <2>1, <2>2, <2>3 DEF OwnerInv
<1>8. DataInv'
  BY DEF LoadIndex, DataInv, TypeOK, DREC
<1>9. BatchInv'
  BY DEF LoadIndex, BatchInv
<1>10. SpacePartition'
  BY DEF LoadIndex, SpacePartition, Indexed
<1> QED
  BY <1>3, <1>4, <1>5, <1>6, <1>7, <1>8, <1>9, <1>10

\* The write that a crash interrupts, if any, and whatever blocks it leaves
\* behind, does not hit the extent of an X
\* that does not wait for the storage thread.
LEMMA TornWrite ==
  ASSUME StructInv, Crash
  PROVE  /\ dataFile' \in [Pos -> Value \cup {None}]
         /\ \A p \in Pos : dataFile[p] # None => dataFile'[p] # None
         /\ \A s \in Slot : indexFile[s] # None =>
              \/ dataFile'[indexFile[s].start] = dataFile[indexFile[s].start]
              \/ \E x \in dataIndexes :
                   InDiskQueue \in flags[x] /\ recordStart[x] = indexFile[s].start
<1> USE NoneAssumption DEF StructInv
<1>1. CASE dataFile' = dataFile
  BY <1>1 DEF TypeOK
<1>2. CASE \E x \in batch \cap dataIndexes : \E p \in TornTargets(x) : \E v \in Value :
             dataFile' = [dataFile EXCEPT ![p] = v]
  <2>0. PICK x \in batch \cap dataIndexes :
          \E p \in TornTargets(x) : \E v \in Value : dataFile' = [dataFile EXCEPT ![p] = v]
    BY <1>2
  <2>1. PICK p \in TornTargets(x), v \in Value : dataFile' = [dataFile EXCEPT ![p] = v]
    BY <2>0
  <2>2. x \in Key /\ InDiskQueue \in flags[x]
    BY ItemInMemory
  <2>3. p \in freeSpace \/ (p = recordStart[x] /\ recordStart[x] # None)
    BY DEF TornTargets, FlagInv
  <2>4. p \in Pos
    BY <2>2, <2>3 DEF TypeOK
  <2>5. \A s \in Slot : indexFile[s] # None => indexFile[s].start \notin freeSpace
    BY DEF SpacePartition, Indexed
  <2>6. \A s \in Slot : indexFile[s] # None => indexFile[s].start \in Pos
    BY DEF TypeOK, DREC
  <2>7. /\ dataFile' \in [Pos -> Value \cup {None}]
        /\ dataFile'[p] # None
        /\ \A q \in Pos : q # p => dataFile'[q] = dataFile[q]
    BY <2>1, <2>2, <2>4 DEF TypeOK
  <2>8. ASSUME NEW s \in Slot, indexFile[s] # None,
               dataFile'[indexFile[s].start] # dataFile[indexFile[s].start]
        PROVE  InDiskQueue \in flags[x] /\ recordStart[x] = indexFile[s].start
    BY <2>2, <2>3, <2>5, <2>6, <2>7, <2>8
  <2> QED
    BY <2>7, <2>8
<1> QED
  BY <1>1, <1>2 DEF Crash

LEMMA CrashStruct ==
  ASSUME StructInv, Crash
  PROVE  StructInv'
<1>1. PICK pick \in Picks :
        /\ LoadIndex(pick)
        /\ store' = [x \in Key |-> IF x \in OnDisk THEN dataFile'[indexFile[pick[x]].start]
                                                   ELSE None]
  BY DEF Crash
<1>2. \A x \in OnDisk : indexFile[pick[x]].start \in Pos
  BY NoneAssumption DEF Picks, OnDisk, DRECsOf, StructInv, TypeOK, DREC
<1>3. store' \in [Key -> Value \cup {None}]
  BY <1>1, <1>2, TornWrite
<1> QED
  BY <1>1, <1>3, TornWrite, LoadIndexStruct

LEMMA RestartStruct ==
  ASSUME StructInv, Restart
  PROVE  StructInv'
BY LoadIndexStruct DEF Restart, StructInv, TypeOK

LEMMA RNextStruct == RStructInv /\ [RNext]_rvars => RStructInv'
<1> SUFFICES ASSUME RStructInv, [RNext]_rvars PROVE RStructInv'
  OBVIOUS
<1>1. StructInv /\ crashes \in 0..MaxCrashes /\ mode \in {"up", "stopping"}
  BY DEF RStructInv, RTypeOK
<1>2. CASE [Next]_vars /\ UNCHANGED <<mode, crashes>>
  BY <1>1, <1>2, NextStruct DEF RStructInv, RTypeOK, StructInv
<1>3. CASE Stop
  BY <1>1, <1>3, StutterStruct DEF Stop, RStructInv, RTypeOK, StructInv
<1>4. CASE Restart
  <2>1. StructInv'
    BY <1>1, <1>4, RestartStruct
  <2>2. mode' = "up" /\ crashes' = crashes
    BY <1>4 DEF Restart, LoadIndex
  <2> QED
    BY <1>1, <2>1, <2>2 DEF RStructInv, RTypeOK, StructInv
<1>5. CASE Crash
  <2>1. StructInv'
    BY <1>1, <1>5, CrashStruct
  <2>2. mode' = "up" /\ crashes' = crashes + 1 /\ crashes < MaxCrashes
    BY <1>5 DEF Crash, LoadIndex
  <2>3. crashes' \in 0..MaxCrashes
    BY <1>1, <2>2, RestartAssumption
  <2> QED
    BY <1>1, <2>1, <2>2, <2>3 DEF RStructInv, RTypeOK, StructInv
<1> QED
  BY <1>2, <1>3, <1>4, <1>5, RNextCases

LEMMA RInitStruct == RInit => RStructInv
BY InitStruct, RestartAssumption DEF RInit, RStructInv, RTypeOK, StructInv

\* Types, memory and files fit together after every restart and crash, even
\* those that lost data.
THEOREM RestartStructure == RSpec => []RStructInv
BY RInitStruct, RNextStruct, PTL DEF RSpec

\* Types are kept, the bound on crashes included.
THEOREM RestartTypes == RSpec => []RTypeOK
<1>1. RStructInv => RTypeOK
  BY DEF RStructInv
<1> QED
  BY <1>1, RestartStructure, PTL

\* No restart and no crash, whatever it loses, lets two DRECs share an extent,
\* or a free extent be one that a DREC names.
THEOREM RestartKeepsPartition == RSpec => []SpacePartition
<1>1. RStructInv => SpacePartition
  BY DEF RStructInv, StructInv
<1> QED
  BY <1>1, RestartStructure, PTL

-----------------------------------------------------------------------------
(***************************************************************************)
(* The queue.                                                              *)
(***************************************************************************)

LEMMA NextQueued ==
  ASSUME StructInv, FlaggedIsQueued, NoRemoveRace, [Next]_vars
  PROVE  FlaggedIsQueued'
<1> USE DEF FlaggedIsQueued
<1>0. TypeOK /\ BatchInv
  BY DEF StructInv
<1>1. ASSUME NEW w \in Worker, WorkerNext(w) PROVE FlaggedIsQueued'
  <2>1. ASSUME NEW x \in Key, NEW v, NEW f, ModifyData(w, x, v, f) PROVE FlaggedIsQueued'
    BY <1>0, <2>1 DEF ModifyData, Queue, TypeOK, procVars
  <2>2. ASSUME NEW x \in Key, NEW v, InsertData(w, x, v) PROVE FlaggedIsQueued'
    BY <1>0, <2>2 DEF InsertData, Queue, TypeOK, procVars
  <2>3. ASSUME NEW x \in Key, DeleteData(w, x) PROVE FlaggedIsQueued'
    BY <1>0, <2>3 DEF DeleteData, TypeOK, indexVars, procVars
  <2>4. ASSUME NEW x \in Key,
               ReadData(w, x) \/ CheckMemory(w, x) \/ \E v \in Value : RefuseData(w, x, v)
        PROVE  FlaggedIsQueued'
    BY <2>4 DEF ReadData, CheckMemory, RefuseData, procVars
  <2>5. ASSUME RemoveFromQueue(w) PROVE FlaggedIsQueued'
    BY <2>5 DEF RemoveFromQueue, NoRemoveRace, indexVars, procVars
  <2> QED
    BY <1>1, <2>1, <2>2, <2>3, <2>4, <2>5 DEF WorkerNext, DefragmentData, UpdateData, GrowData
<1>2. ASSUME NEW x \in batch \cap dataIndexes, NEW p, CommitItem(x, p)
      PROVE  FlaggedIsQueued'
  BY <1>0, <1>2 DEF CommitItem, ClearedFlags, TypeOK
<1>3. ASSUME TakeItems PROVE FlaggedIsQueued'
  BY <1>0, <1>3 DEF TakeItems, BatchInv, indexVars
<1>4. ASSUME NEW x \in Key, SkipDeleted(x) PROVE FlaggedIsQueued'
  BY <1>4 DEF SkipDeleted, indexVars
<1>5. ASSUME FinishProcess PROVE FlaggedIsQueued'
  BY <1>5 DEF FinishProcess, indexVars
<1>6. ASSUME UNCHANGED <<indexVars, queue, batch>> PROVE FlaggedIsQueued'
  BY <1>6 DEF indexVars
<1> QED
  BY <1>1, <1>2, <1>3, <1>4, <1>5, <1>6 DEF Next, DiskNext, FlushInPlace, FlushRelocated,
     TakeDeletions, EraseRecord, DefragmentFreeSpace, vars, procVars

LEMMA RNextQueued ==
  ASSUME RStructInv, FlaggedIsQueued, NoRemoveRace, [RNext]_rvars
  PROVE  FlaggedIsQueued'
<1>1. StructInv
  BY DEF RStructInv
<1>2. CASE [Next]_vars
  BY <1>1, <1>2, NextQueued
<1>3. CASE Stop
  BY <1>3 DEF Stop, FlaggedIsQueued, vars, indexVars, procVars
<1>4. ASSUME NEW pick, LoadIndex(pick) PROVE FlaggedIsQueued'
  <2>1. OnDisk \subseteq Key
    BY <1>1, NoneAssumption DEF OnDisk, StructInv, TypeOK, DREC
  <2> QED
    BY <1>4, <2>1 DEF LoadIndex, FlaggedIsQueued
<1> QED
  BY <1>2, <1>3, <1>4, RNextCases DEF Restart, Crash

\* An X with eRIF_InDiskWriteQueue has its entry in the queue, with any number
\* of workers, unless a deletion races with a write of the same X: that race
\* is the only way to lose one.
THEOREM FlagsFollowQueue == RSpec /\ []NoRemoveRace => []FlaggedIsQueued
<1>1. RInit => FlaggedIsQueued
  BY DEF RInit, Init, FlaggedIsQueued
<1>2. RStructInv /\ FlaggedIsQueued /\ NoRemoveRace /\ [RNext]_rvars => FlaggedIsQueued'
  BY RNextQueued
<1> QED
  BY <1>1, <1>2, RestartStructure, PTL DEF RSpec

\* One worker never deletes an X while it writes it.
LEMMA OneWorkerStep ==
  ASSUME \A v, w \in Worker : v = w, RStructInv, NoRemoveRace, [RNext]_rvars
  PROVE  NoRemoveRace'
<1> USE NoneAssumption DEF NoRemoveRace
<1>0. TypeOK /\ None \notin dataIndexes
  BY DEF RStructInv, StructInv, TypeOK
<1>1. ASSUME NEW w \in Worker, NEW x \in Key, NEW v, InsertData(w, x, v) PROVE NoRemoveRace'
  BY <1>0, <1>1 DEF InsertData, Idle
<1>2. ASSUME NEW w \in Worker, NEW x \in Key, DeleteData(w, x) PROVE NoRemoveRace'
  BY <1>0, <1>2 DEF DeleteData, TypeOK, indexVars
<1>3. ASSUME NEW w \in Worker, RemoveFromQueue(w) PROVE NoRemoveRace'
  BY <1>0, <1>3 DEF RemoveFromQueue, TypeOK, indexVars
<1>4. ASSUME UNCHANGED <<dataIndexes, removing>> PROVE NoRemoveRace'
  BY <1>4
<1>5. CASE [Next]_vars
  BY <1>1, <1>2, <1>3, <1>4, <1>5 DEF Next, WorkerNext, ReadData, RefuseData, DefragmentData,
     UpdateData, GrowData, ModifyData, CheckMemory, DiskNext, TakeDeletions, EraseRecord, SkipDeleted,
     FlushInPlace, FlushRelocated, CommitItem, TakeItems, FinishProcess,
     DefragmentFreeSpace, vars, indexVars, workerVars
<1>6. CASE Stop
  BY <1>4, <1>6 DEF Stop, vars, indexVars, workerVars
<1>7. ASSUME NEW pick, LoadIndex(pick) PROVE NoRemoveRace'
  BY <1>0, <1>7 DEF LoadIndex, OnDisk, RStructInv, StructInv, TypeOK, DREC
<1> QED
  BY <1>5, <1>6, <1>7, RNextCases DEF Restart, Crash

\* With one worker the race does not exist.
THEOREM OneWorkerIsSafe ==
  ASSUME \A v, w \in Worker : v = w
  PROVE  RSpec => []NoRemoveRace
<1>1. RInit => NoRemoveRace
  BY DEF RInit, Init, NoRemoveRace
<1>2. RStructInv /\ NoRemoveRace /\ [RNext]_rvars => NoRemoveRace'
  BY OneWorkerStep
<1> QED
  BY <1>1, <1>2, RestartStructure, PTL DEF RSpec

-----------------------------------------------------------------------------
(***************************************************************************)
(* The DRECs and the values.                                               *)
(***************************************************************************)

\* The owner of the DREC s, if it has one.
HasOwner(s) ==
  indexFile[s] # None =>
    LET x == indexFile[s].key
    IN  \/ s = ibSlot[x]
        \/ delQueue[x] # None /\ s = delQueue[x].slot
        \/ delBatch[x] # None /\ s = delBatch[x].slot

LEMMA CommitItemOwned ==
  ASSUME StructInv, OwnedInv, NEW x \in batch \cap dataIndexes, NEW p, Target(x, p),
         CommitItem(x, p)
  PROVE  OwnedInv'
<1>0. x \in Key /\ TypeOK
  BY DEF StructInv, TypeOK
<1>1. PICK s \in Slot :
        /\ ibSlot' = [ibSlot EXCEPT ![x] = s]
        /\ indexFile'[s] # None /\ indexFile'[s].key = x
        /\ \A t \in Slot \ {s} : indexFile'[t] = indexFile[t]
        /\ s = ibSlot[x] \/ ibSlot[x] = None
  BY CommitOwns
<1>2. delQueue' = delQueue /\ delBatch' = delBatch
  BY DEF CommitItem
<1>3. HasOwner(s)'
  BY <1>0, <1>1 DEF HasOwner, TypeOK
<1>4. ASSUME NEW t \in Slot \ {s}, indexFile'[t] # None PROVE HasOwner(t)'
  <2>1. indexFile'[t] = indexFile[t] /\ indexFile[t].key \in Key /\ HasOwner(t)
    BY <1>0, <1>1, <1>4 DEF TypeOK, DREC, OwnedInv, HasOwner
  <2>2. t # None
    BY NoneAssumption
  <2> QED
    BY <1>0, <1>1, <1>2, <2>1, <2>2 DEF HasOwner, TypeOK
<1> QED
  BY <1>3, <1>4 DEF OwnedInv, HasOwner

LEMMA NextOwned ==
  ASSUME StructInv, OwnedInv, NoRedelete, [Next]_vars
  PROVE  OwnedInv'
<1> USE NoneAssumption
<1>0. TypeOK /\ BatchInv /\ DeadInv
  BY DEF StructInv
<1>1. ASSUME UNCHANGED <<ibSlot, delQueue, delBatch, indexFile>> PROVE OwnedInv'
  BY <1>1 DEF OwnedInv
<1>2. ASSUME NEW w \in Worker, WorkerNext(w) PROVE OwnedInv'
  <2>1. ASSUME NEW x \in Key, NEW v, InsertData(w, x, v) PROVE OwnedInv'
    <3>1. ibSlot' = ibSlot
      BY <1>0, <2>1 DEF InsertData, DeadInv, TypeOK
    <3> QED
      BY <1>1, <2>1, <3>1 DEF InsertData, procVars, diskVars
  <2>2. ASSUME NEW x \in Key, DeleteData(w, x), x \in dataIndexes PROVE OwnedInv'
    <3>1. /\ delQueue' = [delQueue EXCEPT ![x] = [start |-> recordStart[x], slot |-> ibSlot[x]]]
          /\ ibSlot' = [ibSlot EXCEPT ![x] = None]
          /\ indexFile' = indexFile /\ delBatch' = delBatch
      BY <2>2 DEF DeleteData, procVars, diskVars
    <3>2. [start |-> recordStart[x], slot |-> ibSlot[x]] \in Deletion
      BY <1>0 DEF TypeOK, Deletion
    <3>3. delQueue'[x] # None /\ delQueue'[x].slot = ibSlot[x]
      BY <1>0, <3>1, <3>2 DEF TypeOK
    <3>4. delQueue[x] # None => delQueue'[x] = delQueue[x]
      BY <2>2, <3>3 DEF NoRedelete
    <3>5. ASSUME NEW s \in Slot, indexFile[s] # None PROVE HasOwner(s)'
      <4>1. indexFile[s].key \in Key /\ HasOwner(s)
        BY <1>0, <3>5 DEF TypeOK, DREC, OwnedInv, HasOwner
      <4>2. CASE indexFile[s].key = x
        BY <3>1, <3>3, <3>4, <4>1, <4>2 DEF HasOwner
      <4>3. CASE indexFile[s].key # x
        BY <1>0, <3>1, <4>1, <4>3 DEF HasOwner, TypeOK
      <4> QED
        BY <4>2, <4>3
    <3> QED
      BY <3>1, <3>5 DEF OwnedInv, HasOwner
  <2>3. ASSUME NEW x \in Key, DeleteData(w, x), x \notin dataIndexes PROVE OwnedInv'
    BY <1>1, <2>3 DEF DeleteData, indexVars, procVars, diskVars
  <2> QED
    BY <1>1, <1>2, <2>1, <2>2, <2>3 DEF WorkerNext, ReadData, RefuseData, DefragmentData,
       UpdateData, GrowData, ModifyData, CheckMemory, RemoveFromQueue, indexVars, procVars,
       diskVars
<1>3. ASSUME TakeDeletions PROVE OwnedInv'
  BY <1>0, <1>3 DEF TakeDeletions, OwnedInv, BatchInv, TypeOK, DREC, indexVars, diskVars
<1>4. ASSUME NEW x \in Key, EraseRecord(x) PROVE OwnedInv'
  <2>1. /\ delBatch' = [delBatch EXCEPT ![x] = None] /\ delQueue' = delQueue /\ ibSlot' = ibSlot
        /\ indexFile' = [s \in Slot |-> IF s = delBatch[x].slot THEN None ELSE indexFile[s]]
    BY <1>4 DEF EraseRecord, indexVars
  <2>2. ASSUME NEW s \in Slot, indexFile'[s] # None PROVE HasOwner(s)'
    BY <1>0, <2>1, <2>2 DEF OwnedInv, HasOwner, TypeOK, DREC
  <2> QED
    BY <2>2 DEF OwnedInv, HasOwner
<1>5. ASSUME NEW x \in Key, FlushInPlace(x) PROVE OwnedInv'
  BY <1>5, InPlaceTarget, CommitItemOwned
<1>6. ASSUME NEW x \in Key, NEW p \in Pos, FlushRelocated(x, p) PROVE OwnedInv'
  BY <1>6, RelocatedTarget, CommitItemOwned
<1> QED
  BY <1>1, <1>2, <1>3, <1>4, <1>5, <1>6 DEF Next, DiskNext, SkipDeleted, TakeItems,
     FinishProcess, DefragmentFreeSpace, vars, indexVars, procVars, diskVars

\* If no X has two DRECs, Init finds an owner for each of them.
LEMMA LoadIndexOwned ==
  ASSUME StructInv, NEW pick \in Picks, LoadIndex(pick),
         \A x \in Key : \A s, t \in DRECsOf(x) : s = t
  PROVE  OwnedInv'
<1>1. indexFile' = indexFile /\ ibSlot' = [x \in Key |-> IF x \in OnDisk THEN pick[x] ELSE None]
  BY DEF LoadIndex
<1>2. ASSUME NEW s \in Slot, indexFile[s] # None PROVE s = ibSlot'[indexFile[s].key]
  <2>1. indexFile[s].key \in Key /\ indexFile[s].key \in OnDisk
        /\ s \in DRECsOf(indexFile[s].key)
    BY <1>2 DEF StructInv, TypeOK, DREC, OnDisk, DRECsOf
  <2>2. pick[indexFile[s].key] \in DRECsOf(indexFile[s].key)
    BY <2>1 DEF Picks
  <2> QED
    BY <1>1, <2>1, <2>2
<1> QED
  BY <1>1, <1>2 DEF OwnedInv

LEMMA AtMostOneElement ==
  ASSUME NEW S, IsFiniteSet(S), Cardinality(S) <= 1, NEW s \in S, NEW t \in S
  PROVE  s = t
<1>1. SUFFICES ASSUME s # t PROVE FALSE
  OBVIOUS
<1>2. IsFiniteSet({s}) /\ Cardinality({s}) = 1
  BY FS_Singleton
<1>3. IsFiniteSet({s} \cup {t}) /\ Cardinality({s} \cup {t}) = 2
  <2>1. Cardinality({s} \cup {t}) = IF t \in {s} THEN Cardinality({s}) ELSE Cardinality({s}) + 1
    BY <1>2, FS_AddElement
  <2> QED
    BY SMTT(30), <1>1, <1>2, <2>1, FS_AddElement
<1>4. ({s} \cup {t}) \in SUBSET S
  OBVIOUS
<1>5. Cardinality({s} \cup {t}) <= Cardinality(S)
  BY <1>4, FS_Subset
<1>6. Cardinality(S) \in Nat
  BY FS_CardinalityType
<1> QED
  BY <1>3, <1>5, <1>6

\* The bound of Crash on the DRECs of an X says what it means to say: there
\* are only finitely many of them.
LEMMA AtMostOneDREC ==
  ASSUME OwnedInv, NEW x \in Key, Cardinality(DRECsOf(x)) <= 1
  PROVE  \A s, t \in DRECsOf(x) : s = t
<1> DEFINE owned == ({ibSlot[x]} \cup {delQueue[x].slot}) \cup {delBatch[x].slot}
<1>1. DRECsOf(x) \in SUBSET owned
  BY DEF DRECsOf, OwnedInv
<1>2. IsFiniteSet(owned)
  <2>1. IsFiniteSet({ibSlot[x]})
    BY FS_Singleton
  <2>2. IsFiniteSet({ibSlot[x]} \cup {delQueue[x].slot})
    BY <2>1, FS_AddElement
  <2> QED
    BY <2>2, FS_AddElement
<1>3. IsFiniteSet(DRECsOf(x))
  BY <1>1, <1>2, FS_Subset
<1> QED
  BY <1>3, AtMostOneElement

\* When ~Storage is done, each X of the map has its DREC and no other, and
\* there is what was stored.
LEMMA NothingLeftToDo ==
  ASSUME StructInv, FlaggedIsQueued, OwnedInv, ValueInv, phase = "idle", ~HasTasks
  PROVE  /\ OnDisk = dataIndexes
         /\ \A x \in OnDisk : \A s \in DRECsOf(x) :
              s = ibSlot[x] /\ dataFile[indexFile[s].start] = store[x]
<1> USE NoneAssumption DEF StructInv
<1>1. queue = {} /\ batch = {} /\ \A x \in Key : delQueue[x] = None /\ delBatch[x] = None
  BY DEF HasTasks, BatchInv
<1>2. ASSUME NEW x \in dataIndexes
      PROVE  /\ x \in Key /\ recordStart[x] # None /\ dataFile[recordStart[x]] = store[x]
  BY <1>1 DEF FlaggedIsQueued, FlagInv, ValueInv, CleanInv, TypeOK
<1>3. ASSUME NEW s \in Slot, indexFile[s] # None
      PROVE  indexFile[s].key \in dataIndexes /\ s = ibSlot[indexFile[s].key]
  <2>1. indexFile[s].key \in Key /\ s = ibSlot[indexFile[s].key]
    BY <1>1, <1>3 DEF OwnedInv, TypeOK, DREC
  <2> QED
    BY <2>1 DEF DeadInv
<1>4. OnDisk = dataIndexes
  BY <1>2, <1>3, ExtentIsIndexed DEF OnDisk
<1>5. ASSUME NEW x \in OnDisk, NEW s \in DRECsOf(x)
      PROVE  s = ibSlot[x] /\ dataFile[indexFile[s].start] = store[x]
  BY <1>2, <1>3, <1>4, ExtentIsIndexed DEF DRECsOf
<1> QED
  BY <1>4, <1>5

LEMMA RestartInvariance ==
  ASSUME StructInv, FlaggedIsQueued, OwnedInv, ValueInv, Restart
  PROVE  OwnedInv' /\ ValueInv'
<1>0. phase = "idle" /\ ~HasTasks /\ store' = store /\ dataFile' = dataFile
  BY DEF Restart
<1>1. PICK pick \in Picks : LoadIndex(pick)
  BY DEF Restart
<1>2. /\ OnDisk = dataIndexes
      /\ \A x \in OnDisk : \A s \in DRECsOf(x) :
           s = ibSlot[x] /\ dataFile[indexFile[s].start] = store[x]
  BY <1>0, NothingLeftToDo
<1>3. \A x \in Key : \A s, t \in DRECsOf(x) : s = t
  BY <1>2 DEF DRECsOf, OnDisk
<1>4. \A x \in OnDisk : pick[x] \in DRECsOf(x) /\ x \in Key
  BY <1>2 DEF Picks, StructInv, TypeOK
<1>5. ValueInv'
  BY <1>0, <1>1, <1>2, <1>4 DEF LoadIndex, ValueInv, MemoryInv, CleanInv
<1> QED
  BY <1>1, <1>3, <1>5, LoadIndexOwned

LEMMA CrashInvariance ==
  ASSUME ~CrashOnTwoDRECs, StructInv, OwnedInv, Crash
  PROVE  OwnedInv' /\ ValueInv'
<1>1. PICK pick \in Picks :
        /\ LoadIndex(pick)
        /\ store' = [x \in Key |-> IF x \in OnDisk THEN dataFile'[indexFile[pick[x]].start]
                                                   ELSE None]
  BY DEF Crash
<1>2. \A x \in Key : \A s, t \in DRECsOf(x) : s = t
  BY AtMostOneDREC DEF Crash
<1>3. ASSUME NEW x \in OnDisk
      PROVE  x \in Key /\ dataFile'[indexFile[pick[x]].start] # None
  <2>1. x \in Key /\ pick[x] \in Slot /\ indexFile[pick[x]] # None
    BY DEF OnDisk, Picks, DRECsOf, StructInv, TypeOK, DREC
  <2>2. indexFile[pick[x]].start \in Pos /\ dataFile[indexFile[pick[x]].start] # None
    BY <2>1 DEF StructInv, TypeOK, DREC, DataInv
  <2> QED
    BY <2>1, <2>2, TornWrite
<1>4. ValueInv'
  BY <1>1, <1>3 DEF LoadIndex, ValueInv, MemoryInv, CleanInv
<1> QED
  BY <1>1, <1>2, <1>4, LoadIndexOwned

LEMMA RNextInv ==
  ASSUME ~RedeleteBeforeFlush, ~CrashOnTwoDRECs, RInv, NoRemoveRace, [RNext]_rvars
  PROVE  RInv'
<1>0. StructInv /\ FlaggedIsQueued /\ OwnedInv /\ ValueInv
  BY DEF RInv, RStructInv
<1>1. RStructInv' /\ FlaggedIsQueued'
  BY RNextStruct, RNextQueued DEF RInv
<1>2. OwnedInv' /\ ValueInv'
  <2>1. CASE [Next]_vars /\ NoRedelete
    BY <1>0, <2>1, NextOwned, NextValue
  <2>2. CASE Stop
    BY <1>0, <2>2, NextValue DEF Stop, OwnedInv, vars, indexVars, procVars, diskVars
  <2>3. CASE Restart
    BY <1>0, <2>3, RestartInvariance
  <2>4. CASE Crash
    BY <1>0, <2>4, CrashInvariance
  <2> QED
    BY <2>1, <2>2, <2>3, <2>4, RNextCases
<1> QED
  BY <1>1, <1>2 DEF RInv

\* The invariant of the server through restarts and crashes.
THEOREM RestartKeepsInvariant ==
  ASSUME ~RedeleteBeforeFlush, ~CrashOnTwoDRECs
  PROVE  RSpec /\ []NoRemoveRace => []RInv
<1>1. RInit => RInv
  <2>1. Init => FlaggedIsQueued /\ OwnedInv
    BY DEF Init, FlaggedIsQueued, OwnedInv
  <2> QED
    BY <2>1, RInitStruct, InitIInv DEF RInit, RInv, IInv
<1>2. RInv /\ NoRemoveRace /\ [RNext]_rvars => RInv'
  BY RNextInv
<1> QED
  BY <1>1, <1>2, PTL DEF RSpec

\* A lookup finds what the last accepted write left, also when that was before
\* the last restart, with the one exception that ReadsSeeLastWrite names: what
\* a refused write removed in memory only comes back with the restart.
THEOREM ReadsAreCorrectAfterRestart ==
  ASSUME ~RedeleteBeforeFlush, ~CrashOnTwoDRECs
  PROVE  RSpec /\ []NoRemoveRace => []ReadsSeeLastWrite
<1>1. RInv => ReadsSeeLastWrite
  BY LoadedIsStored DEF RInv, RStructInv, ReadsSeeLastWrite, ValueInv, MemoryInv
<1> QED
  BY <1>1, RestartKeepsInvariant, PTL

\* "do all pending disk writes + delete": a clean shutdown leaves exactly what
\* was stored.
THEOREM ShutdownIsComplete ==
  ASSUME ~RedeleteBeforeFlush, ~CrashOnTwoDRECs
  PROVE  RSpec /\ []NoRemoveRace => []ShutdownFlushesAll
<1>1. RInv => ShutdownFlushesAll
  BY NothingLeftToDo DEF RInv, RStructInv, ShutdownFlushesAll
<1> QED
  BY <1>1, RestartKeepsInvariant, PTL

\* A crash between two steps of the storage thread, or one that leaves the
\* blocks of an item written in full or in part without its DREC, loses
\* nothing but work that was still to do, unless an X has two DRECs at that
\* moment.  A crash in the middle of writing an index block is not modelled.
THEOREM CrashIsContained ==
  ASSUME ~RedeleteBeforeFlush, ~CrashOnTwoDRECs
  PROVE  RSpec /\ []NoRemoveRace => CrashLosesOnlyPending
<1> DEFINE Settled(x) ==
      delQueue[x] = None /\ delBatch[x] = None /\ InDiskQueue \notin flags[x]
<1>1. ASSUME RInv, Crash, NEW x \in Key, Settled(x)
      PROVE  store'[x] = store[x]
  <2>0. StructInv /\ OwnedInv /\ ValueInv
    BY <1>1 DEF RInv, RStructInv
  <2>1. PICK pick \in Picks :
          store' = [y \in Key |-> IF y \in OnDisk THEN dataFile'[indexFile[pick[y]].start]
                                                  ELSE None]
    BY <1>1 DEF Crash
  <2>2. \A s \in DRECsOf(x) : s = ibSlot[x]
    BY <1>1, <2>0 DEF DRECsOf, OwnedInv
  <2>3. CASE x \in dataIndexes
    <3>1. recordStart[x] # None /\ dataFile[recordStart[x]] = store[x]
      BY <1>1, <2>0, <2>3 DEF StructInv, FlagInv, ValueInv, CleanInv
    <3>2. ibSlot[x] \in Slot /\ indexFile[ibSlot[x]] \in DREC
          /\ indexFile[ibSlot[x]].key = x /\ indexFile[ibSlot[x]].start = recordStart[x]
      BY <2>0, <3>1, ExtentIsIndexed
    <3>3. x \in OnDisk /\ pick[x] = ibSlot[x]
      BY <2>2, <3>2, NoneAssumption DEF OnDisk, Picks
    <3>4. dataFile'[recordStart[x]] = dataFile[recordStart[x]]
      BY <1>1, <2>0, <3>1, <3>2, TornWrite, ExtentsDiffer, NoneAssumption
      DEF StructInv, TypeOK
    <3> QED
      BY <2>1, <3>1, <3>2, <3>3, <3>4
  <2>4. CASE x \notin dataIndexes
    <3>1. x \notin OnDisk
      BY <2>0, <2>2, <2>4, NoneAssumption DEF OnDisk, DRECsOf, StructInv, DeadInv
    <3> QED
      BY <2>0, <2>1, <2>4, <3>1 DEF ValueInv, MemoryInv
  <2> QED
    BY <2>3, <2>4
<1>2. ASSUME RInv, [RNext]_rvars, crashes' # crashes PROVE Crash
  BY <1>2, RNextCases, RestartAssumption DEF RInv, RStructInv, RTypeOK, Stop, Restart
<1>3. RInv /\ [RNext]_rvars
        => [crashes' # crashes => \A x \in Key : Settled(x) => store'[x] = store[x]]_rvars
  BY <1>1, <1>2
<1> QED
  BY <1>3, RestartKeepsInvariant, PTL DEF RSpec, CrashLosesOnlyPending
=============================================================================
