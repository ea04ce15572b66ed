--------------------------- MODULE StorageRestart ---------------------------
(***************************************************************************)
(* Storage with the end and the start of the process: a clean shutdown     *)
(* (the workers are joined, ~Storage runs Process once more, Init reads    *)
(* the index file) and a crash (the memory is gone, Init reads what the    *)
(* files hold, possibly after the data of an item were written, in full or *)
(* in part, and before its DREC was).  An index block is written at once:  *)
(* a crash in the middle of one is left out.                               *)
(*                                                                         *)
(* Two bounds name the histories after which something is lost.            *)
(* RedeleteBeforeFlush: may clients delete an X again while an earlier     *)
(* deletion of it still waits in m_pRIDelQueue?  CrashOnTwoDRECs: may the  *)
(* process die while an X has two DRECs, because it was deleted, written   *)
(* again and flushed before its deletion was?                              *)
(***************************************************************************)
EXTENDS Storage, Naturals

CONSTANTS
  RedeleteBeforeFlush, CrashOnTwoDRECs,  \* BOOLEAN
  MaxCrashes                             \* bound: crashes of one behaviour

ASSUME RestartAssumption ==
  /\ RedeleteBeforeFlush \in BOOLEAN /\ CrashOnTwoDRECs \in BOOLEAN
  /\ MaxCrashes \in Nat

VARIABLES
  mode,     \* "up", or "stopping": workers joined, in ~Storage
  crashes   \* number of crashes so far

rvars == <<vars, mode, crashes>>

RTypeOK == TypeOK /\ mode \in {"up", "stopping"} /\ crashes \in 0..MaxCrashes

RInit == Init /\ mode = "up" /\ crashes = 0

\* DiskWriter::HasTasks.  Mutant: only the disk queue is looked at.
HasTasksQueueOnly == queue # {}
HasTasks == queue # {} \/ \E x \in Key : delQueue[x] # None

MayDelete(x) ==
  RedeleteBeforeFlush \/ x \notin dataIndexes \/ delQueue[x] = None

Working ==
  /\ mode = "up"
  /\ \/ \E w \in Worker : WorkerNext(w) /\ UNCHANGED <<mode, crashes>>
     \/ DiskNext /\ UNCHANGED <<mode, crashes>>
  /\ \A x \in Key :
       (x \in dataIndexes /\ delQueue'[x] # delQueue[x] /\ delQueue'[x] # None) => MayDelete(x)

\* DestroyWorkerThreads and ThreadPool.Shutdown: every worker finished its
\* task, the storage thread left run().
Stop ==
  /\ mode = "up" /\ phase = "idle" /\ \A w \in Worker : Idle(w)
  /\ mode' = "stopping"
  /\ UNCHANGED <<vars, crashes>>

\* ~Storage: Process if there is something to do.
FinalProcess ==
  /\ mode = "stopping"
  /\ \/ HasTasks /\ TakeDeletions
     \/ TakeItems
     \/ FinishProcess
     \/ \E x \in Key :
          \/ EraseRecord(x) \/ SkipDeleted(x) \/ FlushInPlace(x)
          \/ \E p \in Pos : FlushRelocated(x, p)
  /\ UNCHANGED <<mode, crashes>>

\* The X's FillIndex finds, and which DREC of an X it may insert first.
OnDisk == {indexFile[s].key : s \in {t \in Slot : indexFile[t] # None}}
DRECsOf(x) == {s \in Slot : indexFile[s] # None /\ indexFile[s].key = x}

\* Init with an index file: the map has no blocks in memory and no flags,
\* the free space is computed from the DRECs, queues and caches are empty.
LoadIndex(pick) ==
  LET drec(x) == indexFile[pick[x]] IN
  /\ UNCHANGED <<file, indexFile>>
  /\ dataIndexes' = OnDisk
  /\ blockManager' = [x \in Key |-> None]
  /\ recordStart' = [x \in Key |-> IF x \in OnDisk THEN drec(x).start ELSE None]
  /\ ibSlot' = [x \in Key |-> IF x \in OnDisk THEN pick[x] ELSE None]
  /\ flags' = [x \in Key |-> {}]
  /\ crc32' = [x \in Key |-> IF x \in OnDisk THEN drec(x).crc ELSE None]
  /\ freeSpace' = file \ Indexed
  /\ queue' = {} /\ delQueue' = [x \in Key |-> None]
  /\ phase' = "idle" /\ delBatch' = [x \in Key |-> None] /\ batch' = {} /\ toFree' = {}
  /\ lru' = [w \in Worker |-> {}]
  /\ removing' = [w \in Worker |-> None]
  /\ refused' = {}
  /\ mode' = "up"

\* A choice of one DREC for every X that has one.
Picks == {f \in [Key -> Slot] : \A x \in OnDisk : f[x] \in DRECsOf(x)}

\* The end of ~Storage and the next start of the server.
Restart ==
  /\ mode = "stopping" /\ phase = "idle" /\ ~HasTasks
  /\ \E pick \in Picks : LoadIndex(pick)
  /\ UNCHANGED <<dataFile, store, crashes>>

\* Where Process may have written blocks of x, all or some of them, without
\* having written its DREC: its old extent if it stays, else a free one.
TornTargets(x) ==
  IF Relocate \in flags[x] THEN freeSpace ELSE {recordStart[x]}

\* The process dies and is started again.  What clients stored is, from now
\* on, what the files hold.
Crash ==
  /\ crashes < MaxCrashes
  /\ CrashOnTwoDRECs \/ \A x \in Key : Cardinality(DRECsOf(x)) <= 1
  /\ crashes' = crashes + 1
  /\ \/ dataFile' = dataFile
     \/ /\ phase = "items"
        /\ \E x \in batch \cap dataIndexes : \E p \in TornTargets(x) : \E v \in Value :
             dataFile' = [dataFile EXCEPT ![p] = v]
  /\ \E pick \in Picks :
       /\ LoadIndex(pick)
       /\ store' = [x \in Key |-> IF x \in OnDisk THEN dataFile'[indexFile[pick[x]].start]
                                                  ELSE None]

RNext == Working \/ Stop \/ FinalProcess \/ Restart \/ Crash

(***************************************************************************)
(* Storage::run calls Process every DiskFlushCoef seconds (unless it is    *)
(* -1), Process ends, and a worker finishes the DeleteData(x) it is in.    *)
(***************************************************************************)
Process == TakeDeletions \/ TakeItems \/ FinishProcess
           \/ \E x \in Key : \/ EraseRecord(x) \/ SkipDeleted(x) \/ FlushInPlace(x)
                             \/ \E p \in Pos : FlushRelocated(x, p)

Fairness ==
  /\ WF_rvars(mode = "up" /\ Process /\ UNCHANGED <<mode, crashes>>)
  /\ WF_rvars(FinalProcess)
  /\ WF_rvars(Restart)

RSpec == RInit /\ [][RNext]_rvars /\ Fairness

(***************************************************************************)
(* What must hold.                                                         *)
(***************************************************************************)

\* "do all pending disk writes + delete": when ~Storage is done, the index
\* file lists exactly the X's of the map, each with what was stored last.
ShutdownFlushesAll ==
  (mode = "stopping" /\ phase = "idle" /\ ~HasTasks) =>
    /\ OnDisk = dataIndexes
    /\ \A x \in OnDisk : \A s \in DRECsOf(x) : dataFile[indexFile[s].start] = store[x]

\* A crash changes only an X with work still to do: its data queued or being
\* written, or its deletion.  Everything flushed before is found again, no
\* X comes back as another's data.
CrashLosesOnlyPending ==
  [][crashes' # crashes =>
       \A x \in Key :
         (delQueue[x] = None /\ delBatch[x] = None /\ InDiskQueue \notin flags[x]) =>
           store'[x] = store[x]]_rvars

\* "flush data to disk every XX seconds": what is stored under x gets to the
\* disk, or a client stores something else or deletes x.
StoredIsFlushed ==
  \A x \in Key, v \in Value :
    (store[x] = v) ~> (store[x] # v \/ \E s \in DRECsOf(x) : dataFile[indexFile[s].start] = v)

\* A deleted x leaves the index file, or is written again.
DeletedIsErased ==
  \A x \in Key : (x \notin dataIndexes) ~> (x \in dataIndexes \/ x \notin OnDisk)

=============================================================================
