-------------------------- MODULE StorageInvariant --------------------------
(***************************************************************************)
(* The inductive invariant of Storage.  The properties of Storage relate   *)
(* what clients stored to memory, queue and disk; none is inductive alone. *)
(* What is missing is why a flush cannot hit a block another X still       *)
(* needs: each RecordIndex, in the map or on its way through the delete    *)
(* queues, owns the DREC it names, and DRECs never share an extent.        *)
(*                                                                         *)
(* It comes in two halves.  StructInv does not look at what clients        *)
(* stored; it survives restarts that lose data.  ValueInv does.            *)
(***************************************************************************)
EXTENDS Storage

(***************************************************************************)
(* The structure: entries, flags, queues, DRECs and extents.               *)
(***************************************************************************)

\* An X that is not in the map left nothing behind in its fields.
DeadInv ==
  \A x \in Key \ dataIndexes :
    /\ blockManager[x] = None /\ recordStart[x] = None /\ ibSlot[x] = None
    /\ flags[x] = {}

\* eRIF_RelocateBlocks and eRIF_Dirty come and go together, and stay at least
\* until the X has an extent; an X that does not wait has neither.
FlagInv ==
  \A x \in dataIndexes :
    /\ Relocate \in flags[x] <=> Dirty \in flags[x]
    /\ Relocate \notin flags[x] => recordStart[x] # None
    /\ InDiskQueue \notin flags[x] => Relocate \notin flags[x]

\* A RecordIndex of x with these fields owns its DREC, if it has one.
Owns(x, start, slot) ==
  IF slot = None THEN start = None
  ELSE indexFile[slot] # None /\ indexFile[slot].key = x /\ indexFile[slot].start = start

\* The RecordIndex in the map and the copies in the two delete queues own
\* their DRECs, and no two of them the same.
OwnerInv ==
  \A x \in Key :
    /\ Owns(x, recordStart[x], ibSlot[x])
    /\ delQueue[x] # None =>
         /\ Owns(x, delQueue[x].start, delQueue[x].slot)
         /\ delQueue[x].slot # None => delQueue[x].slot # ibSlot[x]
    /\ delBatch[x] # None =>
         /\ Owns(x, delBatch[x].start, delBatch[x].slot)
         /\ delBatch[x].slot # None => delBatch[x].slot # ibSlot[x]
    /\ (delQueue[x] # None /\ delBatch[x] # None /\ delQueue[x].slot # None)
         => delQueue[x].slot # delBatch[x].slot

\* The extents that the index file covers were written.
DataInv == \A s \in Slot : indexFile[s] # None => dataFile[indexFile[s].start] # None

\* What Process took, and rFreeSpaceToAdd, are used up when it ends.
BatchInv ==
  /\ phase # "deletes" => \A x \in Key : delBatch[x] = None
  /\ phase # "items" => batch = {} /\ toFree = {}

\* An X that a refused write changed is in memory and does not wait.
RefusedInv ==
  \A x \in refused :
    x \in dataIndexes /\ blockManager[x] # None /\ InDiskQueue \notin flags[x]

StructInv ==
  /\ TypeOK /\ DeadInv /\ PendingStaysInMemory /\ FlagInv /\ OwnerInv /\ DataInv
  /\ BatchInv /\ SpacePartition /\ RefusedInv

(***************************************************************************)
(* The values: what clients stored.                                        *)
(***************************************************************************)

\* Clients stored something under the X's of the map, and under no other;
\* blocks in memory hold it, unless a refused write changed them since.
MemoryInv ==
  \A x \in Key :
    IF x \in dataIndexes
    THEN /\ store[x] # None
         /\ (blockManager[x] # None /\ x \notin refused) => blockManager[x] = store[x]
    ELSE store[x] = None

\* An X that does not wait for the storage thread is on disk as it was stored.
CleanInv ==
  \A x \in dataIndexes : InDiskQueue \notin flags[x] => dataFile[recordStart[x]] = store[x]

ValueInv == MemoryInv /\ CleanInv

\* The CRC of such an X was computed from what was stored.
CrcInv ==
  \A x \in dataIndexes : InDiskQueue \notin flags[x] => crc32[x] = store[x]

IInv == StructInv /\ ValueInv /\ CrcInv
=============================================================================
