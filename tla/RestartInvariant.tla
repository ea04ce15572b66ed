-------------------------- MODULE RestartInvariant --------------------------
(***************************************************************************)
(* What is needed beside the invariant of Storage to see that a clean      *)
(* shutdown and a crash lose nothing but work still to do: each DREC of    *)
(* the index file has an owner in memory that will rewrite or erase it,    *)
(* and each flagged X has an entry in a queue that will flush it.          *)
(***************************************************************************)
EXTENDS StorageRestart, StorageInvariant

\* No X is in the map while a worker still owes DiskWriter::Remove of an
\* earlier deletion of it: the order in which DeleteData and WriteData of two
\* workers lose the queue entry does not occur.  One worker alone never gets
\* into it.
NoRemoveRace == \A w \in Worker : removing[w] \notin dataIndexes

\* Each DREC is that of the RecordIndex in the map or of one in a delete queue.
OwnedInv ==
  \A s \in Slot : indexFile[s] # None =>
    LET x == indexFile[s].key
    IN  \/ s = ibSlot[x]
        \/ delQueue[x] # None /\ s = delQueue[x].slot
        \/ delBatch[x] # None /\ s = delBatch[x].slot

\* The structure, whatever clients do.
RStructInv == RTypeOK /\ StructInv

\* All of it, for RedeleteBeforeFlush = CrashOnTwoDRECs = FALSE and workers
\* that never race as above.
RInv == RStructInv /\ FlaggedIsQueued /\ OwnedInv /\ ValueInv
=============================================================================
