-------------------------------- MODULE Block --------------------------------
(***************************************************************************)
(* Block.c: the layout of one block.  Record data grow from the front,     *)
(* record definition fields (RDF) from the back, towards each other:       *)
(*                                                                         *)
(*   | record1 | record2 | free space | RDF2 | RDF1 | CIDF |               *)
(*   0                   location     end                  BLOCK_SIZE      *)
(*                                                                         *)
(* A block is [location, free, dirty, rdfs, data]: the three fields of its *)
(* CIDF, the RDFs from RDF1 on, the bytes in front of location.  How many  *)
(* RDFs there are is not stored: the code stops at the address "end".      *)
(* A record is the sequence of its bytes.  One that is gzip, whoever made  *)
(* it so, is read decompressed.                                            *)
(***************************************************************************)
EXTENDS Naturals, Sequences

CONSTANTS
  CIDFOffset,   \* bytes in front of the CIDF
  RDFSize,      \* sizeof(RDF)
  Gunzip        \* the bytes that are gzip, each with what they decompress to

ASSUME BlockAssumption ==
  /\ RDFSize \in Nat \ {0}
  /\ CIDFOffset \in Nat /\ CIDFOffset >= RDFSize
  /\ \A s \in DOMAIN Gunzip : Gunzip[s] \in Seq(Nat)

SeqExt == INSTANCE SequencesExt

\* MAX_RECORD_SIZE.
MaxRecordSize == CIDFOffset - RDFSize

\* Block_InitBlock.
InitBlock == [location |-> 0, free |-> CIDFOffset, dirty |-> TRUE,
              rdfs |-> <<>>, data |-> <<>>]

\* Where the RDFs begin, and so how many of them every loop visits.
EndOfFreeSpace(b) == b.location + b.free
NumRDFs(b) == (CIDFOffset - EndOfFreeSpace(b)) \div RDFSize

\* The position of the data of the i-th RDF: the lengths before it.
RecordPosition(b, i) ==
  LET before[j \in 0..(i - 1)] == IF j = 0 THEN 0 ELSE before[j - 1] + b.rdfs[j].len
  IN  before[i - 1]

\* Block_ContainsKey: the RDF found and the position of its data.  A key that
\* is not there gets the last RDF (0 stands for NULL) and the position behind
\* all data.
ContainsKey(b, k) ==
  LET n == NumRDFs(b)
      found == {i \in 1..n : b.rdfs[i].key = k}
      first == CHOOSE i \in found : \A j \in found : i <= j
  IN  IF found # {} THEN [rdf |-> first, position |-> RecordPosition(b, first)]
      ELSE [rdf |-> n, position |-> RecordPosition(b, n + 1)]

\* Is there room for the record and its RDF?
\* Mutant: the RDF is forgotten.
FitsWithoutRDF(b, r) == b.free >= Len(r)
Fits(b, r) == b.free >= Len(r) + RDFSize

\* Block_WriteRecord when it fits.
WriteRecord(b, k, r) ==
  [location |-> b.location + Len(r),
   free |-> b.free - (Len(r) + RDFSize),
   dirty |-> TRUE,
   rdfs |-> Append(SubSeq(b.rdfs, 1, NumRDFs(b)), [key |-> k, len |-> Len(r)]),
   data |-> b.data \o r]

\* Block_DeleteRecordByRDF: later data and RDFs move up.
\* Mutant: the block is not marked dirty.
DeleteRecordClean(b, i, position) ==
  LET len == b.rdfs[i].len IN
  [location |-> b.location - len,
   free |-> b.free + len + RDFSize,
   dirty |-> b.dirty,
   rdfs |-> SeqExt!RemoveAt(b.rdfs, i),
   data |-> SubSeq(b.data, 1, position) \o SubSeq(b.data, position + len + 1, b.location)]

DeleteRecordByRDF(b, i, position) ==
  LET len == b.rdfs[i].len IN
  [location |-> b.location - len,
   free |-> b.free + len + RDFSize,
   dirty |-> TRUE,
   rdfs |-> SeqExt!RemoveAt(b.rdfs, i),
   data |-> SubSeq(b.data, 1, position) \o SubSeq(b.data, position + len + 1, b.location)]

\* Block_DeleteRecordByKey.
DeleteRecordByKey(b, k) ==
  LET hit == ContainsKey(b, k) IN
  IF hit.rdf = 0 THEN b ELSE DeleteRecordByRDF(b, hit.rdf, hit.position)

\* Block_WriteRecord, and whether it could.
WriteIfFits(b, k, r) ==
  [ok |-> Fits(b, r), block |-> IF Fits(b, r) THEN WriteRecord(b, k, r) ELSE b]

\* The two ways to replace the record at hit: over the old bytes if the size
\* is the same, else the old record goes and the new one is appended if there
\* is room.
ReplaceRecord(b, k, r, hit) ==
  IF b.rdfs[hit.rdf].len = Len(r)
  THEN [ok |-> TRUE,
        block |-> [b EXCEPT !.dirty = TRUE,
                            !.data = SubSeq(@, 1, hit.position) \o r \o
                                     SubSeq(@, hit.position + Len(r) + 1, b.location)]]
  ELSE WriteIfFits(DeleteRecordByRDF(b, hit.rdf, hit.position), k, r)

\* Block_UpdateRecord.
UpdateFound(b, k, r, hit) ==
  IF hit.rdf = 0 THEN [ok |-> FALSE, block |-> b] ELSE ReplaceRecord(b, k, r, hit)
UpdateRecord(b, k, r) == UpdateFound(b, k, r, ContainsKey(b, k))

\* CCommon_isGziped and CCommon_decompressGzip; bytes that do not decompress
\* are handed out as they are.
Unpacked(s) == IF s \in DOMAIN Gunzip THEN Gunzip[s] ELSE s

\* Block_GetRecord.
GetRecord(b, k) ==
  LET hit == ContainsKey(b, k) IN
  IF hit.rdf = 0 THEN <<>>
  ELSE Unpacked(SubSeq(b.data, hit.position + 1, hit.position + b.rdfs[hit.rdf].len))

\* The data of the i-th RDF.
StoredRecord(b, i) ==
  SubSeq(b.data, RecordPosition(b, i) + 1, RecordPosition(b, i) + b.rdfs[i].len)

\* Block_GetRecords: every RDF with its data, decompressed.
GetRecords(b) ==
  [i \in 1..NumRDFs(b) |-> [key |-> b.rdfs[i].key, rec |-> Unpacked(StoredRecord(b, i))]]

\* What BlockManager keeps true of each block: the CIDF counts what is there
\* (a uint16 in the code, so it must not go below 0).
WellFormed(b) ==
  /\ b.free >= 0
  /\ b.location = Len(b.data)
  /\ NumRDFs(b) = Len(b.rdfs)
  /\ b.location + b.free + RDFSize * Len(b.rdfs) = CIDFOffset
  /\ RecordPosition(b, Len(b.rdfs) + 1) = b.location
=============================================================================
