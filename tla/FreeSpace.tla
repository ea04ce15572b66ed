------------------------------ MODULE FreeSpace ------------------------------
(***************************************************************************)
(* The space of the data file, in blocks: which X occupies which extent    *)
(* and what m_rFreeSpace says is free.  Storage treats an extent as a unit *)
(* whatever its length; here are the lengths: pieces are taken from the    *)
(* list of their length, split, given back, and merged when the map is     *)
(* rebuilt from the index file.  Only the storage thread does any of this; *)
(* one step is one item of DiskWriter::Process.                            *)
(***************************************************************************)
EXTENDS Integers, Sequences, FiniteSets

CONSTANTS
  Key,          \* the X's
  BlockCount,   \* how many blocks an X may have when it is written
  ReallocSize,  \* g_cfg.ReallocSize, in blocks
  MaxFileSize   \* bound: the data file does not grow beyond it

ASSUME FreeSpaceAssumption ==
  /\ BlockCount \subseteq Nat \ {0}
  /\ ReallocSize \in Nat \ {0}
  /\ MaxFileSize \in Nat

VARIABLES
  freeSpace,     \* m_rFreeSpace: a function from lengths to lists of positions
  dataFileSize,  \* m_dataFileSize
  extents,       \* the DRECs: a function from the X's on disk to pos and len
  toAdd          \* rFreeSpaceToAdd of the Process call under way

vars == <<freeSpace, dataFileSize, extents, toAdd>>

Seqs == INSTANCE SequencesExt
Sets == INSTANCE FiniteSetsExt
Fn   == INSTANCE Functions

Piece(pos, len) == [pos |-> pos, len |-> len]

\* AddFreeSpace.
AddFreeSpace(free, pos, len) ==
  [l \in DOMAIN free \cup {len} |->
     (IF l \in DOMAIN free THEN free[l] ELSE <<>>) \o (IF l = len THEN <<pos>> ELSE <<>>)]

\* The last position of a list is taken; an empty list leaves the map.
\* Mutant: it stays.
TakeBackKeepsList(free, l) == [free EXCEPT ![l] = Seqs!Front(@)]
TakeBack(free, l) ==
  IF Seqs!Front(free[l]) = <<>> THEN Fn!Restrict(free, DOMAIN free \ {l})
  ELSE [free EXCEPT ![l] = Seqs!Front(@)]

\* GetFreeSpacePos: a piece of this length, else the front of one of the next
\* longer length; -1 when there is none.
\* Mutants: the rest of a longer piece starts where the piece does; longer
\* pieces are not tried.
GetFreeSpacePosOverlapping(free, len) ==
  LET longer == {l \in DOMAIN free : l > len}
      next   == Sets!Min(longer)
  IN  IF len \in DOMAIN free
      THEN [pos |-> Seqs!Last(free[len]), free |-> TakeBack(free, len)]
      ELSE IF longer # {}
      THEN [pos |-> Seqs!Last(free[next]),
            free |-> AddFreeSpace(TakeBack(free, next), Seqs!Last(free[next]), next - len)]
      ELSE [pos |-> -1, free |-> free]

GetFreeSpacePosExact(free, len) ==
  IF len \in DOMAIN free
  THEN [pos |-> Seqs!Last(free[len]), free |-> TakeBack(free, len)]
  ELSE [pos |-> -1, free |-> free]

GetFreeSpacePos(free, len) ==
  LET longer == {l \in DOMAIN free : l > len}
      next   == Sets!Min(longer)
  IN  IF len \in DOMAIN free
      THEN [pos |-> Seqs!Last(free[len]), free |-> TakeBack(free, len)]
      ELSE IF longer # {}
      THEN [pos |-> Seqs!Last(free[next]),
            free |-> AddFreeSpace(TakeBack(free, next), Seqs!Last(free[next]) + len,
                                  next - len)]
      ELSE [pos |-> -1, free |-> free]

\* The elements of a set of naturals in ascending order.
InOrder(S) ==
  [i \in 1..Cardinality(S) |-> CHOOSE p \in S : Cardinality({q \in S : q < p}) = i - 1]

\* AddFreeSpace for every piece of P, in the order of its domain.
AddPieces(free, P) ==
  LET order(l)     == InOrder({i \in DOMAIN P : P[i].len = l})
      positions(l) == [j \in DOMAIN order(l) |-> P[order(l)[j]].pos]
  IN  [l \in DOMAIN free \cup {P[i].len : i \in DOMAIN P} |->
         (IF l \in DOMAIN free THEN free[l] ELSE <<>>) \o positions(l)]

\* LoadFreeSpaceFromIndexDef walks over the DRECs sorted by position: when it
\* comes to position p, freeSpaceStart is the end of the DREC in front of p.
EndBefore(defs, p) ==
  LET before == {d \in defs : d.pos < p}
      last   == CHOOSE d \in before : \A e \in before : e.pos <= d.pos
  IN  IF before = {} THEN 0 ELSE last.pos + last.len

GapBefore(defs, p) == Piece(EndBefore(defs, p), p - EndBefore(defs, p))

\* The gaps in front of the positions ps that are not empty.
Gaps(defs, ps) == [p \in {q \in ps : GapBefore(defs, q).len > 0} |-> GapBefore(defs, p)]

\* The gaps in front of the DRECs and of the end of the file become free space;
\* a DREC that begins inside another one makes the return value FALSE.
\* Mutant: the last piece is forgotten.
LoadFreeSpaceNoTail(defs, size) ==
  [free |-> AddPieces(<<>>, Gaps(defs, {d.pos : d \in defs})),
   ok   |-> \A d \in defs : GapBefore(defs, d.pos).len >= 0]

LoadFreeSpace(defs, size) ==
  [free |-> AddPieces(<<>>, Gaps(defs, {d.pos : d \in defs} \cup {size})),
   ok   |-> \A d \in defs : GapBefore(defs, d.pos).len >= 0]

Defs == {extents[x] : x \in DOMAIN extents}

\* Init of a new data file.
Init ==
  /\ dataFileSize = ReallocSize
  /\ extents = <<>>
  /\ freeSpace = LoadFreeSpace({}, ReallocSize).free
  /\ toAdd = <<>>

\* ReallocDataFile adds this much.
Growth(len) == IF len > ReallocSize THEN len ELSE ReallocSize

\* The X gets the extent at pos; its old one is given up, with the length it
\* had.  Mutant: with the new length.
PlaceNewLength(x, pos, len, free) ==
  /\ extents' = [y \in DOMAIN extents \cup {x} |->
                   IF y = x THEN Piece(pos, len) ELSE extents[y]]
  /\ toAdd' = IF x \in DOMAIN extents THEN Append(toAdd, Piece(extents[x].pos, len))
              ELSE toAdd
  /\ freeSpace' = free

Place(x, pos, len, free) ==
  /\ extents' = [y \in DOMAIN extents \cup {x} |->
                   IF y = x THEN Piece(pos, len) ELSE extents[y]]
  /\ toAdd' = IF x \in DOMAIN extents THEN Append(toAdd, extents[x]) ELSE toAdd
  /\ freeSpace' = free

\* WriteDataWithRelocateFlag, and the DREC: into free space ...
WriteIntoFree(x, len) ==
  LET found == GetFreeSpacePos(freeSpace, len) IN
  /\ found.pos # -1
  /\ Place(x, found.pos, len, found.free)
  /\ UNCHANGED dataFileSize

\* ... or, when none is found, after ReallocDataFile.
WriteAfterGrowth(x, len) ==
  /\ GetFreeSpacePos(freeSpace, len).pos = -1
  /\ dataFileSize + Growth(len) <= MaxFileSize
  /\ LET grown == AddFreeSpace(freeSpace, dataFileSize, Growth(len))
         found == GetFreeSpacePos(grown, len)
     IN  Place(x, found.pos, len, found.free)
  /\ dataFileSize' = dataFileSize + Growth(len)

\* ProcessIndexDeleteQueue, before the items of a Process call.
EraseRecord(x) ==
  /\ toAdd = <<>> /\ x \in DOMAIN extents
  /\ freeSpace' = AddFreeSpace(freeSpace, extents[x].pos, extents[x].len)
  /\ extents' = Fn!Restrict(extents, DOMAIN extents \ {x})
  /\ UNCHANGED <<dataFileSize, toAdd>>

\* The end of Process.
FinishProcess ==
  /\ toAdd # <<>>
  /\ freeSpace' = AddPieces(freeSpace, toAdd)
  /\ toAdd' = <<>>
  /\ UNCHANGED <<dataFileSize, extents>>

\* A rebuild that reports corruption leaves the map as it is.
DefragmentFreeSpace ==
  /\ toAdd = <<>>
  /\ LET load == LoadFreeSpace(Defs, dataFileSize) IN
     freeSpace' = IF load.ok THEN load.free ELSE freeSpace
  /\ UNCHANGED <<dataFileSize, extents, toAdd>>

\* The process stops, between two items or after ReallocDataFile (growth of a
\* write of len blocks), and starts again.
Restart ==
  \E growth \in {0} \cup {Growth(len) : len \in BlockCount} :
    /\ dataFileSize + growth <= MaxFileSize
    /\ dataFileSize' = dataFileSize + growth
    /\ LoadFreeSpace(Defs, dataFileSize').ok
    /\ freeSpace' = LoadFreeSpace(Defs, dataFileSize').free
    /\ toAdd' = <<>>
    /\ UNCHANGED extents

Next ==
  \/ \E x \in Key, len \in BlockCount : WriteIntoFree(x, len) \/ WriteAfterGrowth(x, len)
  \/ \E x \in Key : EraseRecord(x)
  \/ FinishProcess
  \/ DefragmentFreeSpace
  \/ Restart

Spec == Init /\ [][Next]_vars

(***************************************************************************)
(* What must hold.                                                         *)
(***************************************************************************)

PiecesOf(free) == UNION {{Piece(free[l][i], l) : i \in DOMAIN free[l]} : l \in DOMAIN free}
FreePieces == PiecesOf(freeSpace)
GivenUp    == {toAdd[i] : i \in DOMAIN toAdd}

BlocksOf(piece) == piece.pos .. piece.pos + piece.len - 1
Covered(pieces) == UNION {BlocksOf(p) : p \in pieces}
Disjoint(pieces) == \A p, q \in pieces : p # q => BlocksOf(p) \cap BlocksOf(q) = {}

\* Nothing is listed twice, neither in one place nor in two.
ListedOnce ==
  /\ \A l \in DOMAIN freeSpace : Fn!IsInjective(freeSpace[l])
  /\ Fn!IsInjective(extents) /\ Fn!IsInjective(toAdd)
  /\ FreePieces \cap Defs = {} /\ FreePieces \cap GivenUp = {} /\ Defs \cap GivenUp = {}

\* Every block of the data file is in the extent of one X, in one free piece
\* or in one extent given up by the Process call under way: relocations,
\* splits, growth, deletions and rebuilds neither lose a block nor hand it
\* out twice.
FileIsTiled ==
  /\ Disjoint(FreePieces \cup Defs \cup GivenUp)
  /\ Covered(FreePieces \cup Defs \cup GivenUp) = 0 .. dataFileSize - 1
  /\ ListedOnce

\* GetFreeSpacePos takes the back() of a list it finds: none is empty.
NoEmptyList == \A l \in DOMAIN freeSpace : freeSpace[l] # <<>>

\* "Data curruption ... freeSpaceLen is negative" is never logged: the index
\* file of every state can be loaded, at the next start as well.
IndexIsLoadable == LoadFreeSpace(Defs, dataFileSize).ok

\* ReallocDataFile is the last resort: the file does not grow while a free
\* piece is long enough for the X that is written.
GrowsOnlyWhenFull ==
  [][\A x \in DOMAIN extents' :
       (dataFileSize' > dataFileSize /\ (x \in DOMAIN extents => extents'[x] # extents[x]))
         => \A p \in FreePieces : p.len < extents'[x].len]_vars

\* DefragmentFreeSpace keeps the free blocks, and leaves no two pieces side by
\* side.
DefragmentMerges ==
  [][(extents' = extents /\ toAdd = <<>> /\ dataFileSize' = dataFileSize) =>
       /\ Covered(FreePieces') = Covered(FreePieces)
       /\ \A p, q \in FreePieces' : p.pos + p.len # q.pos]_vars
=============================================================================
