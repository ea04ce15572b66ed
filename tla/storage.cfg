\* Two workers and the storage thread on two X's that share the files.
CONSTANTS
  Key = {x1, x2}
  Worker = {w1, w2}
  Value = {v1, v2}
  Pos = {p1, p2}
  Slot = {s1, s2}
  None = None
SPECIFICATION Spec
INVARIANTS
  ReadsSeeLastWrite
  PendingStaysInMemory
  EvictedIsReadable
  SpacePartition
  LoadedIsEvictable
  IInv
PROPERTY CommitBeforeClear
SYMMETRY Symmetry
