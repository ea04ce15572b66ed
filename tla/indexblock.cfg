\* Three X's, two DRECs per block, a cache that frees a block when it holds two.
CONSTANTS
  Key = {x1, x2, x3}
  Value = {v1, v2}
  RecordsPerBlock = 2
  CacheBlocks = 1
  WrapBlocks = 1048576
  None = None
  MaxBlocks = 3
  MaxDeleted = 1
  MaxOrphans = 1
SPECIFICATION Spec
INVARIANTS
  CacheIsFile
  FreeBlocksHaveRoom
  ChainIsRecency
PROPERTIES
  GrowsOnlyByNewBlocks
  ImplementsSlotFile
SYMMETRY Symmetry
