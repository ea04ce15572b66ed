SPECIFICATION Spec
CONSTANTS
  CIDFOffset = 5
  RDFSize = 1
  RecordKey = {1, 2, 3}
  Rec <- MCRec
  Gunzip <- MCGunzip
  Packings <- MCPackings
  Base = 2
  Limits = {2, 3}
  DefaultLimit = 2
  LowerLimit = FALSE
  DefragAfterRecordDelete = {1, 2}
VIEW MCView
INVARIANTS
  BlocksWellFormed
  IndexMatchesBlocks
  InPlaceFits
  UnqueuedIsOnDisk
  DefragmentGrowsOnlyByRepacking
PROPERTY ImplementsMap
