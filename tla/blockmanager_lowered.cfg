\* No limit is configured; a reload of the configuration has one meanwhile.
SPECIFICATION Spec
CONSTANTS
  CIDFOffset = 6
  RDFSize = 1
  RecordKey = {1, 2, 3}
  Rec <- MCPlainRec
  Gunzip <- NoGunzip
  Packings <- NoPackings
  Base = 2
  Limits = {4}
  DefaultLimit = 1
  LowerLimit = TRUE
  DefragAfterRecordDelete = {1, 2}
VIEW MCView
INVARIANT UnqueuedIsOnDisk
