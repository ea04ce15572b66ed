SPECIFICATION Spec
CONSTANTS
  CIDFOffset = 6
  RDFSize = 1
  RecordKey = {1, 2, 3}
  Rec <- MCPlainRec
  Gunzip <- NoGunzip
  Packings <- NoPackings
  Base = 2
  Limits = {2}
  DefaultLimit = 2
  LowerLimit = FALSE
  DefragAfterRecordDelete = {1, 2}
PROPERTY RemovesOldest
