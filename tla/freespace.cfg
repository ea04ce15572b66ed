SPECIFICATION Spec
CONSTANTS
  Key = {x1, x2, x3}
  BlockCount = {1, 2, 3}
  ReallocSize = 2
  MaxFileSize = 7
SYMMETRY Symmetry
INVARIANTS
  FileIsTiled
  NoEmptyList
  IndexIsLoadable
PROPERTIES
  GrowsOnlyWhenFull
  DefragmentMerges
