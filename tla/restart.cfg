\* One worker and the storage thread on one X, clean restarts and one crash;
\* an X is not deleted again while its deletion is queued.
CONSTANTS
  Key = {x1}
  Worker = {w1}
  Value = {v1, v2}
  Pos = {p1, p2, p3}
  Slot = {s1, s2}
  None = None
  RedeleteBeforeFlush = FALSE
  CrashOnTwoDRECs = FALSE
  MaxCrashes = 1
SPECIFICATION RSpec
INVARIANTS
  RInv
  ReadsSeeLastWrite
  FlaggedIsQueued
  ShutdownFlushesAll
PROPERTIES
  CrashLosesOnlyPending
  StoredIsFlushed
  DeletedIsErased
