\* Two workers: one deletes the X another writes.
CONSTANTS
  Key = {x1}
  Worker = {w1, w2}
  Value = {v1, v2}
  Pos = {p1, p2}
  Slot = {s1, s2}
  None = None
  RedeleteBeforeFlush = FALSE
  CrashOnTwoDRECs = TRUE
  MaxCrashes = 0
SPECIFICATION RSpec
INVARIANT ShutdownFlushesAll
