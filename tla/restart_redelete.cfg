\* One worker deletes an X, writes it and deletes it again before Process.
CONSTANTS
  Key = {x1}
  Worker = {w1}
  Value = {v1, v2}
  Pos = {p1, p2}
  Slot = {s1, s2}
  None = None
  RedeleteBeforeFlush = TRUE
  CrashOnTwoDRECs = TRUE
  MaxCrashes = 0
SPECIFICATION RSpec
INVARIANT ShutdownFlushesAll
