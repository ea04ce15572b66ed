\* A write buffer of four headers: a reply of one fits with its header, one of
\* four is queued and never fits, one of five is streamed as 2 + 2 + 1.
SPECIFICATION Spec
CONSTANTS
  Client = {c1}
  ReadWorker = {r1}
  WriteWorker = {w1}
  StorageThread = st
  DumpThread = {d1}
  BufferSize = 4
  ReadSizes = {5}
  WriteSizes = {1}
  DumpSizes = {4}
  DefragSize = 1
  ActivitySize = 1
  PingSize = 1
  MaxTasks = 1
  MaxTries = 1
  MaxRequests = 3
  None = None
PROPERTY PingEnds
