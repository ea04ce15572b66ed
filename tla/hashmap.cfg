\* Two threads, two keys of one bucket that growing to eight buckets separates:
\* bucket 7 is split from bucket 3, and bucket 3 from bucket 1.
CONSTANTS
  Key = {3, 7}
  Thread = {t1, t2}
  Node = {n1, n2, n3}
  FirstBlock = 3
  MaxMask = 7
  RehashReq = RehashReq
  None = None
SPECIFICATION FairSpec
INVARIANTS
  TypeOK
  NodesAreHome
  NoDanglingNode
PROPERTIES
  ImplementsLockedMap
  OperationsEnd
