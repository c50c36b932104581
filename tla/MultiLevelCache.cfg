SPECIFICATION Spec
CONSTANTS
  Isolates = {i1, i2}
  Requests = {r1, r2}
  SetMemoryTtl = 1
  SetRedisTtl = 3
  WarmTtl = 1
  MaxLatency = 1
  MaxWork = 2
  MaxTime = 7
  MaxChanges = 1
SYMMETRY Symmetry
CHECK_DEADLOCK FALSE
INVARIANTS
  TypeOK
  DeletionIsFelt
PROPERTIES
  BoundedStaleness
