SPECIFICATION Spec
CONSTANTS
  Readers = {r1, r2}
  Mutators = {m1}
  Tenants = {t1}
  Froms = {f1}
  Parts = {p1, p2}
  DefaultTtl = 1
  JobTtls = {1}
  MaxTtl = 1
  MaxLatency = 1
  MaxTime = 3
  MaxChanges = 1
  MaxFailures = 1
SYMMETRY Symmetry
CHECK_DEADLOCK FALSE
INVARIANTS
  TypeOK
  OnlyOverlapLeavesStale
PROPERTIES
  BoundedStaleness
