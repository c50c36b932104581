SPECIFICATION Spec
CONSTANTS
  Isolates = {i1, i2}
  Requests = {r1, r2}
  Loads = {l1, l2, l3}
  MaxPublished = 2
SYMMETRY Symmetry
CHECK_DEADLOCK FALSE
INVARIANTS
  TypeOK
  FreshAfterClear
  LoadsAreShared
