SPECIFICATION Spec
CONSTANTS
  DefaultLimit = 3
  Limits = {2}
  MaxMetrics = 7
  MaxFailures = 3
CHECK_DEADLOCK FALSE
INVARIANTS
  TypeOK
  InOrder
  NothingStranded
  NewestAreKept
PROPERTIES
  EventuallyReported
