SPECIFICATION Spec
CONSTANTS
  Handlers = {h1, h2}
  Events <- TwoOrders
  Tolerance = 1
  Ahead = 0
  MaxLatency = 0
  Uses = {r1}
  Costs = {1}
  FreeMonthlyCredits = 2
  MaxFree = 2
  MaxSpent = 0
  MaxTime = 1
  MaxDeliveries = 2
  MaxTimeouts = 0
  MaxFailures = 1
  MaxRefusals = 0
CHECK_DEADLOCK FALSE
SYMMETRY Symmetry
INVARIANTS
  TypeOK
  DoneMeansCredited
  MirrorIsEarned
