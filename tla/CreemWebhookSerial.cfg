SPECIFICATION Spec
CONSTANTS
  Handlers = {h1}
  Events <- Lifecycle
  Tolerance = 1
  Ahead = 1
  MaxLatency = 1
  Uses = {}
  Costs = {1}
  FreeMonthlyCredits = 1
  MaxFree = 1
  MaxSpent = 1
  MaxTime = 3
  MaxDeliveries = 2
  MaxTimeouts = 1
  MaxFailures = 1
  MaxRefusals = 1
CHECK_DEADLOCK FALSE
INVARIANTS
  OneCreditPerOrder
  RepeatsAreBounded
