SPECIFICATION Spec
CONSTANTS
  Workers = {w1}
  Costs = {2}
  Purchases = {2}
  FreeMonthlyCredits = 2
  Month = 1
  MaxTime = 3
  MaxRequests = 4
  MaxFailures = 0
CHECK_DEADLOCK FALSE
INVARIANTS
  NoOverdraft
