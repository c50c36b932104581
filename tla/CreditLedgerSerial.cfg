SPECIFICATION Spec
CONSTANTS
  Workers = {w1}
  Costs = {1, 3}
  Purchases = {2}
  FreeMonthlyCredits = 2
  Month = 2
  MaxTime = 5
  MaxRequests = 6
  MaxFailures = 1
CHECK_DEADLOCK FALSE
INVARIANTS
  OneFreeGrantPerMonth
  GrantsAreExact
