SPECIFICATION Spec
CONSTANTS
  Workers = {w1, w2}
  Costs = {0, 1, 3}
  Purchases = {2}
  FreeMonthlyCredits = 2
  Month = 1
  MaxTime = 3
  MaxRequests = 4
  MaxFailures = 1
SYMMETRY Symmetry
CHECK_DEADLOCK FALSE
INVARIANTS
  TypeOK
  GrantAccounted
  BalanceIsBacked
  LogExplainsBalance
  SpendingIsCovered
  UsageIsRecorded
