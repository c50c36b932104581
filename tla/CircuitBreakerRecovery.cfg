SPECIFICATION FairSpec
CONSTANTS
  Requests = {r1, r2}
  FailureThreshold = 2
  HalfOpenMaxCalls = 1
  Attempts = 2
  FaultTargets = {"after-run", "fallback"}
  MaxCancels = 0
PROPERTIES
  Recovers
  NeverSticks
