SPECIFICATION Spec
CONSTANTS
  Requests = {r1, r2, r3}
  FailureThreshold = 3
  HalfOpenMaxCalls = 2
  Attempts = 2
  FaultTargets = {"before-run", "retry-attempt"}
  MaxCancels = 1
SYMMETRY Symmetry
INVARIANTS
  TypeOK
  ProbesBounded
  SlotsMatchProbes
  CountsConsecutive
PROPERTIES
  OpenIsLeftByProbing
