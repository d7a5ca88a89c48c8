CONSTANTS
  Calls = {c1, c2}
  Limit = 3
  Window = 2
  Burst = 2
  Cost = 2
  MaxSkew = 1
  MaxDelay = 1
  Retries = 0
  MaxTime = 5
  MaxRestarts = 1
  MaxRewound = 1
SYMMETRY CallSymmetry
SPECIFICATION Spec
CHECK_DEADLOCK FALSE
INVARIANTS
  TypeOK
  AdmissionBound
PROPERTIES
  RetryAfterSuffices
  ImplementsTokenBucket
