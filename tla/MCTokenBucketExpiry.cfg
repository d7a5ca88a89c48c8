CONSTANTS
  Calls = {c1, c2}
  Limit = 1
  Window = 2
  Burst = 5
  Cost = 1
  MaxSkew = 0
  MaxDelay = 0
  Retries = 0
  MaxTime = 7
  MaxRestarts = 0
  MaxRewound = 0
SPECIFICATION Spec
CHECK_DEADLOCK FALSE
INVARIANTS
  AdmissionBound
