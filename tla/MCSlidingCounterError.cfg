CONSTANTS
  Calls = {c1}
  Limit = 4
  Window = 4
  Cost = 1
  MaxSkew = 0
  MaxDelay = 0
  Retries = 0
  MaxTime = 7
  MaxRestarts = 0
SPECIFICATION Spec
CHECK_DEADLOCK FALSE
INVARIANTS
  DocumentedError
