CONSTANTS
  Calls = {c1, c2}
  Ids = {i1, i2, i3, i4}
  NoId = NoId
  Limit = 2
  Window = 3
  Cost = 1
  MaxSkew = 0
  MaxDelay = 1
  Retries = 1
  MaxTime = 7
  MaxRestarts = 1
SYMMETRY Symmetric
SPECIFICATION Spec
CHECK_DEADLOCK FALSE
INVARIANTS
  TypeOK
  WindowBound
PROPERTIES
  RetryAfterSuffices
  DenialsDoNotProlong
