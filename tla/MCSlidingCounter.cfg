CONSTANTS
  Calls = {c1, c2}
  Limit = 2
  Window = 3
  Cost = 1
  MaxSkew = 0
  MaxDelay = 2
  Retries = 0
  MaxTime = 8
  MaxRestarts = 1
SYMMETRY CallSymmetry
SPECIFICATION Spec
CHECK_DEADLOCK FALSE
INVARIANTS
  TypeOK
  WindowBound
PROPERTIES
  ExpiryLossBounded
  DenialJustified
