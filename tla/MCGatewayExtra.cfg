CONSTANTS
  Calls = {c1, c2}
  MinRequests = 1
  RatioNum = 1
  RatioDen = 2
  OpenDuration = 1
  HalfOpenSuccesses = 1
  MaxCallTime = 1
  MaxTotal = 3
  L1Enabled = TRUE
  L1TTL = 2
  L1Extra = 1
  MaxPause = 0
  Fallback = "closed"
SPECIFICATION Spec
INVARIANTS
  OverAdmissionBounded
