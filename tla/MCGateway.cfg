CONSTANTS
  Calls = {c1, c2}
  MinRequests = 1
  RatioNum = 1
  RatioDen = 2
  OpenDuration = 1
  HalfOpenSuccesses = 1
  MaxCallTime = 1
  MaxTotal = 2
  L1Enabled = TRUE
  L1TTL = 1
  L1Extra = 0
  MaxPause = 1
  Fallback = "open"
SPECIFICATION FairSpec
INVARIANTS
  TypeOK
  DenialIsReal
  BackendProtected
PROPERTIES
  Answered
  FallbackEnds
