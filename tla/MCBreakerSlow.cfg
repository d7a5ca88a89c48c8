CONSTANTS
  Calls = {c1, c2, c3}
  MinRequests = 2
  RatioNum = 1
  RatioDen = 2
  OpenDuration = 1
  HalfOpenSuccesses = 2
  MaxCallTime = 3
  MaxTotal = 4
SPECIFICATION BreakerSpec
PROPERTIES
  ClosesOnProbes
