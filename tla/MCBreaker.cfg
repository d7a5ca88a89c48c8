CONSTANTS
  Calls = {c1, c2, c3}
  MinRequests = 2
  RatioNum = 1
  RatioDen = 3
  OpenDuration = 2
  HalfOpenSuccesses = 2
  MaxCallTime = 2
  MaxTotal = 4
SPECIFICATION BreakerFairSpec
INVARIANTS
  BreakerTypeOK
  NoMissedTrip
  NoCallStartedWhileOpen
  OnlyProbesCounted
PROPERTIES
  ClosesOnProbes
  OpenPeriodNotExtended
  ImplementsFSM
  OpenEnds
  Recovers
