CONSTANTS
  Batches = {b1, b2}
  Tiers = {"free", "pro"}
  Rates = {1, 10}
  BurstSizes = {3}
  FirstTier = "free"
  FirstRate = 1
  Quota <- MCQuota
  ChunkSize = 2
  Second = 2
  KeepOld = 0
  KeepNew = 1
  Nodes = {"gateway"}
  NoNode = NoNode
  MaxTotal = 3
  Sections = {"overview", "redis-lua", "api-tester"}
  Queries = {"", "lua"}
  Matches <- MCMatches
  Keys = {"free", "pro"}
  FirstKey = "free"
  CopyTime = 1
  MaxTimers = 2
  None = None
  NoTheme = NoTheme
SYMMETRY BatchSymmetry
SPECIFICATION Spec
INVARIANTS
  TypeOK
  StatsAgree
  CountedOnce
  TesterInStep
  ThemeShown
PROPERTIES
  SimulatedQuotaKept
