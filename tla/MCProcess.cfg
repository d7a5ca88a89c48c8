CONSTANTS
  Calls = {c1, c2}
  Generations = {g1, g2}
  Cells = {x1, x2}
  Limit = 1
  Window = 2
  Capacity = 1
  Cost = 1
  TTL = 2
  MaxPause = 1
  Grace = 1
  First = {"token_bucket", "sliding_window_log"}
  Edited <- MCEdited
  MaxVersion = 2
  None = None
SYMMETRY Symmetry
SPECIFICATION Spec
INVARIANTS
  TypeOK
  LocalQuota
  ReloadNotLost
CHECK_DEADLOCK FALSE
