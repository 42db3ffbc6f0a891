SPECIFICATION MCSpec
CONSTANTS
  Ops = {o1}
  External = {e1}
  Writes = {w1}
  TreeQueue = 2
  GitQueue = 1
  MaxGit = 1
INVARIANT TreeIsIntact
INVARIANT NothingIsForgotten
PROPERTY EventuallyShown
PROPERTY WaitsEnd
CHECK_DEADLOCK FALSE
