SPECIFICATION ReloadSpec
CONSTANTS
  Files = {f1}
  LastVersion = 2
  PipeSize = 1
INVARIANT CompleteIsCurrent
CHECK_DEADLOCK FALSE
