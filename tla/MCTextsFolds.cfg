SPECIFICATION TextsSpec
CONSTANTS
  Outlines <- MCOutlines
  Word = 65536
  Files <- MCFiles
  MaxRevision = 4
  Chars = {"x"}
  Blanks = {"sp"}
  Words = {"a", "x"}
  MaxKeys = 4
  MaxLength = 5
  MaxExtras = 2
INVARIANT NestedAreSkipped
CHECK_DEADLOCK FALSE
