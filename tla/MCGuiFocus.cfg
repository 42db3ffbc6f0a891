SPECIFICATION Spec
CONSTANTS
  Boxes = {a, b, m}
  Fields = {m}
  Multiline = {m}
  None = None
SYMMETRY Symmetry
INVARIANT ClickNeedsPress
INVARIANT FocusedFieldTakesText
PROPERTY TabMovesOnce
