\* Two files in two panes; two edits or writes.
SPECIFICATION DocumentsSpec
CONSTANTS
    Paths = {f, g}
    NumPanes = 2
    MaxClock = 3
    Revisions = 2
    Shut = Shut
    Here = Here
    NotOpen = NotOpen
    Files = {a, b, j}
    JsonPaths = {j}
    MaxRev = 1
    MaxRequests = 2
    MaxMoves = 2
INVARIANT PanesAgree
 
INVARIANT ListedNotAhead
PROPERTY UnsavedKept
 
SYMMETRY Symmetry
CHECK_DEADLOCK FALSE
