SPECIFICATION GitSpec
CONSTANTS
  Paths = {f}
  EmptyCommits = {2}
  FirstLog = 3
  FirstStatus = {"changed", "staged"}
  Limit = 1
  Page = 1
  GitQueue = 3
  MaxSteps = 3
INVARIANT CommitsAreConsecutive
INVARIANT PendingIsInFlight
INVARIANT AtRestAllIsShown
PROPERTY Settles
