SPECIFICATION ChannelsSpec
CONSTANTS
  Capacity = 3
  Value = {v1, v2}
  Torn = Torn
  Chunk = 2
  Sizes = {1, 3, 5}
  MaxMessages = 4
  Files = {f1, f2}
  LastVersion = 3
  PipeSize = 1
INVARIANT NoDataRace
PROPERTY ImplementsFifo
PROPERTY EventuallyPopped
INVARIANT MessagesArrive
PROPERTY BacklogDrains
INVARIANT RuntimeIsAlive
INVARIANT NoEditIsForgotten
PROPERTY EditIsReloaded
CHECK_DEADLOCK FALSE
