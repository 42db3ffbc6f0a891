SPECIFICATION MapsSpec
CONSTANTS
  k1 = k1
  k2 = k2
  k3 = k3
  r1 = r1
  r2 = r2
  r3 = r3
  r4 = r4
  Keys = {k1, k2, k3}
  Values = {1, 2}
  NoValue = 0
  NoKey = NoKey
  Hash <- MCHash
  MinCapacity = 2
  MaxCapacity = 4
  MaxEntries = 4
  MinLog2 = 2
  MaxLog2 = 3
PROPERTY ImplementsMap
PROPERTY PointersStay
PROPERTY RobinIsAMap
PROPERTY HandedOutIsItsKey
