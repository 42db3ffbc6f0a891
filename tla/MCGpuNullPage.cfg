SPECIFICATION GpuSpec
CONSTANTS
  Objects = {o1, o2, o3, o4, o5}
  None = None
  SlotCount = 2
  MaxFence = 3
  Rasters <- MCRasters
  SizeOf <- MCSizeOf
  Width = 8
  Height = 8
  MaxPages = 3
SYMMETRY Symmetry
INVARIANT PageIsValid
CHECK_DEADLOCK FALSE
