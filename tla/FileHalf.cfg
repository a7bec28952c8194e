SPECIFICATION FileSpec
CONSTANTS
  f1 = f1
  f2 = f2
  NoName = NoName
  Names = {f1, f2}
  Handles = {1, 2}
  Total = 8
  Byte = 1
  MapBytes = 5
  RootSectors = 1
  RootSlots = 2
  MaxSegments = 2
  MaxLength = 3
  Worlds <- HalfFormat
INVARIANT MountedIsWhole
CHECK_DEADLOCK FALSE
