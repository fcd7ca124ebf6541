SPECIFICATION ObjSpec
CONSTANTS
  NULL = NULL
  Wild = Wild
  BlockSize <- MCBlockSize
  ObjectsPerPage = 6
  SlabPages = {p1, p2, p3, p4, p5, p6}
  WriteLimit = 1
  Sizes = {}
  ActivitySize = 1
  CoreSize = 2
  ProcessSize = 3
  Names <- MCNames
  ByteObjects = 4
  Cores <- MCCores
  ProcessLimit = 2
  ThreadLimit = 3
INVARIANT ThreadIdsDistinct
SYMMETRY PageSymmetry
CHECK_DEADLOCK FALSE
