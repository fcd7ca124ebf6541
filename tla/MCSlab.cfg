SPECIFICATION Spec
CONSTANTS
  NULL = NULL
  Wild = Wild
  BlockSize <- MCBlockSize
  ObjectsPerPage = 4
  SlabPages = {p1, p2}
  WriteLimit = 1
  Sizes = {0, 3, 4, 5}
INVARIANTS ListMatchesCount OnlyFirstRepeats
CHECK_DEADLOCK FALSE
SYMMETRY PageSymmetry
