SPECIFICATION Spec
CONSTANTS
  IntBits = 4
  WordsPerChunk = 5
  Chunks = 2
  KernelPages = 11
  Amounts = {1, 4}
INVARIANTS NoDoubleAlloc FirstFit
CHECK_DEADLOCK FALSE
