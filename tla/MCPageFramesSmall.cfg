CONSTANTS
  MaxOrder = 3
  Size <- MCSize
  DescOrder = 1
  NFrames = 100
  MemMaps <- MCSmallMaps
  LowLimit = 8
  BlocksPerTable = 2
  KernelEnd = 64
  Garbage = {5, 20, 64, 70}
  CountMax = 100
  CPUs = {boot}
  BootCPU = boot
SPECIFICATION Spec
INVARIANT DescriptorsKept
CHECK_DEADLOCK FALSE
