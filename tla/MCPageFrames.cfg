CONSTANTS
  MaxOrder = 4
  Size <- MCSize
  DescOrder = 0
  NFrames = 100
  MemMaps <- MCMaps
  LowLimit = 8
  BlocksPerTable = 2
  KernelEnd = 64
  Garbage = {5, 20, 64, 70}
  CountMax = 100
  CPUs = {boot}
  BootCPU = boot
SPECIFICATION Spec
INVARIANTS NoOverlap BlockFits DescriptorsKept ListsSound
PROPERTIES CallEnds BootEnds
CHECK_DEADLOCK FALSE
