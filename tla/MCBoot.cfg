SPECIFICATION Spec
CONSTANTS
  NONE = NONE
  Lines = {0, 1, 8}
  Wiring <- MCWiring
  RaiseLimit = 2
  ApicIds = {0, 1, 2, 3}
  IsoLimit = 4
  Machines <- MCMachines
  MapLimit = 2
INVARIANTS
  IrqIsNoException
  ServiceEnds
  ProcessorsListed
  OverridesInForce
  BootInfoKept
PROPERTIES
  BootEnds
  PicServes
CHECK_DEADLOCK FALSE
