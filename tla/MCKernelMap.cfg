SPECIFICATION Spec
CONSTANTS
  None = None
  Slots = 2
  StaticTables = 3
  OtherTables = 3
  NFrames = 6
  KernelPages = 1
  ChunkPages = 5
  Windows <- MCWindows
  Amounts = {0, 1, 2, 3}
  SizeBits = 10
  MaxOrder = 4
  PageBytes = 16
  Leftover = {None, 0}
INVARIANTS TranslatesAsAsked DataIsPrivate BlocksFit
CHECK_DEADLOCK FALSE
