SPECIFICATION Spec
CONSTANTS
  Width = 3
  Height = 3
  Old = Old
  Blank = Blank
  Base = 10
  Texts <- MCTexts
  Numbers = {0, 7, 42}
  PanicText <- MCPanicText
PROPERTY ShowsTheEnd
CHECK_DEADLOCK FALSE
