SPECIFICATION Spec
CONSTANTS
  Size = 6
  Bytes = {0, 66, 97}
  SizeMax = 100
INVARIANTS ReadersAgree WritesAsAsked FirstToken
CHECK_DEADLOCK FALSE
