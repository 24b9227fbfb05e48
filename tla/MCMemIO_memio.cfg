SPECIFICATION Spec
CONSTANTS
  Size = 4
  pagesize = 2
  Bytes = {"x"}
  Garbage = "?"
  Unset = "-"
  MaxHeld = 2
  MaxLost = 1
  Faults = {}
INVARIANTS TypeOK OneOwner
PROPERTIES HeldStays IsByteFile
CHECK_DEADLOCK FALSE
