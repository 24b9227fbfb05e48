SPECIFICATION MCSpec
CONSTANTS
  Align = 2
  BaseSize = 2
  VarSize = 2
  AttSizes = {0, 2, 4}
  Shapes <- TwoShapes
  Reserves <- TwoWays
  Values = {val}
  Fill = fill
  Unset = unset
  Hdr = hdr
  Garbage = garbage
  Shared = {FALSE}
  Unsynced = FALSE
  FailAt = {}
  Size = 32
  MaxVars = 3
  MaxRedefs = 1
  MaxRecs = 2
INVARIANTS TypeOK HeaderReadable  LayoutDisjoint AssertionsHold
PROPERTY IsRecords
