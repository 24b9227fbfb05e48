SPECIFICATION MCSpec
CONSTANTS
  Align = 2
  BaseSize = 2
  VarSize = 2
  AttSizes = {0, 2, 4}
  Shapes <- TwoShapes
  Reserves <- OneWay
  Values = {val}
  Fill = fill
  Unset = unset
  Hdr = hdr
  Garbage = garbage
  Shared = {TRUE, FALSE}
  Unsynced = FALSE
  FailAt <- FirstSteps
  Size = 24
  MaxVars = 2
  MaxRedefs = 2
  MaxRecs = 2
INVARIANT FlagsTellChanges
PROPERTY AbortRestores
