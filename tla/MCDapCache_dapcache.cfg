SPECIFICATION Spec
CONSTANTS
  one = one
  two = two
  wide = wide
  Vars <- MCVars
  Small <- MCSmall
  Cells <- MCCells
  cachelimit = 3
  cachecount = 2
  Failed = Failed
  MaxVersion = 1
INVARIANTS LimitsKept HoldsLastUsed AttachedAlive
PROPERTY ReadsForward
CHECK_DEADLOCK FALSE
