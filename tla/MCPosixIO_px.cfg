SPECIFICATION Spec
CONSTANTS
  blksz = 2
  Size = 6
  plain = plain
  mark = mark
  Plain = plain
  Mark = mark
  Starts <- WritingAndMoving
  Zero = Zero
  Garbage = Garbage
  Unset = Unset
  MaxExtent = 2
  MoveLengths = {1, 3}
  Pad = 1
  Faults = {}
INVARIANTS TypeOK
  GetReturnsContent CleanMirrorsFile NoAssertFails
PROPERTY IsByteFile
