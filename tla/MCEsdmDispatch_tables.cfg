SPECIFICATION MCSpec
CONSTANTS
  lon = lon
  lat = lat
  lev = lev
  temp = temp
  salt = salt
  units = units
  fillatt = fillatt
  one = one
  two = two
  int_one = int_one
  double_one = double_one
  absent = absent
  default = default
  FillAtt = fillatt
  Default = default
  Absent = absent
  DimNames = {lon, lat, lev}
  VarNames = {temp, salt}
  AttNames = {fillatt, units}
  Lengths = {0, 1}
  Values = {one, two}
  Memory = {int_one, double_one}
  Typed = {int_one}
  Converted <- AsConverted
  Raw <- AsRead
  MaxDims = 3
  MaxVars = 2
  MaxRank = 2
  Foreign = {}
  Unusual = {}
INVARIANTS TypeOK TablesAgree ReopenAccepted
  FillAttrMatches
PROPERTY IsDataset
SYMMETRY Symmetry
