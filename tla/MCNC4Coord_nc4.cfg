SPECIFICATION MCSpec
CONSTANTS
  lon = lon
  lat = lat
  lev = lev
  f = f
  default = default
  absent = absent
  Names = {lon, lat, lev}
  Fills = {f}
  Default = default
  Absent = absent
  MaxObjects = 3
  Ranks = {1, 2}
  MaxPlaces = 2
  MaxMarked = 1
  MaxIds = 2
  Unusual = {}
INVARIANTS TypeOK IdsDistinct ScalesAttached NoFault
PROPERTY IsDataset
SYMMETRY Symmetry
CHECK_DEADLOCK FALSE
