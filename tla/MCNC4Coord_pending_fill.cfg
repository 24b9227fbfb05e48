SPECIFICATION MCSpec
CONSTANTS
  lon = lon
  lat = lat
  lev = lev
  f = f
  default = default
  absent = absent
  Names = {lon, lat, lev}
  Fills = {f}
  Default = default
  Absent = absent
  MaxObjects = 1
  Ranks = {0}
  MaxPlaces = 0
  MaxMarked = 1
  MaxIds = 2
  Unusual = {"pending_fill"}
PROPERTY SyncKeepsData
SYMMETRY Symmetry
CHECK_DEADLOCK FALSE
