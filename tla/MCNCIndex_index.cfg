SPECIFICATION FairSpec
CONSTANTS
  lon = lon
  lat = lat
  lev = lev
  time = time
  Names = {lon, lat, lev, time}
  NoName = NoName
  HashKey <- Hashes
  Primes <- SomePrimes
  MinTableSize = 3
  MaxObjects = 4
INVARIANTS TypeOK LookupRight
PROPERTIES CallReturns Refines
