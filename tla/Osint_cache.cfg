SPECIFICATION CacheSpec
CONSTANTS
  Tasks = {t1, t2}
  Keys = {k1, k2, k3}
  Lenient = {k3}
  MaxEntries = 2
  TTL = 1
  MaxClock = 4
SYMMETRY Symmetry
INVARIANTS
  CacheInv
  WithinCapacity
  StoredUntilExpiry
  FailuresNotServed
PROPERTIES
  ServedFresh
  EvictsOldest
