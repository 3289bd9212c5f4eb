SPECIFICATION FairSpec
CONSTANTS
  Students = {s, t}
  w1 = w1  w2 = w2  r1 = r1
  Writers <- TwoReplicas
  Readers <- NoReader
  HomeOf <- NoHomes
  MetaFirst = TRUE
  MaxPhotos = 2
  MaxWrites = 2
  MaxFaults = 1
  MaxBlips = 1
  MaxLeaseLosses = 1
  MaxUpgrades = 1
INVARIANT LostWritesAreLogged
PROPERTY RequestsEnd
\* with no search left to begin, the bounded requests end
CHECK_DEADLOCK FALSE
