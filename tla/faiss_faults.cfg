SPECIFICATION Spec
CONSTANTS
  Students = {s, t}
  w1 = w1  w2 = w2  r1 = r1
  Writers <- OneWriter
  Readers <- OneReader
  HomeOf <- NoHomes
  MetaFirst = FALSE
  MaxPhotos = 2
  MaxWrites = 3
  MaxFaults = 1
  MaxBlips = 0
  MaxLeaseLosses = 0
  MaxUpgrades = 1
INVARIANT ErasedFacesAreGone
