SPECIFICATION Spec
CONSTANTS
  Students = {s, t}
  w1 = w1  w2 = w2  r1 = r1
  Writers <- TwoReplicas
  Readers <- OneReader
  HomeOf <- Homes
  MetaFirst = TRUE
  MaxPhotos = 1
  MaxWrites = 3
  MaxFaults = 0
  MaxBlips = 0
  MaxLeaseLosses = 0
  MaxUpgrades = 0
SYMMETRY Symmetric
INVARIANTS TypeOK QuietSearchesAreExact ErasedStayErased
PROPERTIES ImplementsRoster VersionsOnlyGrow
