SPECIFICATION Spec
CHECK_DEADLOCK FALSE
CONSTANTS
  Students = {s}
  Media = {m, n}
  Batches = {b, c}
  Admins = {a}
  Edits <- InterimEdits
  NoStudent = NoStudent
  NoMedia = NoMedia
  Cap = 1
  LongRetention = TRUE
  MaxMonths = 1
  MaxMishaps = 1
SYMMETRY Symmetric
INVARIANTS TypeOK BudgetHolds SendsAreEntitled ReportsAreTrue LinksStayLive
