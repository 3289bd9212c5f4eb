SPECIFICATION Spec
CHECK_DEADLOCK FALSE
CONSTANTS
  Students = {s}
  Media = {m}
  Batches = {b, c}
  Admins = {a}
  Edits <- InterimEdits
  NoStudent = NoStudent
  NoMedia = NoMedia
  Cap = 2
  LongRetention = TRUE
  MaxMonths = 1
  MaxMishaps = 1
INVARIANT NeverReapsFresh
