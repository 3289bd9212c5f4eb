SPECIFICATION Spec
CHECK_DEADLOCK FALSE
CONSTANTS
  s = s
  t = t
  Students = {s, t}
  Media = {m}
  Views <- TwoViews
  Workers = {w, v}
  Requests = {q, r}
  NoStudent = NoStudent
  NoMedia = NoMedia
  NoRow = NoRow
  Confidence = 2
  GapLimit = 1
  MaxMoves = 3
SYMMETRY Symmetric
INVARIANTS TypeOK ShownWereEntitled MatchesAreSound DashboardCountsTheLane InboxIsTrue 
