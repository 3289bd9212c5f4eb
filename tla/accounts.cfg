SPECIFICATION MCSpec
CONSTANTS
  a1 = a1  a2 = a2  t1 = t1  t2 = t2  r1 = r1  r2 = r2  g1 = g1  g2 = g2
  s1 = s1  s2 = s2  e1 = e1  e2 = e2  e3 = e3
  Admins = {a1, a2}
  Teachers = {t1, t2}
  Requests = {r1, r2}
  Caps = {1, 2}
  NoUser = NoUser
  NoRow = NoRow
  MaxMoves = 3
  MaxTurns = 3
  Groups = {g1, g2}
  Students = {s1, s2}
  Events = {e1, e2, e3}
  NoGroup = NoGroup
  Rank <- MCRank
  PageSize = 1
  Names = {"5A"}
  NameOf <- MCNameOf
  Sheets <- MCSheets
  Picks <- MCPicks
  MaxJobs = 2
  MaxSlips = 1
  MaxNews = 4
INVARIANTS TypeOK CountsHold OldCredentialsAreDead PagesMissNobody AnswersAreTrue TrailIsTrue ReportsAddUp
SYMMETRY Symmetry
CHECK_DEADLOCK FALSE
