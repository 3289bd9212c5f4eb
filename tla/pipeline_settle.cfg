CONSTANTS
  e1 = e1
  p1 = p1
  Events <- OneEvent
  Photos = {p1}
  EventOf <- PhotosOfOne1
  Workers = {w1}
  Callers = {c1}
  MaxJobs = 2
  MaxCopies = 1
  MaxFaults = 1
  MaxStale = 1
  MaxFlips = 0
  MaxDeliveries = 1
  ClaimBatch = 2
SPECIFICATION FairSpec
INVARIANTS TypeOK
PROPERTIES JobsSettle CompletedEventsStayUnfailed
