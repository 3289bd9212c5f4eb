CONSTANTS
  e1 = e1
  p1 = p1
  Events <- OneEvent
  Photos = {p1}
  EventOf <- PhotosOfOne1
  Workers = {w1}
  Callers = {c1}
  MaxJobs = 1
  MaxCopies = 1
  MaxFaults = 0
  MaxStale = 0
  MaxFlips = 0
  MaxDeliveries = 1
  ClaimBatch = 2
SPECIFICATION Spec
INVARIANTS EventsNeverStrand
