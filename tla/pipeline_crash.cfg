CONSTANTS
  e1 = e1
  p1 = p1
  Events <- OneEvent
  Photos = {p1}
  EventOf <- PhotosOfOne1
  Workers = {w1,w2}
  Callers = {c1}
  MaxJobs = 1
  MaxCopies = 2
  MaxFaults = 2
  MaxStale = 0
  MaxFlips = 1
  MaxDeliveries = 2
  ClaimBatch = 2
SPECIFICATION Spec
SYMMETRY Symmetric
VIEW WithoutIdleRequests
INVARIANTS DeadJobsAreNotLost AckedJobsRanTheirPhotos FailedEventsHadDeadLetters HandOutsAreBounded
PROPERTIES ImplementsLedger
