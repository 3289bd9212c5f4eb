SPECIFICATION Spec
CHECK_DEADLOCK FALSE
CONSTANTS
  p1 = p1
  p2 = p2
  Photos <- TwoPhotos
  Faceless <- AllFaces
  MaxRequests = 2
  MaxActive = 2
  MaxFaults = 0
  MaxTimeouts = 1
  MaxScans = 0
  MaxMishaps = 1
INVARIANT DeletedMeansGone
