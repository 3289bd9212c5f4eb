SPECIFICATION Spec
CHECK_DEADLOCK FALSE
CONSTANTS
  p1 = p1
  p2 = p2
  Photos <- TwoPhotos
  Faceless <- NoFace
  MaxRequests = 3
  MaxActive = 2
  MaxFaults = 1
  MaxTimeouts = 1
  MaxScans = 1
  MaxMishaps = 2
INVARIANTS TypeOK LoginsHaveProfiles PhotosFollowRows EnrolledHaveFaces EnrolledByShownPhoto ErasureIsComplete
