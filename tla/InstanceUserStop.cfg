CONSTANTS
  MaxLease = 1
  Nodes = {n1}
  MaxTouches = 0
  MaxFaults = 0
  MaxCrashes = 0
  Messages = {"ready", "not_ready", "degraded", "recovered"}
  MaxLine = 0
  Workers = {w1, w2}
  MaxTries = 1
  MaxDeaths = 0
  StopLeaves = {"resumable_stopped"}
  DestroyFails = FALSE
  Losses = {"missing"}
  Beginnings = {"running"}
  Requests = {"stop", "read"}
  MaxRequests = 2
  MaxConnects = 1
SPECIFICATION FairSpec
PROPERTIES StoppingEnds LostComputeIsNoticed
CHECK_DEADLOCK FALSE
