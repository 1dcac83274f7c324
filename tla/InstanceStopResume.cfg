CONSTANTS
  MaxLease = 1
  Nodes = {n1}
  MaxTouches = 0
  MaxFaults = 0
  MaxCrashes = 0
  Messages = {"ready", "not_ready", "degraded", "recovered"}
  MaxLine = 0
  Workers = {w1, w2}
  MaxTries = 1
  MaxDeaths = 0
  StopLeaves = {"resumable_stopped"}
  DestroyFails = FALSE
  Losses = {}
  Beginnings = {"running"}
  Requests = {"stop", "resume"}
  MaxRequests = 2
  MaxConnects = 1
SPECIFICATION Spec
INVARIANTS StoppedComputeIsDown
CHECK_DEADLOCK FALSE
