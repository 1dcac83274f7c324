CONSTANTS
  MaxLease = 1
  Nodes = {n1}
  MaxTouches = 0
  MaxFaults = 0
  MaxCrashes = 0
  Messages = {"ready"}
  MaxLine = 1
  Workers = {w1, w2}
  MaxTries = 0
  MaxDeaths = 0
  StopLeaves = {"resumable_stopped"}
  DestroyFails = FALSE
  Losses = {"resumable_stopped"}
  Beginnings = {"pending"}
  Requests = {"delete", "resume"}
  MaxRequests = 1
  MaxConnects = 1
SPECIFICATION FairSpec
INVARIANTS ActiveComputeIsKnown
PROPERTIES DeletedIsDestroyed StartupEnds
CHECK_DEADLOCK FALSE
