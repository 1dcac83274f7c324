CONSTANTS
  MaxLease = 2
  Nodes = {n1}
  MaxTouches = 0
  MaxFaults = 0
  MaxCrashes = 0
  Messages = {"ready", "not_ready", "degraded", "recovered"}
  MaxLine = 1
  Workers = {w1, w2}
  MaxTries = 0
  MaxDeaths = 0
  StopLeaves = {"resumable_stopped"}
  DestroyFails = FALSE
  Losses = {}
  Beginnings = {"running", "pending"}
  Requests = {}
  MaxRequests = 0
  MaxConnects = 1
SPECIFICATION Spec
INVARIANTS TypeOK StoppedComputeIsDown LiveSandboxIsWatched StartupSettles
SYMMETRY Symmetry
CHECK_DEADLOCK FALSE
