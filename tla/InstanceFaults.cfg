CONSTANTS
  MaxLease = 1
  Nodes = {n1}
  MaxTouches = 0
  MaxFaults = 1
  MaxCrashes = 0
  Messages = {"ready", "not_ready", "degraded", "recovered"}
  MaxLine = 0
  Workers = {w1, w2}
  MaxTries = 0
  MaxDeaths = 1
  StopLeaves = {"resumable_stopped", "terminal_stopped", "stopping", "missing"}
  DestroyFails = TRUE
  Losses = {}
  Beginnings = {"running", "pending"}
  Requests = {"stop", "reconcile", "delete", "read"}
  MaxRequests = 1
  MaxConnects = 1
SPECIFICATION Spec
INVARIANTS StoppedComputeIsDown
PROPERTIES TerminalOnlyResumes
SYMMETRY Symmetry
CHECK_DEADLOCK FALSE
