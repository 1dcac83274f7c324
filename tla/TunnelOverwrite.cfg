CONSTANTS
  MaxLease = 2
  Nodes = {n1}
  MaxTouches = 0
  MaxFaults = 0
  MaxCrashes = 0
  Messages = {"ready", "not_ready", "degraded", "recovered"}
  MaxLine = 0
SPECIFICATION Spec
PROPERTIES StaleSessionNeverOverwrites
CHECK_DEADLOCK FALSE
