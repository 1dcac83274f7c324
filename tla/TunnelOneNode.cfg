CONSTANTS
  MaxLease = 2
  Nodes = {n1}
  MaxTouches = 1
  MaxFaults = 1
  MaxCrashes = 1
  Messages = {"ready", "not_ready", "degraded", "recovered"}
  MaxLine = 1
SPECIFICATION FairSpec
INVARIANTS TypeOK GenerationsIdentifyLeases AttachedIsNotReconnecting OwnerHasIdleDeadline
PROPERTIES ClosedTunnelArmsDisconnect
CHECK_DEADLOCK FALSE
