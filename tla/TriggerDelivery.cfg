SPECIFICATION FairSpec
CONSTANTS
  MaxRun = 2
  MaxGeneration = 3
  MaxSandbox = 3
  Attempts = 2
  Mishaps = {"throw", "died", "late", "idle_lost", "abandoned", "unacknowledged", "broken"}
  MaxMishaps = 2
CHECK_DEADLOCK FALSE
INVARIANTS
  TypeOK
  OneProcessor
  RunningIsServed
  DeliveredOnce
  FinishedTaskHasFinishedRun
  BoundToItsSandbox
PROPERTIES
  DeliversSerially
  InSourceOrder
  ClaimedTaskEnds
