SPECIFICATION FairSpec
CONSTANTS
  MaxEvent = 2
  MaxGeneration = 3
  Attempts = 2
  Mishaps = {"throw", "died", "late", "rejected", "abandoned", "unacknowledged"}
  MaxMishaps = 2
CHECK_DEADLOCK FALSE
INVARIANTS
  TypeOK
  DeliveredOnce
  HandledEvent
  RunningIsServed
PROPERTIES
  DeliversSerially
  GivenUpIsSettled
  RetiredRunEnds
  ClaimedDeliveryEnds
