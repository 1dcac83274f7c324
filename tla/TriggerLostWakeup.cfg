SPECIFICATION FairSpec
CONSTANTS
  MaxRun = 2
  MaxGeneration = 3
  MaxSandbox = 2
  Attempts = 2
  Mishaps = {}
  MaxMishaps = 0
CHECK_DEADLOCK FALSE
INVARIANT NoTaskStranded
