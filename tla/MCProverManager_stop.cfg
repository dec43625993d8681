SPECIFICATION FairSpec
CONSTANTS
  Buckets = 2
  Ratio = 2
  Threads = 1
  MaxBlobs = 3
  MaxUnits = 2
  Requests = {2}
  SlowWait = TRUE
  MayStop = TRUE
PROPERTY StopCompletes
CHECK_DEADLOCK FALSE
