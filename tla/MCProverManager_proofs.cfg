SPECIFICATION Spec
CONSTANTS
  Buckets = 2
  Ratio = 2
  Threads = 2
  MaxBlobs = 4
  MaxUnits = 4
  Requests = {8}
  SlowWait = FALSE
  MayStop = FALSE
INVARIANT ProofsComplete
CHECK_DEADLOCK FALSE
