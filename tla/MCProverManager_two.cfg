SPECIFICATION Spec
CONSTANTS
  Buckets = 2
  Ratio = 3
  Threads = 3
  MaxBlobs = 1
  MaxUnits = 3
  Requests = {2, 3, 4}
  SlowWait = TRUE
  MayStop = FALSE
CONSTRAINT MCOneSession
INVARIANT MaxProvingCovered
INVARIANT NoMissedWakeup
INVARIANT ProofsFollow
