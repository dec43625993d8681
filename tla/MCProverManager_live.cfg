SPECIFICATION FairSpec
CONSTANTS
  Buckets = 2
  Ratio = 2
  Threads = 1
  MaxBlobs = 3
  MaxUnits = 3
  Requests = {5}
  SlowWait = FALSE
  MayStop = TRUE
INVARIANT TypeOK
INVARIANT SegmentsConserved
PROPERTY RequestsServed
PROPERTY StopCompletes
