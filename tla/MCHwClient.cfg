SPECIFICATION Spec
CONSTANTS
  Interval = 2
  Target = 10
  ChkpThres = 2
  SkipThres = 1
  MaxSegments = 2
  MaxAux = 4
  ProofOption = 0
  Torn = FALSE
  Requests = {6, 7, 10}
  Strides = {3, 8}
  MaxFaults = 1
  MaxSessions = 1
CHECK_DEADLOCK FALSE
INVARIANT ValuesComplete
INVARIANT RequestsConserved
INVARIANT SentTiles
