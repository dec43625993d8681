SPECIFICATION FairSpec
CONSTANTS
  Interval = 2
  Target = 6
  ChkpThres = 2
  SkipThres = 1
  MaxSegments = 2
  MaxAux = 2
  ProofOption = 0
  Torn = FALSE
  Requests = {3, 6}
  Strides = {3, 8}
  MaxFaults = 1
  MaxSessions = 2
CHECK_DEADLOCK FALSE
INVARIANT SlotLeftForValues
PROPERTY SessionsEnd
