SPECIFICATION PartSpec
CONSTANTS
  BatchSize = 2
  Interval = 2
  MaxCounted = 13
  Wanted = {3, 8, 9}
  Short = 8
  K = 1
  L = 2
  ShortK = 2
  Asked = {2, 7}
  MaxProcesses = 1
  SmallStep = 1
  Ratio = 2
  SwitchIters = 3
  MaxIters = 14
  Margin = 6
  LongSegment = 2
  Word = 1000
  Iterations = 2
  GcdMax = 2
  MaxFailures = 1
  Workers = {w1, w2}
  Lengths <- MCLengths
  Window = 2
  MaxHalves = 6
INVARIANT ProversReadRightForms
INVARIANT WithinBounds
INVARIANT WaitsAnswered
INVARIANT ThreadsInStep
INVARIANT WindowHoldsSegments
INVARIANT SegmentsAnnounced
SYMMETRY MCSymmetry
