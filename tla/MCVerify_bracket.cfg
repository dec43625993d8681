SPECIFICATION VerifySpec
CONSTANTS
  W = 2
  NoY = 0
  LastStage = 2
  Hash <- MCHash
  Eval <- MCEval
  Calls <- MCCalls
  AnswersTo <- MCAnswersTo
  Positions <- MCPositions
  Items <- MCItems
  MaxItems = 6
  Cycle = 41
  MaxIterations = 12
  FirstOutput = 0
  ChainHash <- MCChainHash
  ChainEval <- MCChainEval
  Lag = 2
  Samples = 2
  ChainLength = 3
  MaxStages = 5
  MaxStarts = 2
INVARIANT RightNeighbourAbove
CHECK_DEADLOCK FALSE
