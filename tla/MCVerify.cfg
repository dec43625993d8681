SPECIFICATION VerifySpec
CONSTANTS
  W = 2
  NoY = 0
  LastStage = 2
  Hash <- MCHash
  Eval <- MCEval
  Calls <- MCCalls
  AnswersTo <- MCAnswersTo
  Positions <- MCPositions
  Items <- MCItems
  MaxItems = 6
  Cycle = 41
  MaxIterations = 12
  FirstOutput = 0
  ChainHash <- MCChainHash
  ChainEval <- MCChainEval
  Lag = 2
  Samples = 2
  ChainLength = 3
  MaxStages = 5
  MaxStarts = 2
INVARIANT RangesTile
INVARIANT VerifiedByPosition
INVARIANT TreeWitnessesVerify
INVARIANT ComposersAgree
INVARIANT EncodingReadsBack
INVARIANT HashesAgree
INVARIANT WitnessesVerify
INVARIANT ProofsVerify
INVARIANT GcdsAgree
INVARIANT LimbsAgree
INVARIANT SampleFair
INVARIANT OpeningsInStep
CHECK_DEADLOCK FALSE
