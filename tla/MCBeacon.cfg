SPECIFICATION ModesSpec
CONSTANTS
  W = 3
  MaxStages = 4
  MaxData = 2
  Clients = {c1, c2}
  Alone = c1
  AloneSays = v1
  Readers = {r1}
  Values = {v1, v2}
  Dummy = Dummy
  NoY = NoY
  Preemptive = TRUE
  Hash <- MCHash
  Eval <- MCEval
INVARIANT TypeOK
INVARIANT EvaluatedInOrder
INVARIANT ChallengesChained
INVARIANT DoneStagesProveTheirWindow
INVARIANT NoThreadDies
INVARIANT DoneAnswersComplete
INVARIANT GeventAnswersHold
PROPERTY ImplementsChain
