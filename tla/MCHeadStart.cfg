SPECIFICATION SystemSpec
CONSTANTS
  W = 2
  MaxStages = 4
  MaxData = 3
  Clients = {c1}
  Readers = {}
  Values = {v1}
  Dummy = Dummy
  NoY = NoY
  Preemptive = FALSE
  Hash <- MCHash
  Eval <- MCEval
INVARIANT HonestServed
PROPERTY RandomnessDelivered
CHECK_DEADLOCK FALSE
