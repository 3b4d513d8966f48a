CONSTANTS
  N = 4
  Nil = Nil
  Faults = 0
  DDos = FALSE
  Flaky = {}
  RecvCap = 1000
  SubmitCap = 100
  MaxHeight = 8
  Last <- AllReachMax
  Lag <- Late3To0
  SlowCommitor = {}
  Leader <- AnyLeader
SPECIFICATION MCSpec
INVARIANT TotalOrder
