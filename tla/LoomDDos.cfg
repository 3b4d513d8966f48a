CONSTANTS
  N = 4
  Nil = Nil
  Faults = 1
  DDos = TRUE
  Flaky = {}
  RecvCap = 1000
  SubmitCap = 100
  MaxHeight = 3
  Last <- AllReachMax
  Lag <- NoLag
  SlowCommitor = {}
  Leader <- AnyLeader
SPECIFICATION FairSpec
INVARIANTS Available ChainShape
PROPERTY ChainsGrow
