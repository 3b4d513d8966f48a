CONSTANTS
  N = 4
  Nil = Nil
  Faults = 0
  DDos = FALSE
  Flaky = {}
  RecvCap = 1000
  SubmitCap = 100
  MaxHeight = 8
  Last <- AllReachMax
  Lag <- Late2To0
  SlowCommitor = {0}
  Leader <- Leader023
SPECIFICATION FairSpec
INVARIANTS ExecutedOnce HistoryCovered WaitRegistered
PROPERTY CommitsEnd
