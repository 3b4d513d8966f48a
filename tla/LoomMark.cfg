CONSTANTS
  N = 4
  Nil = Nil
  Faults = 0
  DDos = FALSE
  Flaky = {}
  RecvCap = 1000
  SubmitCap = 100
  MaxHeight = 8
  Last <- AllReachMax
  Lag <- Last3To0
  SlowCommitor = {0}
  Leader <- Leader1Or3
SPECIFICATION MCSpec
INVARIANT CommitMarkExecuted
