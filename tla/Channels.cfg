CONSTANTS
  Others = {x}
  RecvCap = 2
  DagCap = 2
  SubmitCap = 1
  SendCap = 1
  Histories = {{x}, {0, 1}}
  MaxOwn = 1
  MaxEchoes = 1
  MaxElects = 2
SPECIFICATION FairSpec
INVARIANTS TypeOK RefSeesPushes PullsInOrder
PROPERTIES CoreReturns CommitsReturn DeadlockStays
CHECK_DEADLOCK FALSE
