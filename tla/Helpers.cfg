CONSTANTS
  N = 4
  Id = 1
  Rate = 45
  BatchSize = 2
  MaxQueueSize = 3
  TxCap = 2
  BatchCap = 2
  MaxTx = 13
  Node = {n1, n2, n3}
  Client = {c1, c2}
  Key = {k}
  Val = {u, v}
  Digest = {d, e}
  NotFound = NotFound
  None = None
  StoreCap = 1
  SigCap = 1
SPECIFICATION HelpersSpec
INVARIANTS HelpersTypeOK NeverFull OnlineBeforeStart
PROPERTIES EveryoneStarts PoolIsStream PoolDelivers CallsAreAtomic CallsReturn
CHECK_DEADLOCK FALSE
