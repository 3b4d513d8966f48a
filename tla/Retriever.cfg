CONSTANTS
  p = p
  q = q
  Peer = {p, q}
  Digest = {a, b}
  Lossy = {p}
  Held <- MCHeld
  ReqCap = 1
  MaxReq = 2
SPECIFICATION FairSpec
INVARIANTS TypeOK OneRequestPerBlock CountsCovered LoopBackOnce
PROPERTIES CallsLoopBack
CHECK_DEADLOCK FALSE
