CONSTANTS
  Peer = {p, q}
  Silent = {p}
  Flaky = {p}
  Breakable = {p}
  SendCap = 1
  ConnCap = 1
  InboxCap = 1
  WireCap = 1
  MaxMsgs = 4
SPECIFICATION FairSpec
INVARIANTS TypeOK
PROPERTIES PathIsLink Delivered StuckStays
CHECK_DEADLOCK FALSE
