\* Liveness under every way requests may arrive.  MaxMessages is never reached.
SPECIFICATION FairSpec
CONSTANTS
  c1 = c1
  c2 = c2
  c3 = c3
  ann = ann
  ben = ben
  zoe = zoe
  NoId = NoId
  Locking = TRUE
  Conn <- MCConns2
  Name <- MCNames1
  ForeignName = {zoe}
  Base = 4
  Digits = 1
  MaxRestarts = 0
  Pages = 1
  Slots = 2
  MaxMessages = 4
  Kind = {"number"}
  Strangers = {}
  AskTypes = {"send", "get"}
  Arrivals = {"whole", "oversize", "fragmented"}
  MaxRequests = 2
PROPERTIES
  Answered
  AcceptorProgress
CHECK_DEADLOCK FALSE
