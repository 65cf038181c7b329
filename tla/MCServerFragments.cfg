\* Requests may reach the server in two pieces.
SPECIFICATION Spec
CONSTANTS
  c1 = c1
  c2 = c2
  c3 = c3
  ann = ann
  ben = ben
  zoe = zoe
  NoId = NoId
  Locking = FALSE
  Conn <- MCConns2
  Name <- MCNames1
  ForeignName = {}
  Base = 4
  Digits = 1
  MaxRestarts = 0
  Pages = 1
  Slots = 2
  MaxMessages = 2
  Kind = {"hex"}
  Strangers = {}
  AskTypes = {"send"}
  Arrivals = {"whole", "fragmented"}
  MaxRequests = 2
SYMMETRY MCSymmetry2
INVARIANTS
  StoredOnce
CHECK_DEADLOCK FALSE
