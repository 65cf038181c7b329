\* One user who connects three times, while threads of earlier connections are
\* still at work; some messages look like numbers.
SPECIFICATION Spec
CONSTANTS
  c1 = c1
  c2 = c2
  c3 = c3
  ann = ann
  ben = ben
  zoe = zoe
  NoId = NoId
  Locking = FALSE
  Conn <- MCConns3
  Name <- MCNames1
  ForeignName = {}
  Base = 4
  Digits = 1
  MaxRestarts = 0
  Pages = 1
  Slots = 2
  MaxMessages = 2
  Kind = {"hex", "number"}
  Strangers = {}
  AskTypes = {"send", "get"}
  Arrivals = {"whole"}
  MaxRequests = 2
SYMMETRY MCSymmetry3
INVARIANTS
  ReceivedOnce
  ReceivedInOrder
PROPERTIES
  MailboxService
CHECK_DEADLOCK FALSE
