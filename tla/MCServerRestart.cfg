\* Two restarts of the server at any moment; requests to send may be longer than the
\* 2048 bytes that it reads; pages of one identifier, so that the second message of
\* a thread has an identifier of more than 32 bits.
SPECIFICATION Spec
CONSTANTS
  c1 = c1
  c2 = c2
  c3 = c3
  ann = ann
  ben = ben
  zoe = zoe
  NoId = NoId
  Locking = TRUE
  Conn <- MCConns2
  Name <- MCNames2
  ForeignName = {zoe}
  Base = 4
  Digits = 1
  MaxRestarts = 2
  Pages = 2
  Slots = 1
  MaxMessages = 2
  Kind = {"hex"}
  Strangers <- MCStrangers
  AskTypes = {"send", "get", "list", "key"}
  Arrivals = {"whole", "oversize"}
  MaxRequests = 2
SYMMETRY MCSymmetry2
INVARIANTS
  TypeOK
  AnswersMatch
  LiveIdsDistinct
  StoredOnce
PROPERTIES
  MailboxService
CHECK_DEADLOCK FALSE
