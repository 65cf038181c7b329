\* Three clients and two messages.
SPECIFICATION Spec
CONSTANTS
  IdSize = 2
  NameSize = 3
  KeySize = 16
  Name <- MCNames
  PublicKey <- MCKeys
  Content <- MCContents
  Type = {1, 3}
  Behind = {90}
  MaxClients = 3
  MaxMessages = 2
INVARIANTS
  TypeOK
  ListIsComplete
  KeyArrives
  MessagesArrive
  SilentAtNumber
CHECK_DEADLOCK FALSE
