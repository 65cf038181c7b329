\* A user restarts the program and sends the new symmetric key to a friend.
SPECIFICATION Spec
CONSTANTS
  alice = alice
  bob = bob
  User <- MCUsers
  None = None
  Types <- MCAllTypes
  MaxRuns = 2
  MaxPairs = 1
  MaxClients = 2
  MaxSent = 1
PROPERTIES
  ReceivedKeyIsUsed
CHECK_DEADLOCK FALSE
