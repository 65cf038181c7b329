\* Two users who register, exchange keys and write to each other, each with a
\* second run; one of them may register twice.
SPECIFICATION Spec
CONSTANTS
  alice = alice
  bob = bob
  User <- MCUsers
  None = None
  Types <- MCTypes
  MaxRuns = 2
  MaxPairs = 2
  MaxClients = 2
  MaxSent = 1
SYMMETRY MCSymmetry
INVARIANTS
  TypeOK
  TextKeyIsAddressees
  KeysDecrypt
CHECK_DEADLOCK FALSE
