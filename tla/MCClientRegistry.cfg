SPECIFICATION Spec
CONSTANTS
  ann = ann
  ben = ben
  cid = cid
  dan = dan
  eve = eve
  Name <- MCName
  Base = 3
  Digits = 2
  MaxRestarts = 3
INVARIANTS
  TypeOK
  OneRowPerClient
PROPERTIES
  NoClientReplaced
CHECK_DEADLOCK FALSE
