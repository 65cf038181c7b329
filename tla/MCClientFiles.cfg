\* Two programs in one directory, which are started again and again.
SPECIFICATION Spec
CONSTANTS
  Program = {p, q}
  Name = {a, b}
  None = None
  KeyLines = 2
  ServerInfos <- MCServerInfos
  MaxStarts = 4
  MaxPairs = 3
INVARIANTS
  TypeOK
  MeInfoIsRegistration
  CanStart
  ProgramHasFilesPair
PROPERTIES
  FileNeverReplaced
CHECK_DEADLOCK FALSE
