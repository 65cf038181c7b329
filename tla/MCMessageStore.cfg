\* Three sessions share two pages of two keys each: keys are handed out twice,
\* the first page overflows, and an out of date allocator meets a stored row.
SPECIFICATION Spec
CONSTANTS
  s1 = s1
  s2 = s2
  s3 = s3
  alice = alice
  bob = bob
  carl = carl
  text = text
  Session <- MCSession
  Client <- MCClient
  Sender <- MCSender
  Content <- MCContent
  Pages = 2
  Slots = 2
  MaxMessages = 3
SYMMETRY MCSymmetry
INVARIANTS
  TypeOK
  FreeListSound
  SessionOrder
  NoKeySkipped
  Conservation
CHECK_DEADLOCK FALSE
