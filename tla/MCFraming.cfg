\* Requests that arrive at once or in any pieces, and that fit or not.
SPECIFICATION FairSpec
CONSTANTS
  BufferSize = 4
  HeaderSize = 2
  Lengths <- MCLengths
  MaxRequests <- MCMaxRequests
INVARIANTS
  TypeOK
  UsedIsOwn
  ExecutedInOrder
  NeverWaitsForMore
PROPERTIES
  Answered
  ThreadEnds
CHECK_DEADLOCK FALSE
