CONSTANTS
  BuffSz = 2
  MaxRead = 3
  MaxWritten = 6
SPECIFICATION FairSpec
INVARIANTS
  StreamAccounted
PROPERTIES
  EndsWhenCancelled
