CONSTANTS
  BuffSz = 2
  MaxRead = 3
  MaxWritten = 6
SPECIFICATION Spec
INVARIANTS
  EachByteOnce
