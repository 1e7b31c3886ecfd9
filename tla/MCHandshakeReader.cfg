CONSTANTS
  Calls <- MCHandshakeCalls
  Total <- MCTotal
  Capacity = 0
  LowWater = 1
  MaxOther = 0
  N_HUP = 12
SPECIFICATION Spec
INVARIANTS
  FailsOnlyOnError
