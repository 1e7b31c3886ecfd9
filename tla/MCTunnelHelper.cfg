CONSTANTS
  Calls <- MCTunnelCalls
  Total <- MCTotal
  Capacity = 2
  LowWater = 2
  MaxOther = 1
  N_HUP = 14
SPECIFICATION FairSpec
INVARIANTS
  TypeOK
  NoLostWakeup
  NothingDropped
  NoTruncation
PROPERTIES
  ImplementsCommHelper
  DataArrives
  EndIsNoticed
