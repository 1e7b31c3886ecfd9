CONSTANTS
  Listeners = {l1}
  Clients = {c1}
  SetupSteps = 2
SPECIFICATION FairSpec
INVARIANTS
  NoEarlyAccept
  QuietExit
PROPERTIES
  FirstCodeStays
  StartupEnds
  
