CONSTANTS
  Listeners = {l1}
  Clients = {c1}
  SetupSteps = 2
SPECIFICATION Spec
INVARIANTS
  ServedAfterSetup
