CONSTANTS
  MaxWorkers = 5
  WorkersCount = 2
  WorkersSpawnCount = 1
  MaxClients = 2
SPECIFICATION Spec
CONSTRAINT FewWorkers
INVARIANTS
  OneOwner
  NoJobRefused
  ReporterIsActive
  PoolBound
