CONSTANTS
  MaxWorkers <- MCMaxWorkers
  WorkersCount = 1
  WorkersSpawnCount = 1
  MaxClients = 1
SPECIFICATION FairSpec
INVARIANTS
  TypeOK
  QuiescentShutdown
  CleanExit
PROPERTIES
  NoNewWorkInShutdown
  ShutdownCompletes
  EndedIsJoined
  MessageHandled
