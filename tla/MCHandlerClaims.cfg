CONSTANTS
  Clients = {c1, c2}
SPECIFICATION FairSpec
INVARIANTS
  TypeOK
  InUseIsOpen
  DisposedOnce
  NoLeak
PROPERTIES
  SocketsClose
