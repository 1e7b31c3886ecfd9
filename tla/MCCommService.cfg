CONSTANTS
  Conns = {1, 2, 3}
  Fds = {3, 4, 5}
  MaxEvents = 2
  MaxBusy = 1
SPECIFICATION FairSpec
INVARIANTS
  OwnEventsOnly
  NoEventLost
  DescriptorsAccounted
PROPERTIES
  EventsReachHelpers
  CancelReachesHandlers
