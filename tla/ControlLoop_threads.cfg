SPECIFICATION FairSpec
CONSTANTS
  parser = parser
  timer = timer
  Producers <- MCProducers
  PostedTypes = {"HmiWrite", "Tick"}
  MaxSnapshots = 4
  QueueCap = 1
INVARIANTS
  TypeOK
  PendingHasMarker
  SingleMarker
PROPERTIES
  NoOldSnapshotAfterStop
  ImplementsSlot
  PendingIsHandled
  StopReturns
