SPECIFICATION FairSpec
CONSTANTS
  Instance = {1}
  Group = {"ST2"}
  MaxFrame = 2
  MaxQueue = 2
  MaxFail = 1
CHECK_DEADLOCK FALSE
INVARIANTS
  TypeOK
  OnceInOrder
PROPERTIES
  NewestArrives
  OfflineReachesFile
  RowsCatchUp
