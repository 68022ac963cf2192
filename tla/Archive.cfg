SPECIFICATION Spec
CONSTANTS
  Device = {"GasDetector", "PCU_0"}
  Preexisting = {"gas_poll_event"}
  MaxFrame = 2
  MaxOffline = 1
  MaxFail = 1
  MaxCrash = 1
CHECK_DEADLOCK FALSE
INVARIANTS
  TypeOK
  SnapshotComplete
  ReadingsStored
PROPERTIES
  ImplementsLog
