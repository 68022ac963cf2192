SPECIFICATION Spec
CONSTANTS
  InstanceTimeout = 2
  GroupTimeout <- MCGroupTimeout
  MaxPower = 10
  CmdPeriod = 1
  LifeMod = 1
  PcuRxTimeout = 1
  PcuHbStale = 1
  PcuPeriod = 1
  BmsTx = TRUE
  Instance = {1}
  Pcu = {0}
  PcuBatt = {1}
  PcuTx = {0}
  BmsInputs <- PlantInputs
  PcuInputs <- PcuPlant
  IoInputs <- IoFrames
  SmokeInputs = {TRUE}
  GasInputs = {TRUE}
  SnapInputs <- SnapFrames
  Lag = 1
  MaxTime = 4
CHECK_DEADLOCK FALSE
INVARIANTS
  PcuEnableOnlyIfSafe
PROPERTIES
  FrozenPcuOffline
  OfflineMeansTimeout
