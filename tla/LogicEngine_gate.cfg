SPECIFICATION Spec
CONSTANTS
  InstanceTimeout = 2
  GroupTimeout <- MCGroupTimeout
  MaxPower = 10
  CmdPeriod = 1
  LifeMod = 1
  PcuRxTimeout = 1
  PcuHbStale = 2
  PcuPeriod = 1
  BmsTx = TRUE
  Instance = {1}
  Pcu = {0}
  PcuBatt = {1}
  PcuTx = {0}
  BmsInputs <- GateInputs
  PcuInputs <- NoInputs
  IoInputs <- NoInputs
  SmokeInputs = {}
  GasInputs = {}
  SnapInputs <- NoInputs
  Lag = 0
  MaxTime = 4
CHECK_DEADLOCK FALSE
INVARIANTS
  TypeOK
  PowerOnOnlyIfSafe
  PcuEnableOnlyIfSafe
  GatesAgree
  PowerReportFresh
