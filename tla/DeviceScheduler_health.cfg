SPECIFICATION Spec
CONSTANTS
  gas = gas
  smoke = smoke
  Device <- MCDevice
  Task <- MCTask
  Window <- MCWindow
  Period <- MCPeriod
  TickLatency = 2
  ParserStall = 1
  MaxTime = 9
CHECK_DEADLOCK FALSE
INVARIANTS
  TypeOK
  KeepsPolling
  SilentIsReported
PROPERTY
  PollSpacing
