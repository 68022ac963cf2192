SPECIFICATION FairSpec
CONSTANTS
  ReconnectMin = 1
  ReconnectMax = 2
  MaxQueue = 2
  FrameMod = 4
CHECK_DEADLOCK FALSE
INVARIANTS
  TypeOK
  InOrder
PROPERTIES
  WakeupServes
  Reconnects
  StopReturns
