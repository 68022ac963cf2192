\* 4282 = 0x10BA emergency stop of PCU 1
CONSTANTS
  CommDelay = 2
  ClearDelay = 1
  EstopDelay = 1
  Loaded = {4282}
  Readings <- MCReadings
  Steps = {1}
  PageSize = 1
  WindowPages = 2
  CurRows = 1
  LoadLimit = 2
  Prior = 0
  MaxRows = 2
  MaxFail = 0
  MaxPress = 0
  MaxRestart = 0
  MaxEvents = 0
SPECIFICATION Spec
INVARIANT Debounced
