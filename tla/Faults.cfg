\* 4180 = 0x1054 UPS EPO, 4283 = 0x10BB emergency stop of PCU 2, 8194 = 0x2002 cell overvoltage of BMS 1
CONSTANTS
  CommDelay = 2
  ClearDelay = 1
  EstopDelay = 1
  Loaded = {4180, 4283, 8194}
  Readings <- MCReadings
  Steps = {1}
  PageSize = 1
  WindowPages = 2
  CurRows = 1
  LoadLimit = 2
  Prior = 3
  MaxRows = 5
  MaxFail = 1
  MaxPress = 2
  MaxRestart = 1
  MaxEvents = 2
SPECIFICATION Spec
INVARIANTS TypeOK LogIsTruthful Debounced PagesCatchUp
