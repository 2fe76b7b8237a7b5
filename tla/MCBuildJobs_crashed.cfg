SPECIFICATION Spec
CONSTANTS
  Jobs = {j1}
  Workers = {w1}
  Handlers = {h1}
  NoJob = NoJob
  Dispatcher = Dispatcher
  Signing = TRUE
  MaxId = 1
  MaxStart = 1
  MaxTrouble = 1
CHECK_DEADLOCK FALSE
PROPERTY IdleMeansCrashed
