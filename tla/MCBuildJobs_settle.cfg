SPECIFICATION FairSpec
CONSTANTS
  Jobs = {j1}
  Workers = {w1}
  Handlers = {h1, h2}
  NoJob = NoJob
  Dispatcher = Dispatcher
  Signing = TRUE
  MaxId = 1
  MaxStart = 5
  MaxTrouble = 1
CHECK_DEADLOCK FALSE
PROPERTIES
  JobsSettle
  WorkersReturn
