SPECIFICATION Spec
CONSTANTS
  Jobs = {j1, j2}
  Workers = {w1}
  Handlers = {h1, h2}
  NoJob = NoJob
  Dispatcher = Dispatcher
  Signing = TRUE
  MaxId = 2
  MaxStart = 2
  MaxTrouble = 1
CHECK_DEADLOCK FALSE
SYMMETRY Alike
PROPERTY ImplementsQueue
INVARIANT NotBuiltAgain
