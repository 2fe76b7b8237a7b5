SPECIFICATION Spec
CONSTANTS
  Jobs = {j1}
  Workers = {w1, w2}
  Handlers = {h1, h2}
  NoJob = NoJob
  Dispatcher = Dispatcher
  Signing = TRUE
  MaxId = 2
  MaxStart = 2
  MaxTrouble = 1
CHECK_DEADLOCK FALSE
SYMMETRY Alike
INVARIANTS
  TypeOK
  NoStaleResult
  UploadIsCurrent
  FinishedHasResult
  IInv
