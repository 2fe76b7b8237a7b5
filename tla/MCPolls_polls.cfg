SPECIFICATION FairSpec
CONSTANTS
  Visits = {"log", "chains", "panels", "notes", "updates", "filters"}
  Slots = {r1, r2}
  NoSlot = NoSlot
  MaxSize = 3
  MaxChunk = 1
  MaxStarts = 1
  MaxTrouble = 1
  Choices = {c1, c2}
  MaxPanelRequests = 2
  MaxChanges = 2
  MaxVersion = 1
  MaxPanelFailures = 1
  Boxes = {b1}
  Told = {b1}
  Dates = {d1}
  Texts = {t1}
  None = None
  NoteIds = {n1, n2}
  MaxNoteRequests = 2
  MaxNoteFailures = 1
CHECK_DEADLOCK FALSE
INVARIANTS
  TypesOK
  NothingSkipped
  ShownInOrder
  EndIsFinal
  RunningPolls
  PanelShows
  NotesCurrent
PROPERTIES
  Reported
  CatchesUp
  ChangesCome
