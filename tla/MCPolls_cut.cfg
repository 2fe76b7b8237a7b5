SPECIFICATION Spec
CONSTANTS
  Visits = {"log"}
  Slots = {r1}
  NoSlot = NoSlot
  MaxSize = 2
  MaxChunk = 2
  MaxStarts = 0
  MaxTrouble = 0
  Choices = {c1}
  MaxPanelRequests = 1
  MaxChanges = 0
  MaxVersion = 0
  MaxPanelFailures = 0
  Boxes = {}
  Told = {}
  Dates = {}
  Texts = {}
  None = None
  NoteIds = {}
  MaxNoteRequests = 0
  MaxNoteFailures = 0
CHECK_DEADLOCK FALSE
INVARIANT CutLogResets
