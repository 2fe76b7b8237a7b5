SPECIFICATION Spec
CONSTANTS
  Names = {e1, e2}
  Children = {c1, c2, c3}
  NoName = NoName
  Flavored = {e1}
  MaxChild = 1
  FlavorLimit = 1
  MaxTrouble = 2
SYMMETRY Alike
INVARIANTS
  TypeOK
  EventKept
  ChildLimits
  RunnerInv
PROPERTY StopIsClean
