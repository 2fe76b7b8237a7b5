SPECIFICATION FairSpec
CONSTANTS
  Names = {e1, e2}
  Children = {c1, c2}
  NoName = NoName
  Flavored = {e2}
  MaxChild = 1
  FlavorLimit = 1
  MaxTrouble = 1
PROPERTY EventsHandled
