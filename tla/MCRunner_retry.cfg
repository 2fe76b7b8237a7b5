SPECIFICATION FairSpec
CONSTANTS
  Names = {e1}
  Children = {c1, c2}
  NoName = NoName
  Flavored = {}
  MaxChild = 1
  FlavorLimit = 1
  MaxTrouble = 1
PROPERTY FailedIsRetried
