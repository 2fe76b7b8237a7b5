SPECIFICATION Spec
CONSTANTS
  Visits = {"monitor", "picker", "bare", "issues", "binaries", "boxes", "roles", "flags", "cells", "tabs"}
  p1 = p1
  p2 = p2
  standard = standard
  bare = bare
  Workers = {"w1", "w2"}
  Host <- MCHost
  Jobs = {"job", "secret"}
  Secret = {"secret"}
  NoBar = "none"
  MaxUpdates = 2
  MaxMonitorChanges = 1
  PickerProjects <- MCProjects
  PickerNames = {standard, bare}
  PickerRepositories <- MCRepositories
  Buildable <- MCBuildable
  NoChoice = NoChoice
  MaxPickerRequests = 2
  MaxItems = 2
  Issues = {a, b, x}
  PatchValid = {a, b}
  Binaries = {b1, b2}
  MaxAdds = 2
  MaxListed = 2
  Subjects = {me, other}
  Self = me
  OtherRoles = {"reviewer"}
  MaxRoleRequests = 2
  MaxRoleFailures = 1
  Types = {"build", "publish"}
  FlagRepositories = {repo}
  Architectures = {arch}
  All = All
  IsPackage = FALSE
  MaxFlagRequests = 2
  MaxFlagFailures = 1
  Order <- MCOrder
  NoTab = NoTab
  Rooms = {0, 1, 2, 3, 4}
  HasLinks = TRUE
CHECK_DEADLOCK FALSE
INVARIANTS
  TablesTypeOK
  MonitorAgrees
  PickerKept
  PatchKept
  RolesAgree
  FlagsAgree
  TabsAgree
PROPERTY TableSteps
