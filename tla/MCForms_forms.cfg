SPECIFICATION Spec
CONSTANTS
  Visits = {"editor", "repositories", "lookup", "details", "preferences", "threads", "drafts", "review", "submit", "description"}
  p1 = p1
  p2 = p2
  factory = factory
  develop = develop
  home = home
  r1 = r1
  r2 = r2
  t1 = t1
  t2 = t2
  Texts = {x1, x2}
  TabSizes = {4, 8}
  MaxHistory = 2
  MaxSaves = 2
  KiwiRepositories <- MCKiwi
  Packages = {k1}
  Descriptions = {d1}
  Preferences = {f1}
  Loaded = {r1, d1, f1}
  NoElement = NoElement
  KiwiProjects <- MCProjects
  EmptyOnes = {p2}
  NoRepos = NoRepos
  NoRepo = NoRepo
  MaxKiwiRequests = 1
  Threads <- MCThreads
  Forms <- MCForms
  MaxCommentChanges = 2
  MaxCommentRequests = 2
  ReviewProjects <- MCProjects
  ReviewFilled = ReviewFilled
  ReviewEmpty = ReviewEmpty
  SubmitProjects <- MCSubmit
  Source = home
  Linked = factory
  Devel <- MCDevel
  Requested <- MCRequested
  NoProject = NoProject
  MaxSubmitRequests = 2
CHECK_DEADLOCK FALSE
INVARIANTS
  FormsTypeOK
  EditorKept
  KiwiConfirmed
  CommentsCurrent
  ReviewFits
  ShownForTarget
PROPERTY FormSteps
