\* Tasks made to follow another, started by hand and by the board's scans.
CONSTANTS
  c1 = c1
  c2 = c2
  Callers = {c1, c2}
  MaxTasks = 3
  MaxRuns = 5
  AutoRuns = 4
  ScmProvider = "github"
  Operations = {"createTask", "editTask", "startRun", "transitionRun"}
  NewTasks <- OnlyPlain
  Edits <- FollowFirst
  EditColumns = {"DONE"}
  Patches <- FanOutPatches
SPECIFICATION FairSpec
INVARIANTS
  DependencyStateFresh
  UpstreamHeadReviewed
PROPERTIES
  EligibleEventuallyStarted
CHECK_DEADLOCK FALSE
