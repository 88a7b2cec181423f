\* One task, every operation on its runs.
CONSTANTS
  c1 = c1
  c2 = c2
  Callers = {c1, c2}
  MaxTasks = 1
  MaxRuns = 2
  AutoRuns = 0
  ScmProvider = "github"
  Operations = {"createTask", "moveTask", "deleteTask", "startRun", "retryRun",
                "transitionRun", "transitionRunFromLoopState", "markRunFailed",
                "requestRunChanges", "retryEvidence", "retryPreview", "takeOverRun",
                "interrupt"}
  NewTasks <- OnlyPlain
  Edits <- OnlyPlain
  EditColumns = {"DONE"}
  Patches <- RunPatches
SPECIFICATION Spec
SYMMETRY CallerSymmetry
INVARIANTS
  TasksMatchRuns
PROPERTIES
  RunsMoveOn
  LedgerSpec
CHECK_DEADLOCK FALSE
