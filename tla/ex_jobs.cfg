SPECIFICATION Spec
CONSTANTS
  Workflows = {w1, w2}
  NoProcess = NoProcess
  Configs <- Deployments
  Commands = {"start", "retryEvidence", "retryPreview", "rerunReview", "cancel", "takeover", "edit"}
  Events = {"crash"}
  MaxCommits = 4
  MaxWaits = 1
  MaxPolls = 2
SYMMETRY WorkflowSymmetry
INVARIANTS
  
  OneExecutorInTree
  NothingStranded
  TakeoverStopsLlm
  RetryTakesNewest
PROPERTIES
  OnlyOperatorsReopen
CHECK_DEADLOCK FALSE
