\* Every command, on a board a person works on too and that may refuse a call.
CONSTANTS
  q1 = q1
  q2 = q2
  NoOne = NoOne
  Lost = Lost
  Requests = {q1, q2}
  MaxTasks = 1
  Deps <- Chain
  MaxRows = 2
  MaxRuns = 1
  MaxWorkflows = 2
  MaxAttempts = 1
  Commands = {"start", "pause", "resume", "stop"}
  Events = {"startByHand", "exhaust", "expire", "reject"}
SPECIFICATION Spec
SYMMETRY RequestSymmetry
INVARIANTS
  RowsHold
CHECK_DEADLOCK FALSE
