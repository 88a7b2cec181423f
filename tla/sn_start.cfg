\* Starts only, from several clients, with workers that die.
CONSTANTS
  q1 = q1
  q2 = q2
  NoOne = NoOne
  Lost = Lost
  Requests = {q1, q2}
  MaxTasks = 2
  Deps <- Chain
  MaxRows = 2
  MaxRuns = 2
  MaxWorkflows = 2
  MaxAttempts = 1
  Commands = {"start"}
  Events = {"finishByHand", "delete", "crash"}
SPECIFICATION FairSpec
INVARIANTS
  OneController
PROPERTIES
  TurnsSpec
  ControllersFinish
CHECK_DEADLOCK FALSE
