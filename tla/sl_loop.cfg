SPECIFICATION Spec
CONSTANTS
  c1 = c1
  c2 = c2
  Channels = {c1, c2}
  q1 = q1
  q2 = q2
  Requests = {q1, q2}
  NoThread = NoThread
  MaxRuns = 3
  MaxInputs = 5
SYMMETRY Alike
INVARIANTS
  RerunsMatchDecisions
  
  DecisionsAreDue
CHECK_DEADLOCK FALSE
