\* Two people, an invite for each of two requests at a time.
CONSTANTS
  e1 = e1
  e2 = e2
  NoOne = NoOne
  q1 = q1
  q2 = q2
  Emails = {e1, e2}
  Requests = {q1, q2}
  MaxInvites = 2
  MaxSessions = 3
  MaxTokens = 1
  MaxInputs = 5
SPECIFICATION Spec
SYMMETRY Alike
INVARIANTS
  OwnersStand
  InvitesAreKept
PROPERTIES
  EndedStaysEnded
CHECK_DEADLOCK FALSE
