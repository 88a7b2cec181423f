SPECIFICATION Spec
CONSTANTS
  p1 = p1
  p2 = p2
  r1 = r1
  r2 = r2
  NoRepo = NoRepo
  Paths = {p1, p2}
  RepoIds = {r1, r2}
  IdOf <- MCIdOf
  Sockets = {1, 2}
  s1 = s1
  s2 = s2
  Syncs = {s1, s2}
  MaxTasks = 2
  MaxInputs = 4
SYMMETRY Alike
INVARIANTS
  IndexIsSound
  NothingIsMissed
  SessionsShow
CHECK_DEADLOCK FALSE
