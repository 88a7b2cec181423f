SPECIFICATION Spec
CONSTANTS
  h1 = h1
  h2 = h2
  Handlers = {h1, h2}
  Sayings <- Texts
  BoardRuns <- Boards
  NoReview = 0
  Reviews = {7}
  MaxMessages = 4
  MaxOverlaps = 1
  MaxTroubles = 1
SYMMETRY Alike
INVARIANTS
  
  BoundToNewestRun
PROPERTIES
  AnsweredStaysAnswered
CHECK_DEADLOCK FALSE
