\* Both hosts, which refuse and lose answers, and people who push meanwhile.
CONSTANTS
  Providers = {"github", "gitlab"}
  MaxAttempts = 2
  MaxHeads = 2
  Policies <- EachPolicy
SPECIFICATION MergeFairSpec
INVARIANTS
  AttemptsAreWhole
  LandedNeverRefused
PROPERTIES
  
  CallEnds
CHECK_DEADLOCK FALSE
