SPECIFICATION Spec
CONSTANTS
  line = line
  file = file
  old = old
  again = again
  Reviewers = {1, 2}
  Findings <- AllFindings
  Fingerprint <- Prints
  InDiff <- Inlines
  Placed <- Placeds
  Reports <- Answers
  Earlier <- History
  Configs <- Deployments
  MaxRounds = 2
  MaxFaults = 3
INVARIANTS
  RecordsAgree
  OnePerFinding
  DismissedStaysAway
  ReviewIsReported
CHECK_DEADLOCK FALSE
