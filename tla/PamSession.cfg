CONSTANTS
  Rulesets <- UpToOne
  MinDirections = 2
  Polls = 2
  MaxRetries = 2
SPECIFICATION LoginSpec
CHECK_DEADLOCK FALSE
INVARIANT NeverAborts
