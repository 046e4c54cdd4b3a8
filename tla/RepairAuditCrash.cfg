SPECIFICATION Spec
CONSTANTS
  Enabled = TRUE
  Named = TRUE
  MaxRounds = 2
  Budget = 2
  Costs <- UpToTwo
  MaxResumes = 1
  MaxCrashes = 1
  MaxRefusals = 0
INVARIANTS CompletedIsNumbered
CHECK_DEADLOCK FALSE
