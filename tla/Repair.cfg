SPECIFICATION FairSpec
CONSTANTS
  Enabled = TRUE
  Named = TRUE
  MaxRounds = 2
  Budget = 2
  Costs <- UpToTwo
  MaxResumes = 2
  MaxCrashes = 1
  MaxRefusals = 1
INVARIANTS TypeOK RepairsCapped RepairsOnRecord VerdictsGenuine AuditVerifies
PROPERTIES NoRepairOverBudget UsageKept InvocationEnds
CHECK_DEADLOCK FALSE
