SPECIFICATION Spec
CONSTANTS
  Malformed = Malformed
  Absent = Absent
  Requests <- MCRequests
  Drafts <- MCDrafts
  Submissions <- AllSubmissions
  ValidNodeIds <- MCValidNodeIds
  SortRank <- MCSortRank
INVARIANTS TypeOK OrderRespectsDependencies CycleFoundExactly ValidMeansRunnable PlansAccepted CasesRejected
CHECK_DEADLOCK FALSE
