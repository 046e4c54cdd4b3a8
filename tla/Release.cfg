SPECIFICATION Spec
CONSTANTS
  review = review
  write = write
  gate = gate
  deploy = deploy
  map = map
  reduce = reduce
  Main = Main
  Nodes <- ReleaseNodes
  Deps <- ReleaseDeps
  Ancestors <- ReleaseAncestors
  Rank <- ReleaseRank
  Gates = {gate}
  Local = {reduce}
  Fanned = {map}
  SideEffecting = {write, deploy}
  Consequential = {deploy}
  MaxParallel = 2
  TokenBudget = 3
  Costs = {1, 2}
  MaxInvocations = 3
  MaxCrashes = 1
  MaxIoFailures = 0
INVARIANTS TypeOK AtMostOnce EffectOnRecord GatesApproved PauseIsClean CompletedIsWhole BranchesIsolated NeverStuck
PROPERTIES FinalCheckpointStands EffectsFollowTheLedger CheckpointsTellTheRun
CHECK_DEADLOCK FALSE
