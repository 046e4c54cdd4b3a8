SPECIFICATION Spec
CONSTANTS
  review = review
  write = write
  gate = gate
  deploy = deploy
  map = map
  reduce = reduce
  Main = Main
  Nodes <- SmallNodes
  Deps <- SmallDeps
  Ancestors <- SmallAncestors
  Rank <- SmallRank
  Gates = {gate}
  Local = {}
  Fanned = {}
  SideEffecting = {write, deploy}
  Consequential = {deploy}
  MaxParallel = 2
  TokenBudget = 3
  Costs = {1}
  MaxInvocations = 2
  MaxCrashes = 1
  MaxIoFailures = 0
PROPERTIES NoOverlap
CHECK_DEADLOCK FALSE
