SPECIFICATION Spec
CONSTANTS
  left = left
  right = right
  Maps <- BothMaps
  Items <- ThreeAndOne
  Undefined <- NoneUndefined
  Concurrency <- TwoWorkers
  Limit = 2
INVARIANTS UsageTruthful
CHECK_DEADLOCK FALSE
