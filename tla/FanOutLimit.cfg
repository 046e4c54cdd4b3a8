SPECIFICATION Spec
CONSTANTS
  left = left
  right = right
  Maps <- BothMaps
  Items <- ThreeAndTwo
  Undefined <- NoneUndefined
  Concurrency <- TwoWorkers
  Limit = 2
INVARIANTS LimitKept
CHECK_DEADLOCK FALSE
