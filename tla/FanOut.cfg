SPECIFICATION FairSpec
CONSTANTS
  left = left
  right = right
  Maps <- BothMaps
  Items <- ThreeAndTwo
  Undefined <- ThirdUndefined
  Concurrency <- TwoWorkers
  Limit = 1
INVARIANTS TypeOK NoSlotLost SiblingsTold
PROPERTIES MapsEnd KeepsTheContract
CHECK_DEADLOCK FALSE
