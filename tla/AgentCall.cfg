SPECIFICATION FairSpec
CONSTANTS
  first = first
  second = second
  Calls <- TwoCalls
  Platforms <- BothPlatforms
INVARIANTS TypeOK
PROPERTIES StartsAuthorized CallsAreGuarded TreesReaped
CHECK_DEADLOCK FALSE
