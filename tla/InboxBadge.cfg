SPECIFICATION Spec
CONSTANTS
  NumMessages = 3
  Arrived = 2
  PageSize = 2
  MaxTime = 5
  MaxMishaps = 1
  MaxClicks = 3
INVARIANT BadgeFollows
CHECK_DEADLOCK FALSE
