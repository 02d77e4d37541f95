SPECIFICATION Spec
CONSTANTS
  Fields = {"email"}
  MaxTokens = 2
  MaxRequests = 2
  MaxSessions = 2
  NumMessages = 3
  Arrived = 2
  PageSize = 1
  MaxTime = 5
  MaxMishaps = 1
  MaxClicks = 3
  Slugs = {"a", "b", "c"}
  MaxAccidents = 2
  MaxFiles = 2
  Capacity = 1
  MaxFaults = 1
  MaxSecrets = 3
  MaxUpsets = 2
  MaxRows = 2
  Addresses = {"home", "away"}
  Home = "home"
  MaxTries = 3
  Window = 1
  Day = 2
  IpLimit = 2
  EmailIpLimit = 1
  EmailLimit = 2
  CodeLimit = 1
  DayLimit = 1
  ReauthLimit = 1
  Slots = 2
INVARIANTS
  TypeOK
  TokenNotSpent
  DeliveryTrue
  NotShutOut
  ReadsTrue
  ScreensTrue
CHECK_DEADLOCK FALSE
