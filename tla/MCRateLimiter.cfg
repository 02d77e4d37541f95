CONSTANTS
  ip = ip
  email = email
  Keys <- TwoKeys
  Rule <- TwoRules
  SweepEvery = 3
  UnitsPerSecond = 2
  MaxTime = 7

SPECIFICATION Spec

INVARIANTS
  TypeOK
  LimitHolds
  KeptAtMostLimit

PROPERTIES
  RetryExact
  ImplementsWindow

