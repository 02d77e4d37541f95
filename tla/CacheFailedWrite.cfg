CONSTANTS
  en = en
  g1 = g1
  g2 = g2
  w1 = w1
  Locales <- OneLocale
  Gets <- TwoGets
  Writers <- OneWriter
  NumTables = 2
  TTL = 1
  MaxTime = 2
  MaxCommits = 1
  MaxGeneration = 2

SPECIFICATION Spec

PROPERTIES
  FailedWriteClearsToo
