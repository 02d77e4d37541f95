CONSTANTS
  r1 = r1
  r2 = r2
  Requests <- TwoRequests
  None = None
  NumSlugs = 4
  When <- Undated
  MaxSort = 3
  Deletable = {}

SPECIFICATION ReorderSpec

PROPERTIES
  ReorderRewrites
