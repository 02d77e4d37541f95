CONSTANTS
  r1 = r1
  r2 = r2
  Requests <- TwoRequests
  None = None
  NumSlugs = 3
  When <- Timeline
  MaxSort = 2
  Deletable <- MiddleRow

SPECIFICATION FairSpec

INVARIANTS
  TypeOK

PROPERTIES
  ReorderExact
  CreatePlaces
  RequestsEnd
