CONSTANTS
  first = first
  second = second
  slot = slot
  ticked = ticked
  mine = mine
  theirs = theirs
  None = None
  Contents <- ThreeContents
  Placeholders <- OneSlot
  Drafts <- FourDrafts
  ToPayload <- SentAs
  Uploads <- TwoUploads
  tab = mine
  MaxImages = 2
  MaxVersion = 3

SPECIFICATION Spec
SYMMETRY Interchangeable

INVARIANTS
  TypeOK
  NoOrphans
  PlaceholderHasNoImage
  TypingSurvives

PROPERTIES
  SaveReplacesSeen
  NoSelfConflict
