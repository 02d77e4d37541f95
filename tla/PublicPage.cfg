SPECIFICATION Spec
CONSTANTS
  MaxChannels = 2
  LastSection = 2
  MaxShooters = 2
  Boxes = 2
  LastRegion = 2
INVARIANTS
  TypeOK
  LoopFollows
  PictureTrue
  NothingHidden
  PlaceKept
  ScrollFree
PROPERTIES
  Seen
