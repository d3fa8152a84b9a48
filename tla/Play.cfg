SPECIFICATION FairSpec
CONSTANTS
  PLY_MAX_CACHE = 4
  Gop = 3
  MaxList = 12
  Skew = 2
INVARIANTS
  TypeOK
  CacheBounded
PROPERTIES
  PlayingGoesOn
  PictureLeaves
  PauseStopsClock
  PictureAfterSound
CHECK_DEADLOCK FALSE
