SPECIFICATION FairSpec
CONSTANTS
  MaxStarts = 3
  MaxFaults = 5
INVARIANTS
  TypeOK
  Informed
  ReaderHasDecoder
  AudioDecoderLives
PROPERTIES
  PullSettles
  CloseReturns
CHECK_DEADLOCK FALSE
