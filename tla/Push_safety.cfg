SPECIFICATION Spec
CONSTANTS
  HasCamera = TRUE
  MaxStarts = 2
  MaxFaults = 1
  MaxFrames = 2
  MaxQueue = 2
INVARIANTS
  EncodersFollow
  AsCommanded
PROPERTIES
  KeyBeforeFresh
CHECK_DEADLOCK FALSE
