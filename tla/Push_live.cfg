SPECIFICATION FairSpec
CONSTANTS
  HasCamera = TRUE
  MaxStarts = 1
  MaxFaults = 5
  MaxFrames = 1
  MaxQueue = 1
INVARIANTS
  TypeOK
  NoCircle
PROPERTIES
  StopProgress
  StopReturns
  ReconnectSettles
CHECK_DEADLOCK FALSE
