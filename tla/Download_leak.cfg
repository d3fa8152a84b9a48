SPECIFICATION FairSpec
CONSTANTS
  u1 = u1
  u2 = u2
  r1 = r1
  r2 = r2
  w1 = w1
  w2 = w2
  Urls = {u1}
  Requests = {r1, r2}
  UrlOf <- SharedUrl
  Workers = {w1, w2}
  FileLen = 2
  HonoursRange = TRUE
  MayFail = FALSE
  MaxPauses = 0
  MaxCrashes = 0
  MaxDeletes = 0
PROPERTIES
  PendingDrained
CHECK_DEADLOCK FALSE
