SPECIFICATION FairSpec
CONSTANTS
  u1 = u1
  u2 = u2
  r1 = r1
  r2 = r2
  w1 = w1
  w2 = w2
  Urls = {u1, u2}
  Requests = {r1, r2}
  UrlOf <- DistinctUrls
  Workers = {w1}
  FileLen = 2
  HonoursRange = TRUE
  MayFail = FALSE
  MaxPauses = 1
  MaxCrashes = 0
  MaxDeletes = 1
INVARIANTS
  MainThreadFree
  NothingLost
PROPERTIES
  PendingDrained
  RequestReported
  FinishedUnlisted
CHECK_DEADLOCK FALSE
