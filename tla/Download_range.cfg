SPECIFICATION Spec
CONSTANTS
  u1 = u1
  u2 = u2
  r1 = r1
  r2 = r2
  w1 = w1
  w2 = w2
  Urls = {u1}
  Requests = {r1, r2}
  UrlOf <- SharedUrl
  Workers = {w1, w2}
  FileLen = 3
  HonoursRange = FALSE
  MayFail = FALSE
  MaxPauses = 1
  MaxCrashes = 0
  MaxDeletes = 0
PROPERTIES
  CallbackOnlyWhenComplete
CHECK_DEADLOCK FALSE
