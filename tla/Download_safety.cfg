SPECIFICATION Spec
CONSTANTS
  u1 = u1
  u2 = u2
  r1 = r1
  r2 = r2
  w1 = w1
  w2 = w2
  Urls = {u1}
  Requests = {r1, r2}
  UrlOf <- SharedUrl
  Workers = {w1, w2}
  FileLen = 3
  HonoursRange = TRUE
  MayFail = TRUE
  MaxPauses = 2
  MaxCrashes = 1
  MaxDeletes = 0
SYMMETRY WorkerSymmetry
INVARIANTS
  TypeOK
  ResumePointSafe
  ReportsBounded
PROPERTIES
  CallbackOnlyWhenComplete
  ImplementsContract
CHECK_DEADLOCK FALSE
