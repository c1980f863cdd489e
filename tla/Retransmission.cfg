CONSTANTS
  Buffers = {a, b}
  NoBuffer = NoBuffer
  Ids = {1}
  Codes = {req, resp}
  req = req
  resp = resp
  Wire <- OneId
  MaxCaptures = 2
  RecvMayFail = FALSE
  Timeout = 2
  MaxSteps = 0
  LeafOf <- OneRadius
  SYNC_TIMEOUT = SYNC_TIMEOUT
  SHUTDOWN = SHUTDOWN
  InPlace = TRUE
  Asserts = TRUE
  SizeMod = 16
  Undefined = {"value"}
  ShutsDown = FALSE
  Requests = {req}
  SyncBacklog = 1
SPECIFICATION Spec
INVARIANTS ReportsResponse
