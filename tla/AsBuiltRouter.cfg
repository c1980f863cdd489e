CONSTANTS
  Buffers = {a, b}
  NoBuffer = NoBuffer
  Ids = {1}
  Codes = {req, resp}
  req = req
  resp = resp
  Wire <- OneId
  MaxCaptures = 3
  RecvMayFail = FALSE
  Timeout = 1
  MaxSteps = 0
  LeafOf <- AllLeaves
  SYNC_TIMEOUT = SYNC_TIMEOUT
  SHUTDOWN = SHUTDOWN
  InPlace = TRUE
  Asserts = TRUE
  SizeMod = 16
  Undefined = {"crash"}
  ShutsDown = FALSE
  Requests = {req}
  SyncBacklog = 1
SPECIFICATION Spec
INVARIANTS FramesAreRouted
