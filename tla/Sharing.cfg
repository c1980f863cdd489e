CONSTANTS
  Buffers = {a}
  NoBuffer = NoBuffer
  Ids = {1}
  Codes = {req, resp}
  req = req
  resp = resp
  Wire <- OneRequest
  MaxCaptures = 2
  RecvMayFail = FALSE
  Timeout = 1
  MaxSteps = 0
  LeafOf <- TwoRadius
  SYNC_TIMEOUT = SYNC_TIMEOUT
  SHUTDOWN = SHUTDOWN
  InPlace = TRUE
  Asserts = TRUE
  SizeMod = 16
  Undefined = {"value"}
  ShutsDown = TRUE
  Requests = {req}
  SyncBacklog = 1
SPECIFICATION FairSpec
INVARIANTS TypeOK StopsOnlyAsked AllReturned
PROPERTIES PoolRecovers SessionsEnd ShutdownEnds
