CONSTANTS
  Buffers = {a, b}
  NoBuffer = NoBuffer
  Ids = {1}
  Codes = {req, resp}
  req = req
  resp = resp
  Wire <- Mixed
  MaxCaptures = 3
  RecvMayFail = TRUE
  Timeout = 1
  MaxSteps = 0
  LeafOf <- RadiusAndTCP
  SYNC_TIMEOUT = SYNC_TIMEOUT
  SHUTDOWN = SHUTDOWN
  InPlace = FALSE
  Asserts = FALSE
  SizeMod = 16
  Undefined = {"value", "crash"}
  ShutsDown = FALSE
  Requests = {req}
  SyncBacklog = 1
SPECIFICATION Spec
SYMMETRY Symmetry
INVARIANTS NoLeak SingleOwner Accounting
PROPERTIES ImplementsService
