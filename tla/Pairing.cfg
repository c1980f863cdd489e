CONSTANTS
  Buffers = {a, b, c}
  NoBuffer = NoBuffer
  Ids = {1, 2}
  Codes = {req, resp}
  req = req
  resp = resp
  Wire <- TwoIds
  MaxCaptures = 4
  RecvMayFail = FALSE
  Timeout = 2
  MaxSteps = 1
  LeafOf <- OneRadius
  SYNC_TIMEOUT = SYNC_TIMEOUT
  SHUTDOWN = SHUTDOWN
  InPlace = TRUE
  Asserts = TRUE
  SizeMod = 16
  Undefined = {"value"}
  ShutsDown = FALSE
  Requests = {req}
  SyncBacklog = 1
SPECIFICATION Spec
SYMMETRY Symmetry
INVARIANTS SessionIntact Accounting ConversationsDisjoint
PROPERTIES NoEarlyExpiry
