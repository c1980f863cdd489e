CONSTANTS
  MaxExpiries = 2
  Sources = {host, other}
  NoSource = NoSource
  MaxNotes = 3
  PoolSize = 3
SPECIFICATION Spec
INVARIANTS TypeOK ExitsWithoutThreads NotesKept TrueMeansSync BroadcastsFollowExpiries StopsWithinARound
PROPERTIES ExpiryBroadcast ReportsLogged TeardownRests
CHECK_DEADLOCK FALSE
