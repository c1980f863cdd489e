CONSTANTS
  Putters = {p1, p2}
  Getters = {g1, g2}
  Objects = {a, b}
  NoObject = NoObject
  NoThread = NoThread
  Policy = "wait"
SPECIFICATION FairSpec
INVARIANTS TypeOK MutualExclusion UniqueOwner NoLostWakeup
PROPERTIES ImplementsChannel SomeGetterServed
