CONSTANTS
  Putters = {main, w}
  Getters = {main}
  Objects = {a, b, c}
  NoObject = NoObject
  NoThread = NoThread
  Policy = "spin"
SPECIFICATION FairSpec
PROPERTIES ImplementsChannel SomeGetterServed PutReturns
