CONSTANTS
  SizeMod = 1048576
  AddrMod = 11
  Wire <- TheWire
  MaxPacket = 352
  Workers = 4
SPECIFICATION Spec
INVARIANTS TypeOK RightLeaf AttributesKept WholeIsConstructible ReadsWhatWasReceived RepliesShareWorker
PROPERTIES DecodingEnds
