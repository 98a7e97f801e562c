\* Jars of 216 bytes: blocks of two sizes, two per set, callbacks that drop.
SPECIFICATION FairSpec
CONSTANTS
  Size = 27
  HeadSize = 4
  DataSize = 4
  HeadCount = 1
  SerialSize = 16
  Contexts = {c1, c2}
  Lens = {1, 5}
  Drops = TRUE
  MaxSerial = 6
CHECK_DEADLOCK FALSE
INVARIANTS ListsOrdered HeldDataIntact NoStalePointer
PROPERTY PackReturns
