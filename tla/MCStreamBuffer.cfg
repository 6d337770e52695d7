\* Six bytes through a buffer of three; readers ask for none, one or more than there is.
SPECIFICATION Spec
CONSTANTS
  Bytes = {b1, b2}
  NoByte = NoByte
  MaxBuffer = 3
  Chunks <- MCChunks
  Lengths = {0, 1, 3}
  MaxArriving = 6
  MemoryShort = TRUE
INVARIANTS
  TypeOK
  UnreadInBounds
  NothingLostUnlessRefused
CHECK_DEADLOCK FALSE
