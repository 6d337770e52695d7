\* Pieces that fit the empty buffer: one finds it too full, is dropped and the next one is delivered.
SPECIFICATION Spec
CONSTANTS
  Bytes = {b1, b2}
  NoByte = NoByte
  MaxBuffer = 3
  Chunks <- MCFittingChunks
  Lengths = {0, 1, 3}
  MaxArriving = 6
  MemoryShort = FALSE
INVARIANT
  DeliversPrefix
CHECK_DEADLOCK FALSE
