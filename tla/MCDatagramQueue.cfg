\* Five datagrams through a queue of three of them or four bytes, whichever is reached first.
SPECIFICATION Spec
CONSTANTS
  empty = empty
  small = small
  large = large
  Payloads = {empty, small, large}
  LengthOf <- MCLengthOf
  Null = Null
  MaxCount = 3
  MaxBytes = 4
  BufferLengths = {0, 1, 2}
  MaxArriving = 5
INVARIANTS
  TypeOK
  ListIsWhole
  LimitsHold
  FirstInFirstOut
CHECK_DEADLOCK FALSE
