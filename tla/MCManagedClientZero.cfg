\* A read returns 0 bytes, and then the stream must be at its end.
SPECIFICATION ClientSpec
CONSTANTS
  c = c
  r1 = r1
  r2 = r2
  a1 = a1
  a2 = a2
  d1 = d1
  d2 = d2
  s1 = s1
  s2 = s2
  NoStream = NoStream
  Session = x
  Sessions = {x}
  Waiters = {c, d1, d2}
  Streams = {s1}
  Polled <- MCPolled
  KeyOf <- MCKeyOf
  MaxIncoming = 1
  EventLimit = 2
  MaxDatagrams = 0
  MaxData = 2
  ReadLength = 1
  PeerDirections = {"bidi"}
  Disturbances = {}
PROPERTIES
  ZeroMeansEnd
CHECK_DEADLOCK FALSE
