\* Two receivers and a reader against datagrams, data and the end of the stream.
\* The peer and the application may stop for good.
SPECIFICATION ClientSpec
CONSTANTS
  c = c
  r1 = r1
  r2 = r2
  a1 = a1
  a2 = a2
  d1 = d1
  d2 = d2
  s1 = s1
  s2 = s2
  NoStream = NoStream
  Session = x
  Sessions = {x}
  Waiters = {c, r1, r2, d1}
  Streams = {s1}
  Polled <- MCPolled
  KeyOf <- MCKeyOf
  MaxIncoming = 1
  EventLimit = 2
  MaxDatagrams = 2
  MaxData = 2
  ReadLength = 1
  PeerDirections = {"bidi"}
  Disturbances = {}
SYMMETRY Interchangeable
INVARIANTS
  ClientTypeOK
  NoLostWakeup
  NothingHandedOutTwice
CHECK_DEADLOCK FALSE
