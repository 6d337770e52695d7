\* A connect and an acceptor against a peer stream and everything that gets in their way.
\* The peer and the application may stop for good.
SPECIFICATION ClientSpec
CONSTANTS
  c = c
  r1 = r1
  r2 = r2
  a1 = a1
  a2 = a2
  d1 = d1
  d2 = d2
  s1 = s1
  s2 = s2
  NoStream = NoStream
  Session = x
  Sessions = {x}
  Waiters = {c, a1}
  Streams = {s1}
  Polled <- MCPolled
  KeyOf <- MCKeyOf
  MaxIncoming = 1
  EventLimit = 2
  MaxDatagrams = 0
  MaxData = 0
  ReadLength = 1
  PeerDirections = {"bidi"}
  Disturbances = {"rejection", "timeout", "cancellation", "disconnect", "dispose"}
INVARIANTS
  ConnectOutcome
PROPERTIES
  ImplementsCoordinator
CHECK_DEADLOCK FALSE
