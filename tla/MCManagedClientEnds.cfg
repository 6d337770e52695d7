\* An acceptor and a reader when the session is closed and the client disposed.
\* The peer and the application may stop for good.
SPECIFICATION FairClientSpec
CONSTANTS
  c = c
  r1 = r1
  r2 = r2
  a1 = a1
  a2 = a2
  d1 = d1
  d2 = d2
  s1 = s1
  s2 = s2
  NoStream = NoStream
  Session = x
  Sessions = {x}
  Waiters = {c, a1, d1}
  Streams = {s1}
  Polled <- MCPolled
  KeyOf <- MCKeyOf
  MaxIncoming = 1
  EventLimit = 1
  MaxDatagrams = 0
  MaxData = 0
  ReadLength = 1
  PeerDirections = {"bidi"}
  Disturbances = {"close", "dispose"}
INVARIANTS
  DisposedIsAnnounced
PROPERTIES
  CloseEndsLoops
  DisposeEndsCalls
CHECK_DEADLOCK FALSE
