\* Two threads, two clients at two addresses, two streams: calls, callbacks and destroys.
\* The application may stop for good, and so may a destroy that waits for a connection.
SPECIFICATION Spec
CONSTANTS
  t1 = t1
  t2 = t2
  m1 = m1
  m2 = m2
  q1 = q1
  q2 = q2
  NoNative = NoNative
  Threads = {t1, t2}
  Addresses = {m1, m2}
  NativeStreams = {q1, q2}
  MaxHandles = 4
SYMMETRY Interchangeable
INVARIANTS
  TypeOK
  ChildrenHaveClient
  NothingUsedAfterItsEnd
  NoCloseUnderLock
  DestroyClosesEverything
  PeerStreamsStayWithClient
ACTION_CONSTRAINT RunsOut
CHECK_DEADLOCK FALSE
