\* An acceptor and a reader against peer streams, the ends of a stream and of a session,
\* a terminal error, cancellation and dispose; the queue of peer streams holds one; under
\* fairness of the pump, dispose and the callbacks of cancellation.
\* Every call may be done for good, so a state may have no successor.
SPECIFICATION FairSpec
CONSTANTS
  c = c
  r = r
  a1 = a1
  a2 = a2
  d1 = d1
  d2 = d2
  x = x
  s1 = s1
  s2 = s2
  NoStream = NoStream
  Waiters = {a1, d1}
  Sessions = {x}
  Streams = {s1, s2}
  Polled <- CoordinatorEvents
  KeyOf <- MCKeyOf
  MaxIncoming = 1
INVARIANTS
  TypeOK
  NoSleeperOnPastEvent
  NoSleeperAfterTerminal
  PendingIsHeld
  ListsAreDisjoint
  StreamHasOneOwner
PROPERTIES
  DisposeReturns
  CancelWakes
CHECK_DEADLOCK FALSE
