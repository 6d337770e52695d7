\* The event ring: capacities 1, 2, 4 and the clamped 5; two kinds of event.
SPECIFICATION Spec
CONSTANTS
  Events = {e1, e2}
  NoEvent = NoEvent
  MaxPending = 5
  InitialCapacity = 1
INVARIANTS
  TypeOK
  WindowInBounds
  WindowInitialized
PROPERTIES
  GrowsOrRefusesOnlyWhenFull
  ImplementsBoundedQueue
