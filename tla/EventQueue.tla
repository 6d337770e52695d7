----------------------------- MODULE EventQueue -----------------------------
(***************************************************************************)
(* The pending-event queue of one native client (webtransport_native.c):   *)
(* a growable array used as a sliding window [offset, offset + count).     *)
(* MsQuic worker threads push, the managed pump polls, wt_client_shutdown  *)
(* and wt_release close it; every operation is one critical section of the *)
(* process-wide lock, so each is one action here.                          *)
(***************************************************************************)
EXTENDS Naturals, Sequences

CONSTANTS
  Events,           \* what is queued; the code never looks inside
  NoEvent,          \* no event: a reply without one, a cell never written
  MaxPending,       \* WT_MAX_PENDING_EVENTS (4096)
  InitialCapacity   \* the first allocation (32)

\* The first allocation and the doublings after it stay below the limit.
ASSUME CapacityAssumption ==
  /\ MaxPending \in Nat
  /\ InitialCapacity \in Nat \ {0}
  /\ InitialCapacity <= MaxPending

ASSUME NoEventAssumption == NoEvent \notin Events

VARIABLES
  slots,      \* pending_events: slot number |-> content, [0, capacity)
  offset,     \* pending_event_offset: slot of the oldest event
  count,      \* pending_event_count
  capacity,   \* pending_event_capacity
  phase,      \* "open"; "closing" = closing is set; "released" = handle gone, array freed
  reply       \* what the last call returned

vars == <<slots, offset, count, capacity, phase, reply>>

Reply(status, event) == [status |-> status, event |-> event]

\* What a cell holds before its first event: uninitialized memory from realloc.
Garbage == NoEvent

wt_client_create ==
  /\ slots = [i \in {} |-> Garbage]
  /\ offset = 0
  /\ count = 0
  /\ capacity = 0
  /\ phase = "open"
  /\ reply = Reply("OK", NoEvent)

Init == wt_client_create

(* An operator named after a definition, with a suffix, is that definition  *)
(* with a plausible bug: the invariants and the refinement must notice it.  *)

\* Never slides the window back.
MustCompact_Never == FALSE

\* The window has slid to the end of the array and there is room in front of it.
MustCompact == offset # 0 /\ offset + count = capacity

\* Resets the offset and forgets the memmove.
CompactedSlots_NotMoved == slots

\* memmove of the window to the front; what lies behind it keeps its old content.
CompactedSlots ==
  [i \in 0 .. capacity - 1 |-> IF i < count THEN slots[offset + i] ELSE slots[i]]

\* Doubles past the limit.
NextCapacity_Unclamped == IF capacity = 0 THEN InitialCapacity ELSE capacity * 2

NextCapacity ==
  LET doubled == IF capacity = 0 THEN InitialCapacity ELSE capacity * 2
  IN  IF doubled > MaxPending THEN MaxPending ELSE doubled

\* Allocates one cell less than the capacity it records.
GrownSlots_OneShort(cells, n) ==
  [i \in 0 .. n - 2 |-> IF i < capacity THEN cells[i] ELSE Garbage]

\* A fresh allocation without a copy.
GrownSlots_NotCopied(cells, n) == [i \in 0 .. n - 1 |-> Garbage]

\* realloc keeps the old cells and leaves the new ones uninitialized.
GrownSlots(cells, n) ==
  [i \in 0 .. n - 1 |-> IF i < capacity THEN cells[i] ELSE Garbage]

Refused(status) ==
  /\ reply' = Reply(status, NoEvent)
  /\ UNCHANGED <<slots, offset, count, capacity, phase>>

\* wt_push_event past its early returns.  Compaction comes first and makes room
\* whenever the window did not start at slot 0, so only a window that fills the
\* whole array asks realloc for more, and realloc may fail.
Store(e) ==
  LET start == IF MustCompact THEN 0 ELSE offset
      cells == IF MustCompact THEN CompactedSlots ELSE slots
  IN  /\ offset' = start
      /\ UNCHANGED phase
      /\ \/ /\ start + count # capacity
            /\ slots' = [cells EXCEPT ![start + count] = e]
            /\ UNCHANGED capacity
            /\ count' = count + 1
            /\ reply' = Reply("OK", NoEvent)
         \/ /\ start + count = capacity
            /\ capacity' = NextCapacity
            /\ slots' = [GrownSlots(cells, NextCapacity) EXCEPT ![start + count] = e]
            /\ count' = count + 1
            /\ reply' = Reply("OK", NoEvent)
         \/ /\ start + count = capacity
            /\ slots' = cells
            /\ UNCHANGED <<capacity, count>>
            /\ reply' = Reply("OUT_OF_MEMORY", NoEvent)

wt_push_event(e) ==
  \/ phase = "released" /\ Refused("INVALID_ARGUMENT")
  \/ phase = "closing" /\ Refused("CANCELLED")
  \/ phase = "open" /\ count >= MaxPending /\ Refused("OUT_OF_MEMORY")
  \/ phase = "open" /\ count < MaxPending /\ Store(e)

wt_poll_event ==
  \/ phase = "released" /\ Refused("INVALID_ARGUMENT")
  \/ phase # "released" /\ count = 0 /\ Refused("NOT_FOUND")
  \/ /\ phase # "released"
     /\ count # 0
     /\ reply' = Reply("OK", slots[offset])
     /\ count' = count - 1
     /\ offset' = IF count' = 0 THEN 0 ELSE offset + 1
     /\ UNCHANGED <<slots, capacity, phase>>

\* The part of wt_client_shutdown under the lock.
wt_client_shutdown ==
  /\ phase # "released"
  /\ phase' = "closing"
  /\ reply' = Reply("OK", NoEvent)
  /\ UNCHANGED <<slots, offset, count, capacity>>

\* wt_release of the client handle: unlinked, then pending_events is freed.
wt_release ==
  /\ phase # "released"
  /\ phase' = "released"
  /\ slots' = [i \in {} |-> Garbage]
  /\ offset' = 0
  /\ count' = 0
  /\ capacity' = 0
  /\ reply' = Reply("OK", NoEvent)

Next ==
  \/ \E e \in Events : wt_push_event(e)
  \/ wt_poll_event
  \/ wt_client_shutdown
  \/ wt_release

Spec == Init /\ [][Next]_vars

-----------------------------------------------------------------------------
\* Types; the array has exactly the cells its recorded capacity says.
TypeOK ==
  /\ offset \in Nat
  /\ count \in Nat
  /\ capacity \in Nat
  /\ slots \in [0 .. capacity - 1 -> Events \cup {Garbage}]
  /\ phase \in {"open", "closing", "released"}
  /\ reply \in [status : {"OK", "NOT_FOUND", "CANCELLED", "OUT_OF_MEMORY", "INVALID_ARGUMENT"},
                event : Events \cup {NoEvent}]

\* The window stays inside the array and the array inside the limit: the index
\* wt_push_event writes at and the one wt_poll_event reads at are always allocated.
WindowInBounds ==
  /\ offset + count <= capacity
  /\ capacity <= MaxPending

\* Whatever was compacted, grown, freed or refused, the window holds accepted
\* events only, never the uninitialized memory realloc returned.
WindowInitialized == \A i \in 0 .. count - 1 : slots[offset + i] \in Events

\* The array grows, and a push fails for want of room or memory, only when
\* every cell holds an undelivered event: what the queue costs and what it
\* refuses depend on the pump's backlog, never on the traffic that went through.
GrowsOrRefusesOnlyWhenFull ==
  [][(capacity' > capacity \/ reply'.status = "OUT_OF_MEMORY") => count = capacity]_vars

\* The events the window holds, oldest first.
Pending == [i \in 1 .. count |-> slots[offset + i - 1]]

Abstract == INSTANCE BoundedQueue WITH queue <- Pending

\* The ring implements the bounded FIFO queue: whatever is compacted, grown or
\* refused, every accepted event is delivered once and in order, and a failed push
\* leaves the backlog as it was (webtransport_native.c:189-232, 694-720).
ImplementsBoundedQueue == Abstract!Spec
=============================================================================
