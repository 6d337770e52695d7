---------------------------- MODULE BoundedQueue ----------------------------
(***************************************************************************)
(* What the pending-event queue of one native client promises its users,   *)
(* independent of how the ring array is laid out: a bounded first-in       *)
(* first-out queue that refuses an element only when it is full, when      *)
(* memory is short or when the client is closing, and that hands out every *)
(* accepted element once, in order, until the client is released.          *)
(***************************************************************************)
EXTENDS Naturals, Sequences

CONSTANTS
  Events,       \* the payloads that are queued
  NoEvent,      \* the event field of a reply that carries none
  MaxPending    \* WT_MAX_PENDING_EVENTS, the limit on queued elements

VARIABLES
  queue,        \* the accepted and not yet delivered events, oldest first
  phase,        \* "open", then "closing" (no more pushes), then "released"
  reply         \* what the last call returned: its status and, for a poll, the event

qvars == <<queue, phase, reply>>

Statuses == {"OK", "NOT_FOUND", "CANCELLED", "OUT_OF_MEMORY", "INVALID_ARGUMENT"}
Reply(status, event) == [status |-> status, event |-> event]

Init ==
  /\ queue = <<>>
  /\ phase = "open"
  /\ reply = Reply("OK", NoEvent)

Accept(e) ==
  /\ phase = "open"
  /\ Len(queue) < MaxPending
  /\ queue' = Append(queue, e)
  /\ reply' = Reply("OK", NoEvent)
  /\ UNCHANGED phase

\* A push is refused for a reason: the status tells which.  Short memory can
\* only be the reason when the queue has to grow, which the abstraction leaves open.
Refuse(status) ==
  /\ \/ status = "INVALID_ARGUMENT" /\ phase = "released"
     \/ status = "CANCELLED" /\ phase = "closing"
     \/ status = "OUT_OF_MEMORY" /\ phase = "open"
  /\ reply' = Reply(status, NoEvent)
  /\ UNCHANGED <<queue, phase>>

Deliver ==
  /\ phase # "released"
  /\ queue # <<>>
  /\ reply' = Reply("OK", Head(queue))
  /\ queue' = Tail(queue)
  /\ UNCHANGED phase

DeliverNothing ==
  /\ \/ phase # "released" /\ queue = <<>> /\ reply' = Reply("NOT_FOUND", NoEvent)
     \/ phase = "released" /\ reply' = Reply("INVALID_ARGUMENT", NoEvent)
  /\ UNCHANGED <<queue, phase>>

Close ==
  /\ phase # "released"
  /\ phase' = "closing"
  /\ reply' = Reply("OK", NoEvent)
  /\ UNCHANGED queue

Release ==
  /\ phase # "released"
  /\ phase' = "released"
  /\ queue' = <<>>
  /\ reply' = Reply("OK", NoEvent)

Next ==
  \/ \E e \in Events : Accept(e)
  \/ \E s \in Statuses : Refuse(s)
  \/ Deliver
  \/ DeliverNothing
  \/ Close
  \/ Release

Spec == Init /\ [][Next]_qvars
=============================================================================
