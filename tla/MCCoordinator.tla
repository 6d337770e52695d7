---------------------------- MODULE MCCoordinator ----------------------------
(***************************************************************************)
(* Instances of the coordinator: one session, two or three waiters, and    *)
(* the events that concern the tables they wait in.                        *)
(***************************************************************************)
EXTENDS Coordinator, TLC

CONSTANTS
  c,               \* waits for the connect
  r,               \* waits for a datagram
  a1, a2,          \* wait for a bidirectional stream
  d1, d2,          \* wait for data of s1
  x,               \* the session
  s1, s2           \* streams

MCKeyOf ==
  [w \in Waiters |->
     CASE w = c -> <<"connected", x>>
       [] w = r -> <<"datagram", x>>
       [] w \in {a1, a2} -> <<"bidi", x>>
       [] w \in {d1, d2} -> <<"data", s1>>]

OfClient(t) == [type |-> t]
OfSession(t) == [type |-> t, session |-> x]
OfStream(t) == [type |-> t, stream |-> s1]

\* Peer streams, data and end of a stream, end of the session, a failed poll: for ever.
CoordinatorEvents ==
  [type : {"BIDI_STREAM_OPENED"}, session : {x}, stream : Streams]
  \cup {OfStream(t) : t \in {"STREAM_DATA_RECEIVED", "STREAM_CLOSED"}}
  \cup {OfSession("SESSION_CLOSED"), OfClient("POLL_FAILED")}
=============================================================================
