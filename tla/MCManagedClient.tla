--------------------------- MODULE MCManagedClient ---------------------------
(***************************************************************************)
(* Instances of the managed client: the connect and a few calls of one     *)
(* kind, racing the peer, cancellation, close and dispose.                 *)
(***************************************************************************)
EXTENDS ManagedClient, TLC

CONSTANTS
  c,               \* connects
  r1, r2,          \* receive a datagram
  a1, a2,          \* accept a bidirectional stream
  d1, d2,          \* read s1
  s1, s2           \* streams

MCKeyOf ==
  [w \in Waiters |->
     CASE w = c -> <<"connected", Session>>
       [] w \in {r1, r2} -> <<"datagram", Session>>
       [] w \in {a1, a2} -> <<"bidi", Session>>
       [] w \in {d1, d2} -> <<"data", s1>>]

MCPolled == NativeEvents

Interchangeable == Permutations({r1, r2}) \cup Permutations({a1, a2}) \cup Permutations({d1, d2})
=============================================================================
