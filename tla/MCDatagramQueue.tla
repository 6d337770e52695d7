--------------------------- MODULE MCDatagramQueue ---------------------------
(* Datagrams of length zero, one and two. *)
EXTENDS DatagramQueue

CONSTANTS empty, small, large

MCLengthOf == [p \in Payloads |-> CASE p = empty -> 0 [] p = small -> 1 [] p = large -> 2]
=============================================================================
