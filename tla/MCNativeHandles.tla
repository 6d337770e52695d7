-------------------------- MODULE MCNativeHandles ---------------------------
(***************************************************************************)
(* An instance of the native handles: small sets, all interchangeable.     *)
(***************************************************************************)
EXTENDS NativeHandles, TLC

CONSTANTS t1, t2, m1, m2, q1, q2

Interchangeable == Permutations(Threads) \cup Permutations(Addresses) \cup Permutations(NativeStreams)

\* A bound: once a call came in the middle of another, the calls, callbacks and destroys
\* under way run out, but no call begins.
RunsOut == overlapped => \A t \in Threads : Running(t, "idle") => Running(t, "idle")'
=============================================================================
