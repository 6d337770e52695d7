---------------------------- MODULE MCEventQueue ----------------------------
(* The event ring with small capacities: 1, 2, 4, and a limit of 5 that the *)
(* doubling overshoots, so that compaction, growth and the clamp all occur. *)
EXTENDS EventQueue
=============================================================================
