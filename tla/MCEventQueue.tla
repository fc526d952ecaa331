---------------------------- MODULE MCEventQueue ----------------------------
(***************************************************************************)
(* Instance of EventQueue for TLC: a ring of four slots, two               *)
(* distinguishable events, and more sends than the ring has slots, so that *)
(* the indices wrap and the producer can get a lap ahead.  No symmetry:    *)
(* the run also checks liveness.                                           *)
(***************************************************************************)
EXTENDS EventQueue
=============================================================================
