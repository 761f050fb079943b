--------------------------- MODULE MCTrapThreads ----------------------------
(* Two threads; two sites that may be planted twice each. *)
EXTENDS TrapThreads
=============================================================================
