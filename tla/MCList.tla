------------------------------- MODULE MCList -------------------------------
(* Lists of up to three nodes and three addresses; the address 0 is what   *)
(* list_pop also gives for an empty list.                                  *)
EXTENDS List
=============================================================================
