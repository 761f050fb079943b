---------------------------- MODULE MCHashTable -----------------------------
(* A thread that inserts and one that looks up, and three addresses of     *)
(* which two start pages of 256 bytes: their low byte, the first in        *)
(* memory, is 0, so that the string they are hashed as is empty and both   *)
(* are in slot 0.                                                          *)
EXTENDS HashTable, JenkinsHash, TLC

CONSTANTS k1, k2, k3

Bytes == k1 :> <<0, 64>> @@ k2 :> <<0, 65>> @@ k3 :> <<161, 64>>

SlotOf == k1 :> 0 @@ k2 :> 0 @@ k3 :> 1

ASSUME \A k \in Key : SlotOf[k] = JenkinsHash(Bytes[k], Slots)
=============================================================================
