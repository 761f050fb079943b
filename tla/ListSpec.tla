------------------------------ MODULE ListSpec ------------------------------
(***************************************************************************)
(* data/list: what the queue promises.  A list is the sequence of its      *)
(* addresses from head to tail; an address is in it at most once.          *)
(***************************************************************************)
EXTENDS Sequences, SequencesExt

list_find(list, a) == a \in ToSet(list)

(* Mutant: the head of an empty list is not set. *)
InsertsNoHead(list, a) ==
    IF list = <<>> \/ list_find(list, a) THEN list ELSE Append(list, a)

list_insert(list, a) == IF list_find(list, a) THEN list ELSE Append(list, a)

(* list_pop returns 0 on an empty list, as it does when the head is 0. *)
list_pop(list) == IF list = <<>> THEN 0 ELSE Head(list)

(* Mutant: the head stays. *)
KeepsHead(list) == list

list_rest(list) == IF list = <<>> THEN <<>> ELSE Tail(list)
=============================================================================
