------------------------------- MODULE Queue -------------------------------
(***************************************************************************)
(* What data/list promises its clients: a queue of addresses without       *)
(* duplicates.  Each operation is one step that leaves its return value in *)
(* answer.                                                                 *)
(***************************************************************************)
EXTENDS ListSpec

CONSTANT Address

VARIABLES queue, answer

Init == queue = <<>> /\ answer = 0

(* list.h:33-34 says that it "finds an element within the list and returns *)
(* the data if found"; list.c:35 returns 1, whatever the data, and so does *)
(* the queue.                                                              *)
Find(a) ==
    /\ answer' = IF list_find(queue, a) THEN 1 ELSE 0
    /\ UNCHANGED queue

Insert(a) ==
    /\ answer' = IF list_find(queue, a) THEN 0 ELSE 1
    /\ queue' = list_insert(queue, a)

Pop ==
    /\ answer' = list_pop(queue)
    /\ queue' = list_rest(queue)

Delete == queue' = <<>> /\ answer' = 1

Next ==
    \/ \E a \in Address : Find(a) \/ Insert(a)
    \/ Pop
    \/ Delete

Spec == Init /\ [][Next]_<<queue, answer>>
=============================================================================
