-------------------------------- MODULE List --------------------------------
(***************************************************************************)
(* data/list/list.c: the doubly linked list behind the queues of the       *)
(* analyzer, with its nodes in memory that malloc hands out again after    *)
(* free.  A client calls the operations one after the other, in any order, *)
(* and none between list_delete and the next list_new.                     *)
(***************************************************************************)
EXTENDS Integers, Sequences

CONSTANTS
    Cell,       \* the blocks of memory that malloc may return
    NULL,       \* the null pointer
    Address     \* the addresses that are put into the list

ASSUME ListAssumption == NULL \notin Cell /\ Address \subseteq Nat

VARIABLES
    node,       \* what the blocks contain, also after free
    allocated,  \* the blocks that are in use
    head, tail, \* list_t
    next,       \* the node that list_find looks at
    pc,         \* the call that is running
    address,    \* its argument
    answer,     \* what the last call returned
    cells       \* history: the nodes of the list in the order of insertion

heapVars == <<node, allocated>>
listVars == <<head, tail, cells>>
vars == <<node, allocated, head, tail, next, pc, address, answer, cells>>

Pointer == Cell \cup {NULL}
Node == [address : Address, next : Pointer, prev : Pointer]

Init ==
    /\ node \in [Cell -> {n \in Node : n.next = NULL /\ n.prev = NULL}]
    /\ \A c, d \in Cell : node[c] = node[d]
    /\ allocated = {} /\ cells = <<>>
    /\ head = NULL /\ tail = NULL /\ next = NULL
    /\ pc = "idle" /\ address \in Address /\ answer = 0

---------------------------------------------------------------------------
(* list_find, which list_insert calls first.                               *)

CallFind(a) ==
    /\ pc = "idle"
    /\ pc' \in {"find", "insert"}
    /\ address' = a
    /\ next' = head
    /\ UNCHANGED <<heapVars, listVars, answer>>

Advance ==
    /\ pc \in {"find", "insert"}
    /\ next # NULL
    /\ node[next].address # address
    /\ next' = node[next].next
    /\ UNCHANGED <<heapVars, listVars, pc, address, answer>>

(* list_find returns 1, and list_insert 0. *)
Found ==
    /\ pc \in {"find", "insert"}
    /\ next # NULL
    /\ node[next].address = address
    /\ answer' = IF pc = "find" THEN 1 ELSE 0
    /\ pc' = "idle"
    /\ UNCHANGED <<heapVars, listVars, next, address>>

NotFound ==
    /\ pc = "find"
    /\ next = NULL
    /\ answer' = 0
    /\ pc' = "idle"
    /\ UNCHANGED <<heapVars, listVars, next, address>>

---------------------------------------------------------------------------

LoopsBack(c, p, a) == [address |-> a, next |-> c, prev |-> p]   \* mutant
NewNode(c, p, a) == [address |-> a, next |-> NULL, prev |-> p]

KeepsTail(c) == IF tail = NULL THEN c ELSE tail                 \* mutant
NewTail(c) == c

InsertNode(c) ==
    /\ pc = "insert"
    /\ next = NULL
    /\ c \notin allocated
    /\ allocated' = allocated \cup {c}
    /\ node' = [d \in Cell |->
                   IF d = c THEN NewNode(c, tail, address)
                   ELSE IF d = tail THEN [node[d] EXCEPT !.next = c]
                   ELSE node[d]]
    /\ head' = IF head = NULL THEN c ELSE head
    /\ tail' = NewTail(c)
    /\ cells' = Append(cells, c)
    /\ answer' = 1
    /\ pc' = "idle"
    /\ UNCHANGED <<next, address>>

(* malloc returns NULL: the process exits. *)
MallocFails ==
    /\ pc = "insert"
    /\ next = NULL
    /\ pc' = "exited"
    /\ UNCHANGED <<heapVars, listVars, next, address, answer>>

---------------------------------------------------------------------------

PopEmpty ==
    /\ pc = "idle"
    /\ head = NULL
    /\ answer' = 0
    /\ UNCHANGED <<heapVars, listVars, next, pc, address>>

KeepsPrev(c) == node                                            \* mutant
WithoutPrev(c) == [node EXCEPT ![c].prev = NULL]

PopsCell(c) == c                                                \* mutant
Popped(c) == node[c].address

PopNode ==
    /\ pc = "idle"
    /\ head # NULL
    /\ answer' = Popped(head)
    /\ \/ /\ head = tail
          /\ head' = NULL /\ tail' = NULL
          /\ node' = node
       \/ /\ head # tail
          /\ head' = node[head].next /\ tail' = tail
          /\ node' = WithoutPrev(node[head].next)
    /\ allocated' = allocated \ {head}
    /\ cells' = Tail(cells)
    /\ UNCHANGED <<next, pc, address>>

---------------------------------------------------------------------------
(* list_delete frees the nodes from the tail on, and then the list itself. *)

CallDelete ==
    /\ pc = "idle"
    /\ pc' = "delete"
    /\ UNCHANGED <<heapVars, listVars, next, address, answer>>

StopsAtHead == tail # head                                      \* mutant
MoreToDelete == tail # NULL

DeleteNode ==
    /\ pc = "delete"
    /\ MoreToDelete
    /\ tail' = node[tail].prev
    /\ allocated' = allocated \ {tail}
    /\ UNCHANGED <<node, head, cells, next, pc, address, answer>>

DeleteEnds ==
    /\ pc = "delete"
    /\ ~MoreToDelete
    /\ pc' = "deleted"
    /\ answer' = 1
    /\ cells' = <<>>
    /\ UNCHANGED <<heapVars, head, tail, next, address>>

New ==
    /\ pc = "deleted"
    /\ head' = NULL /\ tail' = NULL
    /\ pc' = "idle"
    /\ UNCHANGED <<heapVars, cells, next, address, answer>>

Exited == pc = "exited" /\ UNCHANGED vars

Call == Advance \/ Found \/ NotFound \/ (\E c \in Cell : InsertNode(c)) \/ MallocFails
        \/ DeleteNode \/ DeleteEnds

Next ==
    \/ \E a \in Address : CallFind(a)
    \/ Call
    \/ PopEmpty
    \/ PopNode
    \/ CallDelete
    \/ New
    \/ Exited

(* A call that has begun runs to its end. *)
Spec == Init /\ [][Next]_vars /\ WF_vars(Call)

---------------------------------------------------------------------------

TypeOK ==
    /\ node \in [Cell -> Node]
    /\ allocated \subseteq Cell
    /\ head \in Pointer /\ tail \in Pointer /\ next \in Pointer
    /\ pc \in {"idle", "find", "insert", "delete", "deleted", "exited"}
    /\ address \in Address /\ answer \in Nat
    /\ cells \in Seq(Cell)

(* The pointer of the i-th node, NULL outside the list. *)
At(i) == IF i \in DOMAIN cells THEN cells[i] ELSE NULL

(* Between the calls the pointers in both directions agree with the order  *)
(* of insertion, from head to tail: pops and insertions in any order never *)
(* leave a pointer to a node that was freed.                               *)
Linked ==
    pc \notin {"delete", "deleted"} =>
        /\ head = At(1) /\ tail = At(Len(cells))
        /\ \A i \in DOMAIN cells :
              node[cells[i]].next = At(i + 1) /\ node[cells[i]].prev = At(i - 1)

(* Every node in use is in the list, and once in it; list_delete frees all *)
(* of them and none twice.                                                 *)
NoLeak ==
    /\ pc = "delete" /\ tail # NULL => tail \in allocated
    /\ pc = "deleted" => allocated = {}
    /\ pc \notin {"delete", "deleted"} =>
          /\ allocated = {cells[i] : i \in DOMAIN cells}
          /\ \A i, j \in DOMAIN cells : cells[i] = cells[j] => i = j

contents == [i \in DOMAIN cells |-> node[cells[i]].address]

Q == INSTANCE Queue WITH queue <- contents

(* The linked list implements the queue: every call answers what the queue *)
(* answers, and changes it as the queue changes.  It is the queue of the   *)
(* callers and of list.c: list_find answers 1 and not, as list.h:33-34 has *)
(* it, the data.                                                           *)
ImplementsQueue == Q!Spec

(* Every call returns, or the process has exited. *)
CallsEnd == pc \in {"find", "insert", "delete"} ~> pc \notin {"find", "insert", "delete"}
=============================================================================
