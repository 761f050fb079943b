----------------------------- MODULE ListProofs -----------------------------
(***************************************************************************)
(* The linked list implements the queue, for any memory and any addresses. *)
(***************************************************************************)
EXTENDS List, TLAPS

Distinct == \A i, j \in DOMAIN cells : cells[i] = cells[j] => i = j

(* The prev pointers lead from each node of the list to the one before. *)
Backward == \A i \in DOMAIN cells : node[cells[i]].prev = At(i - 1)

Forward == \A i \in DOMAIN cells : node[cells[i]].next = At(i + 1)

FirstCells(k) == {cells[i] : i \in 1 .. k}

(* The search has passed the nodes before the k-th. *)
Passed(k) ==
    /\ next = At(k)
    /\ \A i \in DOMAIN cells : i < k => node[cells[i]].address # address

(* The deletion has freed the nodes after the k-th. *)
FreedAfter(k) == tail = At(k) /\ allocated = FirstCells(k)

(* The inductive invariant. *)
ListInv ==
    /\ TypeOK
    /\ Distinct
    /\ pc \notin {"delete", "deleted"} =>
          /\ head = At(1) /\ tail = At(Len(cells))
          /\ Forward /\ Backward
          /\ allocated = FirstCells(Len(cells))
    /\ pc \in {"find", "insert"} => \E k \in 1 .. Len(cells) + 1 : Passed(k)
    /\ pc = "delete" => Backward /\ \E k \in 0 .. Len(cells) : FreedAfter(k)
    /\ pc = "deleted" => allocated = {} /\ cells = <<>>

LEMMA CellsAre ==
    ASSUME TypeOK
    PROVE  /\ Len(cells) \in Nat /\ DOMAIN cells = 1 .. Len(cells)
           /\ \A i \in DOMAIN cells : cells[i] \in Cell
           /\ NULL \notin Cell
           /\ \A i \in DOMAIN cells : At(i) = cells[i] /\ At(i) # NULL
           /\ At(0) = NULL /\ At(Len(cells) + 1) = NULL
<1>1. Len(cells) \in Nat /\ DOMAIN cells = 1 .. Len(cells) /\ \A i \in DOMAIN cells : cells[i] \in Cell
  BY DEF TypeOK
<1> QED
  BY <1>1, ListAssumption DEF At

LEMMA ListInit == Init => ListInv
<1> SUFFICES ASSUME Init PROVE ListInv
  OBVIOUS
<1>1. cells = <<>> /\ DOMAIN cells = {} /\ Len(cells) = 0 /\ cells \in Seq(Cell)
  BY DEF Init
<1>2. TypeOK
  BY <1>1, ListAssumption DEF Init, TypeOK, Pointer
<1> QED
  BY <1>1, <1>2 DEF Init, ListInv, Distinct, At, Forward, Backward, FirstCells

LEMMA InsertInv ==
    ASSUME ListInv, NEW c \in Cell, InsertNode(c)
    PROVE  ListInv'
<1>0. PICK n \in Nat : n = Len(cells)
  BY CellsAre DEF ListInv
<1>1. /\ TypeOK /\ Distinct /\ Forward /\ Backward /\ allocated = FirstCells(n)
      /\ head = At(1) /\ tail = At(n)
  BY <1>0 DEF ListInv, InsertNode
<1>2. /\ n \in Nat /\ DOMAIN cells = 1 .. n /\ cells \in Seq(Cell)
      /\ \A i \in 1 .. n : cells[i] \in Cell /\ cells[i] # c
  BY <1>0, <1>1, CellsAre DEF InsertNode, FirstCells, TypeOK
<1>3. /\ cells' = Append(cells, c) /\ cells' \in Seq(Cell) /\ Len(cells') = n + 1
      /\ DOMAIN cells' = 1 .. n + 1
      /\ cells'[n + 1] = c /\ \A i \in 1 .. n : cells'[i] = cells[i]
  BY <1>0, <1>2 DEF InsertNode
<1>4. /\ node[c] \in Node /\ tail \in Pointer /\ address \in Address /\ NULL \notin Cell
      /\ node \in [Cell -> Node]
  BY <1>1, ListAssumption DEF TypeOK
<1>5. /\ node'[c] = [address |-> address, next |-> NULL, prev |-> tail]
      /\ node' \in [Cell -> Node]
      /\ \A d \in Cell \ {c} : /\ node'[d].prev = node[d].prev
                              /\ node'[d].next = IF d = tail THEN c ELSE node[d].next
  BY <1>4 DEF InsertNode, NewNode, Node, Pointer
<1>6. \A i \in 0 .. n : At(i)' = At(i)
  BY <1>2, <1>3 DEF At
<1>7. At(n + 1)' = c /\ At(n + 2)' = NULL
  BY <1>2, <1>3 DEF At
<1>8. TypeOK'
  BY <1>1, <1>3, <1>5 DEF InsertNode, TypeOK, Pointer, NewTail
<1>9. Distinct'
  BY <1>1, <1>2, <1>3 DEF Distinct
<1>10. head' = At(1)' /\ tail' = At(Len(cells))'
  <2>1. tail' = At(Len(cells))'
    BY <1>3, <1>7 DEF InsertNode, NewTail
  <2>2. CASE n = 0
    <3>1. head = NULL /\ At(1)' = c
      BY <1>1, <1>2, <1>7, <2>2 DEF At
    <3> QED
      BY <2>1, <3>1 DEF InsertNode
  <2>3. CASE n # 0
    <3>1. head = cells[1] /\ head # NULL /\ At(1)' = cells[1]
      BY <1>1, <1>2, <1>3, <1>4, <2>3 DEF At
    <3> QED
      BY <2>1, <3>1 DEF InsertNode
  <2> QED
    BY <1>2, <2>2, <2>3
<1>11. Forward'
  <2>1. ASSUME NEW i \in 1 .. n PROVE node'[cells'[i]].next = At(i + 1)'
    <3>1. cells'[i] = cells[i] /\ cells[i] \in Cell \ {c}
      BY <1>2, <1>3
    <3>2. CASE i = n
      <4>1. tail = cells[i]
        BY <1>1, <1>2, <3>2 DEF At
      <4> QED
        BY <1>5, <1>7, <3>1, <3>2, <4>1
    <3>3. CASE i < n
      <4>1. tail = cells[n] /\ n \in DOMAIN cells /\ i \in DOMAIN cells
        BY <1>1, <1>2, <3>3 DEF At
      <4>2. cells[i] # tail
        BY <1>1, <1>2, <3>3, <4>1 DEF Distinct
      <4>3. node[cells[i]].next = At(i + 1)
        BY <1>1, <4>1 DEF Forward
      <4>4. i + 1 \in 0 .. n
        BY <1>2, <3>3
      <4> QED
        BY <1>5, <1>6, <3>1, <4>2, <4>3, <4>4
    <3> QED
      BY <1>2, <3>2, <3>3
  <2>2. node'[cells'[n + 1]].next = At(n + 2)'
    BY <1>3, <1>5, <1>7
  <2>3. (n + 1) + 1 = n + 2
    BY <1>2
  <2> QED
    BY <1>2, <1>3, <2>1, <2>2, <2>3 DEF Forward
<1>12. Backward'
  <2>1. ASSUME NEW i \in 1 .. n PROVE node'[cells'[i]].prev = At(i - 1)'
    <3>1. node[cells[i]].prev = At(i - 1) /\ i - 1 \in 0 .. n
      BY <1>1, <1>2 DEF Backward
    <3> QED
      BY <1>2, <1>3, <1>5, <1>6, <3>1
  <2>2. node'[cells'[n + 1]].prev = At(n)'
    BY <1>1, <1>2, <1>3, <1>5, <1>6
  <2>3. (n + 1) - 1 = n
    BY <1>2
  <2> QED
    BY <1>2, <1>3, <2>1, <2>2, <2>3 DEF Backward
<1>13. allocated' = FirstCells(Len(cells))'
  <2>1. FirstCells(Len(cells))' = {cells'[i] : i \in 1 .. n + 1}
    BY <1>3 DEF FirstCells
  <2>2. allocated' = {cells[i] : i \in 1 .. n} \cup {c}
    BY <1>1 DEF InsertNode, FirstCells
  <2> QED
    BY <1>2, <1>3, <2>1, <2>2
<1> QED
  BY <1>8, <1>9, <1>10, <1>11, <1>12, <1>13 DEF ListInv, InsertNode

LEMMA PopInv ==
    ASSUME ListInv, PopNode
    PROVE  ListInv'
<1>0. PICK n \in Nat : n = Len(cells)
  BY CellsAre DEF ListInv
<1>1. /\ TypeOK /\ Distinct /\ Forward /\ Backward /\ allocated = FirstCells(n)
      /\ head = At(1) /\ tail = At(n) /\ pc = "idle" /\ pc' = "idle"
  BY <1>0 DEF ListInv, PopNode
<1>2. /\ DOMAIN cells = 1 .. n /\ cells \in Seq(Cell) /\ n >= 1
      /\ \A i \in 1 .. n : cells[i] \in Cell /\ cells[i] # NULL
      /\ head = cells[1] /\ tail = cells[n]
  BY <1>0, <1>1, CellsAre DEF PopNode, At, TypeOK
<1>3. /\ cells' = Tail(cells) /\ cells' \in Seq(Cell) /\ Len(cells') = n - 1
      /\ DOMAIN cells' = 1 .. n - 1
      /\ \A i \in 1 .. n - 1 : cells'[i] = cells[i + 1]
  BY <1>0, <1>2 DEF PopNode
<1>4. /\ At(0)' = NULL /\ At(n)' = NULL
      /\ \A i \in 1 .. n : At(i)' = At(i + 1)
  BY <1>2, <1>3 DEF At
<1>5. Distinct'
  BY <1>1, <1>2, <1>3 DEF Distinct
<1>6. allocated' = FirstCells(Len(cells))'
  <2>1. FirstCells(Len(cells))' = {cells[i + 1] : i \in 1 .. n - 1}
    BY <1>3 DEF FirstCells
  <2>2. allocated' = {cells[i] : i \in 2 .. n}
    BY <1>1, <1>2 DEF PopNode, FirstCells, Distinct
  <2>3. \A i \in 2 .. n : i - 1 \in 1 .. n - 1 /\ (i - 1) + 1 = i
    BY <1>2
  <2>4. \A i \in 1 .. n - 1 : i + 1 \in 2 .. n
    BY <1>2
  <2> QED
    BY <2>1, <2>2, <2>3, <2>4
<1>7. answer' \in Nat
  <2>1. node[head] \in Node
    BY <1>1, <1>2 DEF TypeOK
  <2> QED
    BY <2>1, ListAssumption DEF PopNode, Popped, Node
<1>8. CASE head = tail
  <2>0. n = 1
    <3>1. cells[1] = cells[n] /\ 1 \in DOMAIN cells /\ n \in DOMAIN cells
      BY <1>2, <1>8
    <3> QED
      BY <1>1, <3>1 DEF Distinct
  <2>1. n = 1 /\ head' = NULL /\ tail' = NULL /\ node' = node
    BY <1>8, <2>0 DEF PopNode
  <2>2. TypeOK'
    BY <1>1, <1>3, <1>7, <2>1 DEF PopNode, TypeOK, Pointer
  <2>3. DOMAIN cells' = {} /\ head' = At(1)' /\ tail' = At(Len(cells))'
    BY <1>3, <1>4, <2>1 DEF At
  <2> QED
    BY <1>1, <1>5, <1>6, <2>2, <2>3 DEF ListInv, Forward, Backward
<1>9. CASE head # tail
  <2>1. n >= 2 /\ head' = node[head].next /\ tail' = tail /\ node' = WithoutPrev(node[head].next)
    BY <1>2, <1>9 DEF PopNode
  <2>2. node[head].next = cells[2] /\ cells[2] \in Cell
    BY <1>1, <1>2, <2>1 DEF Forward, At
  <2>3. /\ node \in [Cell -> Node] /\ node' \in [Cell -> Node]
        /\ node'[cells[2]].prev = NULL
        /\ \A c \in Cell : /\ node'[c].next = node[c].next
                           /\ node'[c].address = node[c].address
                           /\ c # cells[2] => node'[c].prev = node[c].prev
    BY <1>1, <2>1, <2>2 DEF WithoutPrev, TypeOK, Node, Pointer
  <2>4. TypeOK'
    BY <1>1, <1>3, <1>7, <2>1, <2>2, <2>3 DEF PopNode, TypeOK, Pointer
  <2>5. head' = At(1)' /\ tail' = At(Len(cells))'
    <3>1. At(1)' = cells[2] /\ At(n - 1)' = cells[n]
      BY <1>3, <2>1 DEF At
    <3> QED
      BY <1>2, <1>3, <2>1, <2>2, <3>1
  <2>6. Forward'
    <3>1. ASSUME NEW i \in 1 .. n - 1 PROVE node'[cells'[i]].next = At(i + 1)'
      <4>1. i + 1 \in 1 .. n /\ node[cells[i + 1]].next = At((i + 1) + 1)
        BY <1>1, <1>2 DEF Forward
      <4> QED
        BY <1>2, <1>3, <1>4, <2>3, <4>1
    <3> QED
      BY <1>3, <3>1 DEF Forward
  <2>7. Backward'
    <3>1. ASSUME NEW i \in 1 .. n - 1 PROVE node'[cells'[i]].prev = At(i - 1)'
      <4>1. CASE i = 1
        BY <1>3, <1>4, <2>3, <4>1
      <4>2. CASE i # 1
        <5>1. i + 1 \in 1 .. n /\ cells[i + 1] # cells[2] /\ i - 1 \in 1 .. n /\ (i - 1) + 1 = i
          BY <1>1, <1>2, <2>1, <4>2 DEF Distinct
        <5>2. node[cells[i + 1]].prev = At(i)
          <6>1. node[cells[i + 1]].prev = At((i + 1) - 1) /\ (i + 1) - 1 = i
            BY <1>1, <1>2, <5>1 DEF Backward
          <6> QED
            BY <6>1
        <5>3. At(i - 1)' = At(i)
          BY <1>4, <5>1
        <5> QED
          BY <1>2, <1>3, <2>3, <5>1, <5>2, <5>3
      <4> QED
        BY <4>1, <4>2
    <3> QED
      BY <1>3, <3>1 DEF Backward
  <2> QED
    BY <1>1, <1>5, <1>6, <2>4, <2>5, <2>6, <2>7 DEF ListInv
<1> QED
  BY <1>8, <1>9

LEMMA SearchInv ==
    ASSUME ListInv,
           (\E a \in Address : CallFind(a)) \/ Advance \/ Found \/ NotFound \/ MallocFails \/ PopEmpty
    PROVE  ListInv'
<1>0. TypeOK /\ UNCHANGED <<node, allocated, head, tail, cells>>
  BY DEF ListInv, CallFind, Advance, Found, NotFound, MallocFails, PopEmpty, heapVars, listVars
<1>1. UNCHANGED <<Distinct, Forward, Backward, FirstCells(Len(cells)), At(1), At(Len(cells))>>
  BY <1>0 DEF Distinct, Forward, Backward, FirstCells, At
<1>2. /\ pc \notin {"delete", "deleted"} /\ pc' \notin {"delete", "deleted"}
      /\ pc' \in {"idle", "find", "insert", "exited"}
      /\ next' \in Pointer /\ address' \in Address /\ answer' \in Nat
  <2>1. next # NULL => node[next] \in Node
    BY <1>0 DEF TypeOK, Pointer
  <2> QED
    BY <1>0, <2>1 DEF TypeOK, CallFind, Advance, Found, NotFound, MallocFails, PopEmpty,
                      heapVars, listVars, Node
<1>3. TypeOK'
  BY <1>0, <1>2 DEF TypeOK
<1>4. pc' \in {"find", "insert"} => \E k \in 1 .. Len(cells') + 1 : Passed(k)'
  <2>1. ASSUME NEW a \in Address, CallFind(a) PROVE Passed(1)'
    BY <1>0, <2>1, CellsAre DEF CallFind, Passed, ListInv, At
  <2>2. ASSUME Advance PROVE \E k \in 1 .. Len(cells) + 1 : Passed(k)'
    <3>1. PICK k \in 1 .. Len(cells) + 1 : Passed(k)
      BY <2>2 DEF Advance, ListInv
    <3>2. k \in 1 .. Len(cells) /\ next = cells[k]
      BY <1>0, <2>2, <3>1, CellsAre DEF Passed, Advance, At
    <3>3. next' = At(k + 1)' /\ k + 1 \in 1 .. Len(cells) + 1
      BY <1>0, <1>2, <2>2, <3>2, CellsAre DEF Advance, ListInv, Forward, At
    <3>4. \A i \in DOMAIN cells : i < k + 1 => node[cells[i]].address # address
      BY <1>0, <2>2, <3>1, <3>2, CellsAre DEF Passed, Advance
    <3>5. Passed(k + 1)'
      BY <1>0, <2>2, <3>3, <3>4 DEF Passed, Advance
    <3> QED
      BY <3>3, <3>5
  <2>3. Len(cells) \in Nat /\ Len(cells') = Len(cells)
    BY <1>0, CellsAre
  <2> QED
    BY <2>1, <2>2, <2>3 DEF Found, NotFound, MallocFails, PopEmpty
<1> QED
  BY <1>0, <1>1, <1>2, <1>3, <1>4 DEF ListInv

LEMMA DeleteInv ==
    ASSUME ListInv, CallDelete \/ DeleteNode \/ DeleteEnds \/ New
    PROVE  ListInv'
<1>0. TypeOK /\ Distinct /\ Len(cells) \in Nat /\ UNCHANGED <<node, next, address>>
  BY CellsAre DEF ListInv, CallDelete, DeleteNode, DeleteEnds, New, heapVars, listVars
<1>1. CASE CallDelete
  <2>1. Backward /\ FreedAfter(Len(cells)) /\ Len(cells) \in 0 .. Len(cells)
    BY <1>0, <1>1 DEF CallDelete, ListInv, FreedAfter
  <2>2. Backward' /\ FreedAfter(Len(cells))' /\ TypeOK' /\ Distinct'
    BY <1>0, <1>1, <2>1 DEF CallDelete, heapVars, listVars, Backward, FreedAfter, At, FirstCells,
                            TypeOK, Distinct
  <2> QED
    BY <1>1, <2>1, <2>2 DEF CallDelete, ListInv, listVars
<1>2. CASE DeleteNode
  <2>1. PICK k \in 0 .. Len(cells) : FreedAfter(k)
    BY <1>2 DEF DeleteNode, ListInv
  <2>2. k \in 1 .. Len(cells) /\ tail = cells[k]
    BY <1>0, <1>2, <2>1, CellsAre DEF FreedAfter, DeleteNode, MoreToDelete
  <2>3. tail' = At(k - 1)
    BY <1>0, <1>2, <2>2, CellsAre DEF DeleteNode, ListInv, Backward
  <2>4. allocated' = FirstCells(k - 1)
    <3>1. \A i \in 1 .. k : i \in 1 .. k - 1 \/ i = k
      BY <2>2
    <3>2. \A i \in 1 .. k - 1 : i \in 1 .. k /\ cells[i] # cells[k]
      BY <1>0, <2>2, CellsAre DEF Distinct
    <3>3. allocated' = FirstCells(k) \ {cells[k]}
      BY <1>2, <2>1, <2>2 DEF DeleteNode, FreedAfter
    <3> QED
      BY <3>1, <3>2, <3>3 DEF FirstCells
  <2>5. FreedAfter(k - 1)' /\ k - 1 \in 0 .. Len(cells)
    BY <1>0, <1>2, <2>2, <2>3, <2>4 DEF DeleteNode, FreedAfter, At, FirstCells
  <2>6. At(k - 1) \in Pointer
    BY <1>0, CellsAre DEF At, Pointer
  <2>7. TypeOK' /\ Distinct' /\ Backward'
    BY <1>0, <1>2, <2>3, <2>6 DEF DeleteNode, TypeOK, Distinct, Backward, At, ListInv
  <2> QED
    BY <1>2, <2>5, <2>7 DEF DeleteNode, ListInv
<1>3. CASE DeleteEnds
  <2>1. PICK k \in 0 .. Len(cells) : FreedAfter(k)
    BY <1>3 DEF DeleteEnds, ListInv
  <2>2. k = 0
    BY <1>0, <1>3, <2>1, CellsAre DEF FreedAfter, DeleteEnds, MoreToDelete
  <2>3. allocated' = {}
    BY <1>3, <2>1, <2>2 DEF DeleteEnds, heapVars, FreedAfter, FirstCells
  <2> QED
    BY <1>0, <1>3, <2>3 DEF DeleteEnds, heapVars, ListInv, TypeOK, Distinct
<1>4. CASE New
  <2>1. cells' = <<>> /\ DOMAIN cells' = {} /\ Len(cells') = 0 /\ allocated' = {}
    BY <1>4 DEF New, ListInv, heapVars
  <2>2. TypeOK'
    BY <1>0, <1>4 DEF New, TypeOK, Pointer, heapVars
  <2> QED
    BY <1>4, <2>1, <2>2 DEF New, ListInv, Distinct, Forward, Backward, At, FirstCells
<1> QED
  BY <1>1, <1>2, <1>3, <1>4

LEMMA ListStep == ListInv /\ [Next]_vars => ListInv'
<1> SUFFICES ASSUME ListInv, [Next]_vars PROVE ListInv'
  OBVIOUS
<1>1. CASE UNCHANGED vars \/ Exited
  <2>1. UNCHANGED <<node, allocated, head, tail, next, pc, address, answer, cells>>
    BY <1>1 DEF vars, Exited
  <2>2. TypeOK' /\ Distinct'
    BY <2>1 DEF ListInv, TypeOK, Distinct
  <2>3. UNCHANGED <<Forward, Backward, FirstCells(Len(cells)), At(1), At(Len(cells))>>
    BY <2>1 DEF Forward, Backward, FirstCells, At
  <2>4. \A k : (Passed(k) => Passed(k)') /\ (FreedAfter(k) => FreedAfter(k)')
    BY <2>1 DEF Passed, FreedAfter, FirstCells, At
  <2> QED
    BY <2>1, <2>2, <2>3, <2>4 DEF ListInv
<1> QED
  BY <1>1, InsertInv, PopInv, SearchInv, DeleteInv DEF Next, Call

(* Every pointer is NULL or leads to a block, whatever malloc returns. *)
THEOREM TypeCorrect == Spec => []TypeOK
<1>1. ListInv => TypeOK
  BY DEF ListInv
<1> QED
  BY ListInit, ListStep, <1>1, PTL DEF Spec

(* What the list keeps in memory is in it, and its pointers agree. *)
THEOREM AlwaysLinked == Spec => []Linked
<1>1. ListInv => Linked
  BY DEF ListInv, Linked, Forward, Backward
<1> QED
  BY ListInit, ListStep, <1>1, PTL DEF Spec

(* Nothing is freed twice and nothing that is in use is lost. *)
THEOREM NeverLeaks == Spec => []NoLeak
<1>1. ASSUME ListInv PROVE NoLeak
  <2>1. TypeOK /\ Len(cells) \in Nat /\ DOMAIN cells = 1 .. Len(cells)
    BY <1>1, CellsAre DEF ListInv
  <2>2. ASSUME pc = "delete", tail # NULL PROVE tail \in allocated
    <3>1. PICK k \in 0 .. Len(cells) : FreedAfter(k)
      BY <1>1, <2>2 DEF ListInv
    <3>2. k \in 1 .. Len(cells) /\ tail = cells[k]
      BY <2>1, <2>2, <3>1, CellsAre DEF FreedAfter
    <3> QED
      BY <3>1, <3>2 DEF FreedAfter, FirstCells
  <2>3. pc \notin {"delete", "deleted"} => allocated = {cells[i] : i \in DOMAIN cells}
    BY <1>1, <2>1 DEF ListInv, FirstCells
  <2> QED
    BY <1>1, <2>2, <2>3 DEF ListInv, NoLeak, Distinct
<1>2. ListInv => NoLeak
  BY <1>1
<1> QED
  BY ListInit, ListStep, <1>2, PTL DEF Spec

---------------------------------------------------------------------------
(* The refinement.                                                         *)

LEMMA TailIs ==
    ASSUME NEW T, NEW d \in Seq(T), NEW e \in Seq(T), Len(d) >= 1, Len(e) = Len(d) - 1,
           \A i \in 1 .. Len(d) - 1 : e[i] = d[i + 1]
    PROVE  d # <<>> /\ e = Tail(d) /\ Head(d) = d[1]
<1>1. d # <<>> /\ Tail(d) \in Seq(T) /\ Len(Tail(d)) = Len(d) - 1
      /\ \A i \in 1 .. Len(d) - 1 : Tail(d)[i] = d[i + 1]
  OBVIOUS
<1> QED
  BY <1>1

LEMMA AppendIs ==
    ASSUME NEW T, NEW d \in Seq(T), NEW e \in Seq(T), NEW t \in T, Len(e) = Len(d) + 1,
           e[Len(d) + 1] = t, \A i \in 1 .. Len(d) : e[i] = d[i]
    PROVE  e = Append(d, t)
OBVIOUS

Mapped ==
    /\ contents \in Seq(Address) /\ Len(contents) = Len(cells)
    /\ DOMAIN contents = DOMAIN cells
    /\ \A i \in DOMAIN cells : contents[i] = node[cells[i]].address

LEMMA ContentsMapped == ListInv => Mapped
<1> SUFFICES ASSUME ListInv PROVE Mapped
  OBVIOUS
<1>1. TypeOK /\ Len(cells) \in Nat /\ DOMAIN cells = 1 .. Len(cells)
  BY CellsAre DEF ListInv
<1>2. \A i \in DOMAIN cells : node[cells[i]].address \in Address
  BY <1>1, CellsAre DEF TypeOK, Node
<1> QED
  BY <1>1, <1>2 DEF contents, Mapped

LEMMA ContentsAre ==
    ASSUME ListInv
    PROVE  /\ Mapped
           /\ \A a : Q!list_find(contents, a) <=> \E i \in DOMAIN cells : node[cells[i]].address = a
BY ContentsMapped DEF Mapped, Q!list_find, Q!ToSet

LEMMA StepRefines ==
    ASSUME ListInv, ListInv', [Next]_vars
    PROVE  [Q!Next]_<<contents, answer>>
<1>0. TypeOK /\ Len(cells) \in Nat /\ DOMAIN cells = 1 .. Len(cells)
  BY CellsAre DEF ListInv
<1>1. ASSUME UNCHANGED <<node, cells, answer>> PROVE UNCHANGED <<contents, answer>>
  BY <1>1 DEF contents
<1>2. CASE UNCHANGED vars \/ (\E a \in Address : CallFind(a)) \/ Advance \/ MallocFails
           \/ CallDelete \/ DeleteNode \/ Exited
  <2>1. UNCHANGED <<node, cells, answer>>
    BY <1>2 DEF vars, CallFind, Advance, MallocFails, CallDelete, DeleteNode, Exited, heapVars, listVars
  <2> QED
    BY <1>1, <2>1
<1>3. CASE New
  <2>1. UNCHANGED <<node, cells, answer>>
    BY <1>3 DEF New, heapVars
  <2> QED
    BY <1>1, <2>1
<1>4. CASE Found
  <2>1. PICK k \in 1 .. Len(cells) + 1 : Passed(k)
    BY <1>4 DEF Found, ListInv
  <2>2. k \in DOMAIN cells /\ next = cells[k]
    BY <1>0, <1>4, <2>1, CellsAre DEF Passed, Found, At
  <2>3. Q!list_find(contents, address) /\ address \in Address
    BY <1>0, <1>4, <2>2, ContentsAre DEF Found, Mapped, TypeOK
  <2>4. UNCHANGED contents /\ pc \in {"find", "insert"}
    BY <1>4 DEF Found, heapVars, listVars, contents
  <2>5. Q!Find(address) \/ Q!Insert(address)
    BY <1>4, <2>3, <2>4 DEF Found, Q!Find, Q!Insert, Q!list_insert
  <2> QED
    BY <2>3, <2>5 DEF Q!Next
<1>5. ASSUME pc \in {"find", "insert"}, next = NULL
      PROVE  address \in Address /\ ~Q!list_find(contents, address)
  <2>1. PICK k \in 1 .. Len(cells) + 1 : Passed(k)
    BY <1>5 DEF ListInv
  <2>2. k = Len(cells) + 1
    BY <1>0, <1>5, <2>1, CellsAre DEF Passed
  <2>3. \A i \in DOMAIN cells : node[cells[i]].address # address
    BY <1>0, <2>1, <2>2 DEF Passed
  <2> QED
    BY <1>0, <2>3, ContentsAre DEF TypeOK
<1>6. CASE NotFound
  <2>1. UNCHANGED contents /\ answer' = 0
    BY <1>6 DEF NotFound, heapVars, listVars, contents
  <2>2. Q!Find(address)
    BY <1>5, <1>6, <2>1 DEF NotFound, Q!Find
  <2> QED
    BY <1>5, <1>6, <2>2 DEF NotFound, Q!Next
<1>7. ASSUME NEW c \in Cell, InsertNode(c) PROVE Q!Insert(address) /\ address \in Address
  <2>1. address \in Address /\ ~Q!list_find(contents, address)
    BY <1>5, <1>7 DEF InsertNode
  <2>2. contents' = Append(contents, address)
    <3>1. /\ contents \in Seq(Address) /\ contents' \in Seq(Address) /\ Len(contents) = Len(cells)
          /\ Len(contents') = Len(cells')
          /\ \A i \in DOMAIN cells' : contents'[i] = node'[cells'[i]].address
          /\ \A i \in DOMAIN cells : contents[i] = node[cells[i]].address
      <4>1. Mapped'
        BY ContentsMapped, PTL
      <4> QED
        BY <4>1, ContentsAre DEF Mapped
    <3>2. cells' = Append(cells, c) /\ cells \in Seq(Cell) /\ c \notin allocated
      BY <1>0, <1>7 DEF InsertNode, TypeOK
    <3>3. \A i \in DOMAIN cells : cells[i] # c /\ cells[i] \in Cell
      BY <1>0, <1>7, <3>2, CellsAre DEF ListInv, FirstCells, InsertNode
    <3>4. node'[c].address = address /\ \A d \in Cell : d # c => node'[d].address = node[d].address
      BY <1>0, <1>7 DEF InsertNode, NewNode, TypeOK, Node
    <3>5. Len(cells') = Len(cells) + 1 /\ DOMAIN cells' = 1 .. Len(cells) + 1
          /\ cells'[Len(cells) + 1] = c /\ \A i \in DOMAIN cells : cells'[i] = cells[i]
      BY <1>0, <3>2
    <3>6. /\ Len(contents') = Len(contents) + 1
          /\ contents'[Len(contents) + 1] = address
      BY <1>0, <3>1, <3>4, <3>5
    <3>7. ASSUME NEW i \in DOMAIN cells PROVE contents'[i] = contents[i]
      <4>1. i \in DOMAIN cells' /\ cells'[i] = cells[i]
        BY <1>0, <3>5
      <4>2. node'[cells[i]].address = node[cells[i]].address
        BY <3>3, <3>4
      <4> QED
        BY <3>1, <4>1, <4>2
    <3> QED
      BY <1>0, <2>1, <3>1, <3>6, <3>7, AppendIs
  <2> QED
    BY <1>7, <2>1, <2>2 DEF InsertNode, Q!Insert, Q!list_insert
<1>8. CASE PopEmpty
  <2>1. cells = <<>>
    BY <1>0, <1>8, CellsAre DEF PopEmpty, ListInv
  <2>2. contents = <<>>
    BY <2>1, ContentsAre DEF Mapped
  <2>3. UNCHANGED contents
    BY <1>8 DEF PopEmpty, heapVars, listVars, contents
  <2>4. Q!Pop
    BY <1>8, <2>2, <2>3 DEF PopEmpty, Q!Pop, Q!list_pop, Q!list_rest
  <2> QED
    BY <2>4 DEF Q!Next
<1>9. CASE PopNode
  <2>1. /\ contents \in Seq(Address) /\ contents' \in Seq(Address) /\ Len(contents) = Len(cells)
        /\ Len(contents') = Len(cells')
        /\ \A i \in DOMAIN cells' : contents'[i] = node'[cells'[i]].address
        /\ \A i \in DOMAIN cells : contents[i] = node[cells[i]].address
    <3>1. Mapped'
      BY ContentsMapped, PTL
    <3> QED
      BY <3>1, ContentsAre DEF Mapped
  <2>2. /\ cells' = Tail(cells) /\ cells \in Seq(Cell) /\ Len(cells) >= 1 /\ head = cells[1]
        /\ \A i \in DOMAIN cells : cells[i] \in Cell
    BY <1>0, <1>9, CellsAre DEF PopNode, ListInv, At, TypeOK
  <2>3. \A d \in Cell : node'[d].address = node[d].address
    BY <1>0, <1>9 DEF PopNode, WithoutPrev, TypeOK, Node
  <2>4. /\ Len(contents') = Len(contents) - 1
        /\ \A i \in 1 .. Len(contents) - 1 : contents'[i] = contents[i + 1]
    <3>1. Len(cells') = Len(cells) - 1 /\ DOMAIN cells' = 1 .. Len(cells) - 1
      BY <1>0, <2>2
    <3>2. ASSUME NEW i \in DOMAIN cells' PROVE contents'[i] = contents[i + 1]
      <4>1. i + 1 \in DOMAIN cells /\ cells'[i] = cells[i + 1]
        BY <1>0, <2>2, <3>1
      <4>2. node'[cells[i + 1]].address = node[cells[i + 1]].address
        BY <2>2, <2>3, <4>1
      <4> QED
        BY <2>1, <4>1, <4>2
    <3> QED
      BY <2>1, <3>1, <3>2
  <2>5. contents # <<>> /\ contents' = Tail(contents) /\ Head(contents) = node[head].address
    <3>1. 1 \in DOMAIN cells
      BY <1>0, <2>2
    <3>2. contents[1] = node[head].address
      BY <2>1, <2>2, <3>1
    <3>3. Len(contents) >= 1
      BY <2>1, <2>2
    <3> QED
      BY <2>1, <2>4, <3>2, <3>3, TailIs
  <2>6. Q!Pop
    BY <1>9, <2>5 DEF PopNode, Popped, Q!Pop, Q!list_pop, Q!list_rest
  <2> QED
    BY <2>6 DEF Q!Next
<1>10. CASE DeleteEnds
  <2>1. contents' = <<>>
    BY <1>10 DEF DeleteEnds, contents
  <2> QED
    BY <1>10, <2>1 DEF DeleteEnds, Q!Delete, Q!Next
<1> QED
  BY <1>2, <1>3, <1>4, <1>6, <1>7, <1>8, <1>9, <1>10 DEF Next, Call, Q!Next

(* The linked list implements the queue that the analyzer is modelled with. *)
THEOREM ListIsQueue == Spec => ImplementsQueue
<1>1. Init => Q!Init
  BY DEF Init, Q!Init, contents
<1>2. ListInv /\ ListInv' /\ [Next]_vars => [Q!Next]_<<contents, answer>>
  BY StepRefines
<1> QED
  BY ListInit, ListStep, <1>1, <1>2, PTL DEF Spec, ImplementsQueue, Q!Spec
=============================================================================
