--------------------------- MODULE HashTableProofs ---------------------------
(***************************************************************************)
(* The chained table implements the atomic map, for any threads, memory,   *)
(* keys and number of slots, and whatever the hash of each key.            *)
(***************************************************************************)
EXTENDS HashTable, SequenceTheorems, TLAPS

At(s, i) == IF i \in DOMAIN chain[s] THEN chain[s][i] ELSE NULL
KeyAt(s, i) == node[chain[s][i]].key

TypeInv ==
    /\ TypeOK
    /\ DOMAIN answer = Thread
    /\ pc[Inserter] = "publish" => entry \in Cell

(* Only the inserter inserts and deletes, and it deletes alone. *)
Phases ==
    /\ \A t \in Thread \ {Inserter} :
          /\ pc[t] \in {"idle", "hash", "search"} /\ call[t].data = "none"
          /\ pc[Inserter] \in {"delete", "deleted"} => pc[t] = "idle"
    /\ pc[Inserter] = "publish" => call[Inserter].data # "none"
    /\ \A t \in Thread :
          /\ pc[t] \in {"hash", "search", "publish"} => answer[t] = "none"
          /\ pc[t] \in {"idle", "delete", "deleted"} => answer[t] # "none"

Chained ==
    \A s \in Slot :
        /\ tableAddr[s] = At(s, 1)
        /\ \A i \in DOMAIN chain[s] :
              /\ node[chain[s][i]].next = At(s, i + 1)
              /\ hash[KeyAt(s, i)] = s
              /\ \A j \in DOMAIN chain[s] : KeyAt(s, i) = KeyAt(s, j) => i = j

(* The entry that is about to be published. *)
EntryReady ==
    /\ entry \in Cell \ Linked
    /\ allocated = Linked \cup {entry}
    /\ node[entry] = [key |-> call[Inserter].key, data |-> call[Inserter].data,
                      next |-> tableAddr[Place(Inserter)]]
    /\ \A i \in DOMAIN chain[Place(Inserter)] : KeyAt(Place(Inserter), i) # call[Inserter].key

(* A search is at the k-th entry of its chain.  One for a byte will return *)
(* what it promised; an insertion has not met its key.                     *)
Promise(t, k) ==
    LET s == Place(t) IN
    \/ \E i \in DOMAIN chain[s] :
          i >= k /\ KeyAt(s, i) = call[t].key /\ promised[t] = node[chain[s][i]].data
    \/ promised[t] = "zero" /\ \A i \in DOMAIN chain[s] : i >= k => KeyAt(s, i) # call[t].key

SearchAt(t, k) ==
    /\ current[t] = At(Place(t), k)
    /\ call[t].data = "none" => Promise(t, k)
    /\ call[t].data # "none" =>
          \A i \in DOMAIN chain[Place(t)] : i < k => KeyAt(Place(t), i) # call[t].key

(* The entries of the chains from the k-th of the slot s on. *)
From(s, k) ==
    {c \in Cell : \E r \in Slot : \E i \in DOMAIN chain[r] :
                     chain[r][i] = c /\ (r > s \/ (r = s /\ i >= k))}

DeleteAt(k) == current[Inserter] = At(slot, k) /\ allocated = From(slot, k)

(* The inductive invariant. *)
HashInv ==
    /\ Phases
    /\ pc[Inserter] # "deleted" => Chained
    /\ pc[Inserter] \in {"idle", "hash", "search", "exited"} => allocated = Linked
    /\ pc[Inserter] = "publish" => EntryReady
    /\ pc[Inserter] = "delete" => \E k \in 1 .. Len(chain[slot]) + 1 : DeleteAt(k)
    /\ pc[Inserter] = "deleted" => allocated = {} /\ \A s \in Slot : chain[s] = <<>>
    /\ \A t \in Thread : pc[t] = "search" =>
          \E k \in 1 .. Len(chain[Place(t)]) + 1 : SearchAt(t, k)

LEMMA GarbageType == Garbage \in Node
<1>1. PICK k \in Key : TRUE
  BY HashTableAssumption
<1>2. PICK v \in Value : TRUE
  BY HashTableAssumption
<1>3. [key |-> k, data |-> v, next |-> NULL] \in Node
  BY DEF Node, Pointer
<1> QED
  BY <1>3 DEF Garbage

LEMMA TypeInit == Init => TypeInv
<1> SUFFICES ASSUME Init PROVE TypeInv
  OBVIOUS
<1>1. NULL \notin Cell /\ 0 \in Slot /\ hash \in [Key -> Slot]
  BY HashTableAssumption DEF Slot
<1>2. Garbage \in Node
  BY GarbageType
<1>3. (CHOOSE c \in Call : c.data = "none") \in Call
  <2>1. PICK k \in Key : TRUE
    BY HashTableAssumption
  <2>2. [key |-> k, data |-> "none"] \in Call
    BY DEF Call
  <2> QED
    BY <2>2
<1> HIDE DEF Garbage, Call
<1>4. chain \in [Slot -> Seq(Cell)]
  BY DEF Init
<1>5. pc[Inserter] = "idle"
  BY HashTableAssumption DEF Init
<1> QED
  BY <1>1, <1>2, <1>3, <1>4, <1>5 DEF Init, TypeInv, TypeOK, Pointer

(* What a search finds is the byte of an entry that is linked. *)
LEMMA ContentsPick ==
    ASSUME NEW k, k \in DOMAIN contents
    PROVE  \E c \in Linked : node[c].key = k /\ contents[k] = node[c].data
<1>1. PICK c \in Linked : node[c].key = k
  BY DEF contents
<1> DEFINE d == CHOOSE e \in Linked : node[e].key = k
<1>2. d \in Linked /\ node[d].key = k
  BY <1>1
<1>3. contents[k] = node[d].data
  BY DEF contents
<1> QED
  BY <1>2, <1>3

KeysHaveEntries == \A k \in DOMAIN contents : \E c \in Linked : node[c].key = k /\ contents[k] = node[c].data

LEMMA KeysAreOfEntries == KeysHaveEntries
  BY ContentsPick DEF KeysHaveEntries

LEMMA FindType ==
    ASSUME TypeInv, NEW k \in Key
    PROVE  Q!hashtable_find(contents, k) \in Value \cup {"zero"}
<1>1. CASE k \notin DOMAIN contents
  BY <1>1 DEF Q!hashtable_find
<1>2. CASE k \in DOMAIN contents
  <2>1. PICK c \in Linked : contents[k] = node[c].data
    BY <1>2, ContentsPick
  <2>2. c \in Cell
    BY DEF Linked
  <2>3. node[c].data \in Value
    BY <2>2 DEF TypeInv, TypeOK, Node
  <2> QED
    BY <1>2, <2>1, <2>3 DEF Q!hashtable_find
<1> QED
  BY <1>1, <1>2

LEMMA TypeNext == TypeInv /\ [Next]_vars => TypeInv'
<1> SUFFICES ASSUME TypeInv, [Next]_vars PROVE TypeInv'
  OBVIOUS
<1> USE HashTableAssumption DEF TypeInv, TypeOK, Goes, Returns, Place
<1>1. ASSUME NEW t \in Thread, Begin(t) PROVE TypeInv'
  BY <1>1 DEF Begin
<1>2. ASSUME NEW t \in Thread, ReadSlot(t) PROVE TypeInv'
  <2>1. call[t].key \in Key
    BY DEF Call
  <2> QED
    BY <1>2, <2>1, FindType DEF ReadSlot
<1>3. ASSUME NEW t \in Thread, Advance(t) PROVE TypeInv'
  <2>1. NextEntry(t) \in Pointer
    BY <1>3 DEF Advance, NextEntry, Node, Pointer
  <2> QED
    BY <1>3, <2>1 DEF Advance
<1>4. ASSUME NEW t \in Thread, Found(t) PROVE TypeInv'
  <2>1. ByteFound(t) \in Value
    BY <1>4 DEF Found, AtKey, ByteFound, Node, Pointer
  <2> QED
    BY <1>4, <2>1 DEF Found, Pointer
<1>5. ASSUME NEW t \in Thread, NotFound(t) PROVE TypeInv'
  BY <1>5 DEF NotFound, Pointer
<1>6. CASE FillEntry
  <2>1. FirstEntry \in Pointer /\ call[Inserter].key \in Key
    BY DEF FirstEntry, Call
  <2>2. call[Inserter].data \in Value
    BY <1>6 DEF FillEntry, Inserting, Call
  <2> QED
    BY <1>6, <2>1, <2>2 DEF FillEntry, Node, Pointer
<1>7. CASE MallocFails
  BY <1>7 DEF MallocFails
<1>8. CASE PublishEntry
  <2>1. Place(Inserter) \in Slot
    BY DEF Call
  <2>2. <<entry>> \o chain[Place(Inserter)] \in Seq(Cell)
    BY <1>8, <2>1, ConcatProperties DEF PublishEntry
  <2>3. chain' \in [Slot -> Seq(Cell)]
    BY <1>8, <2>1, <2>2 DEF PublishEntry
  <2> QED
    BY <1>8, <2>3 DEF PublishEntry, Pointer
<1>9. CASE CallDelete
  BY <1>9 DEF CallDelete, Slot
<1>10. CASE FreeEntry
  BY <1>10 DEF FreeEntry, Node, Pointer, MoreToFree
<1>11. CASE NextSlot
  BY <1>11 DEF NextSlot
<1>12. CASE DeleteEnds
  <2>1. Garbage \in Node
    BY GarbageType
  <2>2. chain' \in [Slot -> Seq(Cell)]
    BY <1>12 DEF DeleteEnds
  <2>3. 0 \in Slot
    BY DEF Slot
  <2> HIDE DEF Garbage
  <2> QED
    BY <1>12, <2>1, <2>2, <2>3 DEF DeleteEnds
<1>13. CASE New
  BY <1>13 DEF New, Pointer
<1>14. CASE UNCHANGED vars
  BY <1>14 DEF vars
<1> QED
  BY <1>1, <1>2, <1>3, <1>4, <1>5, <1>6, <1>7, <1>8, <1>9, <1>10, <1>11, <1>12, <1>13, <1>14
     DEF Next, Search, Insert, Delete, Exited

---------------------------------------------------------------------------
(* Where the entries are.                                                  *)

LEMMA CellsAre ==
    ASSUME TypeInv, NEW s \in Slot
    PROVE  /\ Len(chain[s]) \in Nat /\ DOMAIN chain[s] = 1 .. Len(chain[s])
           /\ \A i \in DOMAIN chain[s] :
                 /\ chain[s][i] \in Linked /\ chain[s][i] \in Cell
                 /\ At(s, i) = chain[s][i] /\ At(s, i) # NULL
           /\ At(s, Len(chain[s]) + 1) = NULL
<1>1. chain[s] \in Seq(Cell) /\ NULL \notin Cell
  BY HashTableAssumption DEF TypeInv, TypeOK
<1>2. /\ Len(chain[s]) \in Nat /\ DOMAIN chain[s] = 1 .. Len(chain[s])
      /\ \A i \in DOMAIN chain[s] : chain[s][i] \in Cell
  BY <1>1
<1> QED
  BY <1>1, <1>2 DEF At, Linked, InChain

LEMMA PlaceType ==
    ASSUME TypeInv, NEW t \in Thread
    PROVE  /\ call[t].key \in Key /\ call[t].data \in Value \cup {"none"}
           /\ Place(t) \in Slot /\ Place(t) = hash[call[t].key]
  BY HashTableAssumption DEF TypeInv, TypeOK, Call, Place

(* No key has two entries. *)
LEMMA OnePlace ==
    ASSUME TypeInv, Chained, NEW r \in Slot, NEW s \in Slot,
           NEW i \in DOMAIN chain[r], NEW j \in DOMAIN chain[s], KeyAt(r, i) = KeyAt(s, j)
    PROVE  r = s /\ i = j
  BY DEF Chained

LEMMA LinkedHas == ASSUME NEW c \in Linked PROVE \E s \in Slot : \E i \in DOMAIN chain[s] : chain[s][i] = c
  BY DEF Linked, InChain

LEMMA ContentsAre ==
    ASSUME TypeInv, Chained
    PROVE  /\ \A s \in Slot : \A i \in DOMAIN chain[s] :
                  /\ KeyAt(s, i) \in DOMAIN contents
                  /\ contents[KeyAt(s, i)] = node[chain[s][i]].data
           /\ \A k \in DOMAIN contents : k \in Key /\ \E i \in DOMAIN chain[hash[k]] : KeyAt(hash[k], i) = k
<1>1. ASSUME NEW s \in Slot, NEW i \in DOMAIN chain[s]
      PROVE  KeyAt(s, i) \in DOMAIN contents /\ contents[KeyAt(s, i)] = node[chain[s][i]].data
  <2>1. KeyAt(s, i) \in DOMAIN contents
    BY <1>1, CellsAre DEF contents, KeyAt
  <2>2. PICK c \in Linked : node[c].key = KeyAt(s, i) /\ contents[KeyAt(s, i)] = node[c].data
    BY <2>1, ContentsPick
  <2>3. PICK r \in Slot : \E j \in DOMAIN chain[r] : chain[r][j] = c
    BY LinkedHas
  <2>4. PICK j \in DOMAIN chain[r] : chain[r][j] = c
    BY <2>3
  <2>5. KeyAt(r, j) = KeyAt(s, i)
    BY <2>2, <2>4 DEF KeyAt
  <2>6. r = s /\ j = i
    BY <1>1, <2>5, OnePlace
  <2> QED
    BY <2>1, <2>2, <2>4, <2>6
<1>2. ASSUME NEW k \in DOMAIN contents
      PROVE  k \in Key /\ \E i \in DOMAIN chain[hash[k]] : KeyAt(hash[k], i) = k
  <2>1. PICK c \in Linked : node[c].key = k
    BY ContentsPick
  <2>2. PICK r \in Slot : \E j \in DOMAIN chain[r] : chain[r][j] = c
    BY LinkedHas
  <2>3. PICK j \in DOMAIN chain[r] : chain[r][j] = c
    BY <2>2
  <2>4. KeyAt(r, j) = k
    BY <2>1, <2>3 DEF KeyAt
  <2>5. hash[k] = r
    BY <2>4 DEF Chained
  <2>6. c \in Cell
    BY DEF Linked
  <2>7. k \in Key
    BY <2>1, <2>6 DEF TypeInv, TypeOK, Node
  <2> QED
    BY <2>4, <2>5, <2>7
<1> QED
  BY <1>1, <1>2

LEMMA ContentsOf ==
    ASSUME TypeInv, Chained, NEW c \in Linked
    PROVE  node[c].key \in DOMAIN contents /\ contents[node[c].key] = node[c].data
<1>1. PICK s \in Slot : \E i \in DOMAIN chain[s] : chain[s][i] = c
  BY LinkedHas
<1>2. PICK i \in DOMAIN chain[s] : chain[s][i] = c
  BY <1>1
<1> QED
  BY <1>2, ContentsAre DEF KeyAt

---------------------------------------------------------------------------
(* The inductive invariant.                                                *)

LEMMA HashInit == Init => HashInv
<1> SUFFICES ASSUME Init PROVE HashInv
  OBVIOUS
<1>1. /\ \A s \in Slot : tableAddr[s] = NULL /\ chain[s] = <<>> /\ DOMAIN chain[s] = {}
      /\ allocated = {} /\ \A t \in Thread : pc[t] = "idle" /\ answer[t] = "zero"
  BY DEF Init
<1>2. call = [t \in Thread |-> CHOOSE c \in Call : c.data = "none"]
  BY DEF Init
<1>3. (CHOOSE c \in Call : c.data = "none").data = "none"
  <2>1. PICK k \in Key : TRUE
    BY HashTableAssumption
  <2>2. [key |-> k, data |-> "none"] \in Call
    BY DEF Call
  <2> QED
    BY <2>2
<1>4. \A t \in Thread : call[t].data = "none"
  BY <1>2, <1>3
<1>5. Linked = {} /\ Chained /\ Phases
  BY <1>1, <1>4, HashTableAssumption DEF Linked, InChain, Chained, At, Phases
<1> QED
  BY <1>1, <1>5, HashTableAssumption DEF HashInv

(* A step of a call that leaves the table and the other calls alone. *)
LEMMA CallStep ==
    ASSUME TypeInv, TypeInv', HashInv, NEW t \in Thread,
           UNCHANGED <<tableAddr, node, allocated, chain, entry, slot>>,
           \A u \in Thread \ {t} :
              /\ pc'[u] = pc[u] /\ call'[u] = call[u] /\ current'[u] = current[u]
              /\ promised'[u] = promised[u] /\ answer'[u] = answer[u],
           pc[Inserter] \notin {"delete", "deleted"},
           pc[t] \in {"idle", "hash", "search"},
           \/ pc'[t] \in {"idle", "hash", "search"}
           \/ t = Inserter /\ pc'[t] = "exited",
           t # Inserter => call'[t].data = "none",
           pc'[t] \in {"hash", "search"} => answer'[t] = "none",
           pc'[t] = "idle" => answer'[t] # "none",
           pc'[t] = "search" => \E k \in 1 .. Len(chain[Place(t)']) + 1 : SearchAt(t, k)'
    PROVE  HashInv'
<1>1. Chained
  BY DEF HashInv
<1>2. Linked' = Linked /\ Chained'
  BY <1>1 DEF Linked, InChain, Chained, At, KeyAt
<1>3. Phases'
  BY HashTableAssumption DEF HashInv, Phases
<1>4. pc'[Inserter] \in {"idle", "hash", "search", "exited"} => allocated' = Linked'
  BY <1>2, HashTableAssumption DEF HashInv
<1>5. pc'[Inserter] = "publish" => EntryReady'
  <2>1. SUFFICES ASSUME pc'[Inserter] = "publish" PROVE EntryReady'
    OBVIOUS
  <2>2. t # Inserter
    BY <2>1
  <2>3. EntryReady /\ call'[Inserter] = call[Inserter]
    BY <2>1, <2>2, HashTableAssumption DEF HashInv
  <2> QED
    BY <1>2, <2>3 DEF EntryReady, Place, KeyAt
<1>6. pc'[Inserter] \notin {"delete", "deleted"}
  BY HashTableAssumption
<1>7. ASSUME NEW u \in Thread, pc'[u] = "search"
      PROVE  \E k \in 1 .. Len(chain[Place(u)]')  + 1 : SearchAt(u, k)'
  <2>1. CASE u = t
    BY <1>7, <2>1
  <2>2. CASE u # t
    <3>1. PICK k \in 1 .. Len(chain[Place(u)]) + 1 : SearchAt(u, k)
      BY <1>7, <2>2 DEF HashInv
    <3>2. call'[u] = call[u] /\ current'[u] = current[u] /\ promised'[u] = promised[u]
      BY <2>2
    <3>3. Place(u)' = Place(u)
      BY <3>2 DEF Place
    <3>4. At(Place(u), k)' = At(Place(u), k)
      BY <3>3 DEF At
    <3>5. Promise(u, k) => Promise(u, k)'
      BY <3>2, <3>3 DEF Promise, KeyAt
    <3>6. SearchAt(u, k)'
      BY <3>1, <3>2, <3>3, <3>4, <3>5 DEF SearchAt, KeyAt
    <3> QED
      BY <3>1, <3>3, <3>6
  <2> QED
    BY <2>1, <2>2
<1> QED
  BY <1>2, <1>3, <1>4, <1>5, <1>6, <1>7 DEF HashInv

LEMMA BeginInv == ASSUME TypeInv, TypeInv', HashInv, NEW t \in Thread, Begin(t) PROVE HashInv'
<1>1. pc' = [pc EXCEPT ![t] = "hash"] /\ answer' = [answer EXCEPT ![t] = "none"]
  BY DEF Begin, Goes
<1>2. PICK c \in Call : (c.data = "none" \/ t = Inserter) /\ call' = [call EXCEPT ![t] = c]
  BY DEF Begin
<1>3. pc'[t] = "hash" /\ answer'[t] = "none" /\ call'[t] = c
  BY <1>1, <1>2 DEF TypeInv, TypeOK
<1> QED
  BY <1>1, <1>2, <1>3, CallStep DEF Begin, TypeInv, TypeOK

LEMMA ReadSlotInv == ASSUME TypeInv, TypeInv', HashInv, NEW t \in Thread, ReadSlot(t) PROVE HashInv'
<1>1. /\ pc' = [pc EXCEPT ![t] = "search"] /\ current' = [current EXCEPT ![t] = tableAddr[Place(t)]]
      /\ promised' = [promised EXCEPT ![t] = Q!hashtable_find(contents, call[t].key)]
      /\ pc[t] = "hash" /\ UNCHANGED <<tableAddr, node, allocated, chain, entry, slot, call, answer>>
  BY DEF ReadSlot, Goes
<1>2. pc'[t] = "search" /\ current'[t] = tableAddr[Place(t)]
      /\ promised'[t] = Q!hashtable_find(contents, call[t].key)
  BY <1>1 DEF TypeInv, TypeOK
<1>3. pc[Inserter] \notin {"delete", "deleted"} /\ Chained /\ answer[t] = "none"
      /\ (t # Inserter => call[t].data = "none")
  BY <1>1 DEF HashInv, Phases
<1>4. Place(t) \in Slot /\ Place(t)' = Place(t) /\ call[t].key \in Key /\ Place(t) = hash[call[t].key]
  BY <1>1, PlaceType DEF Place
<1>5. SearchAt(t, 1)'
  <2>1. current'[t] = At(Place(t), 1)' /\ At(Place(t), 1)' = At(Place(t), 1)
    BY <1>1, <1>2, <1>3, <1>4 DEF Chained, At
  <2>2. \A i \in DOMAIN chain[Place(t)] : i \in Nat /\ i >= 1
    BY <1>4, CellsAre
  <2>3. Promise(t, 1)'
    <3>1. CASE call[t].key \in DOMAIN contents
      <4>1. PICK i \in DOMAIN chain[Place(t)] : KeyAt(Place(t), i) = call[t].key
        BY <1>3, <1>4, <3>1, ContentsAre
      <4>2. promised'[t] = node[chain[Place(t)][i]].data
        BY <1>2, <1>3, <1>4, <3>1, <4>1, ContentsAre DEF Q!hashtable_find
      <4> QED
        BY <1>1, <1>4, <2>2, <4>1, <4>2 DEF Promise, KeyAt
    <3>2. CASE call[t].key \notin DOMAIN contents
      <4>1. \A i \in DOMAIN chain[Place(t)] : KeyAt(Place(t), i) # call[t].key
        BY <1>3, <1>4, <3>2, ContentsAre
      <4>2. promised'[t] = "zero"
        BY <1>2, <3>2 DEF Q!hashtable_find
      <4> QED
        BY <1>1, <1>4, <4>1, <4>2 DEF Promise, KeyAt
    <3> QED
      BY <3>1, <3>2
  <2> QED
    BY <1>1, <1>4, <2>1, <2>2, <2>3 DEF SearchAt
<1>6. 1 \in 1 .. Len(chain[Place(t)']) + 1
  BY <1>4, CellsAre
<1> QED
  BY <1>1, <1>2, <1>3, <1>5, <1>6, CallStep DEF TypeInv, TypeOK

(* Where a search is. *)
LEMMA SearchIs ==
    ASSUME TypeInv, HashInv, NEW t \in Thread, pc[t] = "search"
    PROVE  \E k \in 1 .. Len(chain[Place(t)]) + 1 :
              /\ SearchAt(t, k)
              /\ current[t] # NULL => k \in DOMAIN chain[Place(t)] /\ current[t] = chain[Place(t)][k]
              /\ current[t] = NULL => k = Len(chain[Place(t)]) + 1
<1>1. PICK k \in 1 .. Len(chain[Place(t)]) + 1 : SearchAt(t, k)
  BY DEF HashInv
<1>2. current[t] = At(Place(t), k)
  BY <1>1 DEF SearchAt
<1> QED
  BY <1>1, <1>2, PlaceType, CellsAre

LEMMA SearchPhase ==
    ASSUME HashInv, NEW t \in Thread, pc[t] = "search"
    PROVE  /\ pc[Inserter] \notin {"delete", "deleted"} /\ Chained /\ answer[t] = "none"
           /\ t # Inserter => call[t].data = "none"
  BY DEF HashInv, Phases

LEMMA AdvanceInv == ASSUME TypeInv, TypeInv', HashInv, NEW t \in Thread, Advance(t) PROVE HashInv'
<1>1. /\ UNCHANGED <<tableAddr, node, allocated, chain, entry, slot, pc, call, answer, promised>>
      /\ pc[t] = "search" /\ current[t] # NULL /\ node[current[t]].key # call[t].key
      /\ current' = [current EXCEPT ![t] = node[current[t]].next]
  BY DEF Advance, Searching, AtKey, NextEntry
<1>2. PICK k \in DOMAIN chain[Place(t)] : SearchAt(t, k) /\ current[t] = chain[Place(t)][k]
  BY <1>1, SearchIs
<1>3. /\ Place(t) \in Slot /\ Place(t)' = Place(t)
      /\ k \in Nat /\ k + 1 \in 1 .. Len(chain[Place(t)]) + 1
      /\ \A i \in DOMAIN chain[Place(t)] : i \in Nat
  BY <1>1, PlaceType, CellsAre DEF Place
<1>4. current'[t] = At(Place(t), k + 1)
  BY <1>1, <1>2, <1>3, SearchPhase DEF Chained, TypeInv, TypeOK
<1>5. KeyAt(Place(t), k) # call[t].key
  BY <1>1, <1>2 DEF KeyAt
<1>6. \A i \in DOMAIN chain[Place(t)] :
         /\ i >= k => i = k \/ i >= k + 1
         /\ i >= k + 1 => i >= k
         /\ i < k + 1 => i = k \/ i < k
  BY <1>3
<1>7. SearchAt(t, k + 1)'
  <2>1. current'[t] = At(Place(t), k + 1)'
    BY <1>1, <1>3, <1>4 DEF At
  <2>2. Promise(t, k) => Promise(t, k + 1)'
    BY <1>1, <1>3, <1>5, <1>6 DEF Promise, KeyAt
  <2> QED
    BY <1>1, <1>2, <1>3, <1>5, <1>6, <2>1, <2>2 DEF SearchAt, KeyAt
<1>8. pc[Inserter] \notin {"delete", "deleted"} /\ answer[t] = "none" /\ (t # Inserter => call[t].data = "none")
  BY <1>1, SearchPhase
<1> QED
  BY <1>1, <1>3, <1>7, <1>8, CallStep DEF TypeInv, TypeOK

LEMMA ReturnInv ==
    ASSUME TypeInv, TypeInv', HashInv, NEW t \in Thread, Found(t) \/ NotFound(t)
    PROVE  HashInv'
<1>1. PICK v : v # "none" /\ Returns(t, v)
  <2>1. CASE Found(t)
    <3>1. ByteFound(t) \in Value
      BY <2>1 DEF Found, AtKey, ByteFound, Node, Pointer, TypeInv, TypeOK
    <3> QED
      BY <2>1, <3>1, HashTableAssumption DEF Found
  <2>2. CASE NotFound(t)
    BY <2>2 DEF NotFound
  <2> QED
    BY <2>1, <2>2
<1>2. /\ UNCHANGED <<tableAddr, node, allocated, chain, entry, slot, call>>
      /\ pc[t] = "search" /\ pc' = [pc EXCEPT ![t] = "idle"]
      /\ answer' = [answer EXCEPT ![t] = v] /\ current' = [current EXCEPT ![t] = NULL]
      /\ promised' = [promised EXCEPT ![t] = "zero"]
  BY <1>1 DEF Found, NotFound, Searching, Returns, Goes
<1>3. pc'[t] = "idle" /\ answer'[t] # "none"
  BY <1>1, <1>2 DEF TypeInv, TypeOK
<1>4. pc[Inserter] \notin {"delete", "deleted"} /\ (t # Inserter => call[t].data = "none")
  BY <1>2, SearchPhase
<1> QED
  BY <1>2, <1>3, <1>4, CallStep DEF TypeInv, TypeOK

LEMMA MallocFailsInv == ASSUME TypeInv, TypeInv', HashInv, MallocFails PROVE HashInv'
<1>1. /\ pc' = [pc EXCEPT ![Inserter] = "exited"] /\ pc[Inserter] = "search"
      /\ UNCHANGED <<tableAddr, node, allocated, call, current, entry, slot, answer, chain, promised>>
  BY DEF MallocFails, Inserting, Searching, Goes
<1>2. pc'[Inserter] = "exited" /\ Inserter \in Thread
  BY <1>1, HashTableAssumption DEF TypeInv, TypeOK
<1> QED
  BY <1>1, <1>2, CallStep DEF TypeInv, TypeOK

LEMMA FillEntryInv == ASSUME TypeInv, TypeInv', HashInv, FillEntry PROVE HashInv'
<1> DEFINE s == Place(Inserter)
<1>1. PICK c \in Cell \ allocated :
         /\ entry' = c /\ allocated' = allocated \cup {c}
         /\ node' = [node EXCEPT ![c] = [key |-> call[Inserter].key, data |-> call[Inserter].data,
                                         next |-> tableAddr[s]]]
  BY DEF FillEntry, FirstEntry
<1>2. /\ UNCHANGED <<tableAddr, call, current, slot, answer, chain, promised>>
      /\ pc' = [pc EXCEPT ![Inserter] = "publish"] /\ pc[Inserter] = "search"
      /\ call[Inserter].data # "none" /\ current[Inserter] = NULL /\ Inserter \in Thread
  BY HashTableAssumption DEF FillEntry, Inserting, Searching, Goes
<1>3. Chained /\ allocated = Linked /\ answer[Inserter] = "none"
  BY <1>2, SearchPhase DEF HashInv
<1>4. s \in Slot /\ Place(Inserter)' = s
  BY <1>2, PlaceType DEF Place
<1>5. pc'[Inserter] = "publish" /\ \A t \in Thread \ {Inserter} : pc'[t] = pc[t]
  BY <1>2 DEF TypeInv, TypeOK
<1>6. node'[c] = [key |-> call[Inserter].key, data |-> call[Inserter].data, next |-> tableAddr[s]]
      /\ \A d \in Linked : node'[d] = node[d]
  BY <1>1, <1>3 DEF TypeInv, TypeOK, Linked
<1>7. /\ \A r \in Slot : \A i : At(r, i)' = At(r, i)
      /\ \A r \in Slot : \A i \in DOMAIN chain[r] :
            node'[chain[r][i]] = node[chain[r][i]] /\ KeyAt(r, i)' = KeyAt(r, i)
      /\ Linked' = Linked
  <2>1. \A r \in Slot : \A i \in DOMAIN chain[r] : chain[r][i] \in Linked
    BY CellsAre
  <2> QED
    BY <1>2, <1>6, <2>1 DEF At, KeyAt, Linked, InChain
<1>8. Chained'
  BY <1>2, <1>3, <1>7 DEF Chained
<1>9. Phases'
  BY <1>2, <1>5 DEF HashInv, Phases
<1>10. EntryReady'
  <2>1. PICK k \in 1 .. Len(chain[s]) + 1 : SearchAt(Inserter, k) /\ k = Len(chain[s]) + 1
    BY <1>2, SearchIs
  <2>2. \A i \in DOMAIN chain[s] : i < k
    BY <1>4, <2>1, CellsAre
  <2>3. \A i \in DOMAIN chain[s] : KeyAt(s, i) # call[Inserter].key
    BY <1>2, <2>1, <2>2 DEF SearchAt
  <2>4. \A i \in DOMAIN chain[s] : KeyAt(s, i)' # call[Inserter].key
    BY <1>4, <1>7, <2>3
  <2>5. entry' \in Cell \ Linked' /\ allocated' = Linked' \cup {entry'}
    BY <1>1, <1>3, <1>7
  <2>6. node'[entry'] = [key |-> call'[Inserter].key, data |-> call'[Inserter].data,
                         next |-> tableAddr'[s]]
    BY <1>1, <1>2, <1>6
  <2> QED
    BY <1>2, <1>4, <2>4, <2>5, <2>6 DEF EntryReady
<1>11. ASSUME NEW t \in Thread, pc'[t] = "search"
       PROVE  \E k \in 1 .. Len(chain[Place(t)]') + 1 : SearchAt(t, k)'
  <2>1. PICK k \in 1 .. Len(chain[Place(t)]) + 1 : SearchAt(t, k)
    BY <1>5, <1>11 DEF HashInv
  <2>2. Place(t)' = Place(t) /\ Place(t) \in Slot
    BY <1>2, PlaceType DEF Place
  <2>3. Promise(t, k) => Promise(t, k)'
    BY <1>2, <1>7, <2>2 DEF Promise
  <2>4. SearchAt(t, k)'
    BY <1>2, <1>7, <2>1, <2>2, <2>3 DEF SearchAt
  <2> QED
    BY <1>2, <2>1, <2>2, <2>4
<1> QED
  BY <1>5, <1>8, <1>9, <1>10, <1>11 DEF HashInv

(* The new first entry moves the others one place on. *)
LEMMA Published ==
    ASSUME TypeInv, HashInv, PublishEntry, NEW s \in Slot, s = Place(Inserter)
    PROVE  /\ Len(chain'[s]) = Len(chain[s]) + 1 /\ DOMAIN chain'[s] = 1 .. Len(chain[s]) + 1
           /\ chain'[s][1] = entry /\ \A i \in DOMAIN chain[s] : chain'[s][i + 1] = chain[s][i]
           /\ \A r \in Slot \ {s} : chain'[r] = chain[r]
           /\ At(s, 1)' = entry /\ \A i \in 1 .. Len(chain[s]) + 1 : At(s, i + 1)' = At(s, i)
           /\ \A i \in DOMAIN chain'[s] : i = 1 \/ i - 1 \in DOMAIN chain[s]
           /\ Linked' = Linked \cup {entry}
<1>1. chain' = [chain EXCEPT ![s] = <<entry>> \o chain[s]]
  BY DEF PublishEntry
<1>2. chain \in [Slot -> Seq(Cell)] /\ <<entry>> \in Seq(Cell) /\ Len(<<entry>>) = 1 /\ <<entry>>[1] = entry
      /\ entry \in Cell
  BY DEF PublishEntry, TypeInv, TypeOK
<1>3. chain'[s] = <<entry>> \o chain[s] /\ \A r \in Slot \ {s} : chain'[r] = chain[r]
  BY <1>1, <1>2
<1>4. Len(chain[s]) \in Nat /\ DOMAIN chain[s] = 1 .. Len(chain[s])
  BY CellsAre
<1>5. /\ chain'[s] \in Seq(Cell) /\ Len(chain'[s]) = Len(chain[s]) + 1
      /\ \A i \in 1 .. Len(chain[s]) + 1 :
            chain'[s][i] = IF i <= 1 THEN entry ELSE chain[s][i - 1]
  BY <1>2, <1>3, <1>4, ConcatProperties
<1>6. DOMAIN chain'[s] = 1 .. Len(chain[s]) + 1
  BY <1>5
<1>7. chain'[s][1] = entry /\ \A i \in DOMAIN chain[s] : chain'[s][i + 1] = chain[s][i]
  BY <1>4, <1>5
<1>8. \A i \in DOMAIN chain'[s] : i = 1 \/ i - 1 \in DOMAIN chain[s]
  BY <1>4, <1>6
<1>9. At(s, 1)' = entry /\ \A i \in 1 .. Len(chain[s]) + 1 : At(s, i + 1)' = At(s, i)
  BY <1>4, <1>6, <1>7 DEF At
<1>10. ASSUME NEW c \in Linked' PROVE c \in Linked \cup {entry}
  <2>1. PICK r \in Slot : \E i \in DOMAIN chain'[r] : chain'[r][i] = c
    BY DEF Linked, InChain
  <2>2. PICK i \in DOMAIN chain'[r] : chain'[r][i] = c
    BY <2>1
  <2>3. CASE r = s /\ i # 1
    <3>1. i \in 1 .. Len(chain[s]) + 1 /\ i \in DOMAIN chain'[s] /\ chain'[s][i] = c
      BY <1>6, <2>2, <2>3
    <3>2. i - 1 \in DOMAIN chain[s]
      BY <1>8, <2>3, <3>1
    <3>3. ~(i <= 1)
      BY <1>4, <2>3, <3>1
    <3>4. chain[s][i - 1] = c
      BY <1>5, <3>1, <3>3
    <3> QED
      BY <3>2, <3>4, CellsAre
  <2>4. CASE r # s
    BY <1>3, <2>2, <2>4, CellsAre
  <2> QED
    BY <1>7, <2>2, <2>3, <2>4
<1>11. ASSUME NEW c \in Linked PROVE c \in Linked'
  <2>1. PICK r \in Slot : \E i \in DOMAIN chain[r] : chain[r][i] = c
    BY LinkedHas
  <2>2. PICK i \in DOMAIN chain[r] : chain[r][i] = c
    BY <2>1
  <2>3. \E j \in DOMAIN chain'[r] : chain'[r][j] = c
    BY <1>3, <1>4, <1>6, <1>7, <2>2
  <2>4. c \in Cell
    BY DEF Linked
  <2> QED
    BY <2>3, <2>4 DEF Linked, InChain
<1>12. entry \in Linked'
  BY <1>2, <1>4, <1>6, <1>7 DEF Linked, InChain
<1> QED
  BY <1>3, <1>5, <1>6, <1>7, <1>8, <1>9, <1>10, <1>11, <1>12

LEMMA PublishEntryInv == ASSUME TypeInv, TypeInv', HashInv, PublishEntry PROVE HashInv'
<1>1. PICK s \in Slot : s = Place(Inserter) /\ s = hash[call[Inserter].key]
  BY HashTableAssumption, PlaceType
<1>2. /\ UNCHANGED <<node, allocated, call, slot>> /\ pc[Inserter] = "publish" /\ Inserter \in Thread
      /\ pc' = [pc EXCEPT ![Inserter] = "idle"] /\ answer' = [answer EXCEPT ![Inserter] = "inserted"]
      /\ current' = [current EXCEPT ![Inserter] = NULL]
      /\ promised' = [promised EXCEPT ![Inserter] = "zero"]
      /\ tableAddr' = [tableAddr EXCEPT ![s] = entry]
  BY <1>1, HashTableAssumption DEF PublishEntry, Returns, Goes
<1>3. Chained /\ EntryReady
  BY <1>2 DEF HashInv
<1>4. /\ pc'[Inserter] = "idle" /\ answer'[Inserter] = "inserted"
      /\ \A t \in Thread \ {Inserter} : /\ pc'[t] = pc[t] /\ answer'[t] = answer[t]
                                       /\ current'[t] = current[t] /\ promised'[t] = promised[t]
      /\ tableAddr'[s] = entry /\ \A r \in Slot \ {s} : tableAddr'[r] = tableAddr[r]
  BY <1>1, <1>2 DEF TypeInv, TypeOK
<1>5. Len(chain[s]) \in Nat /\ DOMAIN chain[s] = 1 .. Len(chain[s])
  BY CellsAre
<1>6. /\ Len(chain'[s]) = Len(chain[s]) + 1 /\ DOMAIN chain'[s] = 1 .. Len(chain[s]) + 1
      /\ chain'[s][1] = entry /\ \A i \in DOMAIN chain[s] : chain'[s][i + 1] = chain[s][i]
      /\ \A r \in Slot \ {s} : chain'[r] = chain[r]
      /\ At(s, 1)' = entry /\ \A i \in 1 .. Len(chain[s]) + 1 : At(s, i + 1)' = At(s, i)
      /\ Linked' = Linked \cup {entry}
  BY <1>1, Published
<1>7. /\ KeyAt(s, 1)' = call[Inserter].key /\ \A i \in DOMAIN chain[s] : KeyAt(s, i + 1)' = KeyAt(s, i)
      /\ node[entry].key = call[Inserter].key /\ node[entry].next = tableAddr[s]
  <2>1. node[entry].key = call[Inserter].key /\ node[entry].next = tableAddr[s]
    <3>1. node[entry] = [key |-> call[Inserter].key, data |-> call[Inserter].data,
                         next |-> tableAddr[s]]
      BY <1>1, <1>3 DEF EntryReady
    <3>2. node[entry].key = call[Inserter].key
      BY <3>1
    <3>3. node[entry].next = tableAddr[s]
      BY <3>1
    <3> QED
      BY <3>2, <3>3
  <2>2. KeyAt(s, 1)' = call[Inserter].key
    BY <1>2, <1>6, <2>1 DEF KeyAt
  <2>3. \A i \in DOMAIN chain[s] : KeyAt(s, i + 1)' = KeyAt(s, i)
    BY <1>2, <1>6 DEF KeyAt
  <2> QED
    BY <2>1, <2>2, <2>3
<1>8. Chained'
  <2>1. ASSUME NEW r \in Slot \ {s}
        PROVE  /\ tableAddr'[r] = At(r, 1)'
               /\ \A i \in DOMAIN chain'[r] :
                     /\ node'[chain'[r][i]].next = At(r, i + 1)'
                     /\ hash[KeyAt(r, i)'] = r
                     /\ \A j \in DOMAIN chain'[r] : KeyAt(r, i)' = KeyAt(r, j)' => i = j
    BY <1>2, <1>3, <1>4, <1>6 DEF Chained, At, KeyAt
  <2>2. tableAddr'[s] = At(s, 1)'
    BY <1>4, <1>6
  <2>3. node'[chain'[s][1]].next = At(s, 2)' /\ hash[KeyAt(s, 1)'] = s
    BY <1>1, <1>2, <1>3, <1>5, <1>6, <1>7 DEF Chained
  <2>4. \A i \in DOMAIN chain[s] : node'[chain'[s][i + 1]].next = At(s, i + 2)' /\ hash[KeyAt(s, i + 1)'] = s
    <3>1. TAKE i \in DOMAIN chain[s]
    <3>2. chain'[s][i + 1] = chain[s][i] /\ KeyAt(s, i + 1)' = KeyAt(s, i) /\ At(s, i + 2)' = At(s, i + 1)
      BY <1>5, <1>6, <1>7
    <3> QED
      BY <1>2, <1>3, <3>2 DEF Chained
  <2>5. \A i \in DOMAIN chain[s] : KeyAt(s, i) # call[Inserter].key
    BY <1>1, <1>3 DEF EntryReady
  <2>6. \A i, j \in DOMAIN chain[s] : KeyAt(s, i) = KeyAt(s, j) => i = j
    BY <1>3 DEF Chained
  <2>7. ASSUME NEW i \in DOMAIN chain'[s]
        PROVE  /\ node'[chain'[s][i]].next = At(s, i + 1)' /\ hash[KeyAt(s, i)'] = s
               /\ \A j \in DOMAIN chain'[s] : KeyAt(s, i)' = KeyAt(s, j)' => i = j
    <3>1. \A j \in DOMAIN chain'[s] : j # 1 => \E h \in DOMAIN chain[s] : j = h + 1
      <4>1. TAKE j \in DOMAIN chain'[s]
      <4>2. j # 1 => j - 1 \in DOMAIN chain[s] /\ j = (j - 1) + 1
        BY <1>5, <1>6
      <4> QED
        BY <4>2
    <3>2. CASE i = 1
      <4>1. \A j \in DOMAIN chain'[s] : KeyAt(s, i)' = KeyAt(s, j)' => i = j
        BY <1>7, <2>5, <3>1, <3>2
      <4> QED
        BY <2>3, <3>2, <4>1
    <3>3. CASE i # 1
      <4>1. PICK h \in DOMAIN chain[s] : i = h + 1
        BY <3>1, <3>3
      <4>2. h + 2 = i + 1
        BY <1>5, <4>1
      <4>3. \A j \in DOMAIN chain'[s] : KeyAt(s, i)' = KeyAt(s, j)' => i = j
        BY <1>7, <2>5, <2>6, <3>1, <4>1
      <4> QED
        BY <2>4, <4>1, <4>2, <4>3
    <3> QED
      BY <3>2, <3>3
  <2> QED
    BY <2>1, <2>2, <2>7 DEF Chained
<1>9. Phases'
  <2>1. "inserted" # "none"
    OBVIOUS
  <2> QED
    BY <1>2, <1>4 DEF HashInv, Phases
<1>10. allocated' = Linked'
  BY <1>2, <1>3, <1>6 DEF EntryReady
<1>11. ASSUME NEW t \in Thread, pc'[t] = "search"
       PROVE  \E k \in 1 .. Len(chain[Place(t)]') + 1 : SearchAt(t, k)'
  <2>1. t # Inserter /\ pc[t] = "search"
    BY <1>4, <1>11
  <2>2. call[t].data = "none" /\ current'[t] = current[t] /\ promised'[t] = promised[t] /\ call'[t] = call[t]
    BY <1>2, <1>4, <2>1, SearchPhase
  <2>3. PICK k \in 1 .. Len(chain[Place(t)]) + 1 : SearchAt(t, k)
    BY <2>1 DEF HashInv
  <2>4. PICK r \in Slot : r = Place(t)
    BY PlaceType
  <2>5. Place(t)' = r
    BY <2>2, <2>4 DEF Place
  <2>6. CASE r # s
    <3>1. At(r, k)' = At(r, k) /\ \A i : KeyAt(r, i)' = KeyAt(r, i)
      BY <1>2, <1>6, <2>6 DEF At, KeyAt
    <3>2. Promise(t, k) => Promise(t, k)'
      BY <1>2, <1>6, <2>2, <2>4, <2>5, <2>6, <3>1 DEF Promise
    <3>3. SearchAt(t, k)' /\ chain'[r] = chain[r]
      BY <1>6, <2>2, <2>3, <2>4, <2>5, <2>6, <3>1, <3>2 DEF SearchAt
    <3> QED
      BY <2>3, <2>4, <2>5, <3>3
  <2>7. CASE r = s
    <3>1. k \in 1 .. Len(chain[s]) + 1 /\ k + 1 \in 1 .. Len(chain'[s]) + 1 /\ At(s, k + 1)' = At(s, k)
      BY <1>5, <1>6, <2>3, <2>4, <2>7
    <3>2. \A i \in DOMAIN chain[s] : i + 1 \in DOMAIN chain'[s] /\ (i >= k <=> i + 1 >= k + 1)
      BY <1>5, <1>6, <3>1
    <3>3. \A j \in DOMAIN chain'[s] : j >= k + 1 => \E i \in DOMAIN chain[s] : j = i + 1
      <4>1. TAKE j \in DOMAIN chain'[s]
      <4>2. j >= k + 1 => j - 1 \in DOMAIN chain[s] /\ j = (j - 1) + 1
        BY <1>5, <1>6, <3>1
      <4> QED
        BY <4>2
    <3>4. Promise(t, k)
      BY <2>2, <2>3 DEF SearchAt
    <3>5. Promise(t, k + 1)'
      <4>1. ASSUME NEW i \in DOMAIN chain[s], i >= k, KeyAt(s, i) = call[t].key,
                   promised[t] = node[chain[s][i]].data
            PROVE  Promise(t, k + 1)'
        BY <1>2, <1>6, <1>7, <2>2, <2>5, <2>7, <3>2, <4>1 DEF Promise
      <4>2. ASSUME promised[t] = "zero", \A i \in DOMAIN chain[s] : i >= k => KeyAt(s, i) # call[t].key
            PROVE  Promise(t, k + 1)'
        BY <1>7, <2>2, <2>5, <2>7, <3>2, <3>3, <4>2 DEF Promise
      <4> QED
        BY <2>4, <2>7, <3>4, <4>1, <4>2 DEF Promise
    <3>6. SearchAt(t, k + 1)'
      BY <2>2, <2>3, <2>4, <2>5, <2>7, <3>1, <3>5 DEF SearchAt
    <3> QED
      BY <2>5, <2>7, <3>1, <3>6
  <2> QED
    BY <2>6, <2>7
<1> QED
  BY <1>4, <1>8, <1>9, <1>10, <1>11 DEF HashInv

---------------------------------------------------------------------------
(* The deletion.                                                           *)

LEMMA CallDeleteInv == ASSUME TypeInv, TypeInv', HashInv, CallDelete PROVE HashInv'
<1>1. /\ UNCHANGED <<tableAddr, node, allocated, call, entry, answer, chain, promised>>
      /\ \A t \in Thread : pc[t] = "idle"
      /\ pc' = [pc EXCEPT ![Inserter] = "delete"] /\ slot' = 0 /\ Inserter \in Thread
      /\ current' = [current EXCEPT ![Inserter] = tableAddr[0]]
  BY HashTableAssumption DEF CallDelete, Goes
<1>2. pc'[Inserter] = "delete" /\ current'[Inserter] = tableAddr[0]
      /\ \A t \in Thread \ {Inserter} : pc'[t] = "idle"
  BY <1>1 DEF TypeInv, TypeOK
<1>3. 0 \in Slot /\ \A r \in Slot : r \in Nat /\ (r > 0 \/ r = 0)
  BY HashTableAssumption DEF Slot
<1>4. Chained /\ allocated = Linked /\ Phases
  BY <1>1 DEF HashInv
<1>5. Chained'
  BY <1>1, <1>4 DEF Chained, At, KeyAt
<1>6. Phases'
  BY <1>1, <1>2, <1>4 DEF Phases
<1>7. From(0, 1)' = Linked
  <2>1. \A r \in Slot : \A i \in DOMAIN chain[r] : i >= 1
    BY CellsAre
  <2> QED
    BY <1>1, <1>3, <2>1 DEF From, Linked, InChain
<1>8. DeleteAt(1)'
  BY <1>1, <1>2, <1>3, <1>4, <1>7 DEF DeleteAt, At, Chained
<1>9. 1 \in 1 .. Len(chain'[slot']) + 1
  BY <1>1, <1>3, CellsAre
<1> QED
  BY <1>2, <1>5, <1>6, <1>8, <1>9 DEF HashInv

(* Where a deletion is. *)
LEMMA DeleteIs ==
    ASSUME TypeInv, HashInv, pc[Inserter] = "delete"
    PROVE  \E k \in 1 .. Len(chain[slot]) + 1 :
              /\ k \in Nat /\ allocated = From(slot, k)
              /\ current[Inserter] # NULL =>
                    /\ k \in DOMAIN chain[slot] /\ k + 1 \in 1 .. Len(chain[slot]) + 1
                    /\ current[Inserter] = chain[slot][k]
              /\ current[Inserter] = NULL => k = Len(chain[slot]) + 1
<1>1. slot \in Slot
  BY DEF TypeInv, TypeOK
<1>2. PICK k \in 1 .. Len(chain[slot]) + 1 : DeleteAt(k)
  BY DEF HashInv
<1>3. current[Inserter] = At(slot, k) /\ allocated = From(slot, k)
  BY <1>2 DEF DeleteAt
<1>4. Len(chain[slot]) \in Nat /\ DOMAIN chain[slot] = 1 .. Len(chain[slot])
  BY <1>1, CellsAre
<1>5. k \in Nat /\ (k \in DOMAIN chain[slot] => k + 1 \in 1 .. Len(chain[slot]) + 1)
      /\ (k \notin DOMAIN chain[slot] => k = Len(chain[slot]) + 1)
  BY <1>4
<1>6. \A i \in DOMAIN chain[slot] : At(slot, i) = chain[slot][i] /\ At(slot, i) # NULL
  BY <1>1, CellsAre
<1>7. At(slot, Len(chain[slot]) + 1) = NULL
  BY <1>1, CellsAre
<1> QED
  BY <1>3, <1>5, <1>6, <1>7

LEMMA FreeEntryInv == ASSUME TypeInv, TypeInv', HashInv, FreeEntry PROVE HashInv'
<1>1. /\ UNCHANGED <<tableAddr, node, pc, call, entry, slot, answer, chain, promised>>
      /\ pc[Inserter] = "delete" /\ current[Inserter] # NULL /\ slot \in Slot /\ Inserter \in Thread
      /\ allocated' = allocated \ {current[Inserter]}
      /\ current' = [current EXCEPT ![Inserter] = node[current[Inserter]].next]
  BY HashTableAssumption DEF FreeEntry, MoreToFree, TypeInv, TypeOK
<1>2. Chained /\ Phases
  BY <1>1 DEF HashInv
<1>3. PICK k \in DOMAIN chain[slot] :
         /\ k \in Nat /\ k + 1 \in 1 .. Len(chain[slot]) + 1
         /\ allocated = From(slot, k) /\ current[Inserter] = chain[slot][k]
  BY <1>1, DeleteIs
<1>4. current'[Inserter] = At(slot, k + 1)
  BY <1>1, <1>2, <1>3 DEF Chained, TypeInv, TypeOK
<1>5. \A r \in Slot : \A i \in DOMAIN chain[r] : chain[r][i] = chain[slot][k] => r = slot /\ i = k
  BY <1>1, <1>2, <1>3, OnePlace DEF KeyAt
<1>6. \A i \in DOMAIN chain[slot] : (i >= k /\ i # k <=> i >= k + 1)
  BY <1>1, <1>3, CellsAre
<1>7. slot \in Nat /\ \A r \in Slot : r \in Nat
  BY <1>1, HashTableAssumption DEF Slot
<1>8. From(slot, k) \ {chain[slot][k]} = From(slot, k + 1)
  <2>1. ASSUME NEW c \in From(slot, k), c # chain[slot][k] PROVE c \in From(slot, k + 1)
    BY <1>6, <2>1 DEF From
  <2>2. ASSUME NEW c \in From(slot, k + 1) PROVE c \in From(slot, k) /\ c # chain[slot][k]
    <3>1. PICK r \in Slot : \E i \in DOMAIN chain[r] :
                     chain[r][i] = c /\ (r > slot \/ (r = slot /\ i >= k + 1))
      BY DEF From
    <3>2. PICK i \in DOMAIN chain[r] : chain[r][i] = c /\ (r > slot \/ (r = slot /\ i >= k + 1))
      BY <3>1
    <3>3. c \in Cell
      BY DEF From
    <3>4. c \in From(slot, k)
      BY <1>6, <3>2, <3>3 DEF From
    <3>5. c # chain[slot][k]
      BY <1>5, <1>6, <1>7, <3>2
    <3> QED
      BY <3>4, <3>5
  <2> QED
    BY <2>1, <2>2
<1>9. DeleteAt(k + 1)'
  BY <1>1, <1>3, <1>4, <1>8 DEF DeleteAt, At, From
<1>10. Chained' /\ Phases'
  BY <1>1, <1>2 DEF Chained, At, KeyAt, Phases
<1>11. \A t \in Thread : pc'[t] # "search"
  BY <1>1, <1>2 DEF Phases
<1> QED
  BY <1>1, <1>3, <1>9, <1>10, <1>11 DEF HashInv

LEMMA NextSlotInv == ASSUME TypeInv, TypeInv', HashInv, NextSlot PROVE HashInv'
<1>1. /\ UNCHANGED <<tableAddr, node, allocated, pc, call, entry, answer, chain, promised>>
      /\ pc[Inserter] = "delete" /\ current[Inserter] = NULL /\ slot \in Slot /\ Inserter \in Thread
      /\ slot + 1 \in Slot /\ slot' = slot + 1
      /\ current' = [current EXCEPT ![Inserter] = tableAddr[slot + 1]]
  BY HashTableAssumption DEF NextSlot, TypeInv, TypeOK
<1>2. Chained /\ Phases
  BY <1>1 DEF HashInv
<1>3. allocated = From(slot, Len(chain[slot]) + 1)
  BY <1>1, DeleteIs
<1>4. current'[Inserter] = At(slot + 1, 1)
  BY <1>1, <1>2 DEF Chained, TypeInv, TypeOK
<1>5. /\ \A i \in DOMAIN chain[slot] : ~(i >= Len(chain[slot]) + 1)
      /\ \A i \in DOMAIN chain[slot + 1] : i >= 1
      /\ slot \in Nat /\ \A r \in Slot : r \in Nat
  BY <1>1, CellsAre, HashTableAssumption DEF Slot
<1>6. \A r \in Slot : (r > slot <=> r > slot + 1 \/ r = slot + 1)
  BY <1>5
<1>7. From(slot, Len(chain[slot]) + 1) = From(slot + 1, 1)
  BY <1>5, <1>6 DEF From
<1>8. DeleteAt(1)'
  BY <1>1, <1>3, <1>4, <1>7 DEF DeleteAt, At, From
<1>9. 1 \in 1 .. Len(chain'[slot']) + 1
  BY <1>1, CellsAre
<1>10. Chained' /\ Phases'
  BY <1>1, <1>2 DEF Chained, At, KeyAt, Phases
<1>11. \A t \in Thread : pc'[t] # "search"
  BY <1>1, <1>2 DEF Phases
<1> QED
  BY <1>1, <1>8, <1>9, <1>10, <1>11 DEF HashInv

LEMMA DeleteEndsInv == ASSUME TypeInv, TypeInv', HashInv, DeleteEnds PROVE HashInv'
<1>1. /\ UNCHANGED <<tableAddr, allocated, call, current, entry, answer, promised>>
      /\ pc[Inserter] = "delete" /\ current[Inserter] = NULL /\ slot \in Slot /\ Inserter \in Thread
      /\ slot + 1 \notin Slot /\ chain' = [s \in Slot |-> <<>>]
      /\ pc' = [pc EXCEPT ![Inserter] = "deleted"]
  BY HashTableAssumption DEF DeleteEnds, Goes, TypeInv, TypeOK
<1>2. Phases
  BY DEF HashInv
<1>3. pc'[Inserter] = "deleted" /\ \A t \in Thread \ {Inserter} : pc'[t] = pc[t]
  BY <1>1 DEF TypeInv, TypeOK
<1>4. Phases'
  BY <1>1, <1>2, <1>3 DEF Phases
<1>5. allocated = From(slot, Len(chain[slot]) + 1)
  BY <1>1, DeleteIs
<1>6. \A i \in DOMAIN chain[slot] : ~(i >= Len(chain[slot]) + 1)
  BY <1>1, CellsAre
<1>7. \A r \in Slot : ~(r > slot)
  BY <1>1, HashTableAssumption DEF Slot
<1>8. From(slot, Len(chain[slot]) + 1) = {}
  BY <1>6, <1>7 DEF From
<1>9. \A t \in Thread : pc'[t] # "search"
  BY <1>1, <1>2, <1>3 DEF Phases
<1> QED
  BY <1>1, <1>3, <1>4, <1>5, <1>8, <1>9 DEF HashInv

LEMMA NewInv == ASSUME TypeInv, TypeInv', HashInv, New PROVE HashInv'
<1>1. /\ UNCHANGED <<node, allocated, call, current, entry, slot, answer, chain, promised>>
      /\ pc[Inserter] = "deleted" /\ Inserter \in Thread
      /\ tableAddr' = [s \in Slot |-> NULL]
      /\ \E p \in {"idle", "exited"} : pc' = [pc EXCEPT ![Inserter] = p]
  BY HashTableAssumption DEF New, Goes
<1>2. Phases /\ allocated = {} /\ \A s \in Slot : chain[s] = <<>> /\ DOMAIN chain[s] = {}
  BY <1>1 DEF HashInv
<1>3. pc'[Inserter] \in {"idle", "exited"} /\ \A t \in Thread \ {Inserter} : pc'[t] = "idle"
  BY <1>1, <1>2 DEF Phases, TypeInv, TypeOK
<1>4. Phases'
  BY <1>1, <1>2, <1>3 DEF Phases
<1>5. Linked' = {} /\ Chained'
  BY <1>1, <1>2 DEF Linked, InChain, Chained, At
<1> QED
  BY <1>1, <1>2, <1>3, <1>4, <1>5 DEF HashInv

LEMMA HashStep == TypeInv /\ TypeInv' /\ HashInv /\ [Next]_vars => HashInv'
<1> SUFFICES ASSUME TypeInv, TypeInv', HashInv, [Next]_vars PROVE HashInv'
  OBVIOUS
<1>1. CASE UNCHANGED vars
  <2>1. Phases' = Phases /\ Chained' = Chained /\ Linked' = Linked /\ EntryReady' = EntryReady
    BY <1>1 DEF vars, Phases, Chained, At, KeyAt, Linked, InChain, EntryReady, Place
  <2>2. \A t, k : SearchAt(t, k)' = SearchAt(t, k)
    BY <1>1 DEF vars, SearchAt, Promise, Place, At, KeyAt
  <2>3. \A k : DeleteAt(k)' = DeleteAt(k)
    BY <1>1 DEF vars, DeleteAt, At, From
  <2> QED
    BY <1>1, <2>1, <2>2, <2>3 DEF vars, HashInv, Place
<1> QED
  BY <1>1, BeginInv, ReadSlotInv, AdvanceInv, ReturnInv, FillEntryInv, MallocFailsInv,
     PublishEntryInv, CallDeleteInv, FreeEntryInv, NextSlotInv, DeleteEndsInv, NewInv
     DEF Next, Search, Insert, Delete, Exited

(* Every variable keeps its type. *)
THEOREM TypeCorrect == Spec => []TypeOK
<1>1. TypeInv => TypeOK
  BY DEF TypeInv
<1> QED
  BY TypeInit, TypeNext, <1>1, PTL DEF Spec

LEMMA HashHolds == Spec => [](TypeInv /\ HashInv)
  BY TypeInit, TypeNext, HashInit, HashStep, PTL DEF Spec

(* A search that runs beside an insertion never meets an entry that is     *)
(* half-linked, freed or of another slot, and no key has two entries.      *)
THEOREM ChainsAlwaysLinked == Spec => []ChainsLinked
<1>1. ASSUME TypeInv, HashInv PROVE ChainsLinked
  <2>1. SUFFICES ASSUME pc[Inserter] \notin {"delete", "deleted"} PROVE ChainsLinked
    BY DEF ChainsLinked
  <2>2. Chained
    BY <1>1, <2>1 DEF HashInv
  <2>3. Linked \subseteq allocated
    <3>1. pc[Inserter] \in {"idle", "hash", "search", "exited", "publish"}
      BY <1>1, <2>1, HashTableAssumption DEF TypeInv, TypeOK
    <3> QED
      BY <1>1, <3>1 DEF HashInv, EntryReady
  <2>4. ASSUME NEW s \in Slot, NEW i \in DOMAIN chain[s]
        PROVE  /\ chain[s][i] \in allocated /\ node[chain[s][i]].next = At(s, i + 1)
               /\ hash[node[chain[s][i]].key] = s
               /\ \A j \in DOMAIN chain[s] : node[chain[s][i]].key = node[chain[s][j]].key => i = j
    BY <1>1, <2>2, <2>3, <2>4, CellsAre DEF Chained, KeyAt
  <2>5. \A s \in Slot : tableAddr[s] = At(s, 1)
    BY <2>2 DEF Chained
  <2> QED
    BY <2>4, <2>5 DEF ChainsLinked, At
<1> QED
  BY <1>1, HashHolds, PTL

(* hashtable_delete frees every entry, and each of them once; between the  *)
(* calls every entry in use can be found.                                  *)
THEOREM NeverLeaks == Spec => []NoLeak
<1>1. ASSUME TypeInv, HashInv PROVE NoLeak
  <2>1. ASSUME pc[Inserter] = "delete", current[Inserter] # NULL PROVE current[Inserter] \in allocated
    <3>1. slot \in Slot
      BY <1>1 DEF TypeInv, TypeOK
    <3>2. PICK k \in DOMAIN chain[slot] :
             k \in Nat /\ allocated = From(slot, k) /\ current[Inserter] = chain[slot][k]
      BY <1>1, <2>1, DeleteIs
    <3>3. chain[slot][k] \in Cell /\ k >= k
      BY <1>1, <3>1, <3>2, CellsAre
    <3> QED
      BY <3>1, <3>2, <3>3 DEF From
  <2> QED
    BY <1>1, <2>1 DEF HashInv, NoLeak
<1> QED
  BY <1>1, HashHolds, PTL

---------------------------------------------------------------------------
(* The refinement.                                                         *)

(* What FirstByteMap's answer is mapped to. *)
Answers ==
    [t \in Thread |-> IF pc[t] = "search" /\ call[t].data = "none" THEN promised[t] ELSE answer[t]]

LEMMA InitRefines == Init => Q!Init
<1> SUFFICES ASSUME Init PROVE Q!Init
  OBVIOUS
<1>1. TypeInv
  BY TypeInit
<1>2. Linked = {}
  BY DEF Init, Linked, InChain
<1>3. contents = <<>>
  BY <1>2 DEF contents
<1>4. Answers = [t \in Thread |-> "zero"]
  BY DEF Init, Answers
<1> QED
  BY <1>1, <1>3, <1>4 DEF Q!Init, Q!hashtable_new, Answers, TypeInv, TypeOK

LEMMA ContentsSame == ASSUME UNCHANGED <<node, chain>> PROVE contents' = contents
  BY DEF contents, Linked, InChain

LEMMA ContentsFunction ==
    ASSUME NEW g, g = [k \in DOMAIN g |-> g[k]], DOMAIN contents' = DOMAIN g,
           \A k \in DOMAIN g : contents'[k] = g[k]
    PROVE  contents' = g
<1>1. contents' = [k \in DOMAIN contents' |-> contents'[k]]
  BY DEF contents
<1> QED
  BY <1>1

(* A step that leaves the map alone and changes one answer at most. *)
LEMMA AnswersBut ==
    ASSUME TypeInv, NEW t \in Thread,
           \A u \in Thread \ {t} :
              pc'[u] = pc[u] /\ call'[u] = call[u] /\ promised'[u] = promised[u] /\ answer'[u] = answer[u]
    PROVE  Answers' = [Answers EXCEPT ![t] = Answers'[t]]
  BY DEF Answers

LEMMA BeginRefines == ASSUME TypeInv, HashInv, NEW t \in Thread, Begin(t) PROVE Q!Begin(t)
<1>1. /\ pc' = [pc EXCEPT ![t] = "hash"] /\ answer' = [answer EXCEPT ![t] = "none"]
      /\ UNCHANGED <<node, chain, promised>> /\ pc[t] = "idle"
  BY DEF Begin, Goes
<1>2. PICK c \in Call : call' = [call EXCEPT ![t] = c]
  BY DEF Begin
<1>3. Answers[t] # "none"
  BY <1>1 DEF HashInv, Phases, Answers
<1>4. Answers'[t] = "none"
  BY <1>1 DEF Answers, TypeInv, TypeOK
<1>5. Answers' = [Answers EXCEPT ![t] = "none"]
  BY <1>1, <1>2, <1>4, AnswersBut DEF TypeInv, TypeOK
<1>6. contents' = contents
  BY <1>1, ContentsSame
<1> QED
  BY <1>2, <1>3, <1>5, <1>6 DEF Q!Begin, Answers

LEMMA ReadSlotRefines ==
    ASSUME TypeInv, HashInv, NEW t \in Thread, ReadSlot(t)
    PROVE  Q!Find(t) \/ UNCHANGED <<contents, call, Answers>>
<1>1. /\ pc' = [pc EXCEPT ![t] = "search"] /\ pc[t] = "hash"
      /\ promised' = [promised EXCEPT ![t] = Q!hashtable_find(contents, call[t].key)]
      /\ UNCHANGED <<node, chain, call, answer>>
  BY DEF ReadSlot, Goes
<1>2. pc'[t] = "search" /\ promised'[t] = Q!hashtable_find(contents, call[t].key)
  BY <1>1 DEF TypeInv, TypeOK
<1>3. answer[t] = "none" /\ Answers[t] = "none"
  BY <1>1 DEF HashInv, Phases, Answers
<1>4. Answers' = [Answers EXCEPT ![t] = Answers'[t]]
  BY <1>1, AnswersBut DEF TypeInv, TypeOK
<1>5. contents' = contents
  BY <1>1, ContentsSame
<1>6. CASE call[t].data = "none"
  <2>1. Answers'[t] = Q!hashtable_find(contents, call[t].key)
    BY <1>1, <1>2, <1>6 DEF Answers
  <2>2. Answers' = [Answers EXCEPT ![t] = Q!hashtable_find(contents, call[t].key)]
    BY <1>4, <2>1
  <2> QED
    BY <1>1, <1>3, <1>5, <1>6, <2>2 DEF Q!Find, Answers
<1>7. CASE call[t].data # "none"
  <2>1. Answers'[t] = "none"
    BY <1>1, <1>3, <1>7 DEF Answers
  <2>2. Answers' = Answers
    BY <1>3, <1>4, <2>1 DEF Answers
  <2> QED
    BY <1>1, <1>5, <2>2
<1> QED
  BY <1>6, <1>7

(* A call that returns leaves the table alone. *)
LEMMA ReturnsAre ==
    ASSUME TypeInv, HashInv, NEW t \in Thread, NEW v, pc[t] = "search", Returns(t, v),
           UNCHANGED <<node, call, chain>>
    PROVE  /\ Answers' = [Answers EXCEPT ![t] = v] /\ contents' = contents /\ call' = call
           /\ Answers[t] = IF call[t].data = "none" THEN promised[t] ELSE "none"
<1>1. /\ pc' = [pc EXCEPT ![t] = "idle"] /\ answer' = [answer EXCEPT ![t] = v]
      /\ promised' = [promised EXCEPT ![t] = "zero"]
  BY DEF Returns, Goes
<1>2. Answers'[t] = v
  BY <1>1 DEF Answers, TypeInv, TypeOK
<1>3. Answers' = [Answers EXCEPT ![t] = v]
  BY <1>1, <1>2, AnswersBut DEF TypeInv, TypeOK
<1>4. Answers[t] = IF call[t].data = "none" THEN promised[t] ELSE "none"
  BY SearchPhase DEF Answers
<1> QED
  BY <1>3, <1>4, ContentsSame

LEMMA FoundRefines ==
    ASSUME TypeInv, HashInv, NEW t \in Thread, Found(t)
    PROVE  Q!Insert(t) \/ UNCHANGED <<contents, call, Answers>>
<1>1. /\ pc[t] = "search" /\ UNCHANGED <<node, call, chain>>
      /\ current[t] # NULL /\ node[current[t]].key = call[t].key
      /\ Returns(t, IF call[t].data = "none" THEN node[current[t]].data ELSE "present")
  BY DEF Found, Searching, AtKey, ByteFound
<1>2. PICK s \in Slot : s = Place(t)
  BY PlaceType
<1>3. PICK k \in DOMAIN chain[s] : SearchAt(t, k) /\ current[t] = chain[s][k]
  BY <1>1, <1>2, SearchIs
<1>4. KeyAt(s, k) = call[t].key /\ Chained
  BY <1>1, <1>3, SearchPhase DEF KeyAt
<1>5. k >= k
  BY <1>2, CellsAre
<1>6. CASE call[t].data = "none"
  <2>1. Answers' = [Answers EXCEPT ![t] = node[chain[s][k]].data]
        /\ contents' = contents /\ call' = call /\ Answers[t] = promised[t]
    BY <1>1, <1>3, <1>6, ReturnsAre
  <2>2. promised[t] = node[chain[s][k]].data
    <3>1. Promise(t, k)
      BY <1>3, <1>6 DEF SearchAt
    <3>2. \A i \in DOMAIN chain[s] : KeyAt(s, i) = call[t].key => i = k
      BY <1>4, OnePlace
    <3> QED
      BY <1>2, <1>4, <1>5, <3>1, <3>2 DEF Promise
  <2>3. Answers' = Answers
    BY <2>1, <2>2 DEF Answers
  <2> QED
    BY <2>1, <2>3
<1>7. CASE call[t].data # "none"
  <2>1. Answers' = [Answers EXCEPT ![t] = "present"] /\ contents' = contents /\ call' = call
        /\ Answers[t] = "none"
    BY <1>1, <1>7, ReturnsAre
  <2>2. call[t].key \in DOMAIN contents
    BY <1>4, ContentsAre
  <2> QED
    BY <1>7, <2>1, <2>2 DEF Q!Insert, Q!hashtable_insert, Answers
<1> QED
  BY <1>6, <1>7

LEMMA NotFoundRefines ==
    ASSUME TypeInv, HashInv, NEW t \in Thread, NotFound(t)
    PROVE  UNCHANGED <<contents, call, Answers>>
<1>1. /\ pc[t] = "search" /\ UNCHANGED <<node, call, chain>> /\ Returns(t, "zero")
      /\ current[t] = NULL /\ call[t].data = "none"
  BY DEF NotFound, Searching
<1>2. PICK s \in Slot : s = Place(t)
  BY PlaceType
<1>3. SearchAt(t, Len(chain[s]) + 1)
  BY <1>1, <1>2, SearchIs
<1>4. promised[t] = "zero"
  <2>1. Promise(t, Len(chain[s]) + 1)
    BY <1>1, <1>3 DEF SearchAt
  <2>2. \A i \in DOMAIN chain[s] : ~(i >= Len(chain[s]) + 1)
    BY CellsAre
  <2> QED
    BY <1>2, <2>1, <2>2 DEF Promise
<1>5. Answers' = [Answers EXCEPT ![t] = "zero"] /\ Answers[t] = "zero" /\ contents' = contents /\ call' = call
  BY <1>1, <1>4, ReturnsAre
<1>6. Answers' = Answers
  BY <1>5 DEF Answers
<1> QED
  BY <1>5, <1>6

LEMMA FillEntryRefines ==
    ASSUME TypeInv, HashInv, FillEntry
    PROVE  UNCHANGED <<contents, call, Answers>>
<1>1. PICK c \in Cell \ allocated :
         node' = [node EXCEPT ![c] = [key |-> call[Inserter].key, data |-> call[Inserter].data,
                                      next |-> FirstEntry]]
  BY DEF FillEntry
<1>2. /\ UNCHANGED <<call, chain, answer, promised>> /\ pc' = [pc EXCEPT ![Inserter] = "publish"]
      /\ pc[Inserter] = "search" /\ call[Inserter].data # "none" /\ Inserter \in Thread
  BY HashTableAssumption DEF FillEntry, Inserting, Searching, Goes
<1>3. allocated = Linked
  BY <1>2 DEF HashInv
<1>4. Linked' = Linked /\ \A d \in Linked : node'[d] = node[d]
  BY <1>1, <1>2, <1>3 DEF Linked, InChain, TypeInv, TypeOK
<1>5. {node'[d].key : d \in Linked} = {node[d].key : d \in Linked}
  BY <1>4
<1>6. ASSUME NEW k PROVE {d \in Linked : node'[d].key = k} = {d \in Linked : node[d].key = k}
  BY <1>4
<1>7. contents' = contents
  <2>1. DOMAIN contents' = DOMAIN contents
    BY <1>4, <1>5 DEF contents
  <2>2. ASSUME NEW k \in DOMAIN contents PROVE contents'[k] = contents[k]
    <3>1. PICK c1 \in Linked : node[c1].key = k /\ contents[k] = node[c1].data
      BY ContentsPick
    <3>2. (CHOOSE d \in Linked : node'[d].key = k) = CHOOSE d \in Linked : node[d].key = k
      BY <1>4
    <3>3. (CHOOSE d \in Linked : node[d].key = k) \in Linked
      BY <3>1
    <3>4. contents'[k] = node'[CHOOSE d \in Linked : node'[d].key = k].data
      BY <1>4, <2>1 DEF contents
    <3>5. contents[k] = node[CHOOSE d \in Linked : node[d].key = k].data
      BY DEF contents
    <3> QED
      BY <1>4, <3>2, <3>3, <3>4, <3>5
  <2>3. contents = [k \in DOMAIN contents |-> contents[k]]
    BY DEF contents
  <2> QED
    BY <2>1, <2>2, <2>3, ContentsFunction
<1>8. Answers' = Answers
  BY <1>2 DEF Answers, TypeInv, TypeOK
<1> QED
  BY <1>2, <1>7, <1>8

LEMMA PublishEntryRefines ==
    ASSUME TypeInv, TypeInv', HashInv, HashInv', PublishEntry
    PROVE  Q!Insert(Inserter)
<1>1. PICK s \in Slot : s = Place(Inserter) /\ s = hash[call[Inserter].key]
  BY HashTableAssumption, PlaceType
<1>2. /\ UNCHANGED <<node, call>> /\ pc[Inserter] = "publish" /\ Inserter \in Thread
      /\ pc' = [pc EXCEPT ![Inserter] = "idle"] /\ answer' = [answer EXCEPT ![Inserter] = "inserted"]
      /\ promised' = [promised EXCEPT ![Inserter] = "zero"]
  BY HashTableAssumption DEF PublishEntry, Returns, Goes
<1>3. pc'[Inserter] = "idle" /\ answer'[Inserter] = "inserted"
  BY <1>2 DEF TypeInv, TypeOK
<1>4. /\ Chained /\ Chained' /\ EntryReady /\ answer[Inserter] = "none" /\ call[Inserter].data # "none"
  BY <1>2, <1>3 DEF HashInv, Phases
<1>5. /\ node[entry] = [key |-> call[Inserter].key, data |-> call[Inserter].data,
                        next |-> tableAddr[Place(Inserter)]]
      /\ \A i \in DOMAIN chain[s] : KeyAt(s, i) # call[Inserter].key
  BY <1>1, <1>4 DEF EntryReady
<1>6. node[entry].key = call[Inserter].key /\ node[entry].data = call[Inserter].data
  <2>1. node[entry].key = call[Inserter].key
    BY <1>5
  <2>2. node[entry].data = call[Inserter].data
    BY <1>5
  <2> QED
    BY <2>1, <2>2
<1>7. Linked' = Linked \cup {entry}
  BY <1>1, Published
<1>8. call[Inserter].key \notin DOMAIN contents
  BY <1>1, <1>4, <1>5, ContentsAre
<1> DEFINE k0 == call[Inserter].key
           g == [k \in DOMAIN contents \cup {k0} |-> IF k = k0 THEN call[Inserter].data ELSE contents[k]]
<1>9. DOMAIN contents' = DOMAIN contents \cup {k0}
  BY <1>2, <1>6, <1>7 DEF contents
<1>10. \A k \in DOMAIN contents' : \E c \in Linked' : node[c].key = k /\ contents'[k] = node[c].data
  <2>1. KeysHaveEntries'
    BY KeysAreOfEntries, PTL
  <2> QED
    BY <1>2, <2>1 DEF KeysHaveEntries
<1>11. ASSUME NEW k \in DOMAIN g PROVE contents'[k] = g[k]
  <2>1. PICK c \in Linked' : node[c].key = k /\ contents'[k] = node[c].data
    BY <1>9, <1>10
  <2>2. CASE c = entry
    BY <1>6, <2>1, <2>2
  <2>3. CASE c # entry
    <3>1. k \in DOMAIN contents /\ contents[k] = node[c].data
      BY <1>4, <1>7, <2>1, <2>3, ContentsOf
    <3> QED
      BY <1>8, <2>1, <3>1
  <2> QED
    BY <2>2, <2>3
<1>12. contents' = g
  BY <1>9, <1>11, ContentsFunction
<1>13. contents' = Q!hashtable_insert(contents, call[Inserter].key, call[Inserter].data)
  BY <1>8, <1>12 DEF Q!hashtable_insert
<1>14. Answers[Inserter] = "none" /\ Answers'[Inserter] = "inserted"
  BY <1>2, <1>3, <1>4 DEF Answers
<1>15. Answers' = [Answers EXCEPT ![Inserter] = "inserted"]
  BY <1>2, <1>14, AnswersBut DEF TypeInv, TypeOK
<1> QED
  BY <1>2, <1>4, <1>8, <1>13, <1>14, <1>15 DEF Q!Insert, Answers

LEMMA DeleteEndsRefines == ASSUME TypeInv, HashInv, DeleteEnds PROVE Q!Delete
<1>1. /\ UNCHANGED <<call, answer, promised>> /\ chain' = [s \in Slot |-> <<>>]
      /\ pc' = [pc EXCEPT ![Inserter] = "deleted"] /\ pc[Inserter] = "delete" /\ Inserter \in Thread
  BY HashTableAssumption DEF DeleteEnds, Goes
<1>2. Linked' = {}
  BY <1>1 DEF Linked, InChain
<1>3. contents' = <<>>
  BY <1>2 DEF contents
<1>4. Answers' = Answers
  BY <1>1 DEF Answers, TypeInv, TypeOK
<1> QED
  BY <1>1, <1>3, <1>4 DEF Q!Delete, Q!hashtable_new, Answers

LEMMA StepRefines ==
    ASSUME TypeInv, TypeInv', HashInv, HashInv', [Next]_vars
    PROVE  [Q!Next]_<<contents, call, Answers>>
<1>1. CASE UNCHANGED vars
  BY <1>1 DEF vars, contents, Linked, InChain, Answers
<1>2. ASSUME NEW t \in Thread, Begin(t) \/ Search(t) PROVE [Q!Next]_<<contents, call, Answers>>
  <2>1. CASE Advance(t)
    <3>1. UNCHANGED <<node, chain, call, pc, answer, promised>>
      BY <2>1 DEF Advance
    <3> QED
      BY <3>1, ContentsSame DEF Answers
  <2> QED
    BY <1>2, <2>1, BeginRefines, ReadSlotRefines, FoundRefines, NotFoundRefines DEF Search, Q!Next
<1>3. CASE FillEntry
  BY <1>3, FillEntryRefines
<1>4. CASE PublishEntry
  BY <1>4, PublishEntryRefines, HashTableAssumption DEF Q!Next
<1>5. CASE MallocFails \/ CallDelete \/ FreeEntry \/ NextSlot \/ New
  <2>1. UNCHANGED <<node, chain, call, answer, promised>>
    BY <1>5 DEF MallocFails, CallDelete, FreeEntry, NextSlot, New
  <2>2. contents' = contents
    BY <2>1, ContentsSame
  <2>3. ASSUME call[Inserter].data # "none" \/ (pc[Inserter] # "search" /\ pc'[Inserter] # "search"),
               \A t \in Thread \ {Inserter} : pc'[t] = pc[t]
        PROVE  Answers' = Answers
    BY <2>1, <2>3 DEF Answers
  <2>4. CASE MallocFails
    <3>1. call[Inserter].data # "none" /\ pc' = [pc EXCEPT ![Inserter] = "exited"]
      BY <2>4 DEF MallocFails, Inserting, Goes
    <3> QED
      BY <2>1, <2>2, <2>3, <3>1 DEF TypeInv, TypeOK
  <2>5. CASE CallDelete \/ FreeEntry \/ NextSlot \/ New
    <3>1. /\ pc[Inserter] \in {"idle", "delete", "deleted"}
          /\ \E p \in {"idle", "delete", "exited"} : pc' = [pc EXCEPT ![Inserter] = p]
      <4>1. Inserter \in Thread /\ pc = [pc EXCEPT ![Inserter] = pc[Inserter]]
        BY HashTableAssumption DEF TypeInv, TypeOK
      <4> QED
        BY <2>5, <4>1 DEF CallDelete, FreeEntry, NextSlot, New, Goes
    <3>2. pc[Inserter] # "search" /\ pc'[Inserter] # "search"
      BY <3>1, HashTableAssumption DEF TypeInv, TypeOK
    <3>3. \A t \in Thread \ {Inserter} : pc'[t] = pc[t]
      BY <3>1 DEF TypeInv, TypeOK
    <3> QED
      BY <2>1, <2>2, <2>3, <3>2, <3>3
  <2> QED
    BY <1>5, <2>4, <2>5
<1>6. CASE DeleteEnds
  BY <1>6, DeleteEndsRefines DEF Q!Next
<1> QED
  BY <1>1, <1>2, <1>3, <1>4, <1>5, <1>6 DEF Next, Insert, Delete, Exited

(* Whatever the threads do side by side, each call answers as if it had    *)
(* taken effect in one step on the map of HashSpec.                        *)
THEOREM TableIsMap == Spec => ImplementsMap
<1>1. TypeInv /\ TypeInv' /\ HashInv /\ HashInv' /\ [Next]_vars => [Q!Next]_<<contents, call, Answers>>
  BY StepRefines
<1> QED
  BY InitRefines, HashHolds, <1>1, PTL DEF Spec, ImplementsMap, Q!Spec, Answers
=============================================================================
