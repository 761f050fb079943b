----------------------------- MODULE HashTable ------------------------------
(***************************************************************************)
(* data/hashtable/hashtable.c: the chained table of original first bytes,  *)
(* with its entries in memory that malloc hands out again after free.  One *)
(* thread inserts, in the analysis; it and others look bytes up, in        *)
(* trap_handler, while an insertion is on its way: nothing is locked.  A   *)
(* step is one access to the table or to an entry of it.                   *)
(***************************************************************************)
EXTENDS Integers, Sequences

CONSTANTS
    Thread,     \* the threads that call
    Inserter,   \* the one of them that also inserts and deletes
    Cell,       \* the blocks of memory that malloc may return
    NULL,       \* the null pointer
    Key,        \* the addresses of traps
    Value,      \* the bytes they replaced
    Slots,      \* num_slots (500 in libaddr.cc)
    hash        \* JenkinsHash of each key

Slot == 0 .. Slots - 1

ASSUME HashTableAssumption ==
    /\ Inserter \in Thread /\ NULL \notin Cell
    /\ Slots \in Nat \ {0} /\ hash \in [Key -> Slot]
    /\ Key # {} /\ Value # {}
    /\ "none" \notin Value

VARIABLES
    tableAddr,  \* the first entry of each slot
    node,       \* what the blocks contain
    allocated,  \* the blocks that are in use
    pc,         \* where the call of each thread is
    call,       \* its arguments; data is "none" in a hashtable_find
    current,    \* the entry it looks at
    entry,      \* hashtable_insert's new entry
    slot,       \* hashtable_delete's i
    answer,     \* what the last call of each thread returned
    chain,      \* history: the entries of each slot, newest first
    promised    \* history: what the table held when a search began

vars == <<tableAddr, node, allocated, pc, call, current, entry, slot, answer,
          chain, promised>>

Pointer == Cell \cup {NULL}
Node == [key : Key, data : Value, next : Pointer]
Call == [key : Key, data : Value \cup {"none"}]

(* What a block holds that is not in use; nobody reads it (ChainsLinked).  *)
Garbage == CHOOSE n \in Node : n.next = NULL

InChain(c) == \E s \in Slot : \E i \in DOMAIN chain[s] : chain[s][i] = c

(* The keys of the entries that can be found, with their bytes. *)
Linked == {c \in Cell : InChain(c)}
contents ==
    [k \in {node[c].key : c \in Linked} |->
        node[CHOOSE c \in Linked : node[c].key = k].data]

Q == INSTANCE FirstByteMap WITH
        map <- contents,
        answer <- [t \in Thread |->
                      IF pc[t] = "search" /\ call[t].data = "none"
                        THEN promised[t] ELSE answer[t]]

---------------------------------------------------------------------------

Init ==
    /\ tableAddr = [s \in Slot |-> NULL]
    /\ node = [c \in Cell |-> Garbage]
    /\ allocated = {} /\ entry = NULL /\ slot = 0
    /\ pc = [t \in Thread |-> "idle"]
    /\ call = [t \in Thread |-> CHOOSE c \in Call : c.data = "none"]
    /\ current = [t \in Thread |-> NULL]
    /\ answer = [t \in Thread |-> "zero"]
    /\ promised = [t \in Thread |-> "zero"]
    /\ chain = [s \in Slot |-> <<>>]

Goes(t, place) == pc' = [pc EXCEPT ![t] = place]

(* What is left of the locals is never read again. *)
Returns(t, value) ==
    /\ Goes(t, "idle")
    /\ answer' = [answer EXCEPT ![t] = value]
    /\ current' = [current EXCEPT ![t] = NULL]
    /\ promised' = [promised EXCEPT ![t] = "zero"]

Place(t) == hash[call[t].key]

Begin(t) ==
    /\ pc[t] = "idle" /\ pc[Inserter] \notin {"delete", "deleted", "exited"}
    /\ \E c \in Call :
          /\ c.data = "none" \/ t = Inserter
          /\ call' = [call EXCEPT ![t] = c]
    /\ Goes(t, "hash")
    /\ answer' = [answer EXCEPT ![t] = "none"]
    /\ UNCHANGED <<tableAddr, node, allocated, current, entry, slot, chain, promised>>

(* Both calls test the slot before they read it; in between it may only    *)
(* have been filled, so that one read stands for the two.                  *)
ReadSlot(t) ==
    /\ pc[t] = "hash"
    /\ current' = [current EXCEPT ![t] = tableAddr[Place(t)]]
    /\ promised' = [promised EXCEPT ![t] = Q!hashtable_find(contents, call[t].key)]
    /\ Goes(t, "search")
    /\ UNCHANGED <<tableAddr, node, allocated, call, entry, slot, answer, chain>>

Searching(t) == pc[t] = "search" /\ pc[Inserter] # "exited"
AtKey(t) == current[t] # NULL /\ node[current[t]].key = call[t].key

SameEntry(t) == current[t]                                      \* mutant
NextEntry(t) == node[current[t]].next

Advance(t) ==
    /\ Searching(t) /\ current[t] # NULL /\ ~AtKey(t)
    /\ current' = [current EXCEPT ![t] = NextEntry(t)]
    /\ UNCHANGED <<tableAddr, node, allocated, pc, call, entry, slot, answer,
                   chain, promised>>

KeyFound(t) == call[t].key                                      \* mutant
ByteFound(t) == node[current[t]].data

Found(t) ==
    /\ Searching(t) /\ AtKey(t)
    /\ Returns(t, IF call[t].data = "none" THEN ByteFound(t) ELSE "present")
    /\ UNCHANGED <<tableAddr, node, allocated, call, entry, slot, chain>>

NotFound(t) ==
    /\ Searching(t) /\ current[t] = NULL /\ call[t].data = "none"
    /\ Returns(t, "zero")
    /\ UNCHANGED <<tableAddr, node, allocated, call, entry, slot, chain>>

---------------------------------------------------------------------------
(* The rest of hashtable_insert: the entry is filled before it can be seen.*)

Inserting == Searching(Inserter) /\ current[Inserter] = NULL /\ call[Inserter].data # "none"

LinksNothing == NULL                                            \* mutant
FirstEntry == tableAddr[Place(Inserter)]

FillEntry ==
    /\ Inserting
    /\ \E c \in Cell \ allocated :
          /\ entry' = c
          /\ allocated' = allocated \cup {c}
          /\ node' = [node EXCEPT ![c] =
                         [key |-> call[Inserter].key, data |-> call[Inserter].data,
                          next |-> FirstEntry]]
    /\ Goes(Inserter, "publish")
    /\ UNCHANGED <<tableAddr, call, current, slot, answer, chain, promised>>

(* malloc returns NULL: the process exits. *)
MallocFails ==
    /\ Inserting
    /\ Goes(Inserter, "exited")
    /\ UNCHANGED <<tableAddr, node, allocated, call, current, entry, slot,
                   answer, chain, promised>>

PublishEntry ==
    /\ pc[Inserter] = "publish"
    /\ tableAddr' = [tableAddr EXCEPT ![Place(Inserter)] = entry]
    /\ chain' = [chain EXCEPT ![Place(Inserter)] = <<entry>> \o @]
    /\ Returns(Inserter, "inserted")
    /\ entry' = NULL
    /\ UNCHANGED <<node, allocated, call, slot>>

---------------------------------------------------------------------------
(* hashtable_delete, which no call may overlap.                            *)

CallDelete ==
    /\ \A t \in Thread : pc[t] = "idle"
    /\ Goes(Inserter, "delete")
    /\ slot' = 0
    /\ current' = [current EXCEPT ![Inserter] = tableAddr[0]]
    /\ UNCHANGED <<tableAddr, node, allocated, call, entry, answer, chain, promised>>

KeepsLast == node[current[Inserter]].next # NULL                \* mutant
MoreToFree == current[Inserter] # NULL

(* next is read before current is freed. *)
FreeEntry ==
    /\ pc[Inserter] = "delete"
    /\ current[Inserter] # NULL
    /\ allocated' = IF MoreToFree THEN allocated \ {current[Inserter]} ELSE allocated
    /\ current' = [current EXCEPT ![Inserter] = node[@].next]
    /\ UNCHANGED <<tableAddr, node, pc, call, entry, slot, answer, chain, promised>>

NextSlot ==
    /\ pc[Inserter] = "delete"
    /\ current[Inserter] = NULL
    /\ slot + 1 \in Slot
    /\ slot' = slot + 1
    /\ current' = [current EXCEPT ![Inserter] = tableAddr[slot + 1]]
    /\ UNCHANGED <<tableAddr, node, allocated, pc, call, entry, answer, chain, promised>>

DeleteEnds ==
    /\ pc[Inserter] = "delete"
    /\ current[Inserter] = NULL
    /\ slot + 1 \notin Slot
    /\ Goes(Inserter, "deleted")
    /\ chain' = [s \in Slot |-> <<>>]
    /\ slot' = 0
    /\ node' = [c \in Cell |-> Garbage]
    /\ UNCHANGED <<tableAddr, allocated, call, current, entry, answer, promised>>

(* hashtable_new, unless one of its two mallocs fails. *)
New ==
    /\ pc[Inserter] = "deleted"
    /\ tableAddr' = [s \in Slot |-> NULL]
    /\ Goes(Inserter, "idle") \/ Goes(Inserter, "exited")
    /\ UNCHANGED <<node, allocated, call, current, entry, slot, answer, chain, promised>>

Exited == pc[Inserter] = "exited" /\ UNCHANGED vars

---------------------------------------------------------------------------

Search(t) == ReadSlot(t) \/ Advance(t) \/ Found(t) \/ NotFound(t)
Insert == FillEntry \/ MallocFails \/ PublishEntry
Delete == FreeEntry \/ NextSlot \/ DeleteEnds

Next ==
    \/ \E t \in Thread : Begin(t) \/ Search(t)
    \/ Insert \/ CallDelete \/ Delete \/ New \/ Exited

(* Each thread goes on with the call it has begun. *)
Spec ==
    /\ Init /\ [][Next]_vars
    /\ \A t \in Thread : WF_vars(Search(t))
    /\ WF_vars(Insert \/ Delete)

---------------------------------------------------------------------------

TypeOK ==
    /\ tableAddr \in [Slot -> Pointer] /\ chain \in [Slot -> Seq(Cell)]
    /\ node \in [Cell -> Node] /\ allocated \subseteq Cell
    /\ pc \in [Thread -> {"idle", "hash", "search", "publish", "delete", "deleted", "exited"}]
    /\ call \in [Thread -> Call] /\ current \in [Thread -> Pointer]
    /\ entry \in Pointer /\ slot \in Slot
    /\ \A t \in Thread : answer[t] \in Value \cup {"zero", "none", "present", "inserted"}
    /\ promised \in [Thread -> Value \cup {"zero"}]

(* The pointers of each slot lead through its entries from the newest to   *)
(* the oldest, at every moment of an insertion: a search that runs beside  *)
(* it never meets an entry that is half-linked, freed or of another slot,  *)
(* and no key has two entries.                                             *)
ChainsLinked ==
    pc[Inserter] \notin {"delete", "deleted"} =>
        \A s \in Slot :
            LET At(i) == IF i \in DOMAIN chain[s] THEN chain[s][i] ELSE NULL IN
            /\ tableAddr[s] = At(1)
            /\ \A i \in DOMAIN chain[s] :
                  /\ node[At(i)].next = At(i + 1)
                  /\ hash[node[At(i)].key] = s
                  /\ At(i) \in allocated
                  /\ \A j \in DOMAIN chain[s] : node[At(i)].key = node[At(j)].key => i = j

(* hashtable_delete frees an entry once, and all of them; between the      *)
(* calls every entry in use can be found.                                  *)
NoLeak ==
    /\ pc[Inserter] = "delete" /\ current[Inserter] # NULL
           => current[Inserter] \in allocated
    /\ pc[Inserter] = "deleted" => allocated = {}
    /\ pc[Inserter] = "idle" => allocated = Linked

(* The chained table implements the map: whatever the threads do side by   *)
(* side, each call answers as if it had taken effect in one step, and no   *)
(* key hides another that has the same hash.  It is the map of the callers *)
(* and of hashtable.c: hashtable_find answers the data and not, as         *)
(* hashtable.h:22-23 has it, the key.                                      *)
ImplementsMap == Q!Spec

(* Every call returns, or the process has exited, however often the other  *)
(* thread inserts in the meantime.                                         *)
CallsEnd ==
    \A t \in Thread :
        pc[t] \in {"hash", "search", "publish", "delete"} ~>
            pc[t] \in {"idle", "deleted"} \/ pc[Inserter] = "exited"
=============================================================================
