---------------------------- MODULE BoundTreeApi ----------------------------
(***************************************************************************)
(* A client of data/boundTree that calls its five operations in any order  *)
(* the header allows, with direct_boundTree_insert after the boundFind     *)
(* that gave it the metadata, as libaddr.cc does.                          *)
(***************************************************************************)
EXTENDS BoundTree

CONSTANTS
    MaxKey,     \* the addresses are 1 .. MaxKey
    MaxNodes    \* bound of the model: no call starts on a tree this large

ASSUME ApiAssumption == MaxKey \in Nat \ {0} /\ MaxNodes \in Nat \ {0}

VARIABLES
    pc,         \* the call that is running
    upperVal    \* its argument of that name

vars == <<tree, walk, data, pc, upperVal>>

Key == 1 .. MaxKey

HasRoom == Cardinality(DOMAIN tree) < MaxNodes

Init ==
    /\ boundTree_new
    /\ walk = [key |-> 1, at |-> <<>>, bound |-> 0]
    /\ pc = "idle"
    /\ upperVal = 0

---------------------------------------------------------------------------

CallFind(x) ==
    /\ pc = "idle" /\ HasRoom
    /\ StartWalk(x)
    /\ pc' = "find"
    /\ UNCHANGED <<tree, data, upperVal>>

CallInsert(l, u) ==
    /\ pc = "idle" /\ HasRoom
    /\ StartWalk(l)
    /\ upperVal' = u
    /\ pc' = "insert"
    /\ UNCHANGED <<tree, data>>

(* One iteration of the loop of boundFind or of boundTree_insert. *)
SearchTurn ==
    /\ pc \in {"find", "insert"}
    /\ Turn
    /\ UNCHANGED <<tree, data, pc, upperVal>>

(* Both return NULL from the loop; boundFind frees its metadata. *)
SearchNull ==
    /\ pc \in {"find", "insert"}
    /\ MeetsRange
    /\ data' = NULL
    /\ pc' = "idle"
    /\ UNCHANGED <<tree, walk, upperVal>>

FindVacancy ==
    /\ pc = "find"
    /\ ReachesVacancy
    /\ boundFindReturns
    /\ pc' = "held"
    /\ UNCHANGED <<tree, walk, upperVal>>

(* boundTree_insert stores upperVal as it was given. *)
InsertAtVacancy ==
    /\ pc = "insert"
    /\ ReachesVacancy
    /\ Attach(walk.at, walk.key, upperVal)
    /\ pc' = "idle"
    /\ UNCHANGED <<walk, data, upperVal>>

DirectInsert(u) ==
    /\ pc = "held"
    /\ direct_boundTree_insert(walk.key, u)
    /\ data' = NULL
    /\ pc' = "idle"
    /\ UNCHANGED <<walk, upperVal>>

(* The root of a tree that was never filled is whatever malloc left there: *)
(* deleteNode of it may do nothing or crash.                               *)
Delete ==
    /\ pc = "idle"
    /\ pc' \in IF isInitialized THEN {"deleted"} ELSE {"deleted", "crashed"}
    /\ tree' = << >>
    /\ UNCHANGED <<walk, data, upperVal>>

New ==
    /\ pc = "deleted"
    /\ tree' = << >> /\ data' = NULL
    /\ pc' = "idle"
    /\ UNCHANGED <<walk, upperVal>>

Crashed == pc = "crashed" /\ UNCHANGED vars

Next ==
    \/ \E x \in Key : CallFind(x)
    \/ \E l \in Key : \E u \in l .. MaxKey : CallInsert(l, u)
    \/ SearchTurn
    \/ SearchNull
    \/ FindVacancy
    \/ InsertAtVacancy
    \/ \E u \in walk.key .. MaxKey : DirectInsert(u)
    \/ Delete
    \/ New
    \/ Crashed

(* A call that started runs to its end: the code is sequential. *)
Search == SearchTurn \/ SearchNull \/ FindVacancy \/ InsertAtVacancy

Spec == Init /\ [][Next]_vars /\ WF_vars(Search)

---------------------------------------------------------------------------

TypeOK ==
    /\ TreeTypeOK
    /\ pc \in {"idle", "find", "insert", "held", "deleted", "crashed"}
    /\ upperVal \in Nat

(* When the last turn of boundFind was to the left, the bound it returns   *)
(* is exact: it lies at or above the key and no range starts between them. *)
(* (After a turn to the right the bound says nothing: see TurnRight.)      *)
LeftBoundExact ==
    pc = "held" /\ data.at # <<>> /\ data.at[Len(data.at)] = "left"
        => /\ data.bound >= walk.key
           /\ \A p \in DOMAIN tree :
                  tree[p].lower > walk.key => tree[p].lower > data.bound

(* While the calls follow the protocol, no insertion overwrites a child    *)
(* and loses a subtree, and no stored range ever changes.                  *)
NothingLost ==
    [][pc # "idle" => \A p \in DOMAIN tree :
          p \in DOMAIN tree' /\ tree'[p] = tree[p]]_vars

(* Every search ends. *)
SearchEnds == pc \in {"find", "insert"} ~> pc \notin {"find", "insert"}

(* boundTree.h:38-39 says of boundTree_insert that a range which would     *)
(* reach the next one is cut off before it: "If upperVal is greater than   *)
(* the allowed upperBound, then the range is lowerVal to upperBound-1."    *)
InsertClips ==
    [][pc = "insert" /\ pc' = "idle" =>
          \A p \in DOMAIN tree' \ DOMAIN tree : \A q \in DOMAIN tree :
              tree[q].lower > tree'[p].lower => tree[q].lower > tree'[p].upper]_vars
=============================================================================
