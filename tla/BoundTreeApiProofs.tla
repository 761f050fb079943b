------------------------- MODULE BoundTreeApiProofs -------------------------
(***************************************************************************)
(* Theorems about every sequence of calls of the tree, for trees of any    *)
(* size and any addresses.                                                 *)
(***************************************************************************)
EXTENDS BoundTreeApi, BoundTreeProofs

Searching == pc \in {"find", "insert"}

ApiInv ==
    /\ TypeOK
    /\ TreeInv
    /\ Searching => /\ WalkInv
                    /\ SidesApart(walk.key, walk.at)
                    /\ BoundExact(walk)
    /\ pc = "insert" => walk.key <= upperVal
    /\ pc = "held" => /\ data = [at |-> walk.at, bound |-> walk.bound]
                      /\ VacantFor(walk.key, walk.at)
                      /\ BoundExact(walk)
    /\ pc \in {"deleted", "crashed"} => tree = << >>

LEMMA EmptyTree ==
    ASSUME tree = << >>, walk \in Walk, data \in MetaData \cup {NULL}
    PROVE  TreeInv
<1>1. DOMAIN tree = {} /\ tree \in [DOMAIN tree -> AddrRange]
  OBVIOUS
<1> QED
  BY <1>1 DEF TreeInv, TreeTypeOK, Rooted, SearchOrder, RangesNonempty, EntriesDistinct

LEMMA TreeEmptied ==
    ASSUME tree' = << >>, walk' \in Walk, data' \in MetaData \cup {NULL}
    PROVE  TreeInv'
<1>1. DOMAIN tree' = {} /\ tree' \in [DOMAIN tree' -> AddrRange]
  OBVIOUS
<1> QED
  BY <1>1 DEF TreeInv, TreeTypeOK, Rooted, SearchOrder, RangesNonempty, EntriesDistinct

LEMMA ApiInit == Init => ApiInv
<1> SUFFICES ASSUME Init PROVE ApiInv
  OBVIOUS
<1>1. walk \in Walk
  BY DEF Init, Walk, Position
<1>2. TreeInv
  BY <1>1, EmptyTree DEF Init, boundTree_new
<1> QED
  BY <1>2 DEF Init, ApiInv, TypeOK, TreeInv, Searching

(* The tree and the walk stay as they are. *)
LEMMA TreeKept ==
    ASSUME TreeInv, UNCHANGED tree, walk' \in Walk, data' \in MetaData \cup {NULL}
    PROVE  TreeInv'
BY DEF TreeInv, TreeTypeOK, Rooted, SearchOrder, RangesNonempty, EntriesDistinct

LEMMA ApiStep == ApiInv /\ [Next]_vars => ApiInv'
<1> SUFFICES ASSUME ApiInv, [Next]_vars PROVE ApiInv'
  OBVIOUS
<1>0. /\ TreeInv /\ TreeTypeOK /\ walk \in Walk /\ data \in MetaData \cup {NULL} /\ walk.key \in Nat
      /\ walk.at \in Position /\ upperVal \in Nat
  BY DEF ApiInv, TreeInv, TreeTypeOK, Walk, TypeOK
<1>k. Key \subseteq Nat /\ \A l \in Key : \A u \in l .. MaxKey : u \in Nat /\ l <= u
  BY ApiAssumption DEF Key
<1>1. ASSUME NEW x \in Key, CallFind(x) PROVE ApiInv'
  <2>1. /\ walk' \in Walk /\ WalkInv' /\ SidesApart(walk.key, walk.at)' /\ BoundExact(walk)'
    BY <1>0, <1>1, <1>k, StartWalkInv, StartBound DEF CallFind
  <2>2. TreeInv'
    BY <1>0, <1>1, <2>1, TreeKept DEF CallFind
  <2> QED
    BY <1>0, <1>1, <2>1, <2>2 DEF CallFind, ApiInv, TypeOK, TreeInv, Searching
<1>2. ASSUME NEW l \in Key, NEW u \in l .. MaxKey, CallInsert(l, u) PROVE ApiInv'
  <2>1. /\ walk' \in Walk /\ WalkInv' /\ SidesApart(walk.key, walk.at)' /\ BoundExact(walk)'
    BY <1>0, <1>2, <1>k, StartWalkInv, StartBound DEF CallInsert
  <2>2. TreeInv'
    BY <1>0, <1>2, <2>1, TreeKept DEF CallInsert
  <2>3. walk'.key <= upperVal' /\ upperVal' \in Nat
    BY <1>2, <1>k DEF CallInsert, StartWalk
  <2> QED
    BY <1>0, <1>2, <2>1, <2>2, <2>3 DEF CallInsert, ApiInv, TypeOK, TreeInv, Searching
<1>3. CASE SearchTurn
  <2>1. /\ walk' \in Walk /\ WalkInv' /\ SidesApart(walk.key, walk.at)' /\ BoundExact(walk)'
    BY <1>0, <1>3, TurnInv, TurnBound DEF SearchTurn, ApiInv, Searching
  <2>2. TreeInv' /\ walk'.key = walk.key
    BY <1>0, <1>3, <2>1, TreeKept DEF SearchTurn, Turn, TurnLeft, TurnRight
  <2> QED
    BY <1>0, <1>3, <2>1, <2>2 DEF SearchTurn, ApiInv, TypeOK, TreeInv, Searching
<1>4. CASE SearchNull
  <2>1. TreeInv'
    BY <1>0, <1>4, TreeKept DEF SearchNull
  <2> QED
    BY <1>0, <1>4, <2>1 DEF SearchNull, ApiInv, TypeOK, TreeInv, Searching
<1>5. CASE FindVacancy
  <2>1. data' = [at |-> walk.at, bound |-> walk.bound] /\ data' \in MetaData
    BY <1>0, <1>5 DEF FindVacancy, boundFindReturns, Vacancy, Walk, MetaData
  <2>2. TreeInv'
    BY <1>0, <1>5, <2>1, TreeKept DEF FindVacancy
  <2>3. VacantFor(walk.key, walk.at)
    BY <1>0, <1>5, SearchEndsVacant DEF FindVacancy, ApiInv, Searching
  <2>4. VacantFor(walk.key, walk.at)' /\ BoundExact(walk)'
    BY <1>5, <2>3 DEF FindVacancy, ApiInv, Searching, VacantFor, OnPath, BoundExact
  <2> QED
    BY <1>0, <1>5, <2>1, <2>2, <2>4 DEF FindVacancy, ApiInv, TypeOK, TreeInv, Searching
<1>6. CASE InsertAtVacancy
  <2>1. VacantFor(walk.key, walk.at)
    BY <1>0, <1>6, SearchEndsVacant DEF InsertAtVacancy, ApiInv, Searching
  <2>2. TreeInv'
    BY <1>0, <1>6, <2>1, AttachInv DEF InsertAtVacancy, ApiInv
  <2> QED
    BY <1>0, <1>6, <2>2 DEF InsertAtVacancy, ApiInv, TypeOK, TreeInv, Searching
<1>7. ASSUME NEW u \in walk.key .. MaxKey, DirectInsert(u) PROVE ApiInv'
  <2>1. VacantFor(walk.key, walk.at) /\ data.at = walk.at
    BY <1>7 DEF DirectInsert, ApiInv
  <2>2. u \in Nat /\ walk.key <= u
    BY <1>0, ApiAssumption
  <2>3. TreeInv'
    BY <1>0, <1>7, <2>1, <2>2, AttachInv DEF DirectInsert, direct_boundTree_insert
  <2> QED
    BY <1>0, <1>7, <2>3 DEF DirectInsert, ApiInv, TypeOK, TreeInv, Searching
<1>8. CASE Delete \/ New
  <2>1. tree' = << >> /\ walk' = walk /\ data' \in MetaData \cup {NULL}
    BY <1>0, <1>8 DEF Delete, New
  <2>2. TreeInv'
    BY <1>0, <2>1, TreeEmptied
  <2> QED
    BY <1>0, <1>8, <2>1, <2>2 DEF Delete, New, ApiInv, TypeOK, TreeInv, Searching
<1>9. CASE Crashed \/ UNCHANGED vars
  <2>1. UNCHANGED vars
    BY <1>9 DEF Crashed
  <2>2. TreeInv'
    BY <1>0, <2>1, TreeKept DEF vars
  <2> QED
    BY <2>1, <2>2 DEF vars, ApiInv, TypeOK, TreeInv, Searching, WalkInv, OnPath, StartsUnder,
       SidesApart, BoundExact, VacantFor
<1> QED
  BY <1>1, <1>2, <1>3, <1>4, <1>5, <1>6, <1>7, <1>8, <1>9 DEF Next

(* The tree, the search and the metadata are well formed in every call. *)
THEOREM TypeCorrect == Spec => []TypeOK
<1>1. ApiInv => TypeOK
  BY DEF ApiInv
<1> QED
  BY ApiInit, ApiStep, <1>1, PTL DEF Spec

(* Whatever calls are made, the tree stays a search tree. *)
THEOREM SearchOrderKept == Spec => []SearchOrder
<1>1. ApiInv => SearchOrder
  BY DEF ApiInv, TreeInv
<1> QED
  BY ApiInit, ApiStep, <1>1, PTL DEF Spec

(* No two ranges start at the same address: attaching a node looks at no   *)
(* key, but the search before it would have met the other range.           *)
THEOREM EntriesStayDistinct == Spec => []EntriesDistinct
<1>1. ApiInv => EntriesDistinct
  BY DEF ApiInv, TreeInv
<1> QED
  BY ApiInit, ApiStep, <1>1, PTL DEF Spec

(* After a turn to the left, the bound that boundFind returns is exact. *)
THEOREM LeftBoundsExact == Spec => []LeftBoundExact
<1>1. ApiInv => LeftBoundExact
  <2> SUFFICES ASSUME ApiInv, pc = "held", data.at # <<>>, data.at[Len(data.at)] = "left"
               PROVE  /\ data.bound >= walk.key
                      /\ \A p \in DOMAIN tree :
                            tree[p].lower > walk.key => tree[p].lower > data.bound
    BY DEF LeftBoundExact
  <2>1. data.at = walk.at /\ data.bound = walk.bound /\ VacantFor(walk.key, walk.at) /\ BoundExact(walk)
    BY DEF ApiInv
  <2>2. \A q \in DOMAIN tree : ~Under(walk.at, q)
    BY <2>1, NothingUnderVacancy DEF VacantFor, ApiInv, TreeInv
  <2> QED
    BY <2>1, <2>2 DEF BoundExact
<1> QED
  BY ApiInit, ApiStep, <1>1, PTL DEF Spec

(* No insertion loses or changes a range that is stored. *)
THEOREM NothingIsLost == Spec => NothingLost
<1>1. ASSUME ApiInv, [Next]_vars, pc # "idle", NEW p \in DOMAIN tree, vars' # vars
      PROVE  p \in DOMAIN tree' /\ tree'[p] = tree[p]
  <2>0. TreeTypeOK /\ Rooted
    BY <1>1 DEF ApiInv, TreeInv
  <2>1. CASE InsertAtVacancy
    <3>1. walk.at \in Position /\ walk.at \notin DOMAIN tree /\ Attach(walk.at, walk.key, upperVal)
      BY <2>0, <2>1 DEF InsertAtVacancy, ReachesVacancy, AtNode, TreeTypeOK, Walk
    <3> QED
      BY <2>0, <3>1, <1>1, AttachAdds
  <2>2. ASSUME NEW u, DirectInsert(u) PROVE p \in DOMAIN tree' /\ tree'[p] = tree[p]
    <3>1. walk.at \in Position /\ walk.at \notin DOMAIN tree /\ Attach(walk.at, walk.key, u)
      BY <1>1, <2>2 DEF DirectInsert, direct_boundTree_insert, ApiInv, VacantFor
    <3> QED
      BY <2>0, <3>1, <1>1, AttachAdds
  <2>3. CASE SearchTurn \/ SearchNull \/ FindVacancy
    BY <1>1, <2>3 DEF SearchTurn, SearchNull, FindVacancy
  <2>4. CASE New
    <3>1. tree = tree'
      BY <1>1, <2>4 DEF New, ApiInv
    <3> QED
      BY <1>1, <3>1
  <2> QED
    BY <1>1, <2>1, <2>2, <2>3, <2>4 DEF Next, CallFind, CallInsert, Delete, Crashed
<1>2. ApiInv /\ [Next]_vars =>
         [pc # "idle" => \A p \in DOMAIN tree : p \in DOMAIN tree' /\ tree'[p] = tree[p]]_vars
  BY <1>1
<1> QED
  BY ApiInit, ApiStep, <1>2, PTL DEF Spec, NothingLost
=============================================================================
