-------------------------- MODULE BoundTreeProofs --------------------------
(***************************************************************************)
(* What a search of the tree and an insertion where it ended keep true,    *)
(* for trees of any size.  The searches are proved about one turn at a     *)
(* time: a walk remembers, of the turns it took, that they were right.     *)
(***************************************************************************)
EXTENDS BoundTree, TLAPS

Child(p, s) == Append(p, s)

(* No range ends before it starts. *)
RangesNonempty == \A p \in DOMAIN tree : tree[p].lower <= tree[p].upper

TreeInv == TreeTypeOK /\ Rooted /\ SearchOrder /\ RangesNonempty /\ EntriesDistinct

(* The search for x turns towards p wherever it passes on the way to p. *)
OnPath(x, p) ==
    \A i \in 0 .. Len(p) - 1 :
        /\ SubSeq(p, 1, i) \in DOMAIN tree
        /\ p[i + 1] = "left" => x < tree[SubSeq(p, 1, i)].lower
        /\ p[i + 1] = "right" => x > tree[SubSeq(p, 1, i)].upper

(* A range that starts at x can only hang at p or below. *)
StartsUnder(x, p) ==
    \A q \in DOMAIN tree : tree[q].lower = x => Under(p, q)

WalkInv == OnPath(walk.key, walk.at) /\ StartsUnder(walk.key, walk.at)

(* p is where the search for x ended: an empty place, and no range starts  *)
(* at x.                                                                   *)
VacantFor(x, p) ==
    /\ p \in Position \ DOMAIN tree
    /\ OnPath(x, p)
    /\ \A q \in DOMAIN tree : tree[q].lower # x

---------------------------------------------------------------------------
(* Positions.                                                              *)

LEMMA ChildPosition ==
    ASSUME NEW p \in Position, NEW s \in Side
    PROVE  /\ Child(p, s) \in Position
           /\ Len(Child(p, s)) = Len(p) + 1
           /\ \A i \in 1 .. Len(p) : Child(p, s)[i] = p[i]
           /\ Child(p, s)[Len(p) + 1] = s
BY DEF Child, Position, Side

LEMMA PrefixPosition ==
    ASSUME NEW p \in Position, NEW i \in 0 .. Len(p)
    PROVE  /\ SubSeq(p, 1, i) \in Position
           /\ Len(SubSeq(p, 1, i)) = i
           /\ \A j \in 1 .. i : SubSeq(p, 1, i)[j] = p[j]
BY DEF Position, Side

LEMMA PositionsEqual ==
    ASSUME NEW p \in Position, NEW q \in Position, Len(p) = Len(q),
           \A i \in 1 .. Len(p) : p[i] = q[i]
    PROVE  p = q
BY DEF Position, Side

LEMMA UnderPrefix ==
    ASSUME NEW p \in Position, NEW q \in Position, Under(p, q)
    PROVE  Len(p) \in 0 .. Len(q) /\ SubSeq(q, 1, Len(p)) = p
<1>1. Len(p) \in 0 .. Len(q)
  BY DEF Under, Position
<1>2. /\ SubSeq(q, 1, Len(p)) \in Position
      /\ Len(SubSeq(q, 1, Len(p))) = Len(p)
      /\ \A j \in 1 .. Len(p) : SubSeq(q, 1, Len(p))[j] = q[j]
  BY <1>1, PrefixPosition
<1>3. \A j \in 1 .. Len(p) : SubSeq(q, 1, Len(p))[j] = p[j]
  BY <1>2 DEF Under
<1> QED
  BY <1>1, <1>2, <1>3, PositionsEqual

LEMMA WholePrefix == ASSUME NEW p \in Position PROVE SubSeq(p, 1, Len(p)) = p
<1>1. Under(p, p)
  BY DEF Under, Position
<1> QED
  BY <1>1, UnderPrefix

LEMMA UnderChild ==
    ASSUME NEW p \in Position, NEW q \in Position, NEW s \in Side, Under(Child(p, s), q)
    PROVE  Under(p, q) /\ Len(p) + 1 <= Len(q) /\ q[Len(p) + 1] = s
<1>1. Len(p) \in Nat /\ Len(q) \in Nat
  BY DEF Position
<1>2. /\ Len(Child(p, s)) = Len(p) + 1
      /\ \A i \in 1 .. Len(p) : Child(p, s)[i] = p[i]
      /\ Child(p, s)[Len(p) + 1] = s
  BY ChildPosition
<1>3. Len(p) + 1 <= Len(q) /\ \A i \in 1 .. Len(p) + 1 : Child(p, s)[i] = q[i]
  BY <1>2 DEF Under
<1>4. Len(p) + 1 \in 1 .. Len(p) + 1 /\ \A i \in 1 .. Len(p) : i \in 1 .. Len(p) + 1
  BY <1>1
<1>5. \A i \in 1 .. Len(p) : p[i] = q[i]
  BY <1>2, <1>3, <1>4
<1>6. q[Len(p) + 1] = s
  BY <1>2, <1>3, <1>4
<1> QED
  BY <1>1, <1>3, <1>5, <1>6 DEF Under

(* A position under p is p itself or under one of its children. *)
LEMMA UnderSplits ==
    ASSUME NEW p \in Position, NEW q \in Position, Under(p, q)
    PROVE  q = p \/ Under(Child(p, "left"), q) \/ Under(Child(p, "right"), q)
<1>1. Len(p) \in Nat /\ Len(q) \in Nat /\ Len(p) <= Len(q)
  BY DEF Under, Position
<1>2. CASE Len(q) = Len(p)
  BY <1>2, PositionsEqual DEF Under
<1>3. CASE Len(q) > Len(p)
  <2>1. PICK s \in Side : q[Len(p) + 1] = s
    BY <1>1, <1>3 DEF Position
  <2>2. ASSUME NEW i \in 1 .. Len(p) + 1 PROVE Child(p, s)[i] = q[i]
    <3>1. i \in 1 .. Len(p) \/ i = Len(p) + 1
      BY <1>1
    <3> QED
      BY <2>1, <3>1, ChildPosition DEF Under
  <2>3. Under(Child(p, s), q)
    BY <1>1, <1>3, <2>2, ChildPosition DEF Under
  <2> QED
    BY <2>3 DEF Side
<1> QED
  BY <1>1, <1>2, <1>3

(* In a rooted tree nothing hangs under an empty place. *)
LEMMA NothingUnderVacancy ==
    ASSUME TreeTypeOK, Rooted, NEW p \in Position, p \notin DOMAIN tree,
           NEW q \in DOMAIN tree
    PROVE  ~Under(p, q)
BY UnderPrefix DEF Rooted, TreeTypeOK

---------------------------------------------------------------------------
(* One turn of a search.                                                   *)

LEMMA StartWalkInv ==
    ASSUME TreeTypeOK, NEW x \in Nat, StartWalk(x), UNCHANGED tree
    PROVE  walk' \in Walk /\ WalkInv'
<1>1. walk'.at = <<>> /\ walk'.key = x /\ walk' \in Walk
  BY NoBoundAssumption DEF StartWalk, Walk, Position
<1>2. OnPath(walk.key, walk.at)'
  BY <1>1 DEF OnPath
<1>3. StartsUnder(walk.key, walk.at)'
  BY <1>1 DEF StartsUnder, Under, TreeTypeOK, Position
<1> QED
  BY <1>1, <1>2, <1>3 DEF WalkInv

LEMMA OnPathExtends ==
    ASSUME TreeTypeOK, NEW x \in Nat, NEW p \in Position, NEW s \in Side,
           OnPath(x, p), p \in DOMAIN tree,
           s = "left" => x < tree[p].lower, s = "right" => x > tree[p].upper
    PROVE  OnPath(x, Child(p, s))
<1> SUFFICES ASSUME NEW i \in 0 .. Len(Child(p, s)) - 1
             PROVE  /\ SubSeq(Child(p, s), 1, i) \in DOMAIN tree
                    /\ Child(p, s)[i + 1] = "left" => x < tree[SubSeq(Child(p, s), 1, i)].lower
                    /\ Child(p, s)[i + 1] = "right" => x > tree[SubSeq(Child(p, s), 1, i)].upper
  BY DEF OnPath
<1>0. /\ Child(p, s) \in Position /\ Len(Child(p, s)) = Len(p) + 1
      /\ \A j \in 1 .. Len(p) : Child(p, s)[j] = p[j]
      /\ Child(p, s)[Len(p) + 1] = s
  BY ChildPosition
<1>1. Len(p) \in Nat /\ i \in 0 .. Len(p)
  BY <1>0 DEF Position
<1>2. CASE i = Len(p)
  <2>1. SubSeq(Child(p, s), 1, i) = p
    <3>1. Child(p, s) \in Position /\ i \in 0 .. Len(Child(p, s))
      BY <1>1, <1>0
    <3>2. /\ SubSeq(Child(p, s), 1, i) \in Position /\ Len(SubSeq(Child(p, s), 1, i)) = i
          /\ \A j \in 1 .. i : SubSeq(Child(p, s), 1, i)[j] = Child(p, s)[j]
      BY <3>1, PrefixPosition
    <3> QED
      BY <1>0, <1>2, <3>2, PositionsEqual
  <2> QED
    BY <1>2, <2>1, ChildPosition
<1>3. CASE i < Len(p)
  <2>1. SubSeq(Child(p, s), 1, i) = SubSeq(p, 1, i)
    <3>1. Child(p, s) \in Position /\ i \in 0 .. Len(Child(p, s))
      BY <1>1, <1>0
    <3>2. /\ SubSeq(Child(p, s), 1, i) \in Position /\ Len(SubSeq(Child(p, s), 1, i)) = i
          /\ \A j \in 1 .. i : SubSeq(Child(p, s), 1, i)[j] = Child(p, s)[j]
      BY <3>1, PrefixPosition
    <3>3. /\ SubSeq(p, 1, i) \in Position /\ Len(SubSeq(p, 1, i)) = i
          /\ \A j \in 1 .. i : SubSeq(p, 1, i)[j] = p[j]
      BY <1>1, PrefixPosition
    <3>4. \A j \in 1 .. i : j \in 1 .. Len(p)
      BY <1>1
    <3> QED
      BY <1>0, <3>2, <3>3, <3>4, PositionsEqual
  <2>2. i \in 0 .. Len(p) - 1 /\ i + 1 \in 1 .. Len(p)
    BY <1>1, <1>3
  <2>3. Child(p, s)[i + 1] = p[i + 1]
    BY <2>2, ChildPosition
  <2> QED
    BY <2>1, <2>2, <2>3 DEF OnPath
<1> QED
  BY <1>1, <1>2, <1>3

LEMMA TurnInv ==
    ASSUME TreeInv, WalkInv, Turn, UNCHANGED tree
    PROVE  walk' \in Walk /\ WalkInv'
<1>1. /\ walk.at \in Position /\ walk.at \in DOMAIN tree /\ walk.key \in Nat
      /\ tree[walk.at].lower \in Nat /\ tree[walk.at].upper \in Nat
      /\ tree[walk.at].lower <= tree[walk.at].upper
  BY DEF TreeInv, TreeTypeOK, RangesNonempty, Walk, AddrRange, Turn, TurnLeft, TurnRight, AtNode
<1>2. \A q \in DOMAIN tree : tree[q].lower = walk.key => Under(walk.at, q)
  BY DEF WalkInv, StartsUnder
<1>3. \A q \in DOMAIN tree : q \in Position
  BY DEF TreeInv, TreeTypeOK
<1>4. CASE TurnLeft
  <2>1. /\ walk.key < tree[walk.at].lower
        /\ walk'.key = walk.key /\ walk'.at = Child(walk.at, "left") /\ walk' \in Walk
    BY <1>1, <1>4, ChildPosition DEF TurnLeft, Walk, Child, leftChild, BoundBefore, Side
  <2>2. OnPath(walk.key, Child(walk.at, "left"))
    BY <1>1, <2>1, OnPathExtends DEF TreeInv, WalkInv, Side
  <2>3. ASSUME NEW q \in DOMAIN tree, tree[q].lower = walk.key
        PROVE  Under(Child(walk.at, "left"), q)
    <3>1. q # walk.at
      BY <1>1, <2>1, <2>3
    <3>2. ~Under(Child(walk.at, "right"), q)
      BY <1>1, <2>1, <2>3 DEF TreeInv, SearchOrder, Child
    <3> QED
      BY <1>1, <1>2, <1>3, <2>3, <3>1, <3>2, UnderSplits
  <2> QED
    BY <2>1, <2>2, <2>3 DEF WalkInv, OnPath, StartsUnder
<1>5. CASE TurnRight
  <2>1. /\ walk.key > tree[walk.at].upper
        /\ walk'.key = walk.key /\ walk'.at = Child(walk.at, "right") /\ walk' \in Walk
    BY <1>1, <1>5, ChildPosition, NoBoundAssumption DEF TurnRight, RightOf, Walk, Child, Side
  <2>2. OnPath(walk.key, Child(walk.at, "right"))
    BY <1>1, <2>1, OnPathExtends DEF TreeInv, WalkInv, Side
  <2>3. ASSUME NEW q \in DOMAIN tree, tree[q].lower = walk.key
        PROVE  Under(Child(walk.at, "right"), q)
    <3>1. q # walk.at
      BY <1>1, <2>1, <2>3
    <3>2. ~Under(Child(walk.at, "left"), q)
      BY <1>1, <2>1, <2>3 DEF TreeInv, SearchOrder, Child
    <3> QED
      BY <1>1, <1>2, <1>3, <2>3, <3>1, <3>2, UnderSplits
  <2> QED
    BY <2>1, <2>2, <2>3 DEF WalkInv, OnPath, StartsUnder
<1> QED
  BY <1>4, <1>5 DEF Turn

(* Where a search ends, no range starts at its key. *)
LEMMA SearchEndsVacant ==
    ASSUME TreeInv, WalkInv, ReachesVacancy
    PROVE  VacantFor(walk.key, walk.at)
<1>1. walk.at \in Position \ DOMAIN tree
  BY DEF TreeInv, TreeTypeOK, Walk, ReachesVacancy, AtNode
<1>2. \A q \in DOMAIN tree : ~Under(walk.at, q)
  BY <1>1, NothingUnderVacancy DEF TreeInv
<1> QED
  BY <1>1, <1>2 DEF VacantFor, WalkInv, StartsUnder

---------------------------------------------------------------------------
(* The insertion where a search ended.                                     *)

(* It only adds a range: no subtree hung at the place.                     *)
LEMMA AttachAdds ==
    ASSUME TreeTypeOK, Rooted, NEW p \in Position, p \notin DOMAIN tree,
           NEW l, NEW u, Attach(p, l, u)
    PROVE  /\ DOMAIN tree' = DOMAIN tree \cup {p}
           /\ tree'[p] = [lower |-> l, upper |-> u]
           /\ \A q \in DOMAIN tree : tree'[q] = tree[q]
<1>1. \A q \in DOMAIN tree : ~Under(p, q)
  BY NothingUnderVacancy
<1>2. {r \in DOMAIN tree : ~Under(p, r)} = DOMAIN tree
  BY <1>1
<1>3. tree' = [q \in DOMAIN tree \cup {p} |->
                  IF q = p THEN [lower |-> l, upper |-> u] ELSE tree[q]]
  BY <1>2 DEF Attach
<1> QED
  BY <1>3

LEMMA AttachInv ==
    ASSUME TreeInv, NEW l \in Nat, NEW u \in Nat, l <= u, NEW p, VacantFor(l, p),
           Attach(p, l, u), walk' \in Walk, data' \in MetaData \cup {NULL}
    PROVE  TreeInv'
<1>0. p \in Position /\ p \notin DOMAIN tree /\ DOMAIN tree \subseteq Position
  BY DEF VacantFor, TreeInv, TreeTypeOK
<1>1. /\ DOMAIN tree' = DOMAIN tree \cup {p}
      /\ tree'[p] = [lower |-> l, upper |-> u]
      /\ \A q \in DOMAIN tree : tree'[q] = tree[q]
  BY <1>0, AttachAdds DEF TreeInv
<1>2. TreeTypeOK'
  <2>1. DOMAIN tree' \subseteq Position /\ tree' \in [DOMAIN tree' -> AddrRange]
    BY <1>0 DEF Attach, TreeInv, TreeTypeOK, AddrRange
  <2> QED
    BY <2>1 DEF TreeTypeOK
<1>3. Rooted'
  <2> SUFFICES ASSUME NEW q \in DOMAIN tree', NEW i \in 0 .. Len(q)
               PROVE  SubSeq(q, 1, i) \in DOMAIN tree'
    BY DEF Rooted
  <2>1. CASE q \in DOMAIN tree
    BY <1>1, <2>1 DEF TreeInv, Rooted
  <2>2. CASE q = p /\ i = Len(p)
    BY <1>0, <1>1, <2>2, WholePrefix
  <2>3. CASE q = p /\ i # Len(p)
    <3>1. i \in 0 .. Len(p) - 1
      BY <1>0, <2>3 DEF Position
    <3> QED
      BY <1>1, <2>3, <3>1 DEF VacantFor, OnPath
  <2> QED
    BY <1>1, <2>1, <2>2, <2>3
<1>4. SearchOrder'
  <2>1. ASSUME NEW r \in DOMAIN tree, NEW s \in Side, Under(Child(r, s), p)
        PROVE  /\ s = "left" => l < tree[r].lower
               /\ s = "right" => l > tree[r].upper
    <3>1. r \in Position /\ Len(r) \in Nat /\ Len(p) \in Nat
      BY <1>0 DEF Position
    <3>2. Under(r, p) /\ Len(r) \in 0 .. Len(p) - 1 /\ p[Len(r) + 1] = s
      BY <1>0, <2>1, <3>1, UnderChild
    <3>3. SubSeq(p, 1, Len(r)) = r
      BY <1>0, <3>1, <3>2, UnderPrefix
    <3> QED
      BY <3>2, <3>3 DEF VacantFor, OnPath
  <2>2. ASSUME NEW s \in Side, NEW q \in DOMAIN tree' PROVE ~Under(Child(p, s), q)
    <3>1. SUFFICES ASSUME Under(Child(p, s), q) PROVE FALSE
      OBVIOUS
    <3>2. Under(p, q) /\ Len(q) > Len(p)
      <4>1. q \in Position /\ Len(p) \in Nat /\ Len(q) \in Nat
        BY <1>0, <1>1 DEF Position
      <4> QED
        BY <1>0, <3>1, <4>1, UnderChild
    <3>3. q # p /\ q \in DOMAIN tree
      BY <1>0, <1>1, <3>2 DEF Position
    <3> QED
      BY <1>0, <3>2, <3>3, NothingUnderVacancy DEF TreeInv
  <2> SUFFICES ASSUME NEW r \in DOMAIN tree', NEW q \in DOMAIN tree'
               PROVE  /\ Under(Child(r, "left"), q) => tree'[q].lower < tree'[r].lower
                      /\ Under(Child(r, "right"), q) => tree'[q].lower > tree'[r].upper
    BY DEF SearchOrder, Child
  <2>3. CASE r = p
    BY <2>2, <2>3 DEF Side
  <2>4. CASE r \in DOMAIN tree /\ q = p
    BY <1>1, <2>1, <2>4 DEF Side
  <2>5. CASE r \in DOMAIN tree /\ q \in DOMAIN tree
    BY <1>1, <2>5 DEF TreeInv, SearchOrder, Child
  <2> QED
    BY <1>1, <2>3, <2>4, <2>5
<1>5. RangesNonempty'
  BY <1>1 DEF TreeInv, RangesNonempty
<1>6. EntriesDistinct'
  BY <1>1 DEF TreeInv, EntriesDistinct, VacantFor
<1> QED
  BY <1>2, <1>3, <1>4, <1>5, <1>6 DEF TreeInv

(* What a search established stays true while the tree does not change. *)
LEMMA VacantStays ==
    ASSUME NEW x, NEW p, VacantFor(x, p), UNCHANGED tree
    PROVE  VacantFor(x, p)'
BY DEF VacantFor, OnPath

---------------------------------------------------------------------------
(* The bound of a search.                                                  *)

(* A range that does not hang at p or below starts before x, or after      *)
(* everything that does.                                                   *)
SidesApart(x, p) ==
    \A q \in DOMAIN tree : ~Under(p, q) =>
        \/ tree[q].lower < x
        \/ \A r \in DOMAIN tree : Under(p, r) => tree[r].lower < tree[q].lower

(* After a turn to the left at most what hangs at w.at or below can start  *)
(* between the key and the bound.                                          *)
BoundExact(w) ==
    w.at # <<>> /\ w.at[Len(w.at)] = "left" =>
        /\ w.bound >= w.key
        /\ \A q \in DOMAIN tree :
              tree[q].lower > w.key => tree[q].lower > w.bound \/ Under(w.at, q)

LEMMA StartBound ==
    ASSUME TreeTypeOK, NEW x \in Nat, StartWalk(x), UNCHANGED tree
    PROVE  SidesApart(walk.key, walk.at)' /\ BoundExact(walk)'
<1>1. walk'.at = <<>>
  BY DEF StartWalk
<1>2. \A q \in DOMAIN tree : Under(<<>>, q)
  BY DEF Under, TreeTypeOK, Position
<1> QED
  BY <1>1, <1>2 DEF SidesApart, BoundExact

LEMMA TurnBound ==
    ASSUME TreeInv, WalkInv, SidesApart(walk.key, walk.at), Turn, UNCHANGED tree
    PROVE  SidesApart(walk.key, walk.at)' /\ BoundExact(walk)'
<1> DEFINE n == walk.at
<1>1. /\ n \in Position /\ n \in DOMAIN tree /\ walk.key \in Nat
      /\ tree[n].lower \in Nat /\ tree[n].upper \in Nat /\ tree[n].lower <= tree[n].upper
      /\ Len(n) \in Nat
  BY DEF TreeInv, TreeTypeOK, RangesNonempty, Walk, AddrRange, Turn, TurnLeft, TurnRight, AtNode, Position
<1>2. \A q \in DOMAIN tree : q \in Position /\ tree[q].lower \in Nat
  BY DEF TreeInv, TreeTypeOK, AddrRange
<1>3. Under(n, n)
  BY <1>1 DEF Under
<1>4. \A r \in DOMAIN tree, s \in Side : Under(Child(n, s), r) => Under(n, r)
  BY <1>1, <1>2, UnderChild
<1>5. \A q \in DOMAIN tree :
         \/ ~Under(n, q)
         \/ q = n
         \/ Under(Child(n, "left"), q) /\ tree[q].lower < tree[n].lower
         \/ Under(Child(n, "right"), q) /\ tree[q].lower > tree[n].upper
  BY <1>1, <1>2, UnderSplits DEF TreeInv, SearchOrder, Child
<1>6. \A q \in DOMAIN tree : ~Under(n, q) =>
         \/ tree[q].lower < walk.key
         \/ \A r \in DOMAIN tree : Under(n, r) => tree[r].lower < tree[q].lower
  BY DEF SidesApart
<1>7. \A r \in DOMAIN tree :
         /\ Under(Child(n, "left"), r) => tree[r].lower < tree[n].lower
         /\ Under(Child(n, "right"), r) => tree[r].lower > tree[n].upper
  BY <1>1 DEF TreeInv, SearchOrder, Child
<1>8. CASE TurnLeft
  <2>1. /\ walk.key < tree[n].lower /\ walk'.key = walk.key
        /\ walk'.at = Child(n, "left") /\ walk'.bound = tree[n].lower - 1
    BY <1>8 DEF TurnLeft, Child, leftChild, BoundBefore
  <2>2. ASSUME NEW q \in DOMAIN tree, ~Under(Child(n, "left"), q)
        PROVE  \/ tree[q].lower < walk.key
               \/ /\ tree[q].lower >= tree[n].lower
                  /\ \A r \in DOMAIN tree : Under(Child(n, "left"), r) => tree[r].lower < tree[q].lower
    <3>1. CASE ~Under(n, q)
      BY <1>1, <1>2, <1>3, <1>4, <1>6, <2>2, <3>1 DEF Side
    <3>2. CASE q = n \/ tree[q].lower > tree[n].upper
      <4>1. tree[q].lower \in Nat /\ tree[q].lower >= tree[n].lower
        BY <1>1, <1>2, <3>2
      <4> QED
        BY <1>1, <1>2, <1>7, <4>1
    <3> QED
      BY <1>5, <2>2, <3>1, <3>2
  <2>3. SidesApart(walk.key, walk.at)'
    BY <2>1, <2>2 DEF SidesApart
  <2>4. BoundExact(walk)'
    BY <1>1, <1>2, <2>1, <2>2 DEF BoundExact
  <2> QED
    BY <2>3, <2>4
<1>9. CASE TurnRight
  <2>1. /\ walk.key > tree[n].upper /\ walk'.key = walk.key /\ walk'.at = Child(n, "right")
    BY <1>9 DEF TurnRight, RightOf, Child
  <2>2. ASSUME NEW q \in DOMAIN tree, ~Under(Child(n, "right"), q)
        PROVE  \/ tree[q].lower < walk.key
               \/ \A r \in DOMAIN tree : Under(Child(n, "right"), r) => tree[r].lower < tree[q].lower
    <3>1. CASE ~Under(n, q)
      BY <1>4, <1>6, <3>1 DEF Side
    <3>2. CASE q = n \/ tree[q].lower < tree[n].lower
      BY <1>1, <1>2, <2>1, <3>2
    <3> QED
      BY <1>5, <2>2, <3>1, <3>2
  <2>3. SidesApart(walk.key, walk.at)'
    BY <2>1, <2>2 DEF SidesApart
  <2>4. walk'.at[Len(walk'.at)] = "right"
    BY <1>1, <2>1, ChildPosition DEF Side
  <2>5. BoundExact(walk)'
    BY <2>4 DEF BoundExact
  <2> QED
    BY <2>3, <2>5
<1> QED
  BY <1>8, <1>9 DEF Turn
=============================================================================
