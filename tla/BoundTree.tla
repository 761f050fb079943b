----------------------------- MODULE BoundTree -----------------------------
(***************************************************************************)
(* data/boundTree: the binary search tree of the address ranges that have  *)
(* been disassembled.  A node is named by its position, the sequence of    *)
(* turns that leads to it from the root, so a tree is a function from a    *)
(* prefix-closed set of positions to ranges: node->leftChild is the node   *)
(* at Append(p, "left") and NULL when that position is outside the domain. *)
(*                                                                         *)
(* Both searches of the code (boundFind and boundTree_insert) are loops    *)
(* that go one turn per iteration; the actions below are the iterations,   *)
(* so that a module that interleaves several searches can use them.        *)
(***************************************************************************)
EXTENDS Integers, Sequences, FiniteSets

CONSTANTS
    NO_BOUND,   \* what boundFind adds to the key when no range limits it
    NULL        \* the null pointer

ASSUME NoBoundAssumption == NO_BOUND \in Nat \ {0}

VARIABLES
    tree,       \* position -> range; the root is at <<>>
    walk,       \* the locals of the search that is running
    data        \* the metadata boundFind returned, or NULL

treeVars == <<tree, walk, data>>

Side == {"left", "right"}
Position == Seq(Side)
AddrRange == [lower : Nat, upper : Nat]

(* boundTreeData: node and isLeftChild together are the vacant position. *)
MetaData == [at : Position, bound : Int]

(* currentNode, the key and bound, the locals of the search loop. *)
Walk == [key : Nat, at : Position, bound : Int]

isInitialized == <<>> \in DOMAIN tree

Inside(x, r) == r.lower <= x /\ x <= r.upper

(* The addresses that lie in some range of the tree. *)
Covered(x) == \E p \in DOMAIN tree : Inside(x, tree[p])

boundTree_new == tree = << >> /\ data = NULL

---------------------------------------------------------------------------
(* The search.  The bound of an empty tree is key + NO_BOUND; otherwise    *)
(* the first turn overwrites the 0 that the code starts from.              *)

StartWalk(x) == walk' = [key |-> x, at |-> <<>>, bound |-> x + NO_BOUND]

AtNode == walk.at \in DOMAIN tree

Stays(p) == p                                          \* mutant
leftChild(p) == Append(p, "left")

IncludesEntry(r) == r.lower                            \* mutant
BoundBefore(r) == r.lower - 1

RightOfEntry(x, r) == x >= r.lower                     \* mutant
RightOf(x, r) == x > r.upper

TurnLeft ==
    /\ AtNode
    /\ walk.key < tree[walk.at].lower
    /\ walk' = [key |-> walk.key, at |-> leftChild(walk.at),
                bound |-> BoundBefore(tree[walk.at])]

(* The bound that an earlier left turn gave is overwritten here. *)
TurnRight ==
    /\ AtNode
    /\ RightOf(walk.key, tree[walk.at])
    /\ walk' = [key |-> walk.key, at |-> Append(walk.at, "right"),
                bound |-> walk.key + NO_BOUND]

Turn == TurnLeft \/ TurnRight

(* The search meets a range that holds the key: NULL. *)
MeetsRange == AtNode /\ Inside(walk.key, tree[walk.at])

(* The search reaches a NULL child. *)
ReachesVacancy == ~AtNode

LeftOnly(p) == [i \in DOMAIN p |-> IF i = Len(p) THEN "left" ELSE p[i]]  \* mutant
NoNode(p) == NULL                                      \* mutant
Vacancy(p) == p

boundFindReturns == data' = [at |-> Vacancy(walk.at), bound |-> walk.bound]

---------------------------------------------------------------------------
(* Attaching a node.  On an empty tree it becomes the root (isInitialized  *)
(* becomes 1); where a child already hangs the pointer is overwritten and  *)
(* the subtree that hung there is lost.                                    *)

Under(p, q) ==
    /\ Len(p) <= Len(q)
    /\ \A i \in 1 .. Len(p) : p[i] = q[i]

Attach(p, l, u) ==
    tree' = [q \in {r \in DOMAIN tree : ~Under(p, r)} \cup {p} |->
                IF q = p THEN [lower |-> l, upper |-> u] ELSE tree[q]]

(* Frees the metadata, which nobody reads again before the next boundFind. *)
direct_boundTree_insert(l, u) == Attach(data.at, l, u)

---------------------------------------------------------------------------

TreeTypeOK ==
    /\ DOMAIN tree \subseteq Position
    /\ tree \in [DOMAIN tree -> AddrRange]
    /\ walk \in Walk
    /\ data \in MetaData \cup {NULL}

(* Every node hangs from the root: no position without its parents. *)
Rooted ==
    \A q \in DOMAIN tree : \A i \in 0 .. Len(q) : SubSeq(q, 1, i) \in DOMAIN tree

(* The search order: whatever hangs on the left of a range starts below    *)
(* it, whatever hangs on the right starts above its last address.          *)
SearchOrder ==
    \A p, q \in DOMAIN tree :
        /\ Under(Append(p, "left"), q) => tree[q].lower < tree[p].lower
        /\ Under(Append(p, "right"), q) => tree[q].lower > tree[p].upper

(* No two ranges start at the same address: no code is scanned twice from  *)
(* the same entry.                                                         *)
EntriesDistinct ==
    \A p, q \in DOMAIN tree : tree[p].lower = tree[q].lower => p = q
=============================================================================
