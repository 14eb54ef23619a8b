------------------------------- MODULE RBTreeSet -------------------------------
(***************************************************************************)
(* The red-black tree of rbtree.h as its users drive it: nodes enter with  *)
(* rbtree_insert and leave with rbtree_delete, in any order.  Every node x *)
(* has the key KeyOf[x], and nodes may share a key, as the chunks of one   *)
(* arena with equal free space do in the chunk pools.                      *)
(***************************************************************************)
EXTENDS RBTree, SequencesExt

CONSTANT KeyOf          \* the key each node is given

VARIABLES
    tree,               \* the tree
    members             \* the set it stands for: the nodes inserted, not deleted

vars == <<tree, members>>

Init == tree = rbtree_init /\ members = {}

Insert(x) ==
    /\ x \notin members
    /\ tree' = rbtree_insert(tree, x, KeyOf[x])
    /\ members' = members \cup {x}

Delete(x) ==
    /\ x \in members
    /\ tree' = rbtree_delete(tree, x)
    /\ members' = members \ {x}

Next == \E x \in Pointer : Insert(x) \/ Delete(x)

Spec == Init /\ [][Next]_vars

-----------------------------------------------------------------------------
(* Properties *)

\* Below: a strict order of the keys, the one RB_COMPARE computes.
Below(j, k) == RB_COMPARE(j, k) < 0

\* The nodes below x from left to right, no deeper than fuel levels (a cycle of
\* links cannot make it run forever).
RECURSIVE Walk(_, _, _)
Walk(t, x, fuel) ==
    IF x = RB_NULL \/ fuel = 0 THEN <<>>
    ELSE Walk(t, t.node[x].left, fuel - 1) \o <<x>> \o Walk(t, t.node[x].right, fuel - 1)

InOrder(t) == Walk(t, t.root, Cardinality(Pointer))

RECURSIVE BlackHeights(_, _, _)
BlackHeights(t, x, fuel) ==
    IF x = RB_NULL \/ fuel = 0 THEN {0}
    ELSE LET below == BlackHeights(t, t.node[x].left, fuel - 1)
                        \cup BlackHeights(t, t.node[x].right, fuel - 1)
         IN  {h + (IF IsRed(t, x) THEN 0 ELSE 1) : h \in below}

\* The tree holds exactly the nodes inserted and not deleted, once each, in key
\* order, and size counts them: no rotation or replacement loses a subtree.
\* Parent links and child links agree, so that the climbs of rbtree_fix_insert,
\* rbtree_fix_delete, rbtree_next and rbtree_prev stay in the tree.
HoldsMembers ==
    LET s == InOrder(tree)
    IN  /\ Len(s) = Cardinality(members) /\ ToSet(s) = members
        /\ tree.size = Len(s)
        /\ \A i, j \in 1 .. Len(s) : i < j => ~Below(KeyOf[s[j]], KeyOf[s[i]])
        /\ tree.root # RB_NULL => tree.node[tree.root].p = RB_NULL
        /\ \A x \in members, d \in {"left", "right"} :
             tree.node[x][d] # RB_NULL => tree.node[tree.node[x][d]].p = x

\* The red-black rules hold after every fix-up: the root is black, no red node
\* has a red child, and every path to a leaf has as many black nodes.
RedBlack ==
    /\ ~IsRed(tree, tree.root)
    /\ \A x \in members, d \in {"left", "right"} :
         IsRed(tree, x) => ~IsRed(tree, tree.node[x][d])
    /\ Cardinality(BlackHeights(tree, tree.root, Cardinality(Pointer))) = 1

\* rbtree_lower finds a node not below k whenever there is one, and rbtree_find
\* a node with key k whenever there is one: a chunk with room is never missed.
\* rbtree_next and rbtree_prev, started at rbtree_min and rbtree_max, visit the
\* nodes in order and stop at the ends.
SearchComplete ==
    LET s == InOrder(tree)
    IN  /\ \A k \in {KeyOf[x] : x \in Pointer} :
             LET low == rbtree_lower(tree, k)
                 fnd == rbtree_find(tree, k)
             IN  /\ low # RB_NULL => low \in members /\ ~Below(KeyOf[low], k)
                 /\ low = RB_NULL => \A x \in members : Below(KeyOf[x], k)
                 /\ fnd # RB_NULL => fnd \in members /\ RB_COMPARE(KeyOf[fnd], k) = 0
                 /\ fnd = RB_NULL => \A x \in members : RB_COMPARE(KeyOf[x], k) # 0
        /\ s # <<>> => rbtree_min(tree) = Head(s) /\ rbtree_max(tree) = Last(s)
        /\ \A i \in 1 .. Len(s) :
             /\ rbtree_next(tree, s[i]) = IF i < Len(s) THEN s[i + 1] ELSE RB_NULL
             /\ rbtree_prev(tree, s[i]) = IF i > 1 THEN s[i - 1] ELSE RB_NULL
===============================================================================
