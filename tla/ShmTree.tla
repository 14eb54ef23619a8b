------------------------------- MODULE ShmTree --------------------------------
(***************************************************************************)
(* The leftist tree of shm_tree.h and shm_tree.c, ordered by position, that*)
(* a run pool keeps its runs in.  The links are part of the runs           *)
(* themselves: node[x] is the shm_tree_node at position x.  A pool is the  *)
(* record of its root, its size and the links.                             *)
(*                                                                         *)
(* ends is FALSE when an operation does not come back: the recursion of    *)
(* shm_tree_merge goes down the right links only and changes nothing on    *)
(* the way down, so it ends within 2 * |Node| calls or runs in a cycle of  *)
(* links; shm_tree_pop asserts that the size is not 0 and dereferences the *)
(* root, and shm_tree_remove the parent of a node that is not the root.    *)
(***************************************************************************)
EXTENDS Integers, FiniteSets

CONSTANTS
    Node,           \* the positions a node may be at
    SHM_NULL

ASSUME NodeAssumption == Node \subseteq Nat /\ IsFiniteSet(Node) /\ SHM_NULL \notin Node

Link == Node \cup {SHM_NULL}

Unlinked == [rank |-> 0, root |-> SHM_NULL, left |-> SHM_NULL, right |-> SHM_NULL]

Fuel == 2 * Cardinality(Node) + 1

\* Mutant: the merged subtree is not told its new parent.
Join_no_parent(node, t, r) ==
    LET m == [node EXCEPT ![t].right = r]
        l == m[t].left
    IN  IF l = SHM_NULL
        THEN [m EXCEPT ![t] = [@ EXCEPT !.left = r, !.right = SHM_NULL]]
        ELSE IF m[l].rank < m[r].rank
        THEN [m EXCEPT ![t] = [@ EXCEPT !.left = r, !.right = l, !.rank = m[l].rank + 1]]
        ELSE [m EXCEPT ![t].rank = m[r].rank + 1]

\* Hang r, the merge of the right subtree of t with another tree, under t, and
\* keep the subtree of the higher rank on the left.
Join(node, t, r) ==
    LET m == [[node EXCEPT ![r].root = t] EXCEPT ![t].right = r]
        l == m[t].left
    IN  IF l = SHM_NULL
        THEN [m EXCEPT ![t] = [@ EXCEPT !.left = r, !.right = SHM_NULL]]
        ELSE IF m[l].rank < m[r].rank
        THEN [m EXCEPT ![t] = [@ EXCEPT !.left = r, !.right = l, !.rank = m[l].rank + 1]]
        ELSE [m EXCEPT ![t].rank = m[r].rank + 1]

\* What a call returns for each pair of trees, given what the call it makes returns.
MergeCall(node, deeper) == [t \in Link \X Link |->
    LET low  == IF t[1] > t[2] THEN t[2] ELSE t[1]
        high == IF t[1] > t[2] THEN t[1] ELSE t[2]
        sub  == deeper[<<node[low].right, high>>]
    IN  IF t[1] = SHM_NULL THEN [node |-> node, pos |-> t[2], ends |-> TRUE]
        ELSE IF t[2] = SHM_NULL THEN [node |-> node, pos |-> t[1], ends |-> TRUE]
        ELSE IF ~sub.ends THEN sub
        ELSE [node |-> Join(sub.node, low, sub.pos), pos |-> low, ends |-> TRUE]]

NoReturn(node) == [t \in Link \X Link |-> [node |-> node, pos |-> SHM_NULL, ends |-> FALSE]]

\* The outcomes of the call that may have n calls below it.
Merge(node) ==
    LET merge[n \in 0 .. Fuel] == MergeCall(node, IF n = 0 THEN NoReturn(node) ELSE merge[n - 1])
    IN  merge

shm_tree_merge(node, a, b) == Merge(node)[Fuel][<<a, b>>]

\* The merge of the two subtrees of x, hung under parent.
MergeBelow(node, x, parent) ==
    LET s == shm_tree_merge(node, node[x].left, node[x].right)
    IN  IF s.pos = SHM_NULL THEN s ELSE [s EXCEPT !.node[s.pos].root = parent]

shm_tree_push(t, x) ==
    LET s == shm_tree_merge(t.node, t.root, x)
    IN  [node |-> s.node, root |-> s.pos, size |-> t.size + 1, ends |-> s.ends]

\* The popped node keeps its own links.
shm_tree_pop(t) ==
    LET s == MergeBelow(t.node, t.root, SHM_NULL)
    IN  IF t.size = 0 \/ t.root = SHM_NULL THEN [t EXCEPT !.ends = FALSE]
        ELSE [node |-> s.node, root |-> s.pos, size |-> t.size - 1, ends |-> s.ends]

shm_tree_remove(t, x) ==
    LET parent == t.node[x].root
        s      == MergeBelow(t.node, x, parent)
    IN  IF t.root = x THEN shm_tree_pop(t)
        ELSE IF parent = SHM_NULL THEN [t EXCEPT !.ends = FALSE]
        ELSE [node |-> IF s.node[parent].left = x THEN [s.node EXCEPT ![parent].left = s.pos]
                       ELSE [s.node EXCEPT ![parent].right = s.pos],
              root |-> t.root, size |-> t.size - 1, ends |-> s.ends]
===============================================================================
