------------------------------ MODULE MediumTree ------------------------------
(***************************************************************************)
(* MediumChunk with the free tree the code builds: the red-black tree of   *)
(* rbtree.h over medium_tree_compare.  rbtree_lower and rbtree_max, which  *)
(* MediumChunk leaves open, are now computed from the tree.                *)
(***************************************************************************)
EXTENDS MediumChunk, SequencesExt

VARIABLE rb             \* chunk_medium_detial.tree, with its nodes

tvars == <<vars, rb>>

\* medium_tree_value
Value(size, index) == [size |-> size, index |-> index]

\* The difference of the sizes is kept in a uint16_t.
medium_tree_compare(a, b) ==
    LET r == (a.size - b.size) % (2^16)
    IN  IF r # 0 THEN r ELSE a.index - b.index

RB == INSTANCE RBTree WITH Pointer <- Page, NoKey <- Value(0, 0),
                           RB_COMPARE <- medium_tree_compare

TreeInit == Init /\ rb = RB!rbtree_init

Tree_init_chunk ==
    /\ init_chunk
    /\ rb' = RB!rbtree_insert(RB!rbtree_init, 1, Value(Units - 1, 1))

\* The fit is what rbtree_lower returns for the key {size, 0}; the rest of it
\* goes into the tree before the fit leaves it.
Tree_malloc_chunk_medium(size) ==
    LET n    == RB!rbtree_lower(rb, Value(size, 0))
        rest == vsize[n] - size
        rb1  == IF rest > 0 THEN RB!rbtree_insert(rb, n + size, Value(rest, n + size)) ELSE rb
    IN  \/ /\ malloc_chunk_medium(size, n, RB!rbtree_max(RB!rbtree_delete(rb1, n)))
           /\ rb' = RB!rbtree_delete(rb1, n)
        \/ malloc_no_fit(size, n) /\ UNCHANGED rb

\* The units merged away leave the tree, the next one first, and the merged
\* unit enters it.
Tree_free_chunk_medium(curr) ==
    LET next  == NextUnit(curr)
        prev  == PrevUnit(curr)
        rb1   == IF FreeUnit(next) THEN RB!rbtree_delete(rb, next) ELSE rb
        rb2   == IF FreeUnit(prev) THEN RB!rbtree_delete(rb1, prev) ELSE rb1
        index == IF FreeUnit(prev) THEN prev ELSE curr
    IN  /\ free_chunk_medium(curr)
        /\ rb' = RB!rbtree_insert(rb2, index, Value(vsize'[index], index))

TreeNext ==
    \/ Tree_init_chunk
    \/ \E size \in Page : Tree_malloc_chunk_medium(size)
    \/ \E curr \in Page : Tree_free_chunk_medium(curr)
    \/ \E curr \in Page \cup {0} : free_not_used(curr) /\ UNCHANGED rb

TreeSpec == TreeInit /\ [][TreeNext]_tvars

-----------------------------------------------------------------------------
(* Properties *)

RECURSIVE Nodes(_, _)
Nodes(x, fuel) ==
    IF x = RB_NULL \/ fuel = 0 THEN {}
    ELSE {x} \cup Nodes(rb.node[x].left, fuel - 1) \cup Nodes(rb.node[x].right, fuel - 1)

\* Although medium_tree_compare is not an order, the tree neither loses nor
\* keeps a node too long: its nodes are the free units, each with its own size.
TreeIsFreeUnits ==
    type = "MEDIUM" =>
        /\ Nodes(rb.root, Units) = tree
        /\ rb.size = Cardinality(tree)
        /\ \A p \in tree : rb.node[p].v = Value(vsize[p], p)

\* Every step of the chunk with its tree is a step of MediumChunk: the node
\* rbtree_lower or rbtree_max returns is a free unit, as MediumChunk assumes.
ChunkSpec == Spec

\* "assert(n->v.size >= size ...)" in malloc_chunk_medium: the free unit that
\* rbtree_lower returns is large enough.
FitFound == failed # "fit"
===============================================================================
