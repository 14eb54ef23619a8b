-------------------------------- MODULE RBTree --------------------------------
(***************************************************************************)
(* The intrusive red-black tree of rbtree.h.  A tree is a record: its root *)
(* pointer, its size, and the node found at each pointer (field s of a C   *)
(* node is the pointer itself).  RB_NULL is mapped too: there lives enode, *)
(* the local sentinel of rbtree_delete.  The code's left and right cases   *)
(* are one case here, parameterised by the side d a node hangs on.         *)
(*                                                                         *)
(* Links of a node that is in no tree are not part of a tree:              *)
(* rbtree_insert overwrites them, and here they are blank.                 *)
(***************************************************************************)
EXTENDS Integers, Sequences, FiniteSets

CONSTANTS
    Pointer,            \* RB_POINTER, without RB_NULL
    RB_NULL,
    NoKey,              \* key of a blank node
    RB_COMPARE(_, _)    \* < 0, 0 or > 0

ASSUME NullAssumption == RB_NULL \notin Pointer

Blank == [p |-> RB_NULL, left |-> RB_NULL, right |-> RB_NULL,
          v |-> NoKey, color |-> "black"]

rbtree_init == [root |-> RB_NULL, size |-> 0,
                node |-> [x \in Pointer \cup {RB_NULL} |-> Blank]]

Other(d) == IF d = "left" THEN "right" ELSE "left"

\* The side of its parent p that node x hangs on.
SideOf(t, p, x) == IF t.node[p].left = x THEN "left" ELSE "right"

Paint(t, x, c) == [t EXCEPT !.node[x].color = c]
IsRed(t, x)    == x # RB_NULL /\ t.node[x].color = "red"

\* Make y the child (or the root) that x was under parent p.
Relink(t, p, x, y) ==
    IF p = RB_NULL THEN [t EXCEPT !.root = y]
                   ELSE [t EXCEPT !.node[p][SideOf(t, p, x)] = y]

\* rbtree_left_rotate for d = "left", rbtree_right_rotate for d = "right".
Rotate(t, x, d) ==
    LET o  == Other(d)
        y  == t.node[x][o]
        p  == t.node[x].p
        c  == t.node[y][d]
        t1 == [t EXCEPT !.node[x] = [@ EXCEPT ![o] = c, !.p = y]]
        t2 == IF c = RB_NULL THEN t1 ELSE [t1 EXCEPT !.node[c].p = x]
        t3 == Relink(t2, p, x, y)
    IN  [t3 EXCEPT !.node[y] = [@ EXCEPT ![d] = x, !.p = p]]

RECURSIVE MinNode(_, _), MaxNode(_, _)
MinNode(t, x) == IF t.node[x].left = RB_NULL THEN x ELSE MinNode(t, t.node[x].left)
MaxNode(t, x) == IF t.node[x].right = RB_NULL THEN x ELSE MaxNode(t, t.node[x].right)

rbtree_min(t) == IF t.root = RB_NULL THEN RB_NULL ELSE MinNode(t, t.root)
rbtree_max(t) == IF t.root = RB_NULL THEN RB_NULL ELSE MaxNode(t, t.root)

\* Up from x to the first ancestor reached from its side d, RB_NULL if none.
RECURSIVE Climb(_, _, _)
Climb(t, x, d) ==
    LET p == t.node[x].p
    IN  IF p = RB_NULL \/ t.node[p][Other(d)] # x THEN p ELSE Climb(t, p, d)

rbtree_next(t, x) ==
    IF t.node[x].right # RB_NULL THEN MinNode(t, t.node[x].right) ELSE Climb(t, x, "left")
rbtree_prev(t, x) ==
    IF t.node[x].left # RB_NULL THEN MaxNode(t, t.node[x].left) ELSE Climb(t, x, "right")

-----------------------------------------------------------------------------
(* Search *)

RECURSIVE Find(_, _, _)
Find(t, x, k) ==
    IF x = RB_NULL \/ RB_COMPARE(t.node[x].v, k) = 0 THEN x
    ELSE Find(t, t.node[x][IF RB_COMPARE(t.node[x].v, k) < 0 THEN "right" ELSE "left"], k)

rbtree_find(t, k) == Find(t, t.root, k)

\* Descend for k; best is the last node not below k (prev, once prev_bigger is
\* set), and the first node below k after it ends the search.
RECURSIVE Lower(_, _, _, _)
Lower(t, x, k, best) ==
    IF x = RB_NULL THEN best
    ELSE IF RB_COMPARE(t.node[x].v, k) < 0
         THEN IF best # RB_NULL THEN best ELSE Lower(t, t.node[x].right, k, best)
         ELSE Lower(t, t.node[x].left, k, x)

\* Mutant: prev_bigger is set from the start.
rbtree_lower_from_root(t, k) == Lower(t, t.root, k, t.root)

rbtree_lower(t, k) == Lower(t, t.root, k, RB_NULL)

-----------------------------------------------------------------------------
(* Insertion *)

RECURSIVE FixInsert(_, _)
FixInsert(t, x) ==
    LET p  == t.node[x].p
        pp == t.node[p].p
        d  == SideOf(t, pp, p)
        o  == Other(d)
        uncle == t.node[pp][o]
    IN  IF ~IsRed(t, p)
        THEN IF p = RB_NULL THEN Paint(t, x, "black") ELSE t
        ELSE IF IsRed(t, uncle)
        THEN FixInsert(Paint(Paint(Paint(t, uncle, "black"), p, "black"), pp, "red"), pp)
        ELSE LET inner == t.node[p][o] = x
                 t1    == IF inner THEN Rotate(t, p, d) ELSE t
                 upper == IF inner THEN x ELSE p
                 lower == IF inner THEN p ELSE x
             IN  FixInsert(Rotate(Paint(Paint(t1, upper, "black"), pp, "red"), pp, o), lower)

\* The node a new key is hung under.
RECURSIVE InsertPoint(_, _, _)
InsertPoint(t, x, k) ==
    LET c == t.node[x][IF RB_COMPARE(t.node[x].v, k) < 0 THEN "right" ELSE "left"]
    IN  IF c = RB_NULL THEN x ELSE InsertPoint(t, c, k)

rbtree_insert(t, new, k) ==
    LET t1 == [t EXCEPT !.size = @ + 1,
                        !.node[new] = [Blank EXCEPT !.color = "red", !.v = k]]
        x  == InsertPoint(t1, t1.root, k)
        d  == IF RB_COMPARE(t1.node[x].v, k) < 0 THEN "right" ELSE "left"
    IN  IF t.root = RB_NULL
        THEN [t1 EXCEPT !.root = new, !.node[new].color = "black"]
        ELSE FixInsert([t1 EXCEPT !.node[x][d] = new, !.node[new].p = x], new)

-----------------------------------------------------------------------------
(* Deletion *)

RECURSIVE FixDelete(_, _)
FixDelete(t, x) ==
    LET p  == t.node[x].p
        d  == SideOf(t, p, x)
        o  == Other(d)
        w0 == t.node[p][o]
        t1 == IF IsRed(t, w0) THEN Rotate(Paint(Paint(t, w0, "black"), p, "red"), p, d) ELSE t
        w1 == t1.node[p][o]
        near == t1.node[w1][d]
        t2 == IF IsRed(t1, t1.node[w1][o]) THEN t1
              ELSE Rotate(Paint(Paint(t1, near, "black"), w1, "red"), w1, o)
        w2 == t2.node[p][o]
        far == t2.node[w2][o]
        t3 == Paint(Paint(Paint(t2, w2, t2.node[p].color), p, "black"), far, "black")
    IN  IF p = RB_NULL \/ t.node[x].color = "red" THEN Paint(t, x, "black")
        ELSE IF ~IsRed(t1, near) /\ ~IsRed(t1, t1.node[w1][o])
        THEN FixDelete(Paint(t1, w1, "red"), p)
        ELSE Paint(Rotate(t3, p, d), x, "black")

\* Mutant: the root pointer is not moved when the root leaves.
Unlink_root_stays(t, y, x) ==
    LET t1 == [t EXCEPT !.node[x].p = t.node[y].p]
    IN  IF t.node[y].p = RB_NULL THEN t1 ELSE Relink(t1, t.node[y].p, y, x)

\* Take y, the node that leaves its place in the tree, out of it: x, its only
\* child or enode, moves up.
Unlink(t, y, x) == Relink([t EXCEPT !.node[x].p = t.node[y].p], t.node[y].p, y, x)

\* Mutant: y keeps its own colour.
Replace_own_color(t, z, y, x) ==
    LET t1 == IF t.node[y].p = z THEN [t EXCEPT !.node[x].p = y] ELSE t
        t2 == Relink(t1, t.node[z].p, z, y)
        l  == t2.node[z].left
        r  == t2.node[z].right
        t3 == IF l = RB_NULL THEN t2 ELSE [t2 EXCEPT !.node[l].p = y]
        t4 == IF r = RB_NULL THEN t3 ELSE [t3 EXCEPT !.node[r].p = y]
    IN  [t4 EXCEPT !.node[y] = [@ EXCEPT !.p = t.node[z].p, !.left = l, !.right = r]]

\* Put y where node z is.
Replace(t, z, y, x) ==
    LET t1 == IF t.node[y].p = z THEN [t EXCEPT !.node[x].p = y] ELSE t
        t2 == Relink(t1, t.node[z].p, z, y)
        l  == t2.node[z].left
        r  == t2.node[z].right
        t3 == IF l = RB_NULL THEN t2 ELSE [t2 EXCEPT !.node[l].p = y]
        t4 == IF r = RB_NULL THEN t3 ELSE [t3 EXCEPT !.node[r].p = y]
    IN  [t4 EXCEPT !.node[y] = [@ EXCEPT !.color = t.node[z].color, !.p = t.node[z].p,
                                         !.left = l, !.right = r]]

rbtree_delete(t, z) ==
    LET l  == t.node[z].left
        r  == t.node[z].right
        y  == IF l = RB_NULL \/ r = RB_NULL THEN z ELSE MinNode(t, r)
        x  == IF l = RB_NULL THEN r ELSE IF r = RB_NULL THEN l ELSE t.node[y].right
        t1 == Unlink([t EXCEPT !.size = @ - 1], y, x)
        t2 == IF y = z THEN t1 ELSE Replace(t1, z, y, x)
        t3 == IF t.node[y].color = "black" THEN FixDelete(t2, x) ELSE t2
    IN  [t3 EXCEPT !.node[z] = Blank, !.node[RB_NULL] = Blank]
===============================================================================
