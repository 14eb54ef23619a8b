------------------------------ MODULE ShmTreeSet ------------------------------
(***************************************************************************)
(* The leftist tree of shm_tree.h used as it asks to be: a node is pushed  *)
(* with its links cleared, as the memset of new_chunk_run leaves them, and *)
(* only a node of the tree is removed.                                     *)
(***************************************************************************)
EXTENDS ShmTree, FiniteSetsExt

VARIABLES
    pool,           \* the tree
    pooled          \* the set it stands for

poolVars == <<pool, pooled>>

PoolInit ==
    /\ pool = [node |-> [x \in Node |-> Unlinked], root |-> SHM_NULL, size |-> 0, ends |-> TRUE]
    /\ pooled = {}

PoolPush(x) ==
    /\ x \notin pooled
    /\ pool' = shm_tree_push([pool EXCEPT !.node[x] = Unlinked], x)
    /\ pooled' = pooled \cup {x}

\* A node that has left the tree is blank here: PoolPush clears it anyway.
Leave(t, x) == [t EXCEPT !.node[x] = Unlinked]

PoolPop ==
    /\ pooled # {}
    /\ pool' = Leave(shm_tree_pop(pool), pool.root)
    /\ pooled' = pooled \ {pool.root}

PoolRemove(x) ==
    /\ x \in pooled
    /\ pool' = Leave(shm_tree_remove(pool, x), x)
    /\ pooled' = pooled \ {x}

PoolNext == PoolPop \/ \E x \in Node : PoolPush(x) \/ PoolRemove(x)

PoolSpec == PoolInit /\ [][PoolNext]_poolVars

-----------------------------------------------------------------------------
(* Properties *)

Children(x) == {pool.node[x].left, pool.node[x].right} \ {SHM_NULL}

\* Every operation comes back (no recursion without end, no NULL dereference),
\* and the links make one tree of the nodes in the pool: each but the root is the
\* child of exactly the node its root link names, which is at a lower position;
\* the root has no parent and is the lowest.  A merge loses no subtree and closes
\* no cycle, and the size of the pool, which decides whether an empty run is given
\* up, counts its nodes.
PoolLinked ==
    /\ pool.ends
    /\ pool.root = IF pooled = {} THEN SHM_NULL ELSE Min(pooled)
    /\ pool.root # SHM_NULL => pool.node[pool.root].root = SHM_NULL
    /\ pool.size = Cardinality(pooled)
    /\ \A x \in pooled :
         /\ \A y \in Children(x) : y \in pooled /\ x < y /\ pool.node[y].root = x
         /\ x # pool.root => \E y \in pooled : x \in Children(y)
         /\ pool.node[x].left = pool.node[x].right => Children(x) = {}
===============================================================================
