------------------------------- MODULE SmallTree -------------------------------
(***************************************************************************)
(* SmallChunk with the leftist trees that the code keeps the run pools in. *)
(* The links of a run are in its header (struct run_header starts with its *)
(* shm_tree_node): new_chunk_run clears them, and nothing else does.  Here *)
(* the trees decide, before and after a run is pushed with old links: the  *)
(* root is the run that is offered, size the counter of the pool.  The     *)
(* variables pool and linked are what the trees would be without old links *)
(* and decide nothing.                                                     *)
(*                                                                         *)
(* The module stops once memory has two users (clash): what these store in *)
(* it, links of a free list or their own data, is not modelled.            *)
(***************************************************************************)
EXTENDS SmallChunk

VARIABLES
    node,           \* the shm_tree_node of each run
    root, size,     \* shm_pool.root and shm_pool.size of each class
    clash           \* history: malloc_arena has used memory somebody holds

trees == <<node, root, size>>
tvars == <<vars, trees, clash>>

NULL == 0           \* SHM_NULL: run 0 is the header of chunk 0

T == INSTANCE ShmTree WITH Node <- Run \ {NULL}, SHM_NULL <- NULL

\* The pool of class c, and the state after an operation on it made it t.
Pool(c) == [node |-> node, root |-> root[c], size |-> size[c], ends |-> TRUE]
Becomes(c, t) ==
    /\ node' = t.node
    /\ root' = [root EXCEPT ![c] = t.root]
    /\ size' = [size EXCEPT ![c] = t.size]

TreeInit ==
    /\ Init
    /\ node = [r \in Run \ {NULL} |-> T!Unlinked]
    /\ root = [c \in Class |-> NULL] /\ size = [c \in Class |-> 0]
    /\ clash = FALSE

\* Somebody holds one of the n bytes from position p on.
Occupied(p, n) == \E q \in Pos : held[q] # 0 /\ q < p + n /\ p < q + held[q]

\* Mutant: a run that is full is not popped.
PopFull_never(h, t) == t

\* malloc_chunk_run pops a run that header h says is full.
PopFull(h, t) == IF run_full(h) THEN T!shm_tree_pop(t) ELSE t

\* try_run_pool finds run r at the root of the pool of class c.  The pool that
\* is popped is that of the class the header says.
Tree_malloc_run(c) ==
    LET r == root[c]
        h == run[r]
        t == PopFull(malloc_run(h), Pool(h.conf_index))
    IN  /\ r # NULL
        /\ \/ ~HasSlot(h) /\ try_run_pool(r) /\ UNCHANGED <<trees, clash>>
           \/ /\ HasSlot(h) /\ t.ends
              /\ try_run_pool(r) /\ Becomes(h.conf_index, t)
              /\ clash' = (clash \/ Occupied(r * UnitSize + Head(h.free), ElemSize[h.conf_index]))
           \/ /\ HasSlot(h) /\ ~t.ends /\ failed = "no"
              /\ abort("tree") /\ UNCHANGED <<trees, clash>>

\* Mutant: the page is not cleared.
Cleared_not(n, r) == n

\* new_chunk_run clears the page of run r.
Cleared(n, r) == [n EXCEPT ![r] = T!Unlinked]

Tree_new_chunk_run(c, k) ==
    LET r == FirstRun(k)
        h == malloc_run([conf_index |-> c, used |-> 0, free |-> InitialFree(c)])
        t == T!shm_tree_push([Pool(c) EXCEPT !.node = Cleared(@, r)], r)
    IN  /\ root[c] = NULL
        /\ new_chunk_run(c, k)
        /\ Becomes(c, PopFull(h, t))
        /\ clash' = (clash \/ Occupied(r * UnitSize, UnitSize))

\* A run that was full is pushed with the links it was popped with; a run that
\* is given up is removed.  Either may not come back.
Tree_free_chunk_small(p) ==
    LET r    == p \div UnitSize
        c    == run[r].conf_index
        push == run_full(run[r])
        t1   == IF push THEN T!shm_tree_push(Pool(c), r) ELSE Pool(c)
        t2   == IF t1.ends /\ GivenUp(run[r].used - 1, t1.size) THEN T!shm_tree_remove(t1, r) ELSE t1
    IN  /\ UNCHANGED clash
        /\ \/ run[r].used = 0 /\ free_chunk_small(p, size[c]) /\ UNCHANGED trees
           \/ run[r].used > 0 /\ t2.ends /\ free_chunk_small(p, t1.size) /\ Becomes(c, t2)
           \/ /\ run[r].used > 0 /\ ~t2.ends /\ failed = "no" /\ Found(p)
              /\ failed' = "tree" /\ torn' = (torn \/ (push /\ r \in linked))
              /\ UNCHANGED <<type, maxsize, used, bitmap, run, pool, held, linked, trees>>

TreeNext ==
    /\ ~clash
    /\ \/ \E c \in Class : Tree_malloc_run(c)
       \/ \E c \in Class : \E k \in Candidates : Tree_new_chunk_run(c, k)
       \/ \E c \in Class : root[c] = NULL /\ malloc_full /\ UNCHANGED <<trees, clash>>
       \/ \E p \in Pos : held[p] # 0 /\ Tree_free_chunk_small(p)
       \/ \E r \in Run : free_out_of_range(r * UnitSize + HeaderSize) /\ UNCHANGED <<trees, clash>>

TreeSpec == TreeInit /\ [][TreeNext]_tvars

-----------------------------------------------------------------------------
(* Properties *)

\* As long as no run is pushed with old links, every step with the real trees is
\* one of SmallChunk: the root of a pool is one of its runs, it is NULL when there
\* is none, the counter is their number, and the trees neither hang nor fail.
ChunkSpec == Init /\ [][torn \/ torn' \/ Next]_vars

\* "assert(offset != RUN_LIST_NULL)" in malloc_run: the run at the root of a
\* pool has a free slot.
RootHasSlot == failed # "run"

\* "shm malloc, like malloc": malloc_arena gives out no slot, and makes no run of
\* a page, in which somebody holds memory.
GivenOnce == ~clash
===============================================================================
