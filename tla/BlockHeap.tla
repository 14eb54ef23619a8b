------------------------------- MODULE BlockHeap -------------------------------
(***************************************************************************)
(* What the allocator promises its callers (shm_malloc.h), "like malloc",  *)
(* "like free" and "like realloc": on top of PageHeap, a block keeps what  *)
(* its holder stored in it, whatever is allocated, freed or moved in the   *)
(* meantime, and a block that is moved takes its contents along.  What is  *)
(* in a block that was just given out is not said.                         *)
(***************************************************************************)
EXTENDS PageHeap

CONSTANT Value      \* what holders store

VARIABLE data       \* what is in the block that starts at each position

Live == {p \in Page : held[p] # 0}

\* The contents of the blocks in S stay as they are.
Keeps(S) == \A p \in S : data'[p] = data[p]

MallocBlock(p, len) == Malloc(p, len) /\ Keeps(Live)
FreeBlock(p)        == Free(p) /\ Keeps(Live \ {p})

\* The holder of the block at p stores a value in it, the only way contents may
\* change while nothing is given out or taken back.
Store(p) ==
    /\ p \in Live /\ UNCHANGED held
    /\ data'[p] \in Value /\ Keeps(Live \ {p})

\* The block at p grows to len, and is at q from now on.
Move(p, q, len) ==
    /\ p \in Live /\ held[p] < len
    /\ Extent(q, len) \subseteq Page
    /\ \A r \in Live : Extent(q, len) \cap Extent(r, held[r]) = {}
    /\ held' = [held EXCEPT ![p] = 0, ![q] = len]
    /\ data'[q] = data[p] /\ Keeps(Live \ {p})

\* A holder stores something, or a call changes what is held at one position or two.
BlockNext ==
    \/ /\ held' = held
       /\ \E p \in Page : data'[p] # data[p] /\ Store(p)
    \/ /\ held' # held
       /\ LET changed == {p \in Page : held'[p] # held[p]}
              left    == {p \in changed : held'[p] = 0}
          IN  \/ \E p \in changed \ left : MallocBlock(p, held'[p])
              \/ \E p \in left : FreeBlock(p)
              \/ \E p \in left, q \in changed \ left : Move(p, q, held'[q])

BlockSpec == Init /\ [][BlockNext]_<<held, data>>
===============================================================================
