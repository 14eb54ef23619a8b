------------------------------ MODULE MediumChunk ------------------------------
(***************************************************************************)
(* One medium chunk (chunk_medium.c): Units pages, page 0 of which is the  *)
(* chunk header.  The rest is divided into units, each free or handed out. *)
(* bitmap_up has a bit for the first page of every unit, bitmap_down is    *)
(* its mirror image (so that "previous" is also a forward scan), and       *)
(* bitmap_type has a bit for the first page of every unit handed out.      *)
(* Every free unit is a node of a red-black tree kept in its own first     *)
(* page.                                                                   *)
(*                                                                         *)
(* Sizes are in pages.  The tree is its set of nodes here: rbtree_lower    *)
(* and rbtree_max are taken to return any node of it (parameters n and m   *)
(* of the actions), so that what holds here holds for every order the tree *)
(* may put its nodes in.  MediumTree adds the tree the code builds.        *)
(***************************************************************************)
EXTENDS Integers, FiniteSetsExt

CONSTANT Units      \* CHUNK_MEDIUM_UNITS, 256 in the code

ASSUME UnitsAssumption == Units \in Nat /\ Units >= 2

VARIABLES
    type,           \* chunk_header.type: "EMPTY" or "MEDIUM"
    maxsize,        \* v.maxsize of the chunk's node in chunk_medium_pool
    max_size,       \* chunk_medium_detial.max_size
    free_size,      \* chunk_medium_detial.free_size
    tree,           \* the pages that are nodes of the free tree
    vsize,          \* v.size of the node in each page, 0 when cleared
    bitmap_type, bitmap_up, bitmap_down,
    held,           \* history: length of the run a caller holds at each page
    failed          \* the assertion that aborted the process, or "no"

vars == <<type, maxsize, max_size, free_size, tree, vsize,
          bitmap_type, bitmap_up, bitmap_down, held, failed>>

Page == 1 .. (Units - 1)
RB_NULL == 0

-----------------------------------------------------------------------------
(* The bitmaps *)

\* Mutant: off by one, as if pages were counted from 1.
Mirror_from_1(p) == Units - p

\* Bit of bitmap_down that stands for page p.
Mirror(p) == (Units - 1) - p

\* First bit of B set at n or above, b if there is none.
bitmap_ffsp(B, n, b) ==
    LET above == {i \in B : n <= i} IN IF above = {} THEN b ELSE Min(above)

find_next_medium_unit(up, p) == bitmap_ffsp(up, p, Units)

find_prev_medium_unit(down, p) ==
    LET q == bitmap_ffsp(down, Mirror(p), Units)
    IN  IF q # Units THEN Mirror(q) ELSE Units

\* The three operations on a unit's bits assert that the bits agree.
UnitSet(up, down, p)   == p \in up /\ Mirror(p) \in down
UnitClear(up, down, p) == p \notin up /\ Mirror(p) \notin down

-----------------------------------------------------------------------------
(* The operations *)

Init ==
    /\ type = "EMPTY"
    /\ maxsize = 0 /\ max_size = 0 /\ free_size = 0
    /\ tree = {} /\ vsize = [p \in Page |-> 0]
    /\ bitmap_type = {} /\ bitmap_up = {} /\ bitmap_down = {}
    /\ held = [p \in Page |-> 0]
    /\ failed = "no"

\* All pages but the header form one free unit.
init_chunk_medium ==
    /\ max_size' = Units - 1 /\ free_size' = Units - 1
    /\ tree' = {1}
    /\ vsize' = [vsize EXCEPT ![1] = Units - 1]
    /\ bitmap_type' = {} /\ bitmap_up' = {1} /\ bitmap_down' = {Mirror(1)}

\* Mutant: the chunk is set up again while it is in use.
init_chunk_in_use ==
    /\ failed = "no"
    /\ type' = "MEDIUM" /\ maxsize' = Units - 1
    /\ init_chunk_medium
    /\ UNCHANGED <<held, failed>>

\* The header is zeroed, the chunk prepared, and it enters the pool with what
\* get_medium_max_size reads.
init_chunk ==
    /\ failed = "no" /\ type = "EMPTY"
    /\ type' = "MEDIUM" /\ maxsize' = Units - 1
    /\ init_chunk_medium
    /\ UNCHANGED <<held, failed>>

\* The chunk's node leaves the pool and comes back with another key.
update_chunk_pool(s) == maxsize' = s

\* Mutant: update_chunk_pool is not called.
check_chunk_medium_max_not_published(s) == max_size' = s /\ UNCHANGED maxsize

\* Record a new largest free size; the pool entry moves only if it differs.
check_chunk_medium_max(s) ==
    /\ max_size' = s
    /\ IF max_size # s THEN update_chunk_pool(s) ELSE UNCHANGED maxsize

\* The pool lends the chunk only for sizes up to the one it advertises.
get_avaliable_chunk(size) == failed = "no" /\ type = "MEDIUM" /\ size <= maxsize

\* Hand out the first size pages of the free unit n that rbtree_lower found;
\* m is what rbtree_max finds in the tree that is left.
malloc_chunk_medium(size, n, m) ==
    LET next == n + size
        rest == vsize[n] - size
        left == IF rest > 0 THEN {next} ELSE {}
    IN  /\ get_avaliable_chunk(size)
        /\ n # RB_NULL /\ vsize[n] >= size
        /\ tree' = (tree \cup left) \ {n}
        /\ vsize' = [p \in Page |-> IF p \in left THEN rest
                                    ELSE IF p = n THEN 0 ELSE vsize[p]]
        /\ bitmap_up' = bitmap_up \cup left
        /\ bitmap_down' = bitmap_down \cup {Mirror(p) : p \in left}
        /\ bitmap_type' = bitmap_type \cup {n}
        /\ free_size' = free_size - size
        /\ IF vsize[n] >= max_size
             THEN check_chunk_medium_max(IF m = RB_NULL THEN 0 ELSE vsize'[m])
             ELSE UNCHANGED <<max_size, maxsize>>
        /\ held' = [held EXCEPT ![n] = size]
        /\ failed' = IF \A p \in left : /\ p + rest <= Units
                                        /\ UnitClear(bitmap_up, bitmap_down, p)
                     THEN "no" ELSE "unit"
        /\ UNCHANGED type

\* rbtree_lower found nothing, or a unit that is too small: the assertions
\* at the head of malloc_chunk_medium end the process.
malloc_no_fit(size, n) ==
    /\ get_avaliable_chunk(size)
    /\ n = RB_NULL \/ vsize[n] < size
    /\ failed' = "fit"
    /\ UNCHANGED <<type, maxsize, max_size, free_size, tree, vsize,
                   bitmap_type, bitmap_up, bitmap_down, held>>

\* free_chunk: a chunk with nothing left in it leaves the pool.
delete_chunk(check) == type' = IF check THEN "EMPTY" ELSE type

\* Mutants: a neighbour is merged whether free or not; the next unit is looked
\* for among those handed out; the unit before is not looked for.
FreeUnit_any(p) == p # Units
NextUnit_handed_out(curr) == find_next_medium_unit(bitmap_type \ {curr}, curr)
PrevUnit_none(curr) == Units

\* There is a unit at p, and it is free.
FreeUnit(p) == p # Units /\ p \notin bitmap_type

\* The unit after the one at curr, and the one before it, Units if there is none.
\* free_chunk_medium clears the bits of curr before it looks for the first, and
\* those of a free next unit before it looks for the second.
NextUnit(curr) == find_next_medium_unit(bitmap_up \ {curr}, curr)

PrevUnit(curr) ==
    LET merged == {p \in {NextUnit(curr)} : FreeUnit(p)}
    IN  find_prev_medium_unit(bitmap_down \ {Mirror(p) : p \in merged \cup {curr}}, curr)

\* Take back the unit at curr and merge it with the free units around it.  The
\* last unit to come back takes the chunk out of the pool (delete_chunk).
free_chunk_medium(curr) ==
    LET next  == NextUnit(curr)
        prev  == PrevUnit(curr)
        gone  == {p \in {next, prev} : FreeUnit(p)}
        index == IF FreeUnit(prev) THEN prev ELSE curr
        size  == (next - curr) + (IF FreeUnit(next) THEN vsize[next] ELSE 0)
                               + (IF FreeUnit(prev) THEN vsize[prev] ELSE 0)
        up    == bitmap_up \ (gone \cup {curr})
        down  == bitmap_down \ {Mirror(p) : p \in gone \cup {curr}}
    IN  /\ failed = "no" /\ type = "MEDIUM"
        /\ curr \in bitmap_type
        /\ bitmap_type' = bitmap_type \ {curr}
        /\ tree' = (tree \ gone) \cup {index}
        /\ vsize' = [p \in Page |-> IF p = index THEN size
                                    ELSE IF p \in gone THEN 0 ELSE vsize[p]]
        /\ bitmap_up' = up \cup {index}
        /\ bitmap_down' = down \cup {Mirror(index)}
        /\ free_size' = free_size + (next - curr)
        /\ IF size >= max_size THEN check_chunk_medium_max(size)
                               ELSE UNCHANGED <<max_size, maxsize>>
        /\ delete_chunk(free_size' = Units - 1)
        /\ held' = [held EXCEPT ![curr] = 0]
        /\ failed' = IF /\ UnitSet(bitmap_up, bitmap_down, curr)
                        /\ \A p \in gone : /\ UnitSet(bitmap_up, bitmap_down, p)
                                           /\ vsize[p] # 0
                        /\ UnitClear(up, down, index)
                     THEN "no" ELSE "unit"

\* A page that no caller holds is refused: the header page, the inside of a
\* unit, a unit already given back.
free_not_used(curr) ==
    /\ failed = "no" /\ type = "MEDIUM"
    /\ curr \notin bitmap_type
    /\ UNCHANGED vars

\* What a search in a tree with these nodes may return.
AnyNode(nodes) == IF nodes = {} THEN {RB_NULL} ELSE nodes

Next ==
    \/ init_chunk
    \/ \E size \in Page, n \in AnyNode(tree), m \in Page \cup {RB_NULL} :
            malloc_chunk_medium(size, n, m) /\ m \in AnyNode(tree')
    \/ \E size \in Page, n \in AnyNode(tree) : malloc_no_fit(size, n)
    \/ \E curr \in Page : free_chunk_medium(curr)
    \/ \E curr \in Page \cup {0} : free_not_used(curr)

Spec == Init /\ [][Next]_vars

-----------------------------------------------------------------------------
(* Properties *)

TypeOK ==
    /\ type \in {"EMPTY", "MEDIUM"}
    /\ maxsize \in 0 .. (Units - 1)
    /\ max_size \in 0 .. (Units - 1)
    /\ free_size \in 0 .. (Units - 1)
    /\ tree \subseteq Page
    /\ vsize \in [Page -> 0 .. (Units - 1)]
    /\ bitmap_type \subseteq Page
    /\ bitmap_up \subseteq Page
    /\ bitmap_down \subseteq 0 .. (Units - 2)
    /\ held \in [Page -> 0 .. (Units - 1)]
    /\ failed \in {"no", "fit", "unit"}

Heap == INSTANCE PageHeap WITH N <- Units - 1

\* The chunk keeps the promise of PageHeap: malloc_chunk_medium never gives a
\* page to a second caller, and only free_chunk_medium ends a caller's hold.
HeapSpec == Heap!Spec

\* Length of the unit that starts at p.
UnitLen(p) == IF p \in tree THEN vsize[p] ELSE held[p]

\* The units whose first pages bitmap_up marks are runs of pages, cover every
\* page but the header, and do not overlap: over any history of splits and
\* merges no page is lost or counted twice.
Fits    == \A p \in bitmap_up : UnitLen(p) >= 1 /\ p + UnitLen(p) <= Units
Apart   == \A p, q \in bitmap_up : p < q => p + UnitLen(p) <= q
Covered == \A x \in Page : \E p \in bitmap_up : p <= x /\ x < p + UnitLen(p)
Tiled   == type = "MEDIUM" => Fits /\ Apart /\ Covered

\* bitmap_type tells apart what is held from what is free, so that a second
\* free of a unit, or a free of a page inside one, is refused.
HeldIsMarked == type = "MEDIUM" => bitmap_type = {p \in Page : held[p] # 0}

\* free_chunk_medium merges with both neighbours: no two free units are adjacent.
Coalesced == type = "MEDIUM" => \A p \in tree : p + vsize[p] \notin tree

\* What the chunk advertises to the pool is the size of a free unit it has, or
\* 0 when it has none: get_avaliable_chunk never picks a chunk without room.
MaxSizeIsFree ==
    type = "MEDIUM" =>
        /\ maxsize = max_size
        /\ max_size = 0 <=> tree = {}
        /\ max_size # 0 => \E p \in tree : vsize[p] = max_size

\* free_size, which decides when the chunk is given up, counts the pages that
\* no caller holds.
HeldPages == {x \in Page : \E p \in Page : x \in Heap!Extent(p, held[p])}
FreeSizeExact == type = "MEDIUM" => free_size = Cardinality(Page \ HeldPages)

\* A chunk that has left the pool has no page in a caller's hands.
DeletedIsUnheld == type = "EMPTY" => \A p \in Page : held[p] = 0

\* The assertions on the bitmaps and on the nodes to merge never fail: only the
\* fit assertion of malloc_chunk_medium can end the process.
UnitAssertsHold == failed # "unit"

\* The bitmaps and the tree describe the same units: bitmap_down mirrors
\* bitmap_up, and a unit is a node of the tree exactly when it is free.
BitmapsAgree ==
    type = "MEDIUM" =>
        /\ bitmap_type \subseteq bitmap_up
        /\ tree = bitmap_up \ bitmap_type
        /\ bitmap_down = {Mirror(p) : p \in bitmap_up}

\* The inductive invariant: what every operation relies on and restores.
IInv ==
    /\ TypeOK
    /\ BitmapsAgree
    /\ Tiled
    /\ HeldIsMarked
    /\ Coalesced
    /\ MaxSizeIsFree
    /\ FreeSizeExact
    /\ DeletedIsUnheld
    /\ UnitAssertsHold
===============================================================================
