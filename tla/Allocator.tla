------------------------------- MODULE Allocator -------------------------------
(***************************************************************************)
(* The whole allocator as its callers see it (shm_malloc.c): the arena     *)
(* table, the pools of chunks, the small and medium chunks and the pool of *)
(* runs together, with shm_malloc, shm_free and shm_realloc on top.  Every *)
(* call runs under the mutex, so it is one action here; the addresses are  *)
(* those of one process (Arena has several).                               *)
(*                                                                         *)
(* A run is the set of its free slots, and the free list gives any of      *)
(* them.  One size class of one unit stands for all.  A medium chunk is    *)
(* its units handed out; the free ones are the gaps between them, and a    *)
(* search in the tree returns any.  A position counts units of memory, the *)
(* smallest request; there are PageSlots units to a page.                  *)
(*                                                                         *)
(* The root of the run pool is any run in it.  That is so until            *)
(* free_chunk_small pushes a run that was popped with links to others      *)
(* (torn); then old links decide, and the model stops.  What happens from  *)
(* there on is in SmallTree.                                               *)
(*                                                                         *)
(* Memory nobody holds is not followed: it is Other, and so is what the    *)
(* allocator itself writes.                                                *)
(***************************************************************************)
EXTENDS Integers, FiniteSetsExt

CONSTANTS
    ArenaMax,       \* SHM_ARENA_MAX, 128 in the code
    ArenaChunks,    \* SHM_ARENA_CHUNK_SIZE, 8 in the code
    Units,          \* pages of a chunk, 256 in the code
    PageSlots,      \* slots of a run; the header of a run is left out
    ArenaSpan,      \* positions an index stands for, 2^32 bytes in the code
    Requests        \* the sizes asked for, in units of memory

Index == 0 .. (ArenaMax - 1)
Slot  == 0 .. (ArenaChunks - 1)
Chunk == Index \X Slot
Page  == 1 .. (Units - 1)           \* page 0 is the header of the chunk
Cell  == 0 .. (PageSlots - 1)       \* the slots of a run

ChunkSize   == Units * PageSlots
SmallLimit  == 1                    \* CHUNK_SMALL_LIMIT
MediumLimit == ChunkSize - PageSlots
Memory      == 1 .. (ArenaMax * ArenaSpan)

align_size(n, align) == align * ((n + align - 1) \div align)

\* The chunks of an arena, and the longest block, are within reach of an offset.
ASSUME AllocatorAssumption ==
    /\ ArenaMax \in Nat \ {0} /\ ArenaChunks \in Nat \ {0, 1}
    /\ Units \in Nat \ {0, 1} /\ PageSlots \in Nat \ {0}
    /\ ArenaSpan \in Nat /\ ArenaChunks * ChunkSize <= ArenaSpan
    /\ Requests \subseteq Nat \ {0}
    /\ \A n \in Requests : align_size(n, ChunkSize) <= ArenaSpan

SHM_NULL == 0
Other    == "other"                 \* contents of no interest
Tag      == "tag"                   \* what a holder has stored

\* Position of cell s in page p of chunk k, and the way back.
Pos(k, p, s)  == k[1] * ArenaSpan + (k[2] * Units + p) * PageSlots + s + 1
pos2index(x)  == (x - 1) \div ArenaSpan
pos2offset(x) == (x - 1) % ArenaSpan

Extent(x, len) == x .. (x + len - 1)

VARIABLE heap       \* the shared context and the segments, a record:
                    \*   arena   the table: type, size, and the slots with a chunk
                    \*   chunk   the headers: type, advertised size (max), pages
                    \*           that are runs, their free slots, units handed out
                    \*   small, medium   the chunks in the two pools
                    \*   runs    the runs in the run pool
                    \*   linked  history: the runs popped with links to other runs
                    \*   torn    history: one of these has been pushed again
                    \*   held    history: size of the block at each position
                    \*   mem     contents of the block at each position
                    \*   failed  an assertion has ended the process

EMPTY == [type |-> "EMPTY", size |-> 0, chunks |-> {}]
Blank == [type |-> "EMPTY", max |-> 0, pages |-> {}, free |-> [p \in Page |-> {}],
          unit |-> [p \in Page |-> 0]]

Init ==
    heap = [arena  |-> [i \in Index |-> IF i # 0 THEN EMPTY
                          ELSE [type |-> "CONTEXT", size |-> ArenaChunks * ChunkSize, chunks |-> {0}]],
            chunk  |-> [k \in Chunk |-> Blank],
            small  |-> {}, medium |-> {}, runs |-> {}, linked |-> {}, torn |-> FALSE,
            held   |-> [x \in Memory |-> 0], mem |-> [x \in Memory |-> Other],
            failed |-> FALSE]

\* The allocator writes to the positions in W, or they change hands.
Wiped(h, W) == [h EXCEPT !.mem = [x \in Memory |-> IF x \in W THEN Other ELSE @[x]]]

-----------------------------------------------------------------------------
(* Arenas and chunks.  An operator that allocates returns the set of its      *)
(* outcomes: the heap afterwards, and what was found (SHM_NULL if nothing).   *)

EmptyIndex(h) == {i \in Index \ {0} : h.arena[i].type = "EMPTY"}

\* new_arena: the first empty index; there may be none, or no segment to be had.
new_arena(h, type, size) ==
    IF EmptyIndex(h) = {} THEN {[heap |-> h, index |-> SHM_NULL]}
    ELSE LET i == Min(EmptyIndex(h))
         IN  {[heap |-> h, index |-> SHM_NULL],
              [heap |-> Wiped([h EXCEPT !.arena[i] = [type |-> type, size |-> size, chunks |-> {}]],
                              Extent(Pos(<<i, 0>>, 0, 0), size)),
               index |-> i]}

\* init_chunk: the header page is written, and the chunk enters the pool of its
\* type, with a free page or with all its pages as one free unit.
init_chunk(h, k, type) ==
    [Wiped(h, Extent(Pos(k, 0, 0), PageSlots)) EXCEPT
        !.chunk[k] = [Blank EXCEPT !.type = type, !.max = IF type = "SMALL" THEN 1 ELSE Units - 1],
        !.small  = IF type = "SMALL" THEN @ \cup {k} ELSE @,
        !.medium = IF type = "MEDIUM" THEN @ \cup {k} ELSE @]

\* new_arena_chunk: the first slot without a chunk; the first of the context's arena
\* is the context.  No slot if all are taken.
new_arena_chunk(h, i) ==
    LET free == {c \in Slot : c \notin h.arena[i].chunks /\ (i = 0 => c # 0)}
    IN  IF free = {} THEN {} ELSE {Min(free)}

\* The chunk of arena i in slot c.
WithChunk(h, i, c, type) ==
    [heap |-> init_chunk([h EXCEPT !.arena[i].chunks = @ \cup {c}], <<i, c>>, type), chunk |-> <<i, c>>]

\* new_chunk: a slot of the context's arena, the only one that is asked, or one of a
\* new arena.
new_chunk(h, type) ==
    LET slots == new_arena_chunk(h, 0)
    IN  IF slots # {} THEN {WithChunk(h, 0, c, type) : c \in slots}
        ELSE UNION {IF o.index = SHM_NULL THEN {[heap |-> o.heap, chunk |-> <<>>]}
                    ELSE {WithChunk(o.heap, o.index, c, type) : c \in new_arena_chunk(o.heap, o.index)}
                      : o \in new_arena(h, "CHUNK", ArenaChunks * ChunkSize)}

\* get_avaliable_chunk: any chunk of the pool that advertises as much.
get_avaliable_chunk(h, type, need) ==
    {k \in IF type = "SMALL" THEN h.small ELSE h.medium : h.chunk[k].max >= need}

get_or_new_chunk(h, type, need) ==
    LET there == get_avaliable_chunk(h, type, need)
    IN  IF there # {} THEN {[heap |-> h, chunk |-> k] : k \in there} ELSE new_chunk(h, type)

\* The chunk leaves its pool.
delete_chunk(h, k) ==
    [h EXCEPT !.chunk[k] = Blank, !.small = @ \ {k}, !.medium = @ \ {k}]

delete_arena(h, i) == [h EXCEPT !.arena[i] = EMPTY]

\* The chunk leaves its slot.
delete_arena_chunk(h, k) == [h EXCEPT !.arena[k[1]].chunks = @ \ {k[2]}]

\* Mutant: the arena stays when its last chunk goes.
check_delete_chunk_keeps_arena(h, k) == delete_arena_chunk(h, k)

\* check_delete_chunk: an arena goes with its last chunk.
check_delete_chunk(h, k) ==
    LET left == delete_arena_chunk(h, k)
    IN  IF left.arena[k[1]].chunks = {} /\ left.arena[k[1]].type # "CONTEXT"
        THEN delete_arena(left, k[1]) ELSE left

-----------------------------------------------------------------------------
(* malloc_arena *)

\* A block of len units at position x is given to the caller.
Give(h, x, len) == [heap |-> [h EXCEPT !.held[x] = len], pos |-> x]
Nothing(h)      == {[heap |-> h, pos |-> SHM_NULL]}
Abort(h)        == Nothing([h EXCEPT !.failed = TRUE])

\* malloc_chunk_run: a slot of run r, page r[2] of chunk r[1]; a run that is full
\* leaves the pool, with the links it has unless it was alone.
malloc_chunk_run(h, r) ==
    LET free == h.chunk[r[1]].free[r[2]]
    IN  IF free = {} THEN Abort(h)
        ELSE {Give([h EXCEPT !.chunk[r[1]].free[r[2]] = @ \ {s},
                             !.runs = IF free = {s} THEN @ \ {r} ELSE @,
                             !.linked = IF free = {s} /\ h.runs # {r} THEN @ \cup {r} ELSE @],
                   Pos(r[1], r[2], s), 1) : s \in free}

\* new_chunk_run: the first page of chunk k that is no run is cleared and made one.
new_chunk_run(h, k) ==
    LET p     == Min(Page \ h.chunk[k].pages)
        pages == h.chunk[k].pages \cup {p}
        made  == [Wiped(h, Extent(Pos(k, p, 0), PageSlots)) EXCEPT
                    !.chunk[k] = [@ EXCEPT !.pages = pages, !.free[p] = Cell,
                                           !.max = IF pages = Page THEN 0 ELSE h.chunk[k].max],
                    !.runs = @ \cup {<<k, p>>}]
    IN  IF Page \subseteq h.chunk[k].pages THEN Abort(h) ELSE malloc_chunk_run(made, <<k, p>>)

\* The free units of a medium chunk: the pages where one starts, and its size.
Taken(c)     == UNION {Extent(p, c.unit[p]) : p \in Page}
FreeSize(c, p) == Min({q \in Taken(c) \cup {Units} : q >= p}) - p
FreeUnits(c) == {p \in Page \ Taken(c) : p = 1 \/ p - 1 \in Taken(c)}

\* What a chunk may advertise after it looked for its largest free unit: the tree
\* is not in order of size, so the size of any.
Advertised(c) == IF FreeUnits(c) = {} THEN {0} ELSE {FreeSize(c, p) : p \in FreeUnits(c)}

\* malloc_chunk_medium: the search ends at some free unit n.  If that is too small
\* the assertion fails.
malloc_chunk_medium(h, k, len) ==
    LET need    == align_size(len, PageSlots) \div PageSlots
        c       == h.chunk[k]
        Took(n) == [c EXCEPT !.unit[n] = need]
        New(n)  == IF FreeSize(c, n) >= c.max THEN Advertised(Took(n)) ELSE {c.max}
    IN  IF FreeUnits(c) = {} THEN Abort(h)
        ELSE UNION {IF FreeSize(c, n) < need THEN Abort(h)
                    ELSE {Give([h EXCEPT !.chunk[k] = [Took(n) EXCEPT !.max = m]],
                               Pos(k, n, 0), need * PageSlots) : m \in New(n)}
                      : n \in FreeUnits(c)}

\* malloc_arena: small, medium or large, by size.
malloc_arena(h, size) ==
    IF size <= SmallLimit /\ h.runs # {}
    THEN UNION {malloc_chunk_run(h, r) : r \in h.runs}
    ELSE IF size <= SmallLimit
    THEN UNION {IF o.chunk = <<>> THEN Nothing(o.heap) ELSE new_chunk_run(o.heap, o.chunk)
                  : o \in get_or_new_chunk(h, "SMALL", 1)}
    ELSE IF size <= MediumLimit
    THEN UNION {IF o.chunk = <<>> THEN Nothing(o.heap) ELSE malloc_chunk_medium(o.heap, o.chunk, size)
                  : o \in get_or_new_chunk(h, "MEDIUM", align_size(size, PageSlots) \div PageSlots)}
    ELSE {IF o.index = SHM_NULL THEN [heap |-> o.heap, pos |-> SHM_NULL]
          ELSE Give(o.heap, Pos(<<o.index, 0>>, 0, 0), align_size(size, ChunkSize))
            : o \in new_arena(h, "LARGE", align_size(size, ChunkSize))}

-----------------------------------------------------------------------------
(* free_arena, check_arena *)

\* The chunk, the page in it and the slot of position x.
ChunkOf(x) == <<pos2index(x), pos2offset(x) \div ChunkSize>>
PageOf(x)  == (pos2offset(x) % ChunkSize) \div PageSlots
CellOf(x)  == pos2offset(x) % PageSlots

\* free_chunk_small: the slot is linked into the free list, a run that was full
\* comes back to the pool, with the links it left with, and an empty one is given
\* up unless it is the only one there.  With its last run the chunk goes.
free_chunk_small(h, x) ==
    LET k     == ChunkOf(x)
        p     == PageOf(x)
        full  == h.chunk[k].free[p] = {}
        free  == h.chunk[k].free[p] \cup {CellOf(x)}
        runs  == IF full THEN h.runs \cup {<<k, p>>} ELSE h.runs
        torn  == h.torn \/ (full /\ <<k, p>> \in h.linked)
        given == [h EXCEPT !.chunk[k].free[p] = free, !.runs = runs, !.torn = torn]
        pages == h.chunk[k].pages \ {p}
        less  == [h EXCEPT !.chunk[k] = [@ EXCEPT !.pages = pages, !.free[p] = {},
                                                  !.max = IF h.chunk[k].pages = Page THEN 1
                                                          ELSE h.chunk[k].max],
                           !.runs = runs \ {<<k, p>>}, !.torn = torn]
    IN  IF p \notin h.chunk[k].pages THEN h
        ELSE IF free # Cell \/ Cardinality(runs) = 1 THEN given
        ELSE IF pages = {} THEN check_delete_chunk(delete_chunk(less, k), k) ELSE less

\* Mutant: a free unit does not change what the chunk advertises.
free_chunk_medium_stale(h, x) ==
    LET k    == ChunkOf(x)
        left == [h.chunk[k] EXCEPT !.unit[PageOf(x)] = 0]
    IN  IF h.chunk[k].unit[PageOf(x)] = 0 THEN h
        ELSE IF Taken(left) = {} THEN check_delete_chunk(delete_chunk(h, k), k)
        ELSE [h EXCEPT !.chunk[k] = left]

\* free_chunk_medium: the unit joins the free ones around it, and the chunk
\* advertises the result if it is not smaller than what it did.
free_chunk_medium(h, x) ==
    LET k     == ChunkOf(x)
        p     == PageOf(x)
        left  == [h.chunk[k] EXCEPT !.unit[p] = 0]
        start == Max({q \in FreeUnits(left) : q <= p})
        size  == FreeSize(left, start)
    IN  IF h.chunk[k].unit[p] = 0 THEN h
        ELSE IF Taken(left) = {} THEN check_delete_chunk(delete_chunk(h, k), k)
        ELSE [h EXCEPT !.chunk[k] = [left EXCEPT !.max = IF size >= left.max THEN size ELSE left.max]]

free_chunk(h, x) ==
    IF h.chunk[ChunkOf(x)].type = "SMALL" THEN free_chunk_small(h, x) ELSE free_chunk_medium(h, x)

\* get_arena_chunk and is_arena_valid: position x is in a chunk in use.
InChunk(h, x) == ChunkOf(x)[2] \in h.arena[pos2index(x)].chunks

\* free_arena: a position where nothing is in use is refused.
free_arena(h, x) ==
    LET i    == pos2index(x)
        gone == Wiped([h EXCEPT !.held[x] = 0], Extent(x, h.held[x]))
    IN  IF h.arena[i].type = "LARGE" THEN delete_arena(gone, i)
        ELSE IF ~InChunk(h, x) THEN h
        ELSE free_chunk(gone, x)

\* Mutant: the size of the page, not of the slot.
check_chunk_small_page(c, offset) ==
    IF offset \div PageSlots \in c.pages THEN PageSlots ELSE 0

\* find_run, and its elemsize.
check_chunk_small(c, offset) ==
    IF offset \div PageSlots \in c.pages THEN 1 ELSE 0

\* check_chunk_medium: the next unit is looked for from the unit's own bit on, so
\* it is the unit itself.
check_chunk_medium(c, offset) ==
    LET p    == offset \div PageSlots
        next == Min({q \in Page : q >= p /\ (c.unit[q] # 0 \/ q \in FreeUnits(c))})
    IN  IF p \notin Page \/ offset % PageSlots # 0 THEN 0
        ELSE IF c.unit[p] = 0 THEN 0
        ELSE (next - p) * PageSlots

check_chunk(c, offset) ==
    IF c.type = "SMALL" THEN check_chunk_small(c, offset) ELSE check_chunk_medium(c, offset)

\* check_arena: the offset in the arena is given to the chunk as if it were the
\* offset in the chunk.
check_arena(h, x) ==
    LET c == h.chunk[ChunkOf(x)]
    IN  IF h.arena[pos2index(x)].type = "LARGE" THEN h.arena[pos2index(x)].size
        ELSE IF ~InChunk(h, x) THEN 0
        ELSE check_chunk(c, pos2offset(x))

-----------------------------------------------------------------------------
(* The public calls *)

\* Mutant: the old block is freed before its contents are copied.
moved_freed_first(h, x, y) ==
    LET left == free_arena(h, x) IN [left EXCEPT !.mem[y] = left.mem[x]]

\* memcpy from block x to block y, and free of x.
moved(h, x, y) == free_arena([h EXCEPT !.mem[y] = h.mem[x]], x)

\* The outcomes of shm_realloc for the block at x: the block is moved when it is
\* known to be too small, and stays otherwise.
realloc(h, x, size) ==
    LET checksize == check_arena(h, x)
    IN  IF size <= checksize \/ checksize = 0 THEN {[heap |-> h, pos |-> x]}
        ELSE {IF o.pos = SHM_NULL THEN o ELSE [o EXCEPT !.heap = moved(@, x, o.pos)]
                : o \in malloc_arena(h, size)}

shm_malloc(size) == \E o \in malloc_arena(heap, size) : heap' = o.heap

shm_free(x) == heap' = free_arena(heap, x)

\* (With SHM_NULL for a position it is shm_malloc.)
shm_realloc(x, size) == \E o \in realloc(heap, x, size) : heap' = o.heap

\* A holder stores something in its block.  One block at a time is followed.
Write(x) ==
    /\ \A y \in Memory : heap.mem[y] = Other
    /\ heap' = [heap EXCEPT !.mem[x] = Tag]

Live(h) == {x \in Memory : h.held[x] # 0}

\* Callers free what they hold, or name a chunk that is not in use any more.
Next ==
    /\ ~heap.failed /\ ~heap.torn
    /\ \/ \E size \in Requests : shm_malloc(size)
       \/ \E x \in Live(heap) : shm_free(x) \/ Write(x)
       \/ \E x \in Live(heap), size \in Requests : shm_realloc(x, size)
       \/ \E k \in Chunk : k[2] \notin heap.arena[k[1]].chunks
                             /\ heap.arena[k[1]].type # "LARGE" /\ shm_free(Pos(k, 1, 0))

Spec == Init /\ [][Next]_heap

-----------------------------------------------------------------------------
(* Properties *)

Blocks == INSTANCE BlockHeap WITH
            N <- ArenaMax * ArenaSpan, Value <- {Tag}, held <- heap.held, data <- heap.mem

\* The allocator keeps the promise of BlockHeap over all its arenas as long as no run
\* is pushed with old links: no memory is given out twice, and what a holder has
\* stored stays, through every new run, chunk and arena, and moves along with
\* shm_realloc.
BlocksKept ==
    Blocks!Init /\ [][heap.torn \/ Blocks!BlockNext]_<<heap.held, heap.mem>>

\* Until a run is pushed with old links, the table, the pools and the chunks tell
\* the same story: a slot is taken exactly by a chunk in the pool of its type, and
\* the chunk is there because something in it is held, or because it has the one
\* empty run that the run pool keeps.  An arena other than the context's is there
\* for its chunk or for its block.
ChunksInUse == ~heap.torn =>
    LET Empty == {r \in heap.runs : heap.chunk[r[1]].free[r[2]] = Cell} IN
    /\ \A k \in Chunk \ {<<0, 0>>} :
         LET c    == heap.chunk[k]
             mine == {x \in Live(heap) : ChunkOf(x) = k}
         IN  IF k[2] \in heap.arena[k[1]].chunks
             THEN /\ c.type = "SMALL"  <=> k \in heap.small
                  /\ c.type = "MEDIUM" <=> k \in heap.medium
                  /\ mine # {} \/ \E p \in Page : c.pages = {p} /\ Empty = {<<k, p>>}
             ELSE /\ c.type = "EMPTY" /\ k \notin heap.small \cup heap.medium
                  /\ mine # {} => heap.arena[k[1]].type = "LARGE"
    /\ \A i \in Index \ {0} :
         CASE heap.arena[i].type = "EMPTY" -> \A x \in Live(heap) : pos2index(x) # i
           [] heap.arena[i].type = "CHUNK" -> heap.arena[i].chunks # {}
           [] OTHER -> {x \in Live(heap) : pos2index(x) = i} = {Pos(<<i, 0>>, 0, 0)}

\* What the pools offer is there, until a run is pushed with old links: the run pool
\* has exactly the runs with a free slot, all of them in chunks in use; a small chunk
\* advertises a page exactly when it has one, and a medium chunk the size of a unit
\* that is free.
PoolsTrue == ~heap.torn =>
    /\ heap.runs = {r \in Chunk \X Page :
                      /\ r[1] \in heap.small /\ r[2] \in heap.chunk[r[1]].pages
                      /\ heap.chunk[r[1]].free[r[2]] # {}}
    /\ \A k \in heap.small : heap.chunk[k].max = IF heap.chunk[k].pages = Page THEN 0 ELSE 1
    /\ \A k \in heap.medium : heap.chunk[k].max \in Advertised(heap.chunk[k])

\* Until a run is pushed with old links, check_arena says nothing or the truth, so
\* what shm_realloc copies is never more than the block it copies from (nor, by
\* BlocksKept, than the one it copies to).
CopyFits ==
    ~heap.torn => \A x \in Live(heap) : check_arena(heap, x) \in {0, heap.held[x]}

\* "shm realloc, like realloc ... size: change to size" (shm_malloc.h): a caller
\* that asks for more is given a block of that size, or SHM_NULL.
ReallocGrows ==
    \A x \in Live(heap), size \in Requests : \A o \in realloc(heap, x, size) :
        o.pos # SHM_NULL => size <= o.heap.held[o.pos]
===============================================================================
