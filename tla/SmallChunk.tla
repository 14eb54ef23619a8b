------------------------------ MODULE SmallChunk ------------------------------
(***************************************************************************)
(* The small chunks (chunk_small.c) and the run pools (malloc_arena of     *)
(* shm_context.c).  A small chunk is RunSize pages of UnitSize bytes; page *)
(* 0 is its header, and every other page is free or a run: a header and a  *)
(* row of slots of one size class, with the unused slots on a free list.   *)
(* The runs of a class that have a free slot, whatever chunk they are in,  *)
(* form the pool of the class.                                             *)
(*                                                                         *)
(* Page i of chunk k is run number k * RunSize + i, and a position is a    *)
(* byte address: run number * UnitSize + offset.  The tree of the chunks   *)
(* is the function maxsize: get_avaliable_chunk finds any chunk with       *)
(* maxsize 1.                                                              *)
(*                                                                         *)
(* A pool is its set of runs here, and its root any of them (parameter r   *)
(* of try_run_pool).  The code keeps the runs in a leftist tree, by links  *)
(* in their headers, and that tree is its set of runs only as long as runs *)
(* are pushed without links.  A run popped while others are in its pool    *)
(* keeps its links (linked); when free_chunk_small pushes such a run       *)
(* (torn), old links decide what the pool offers.  This module stops       *)
(* there; SmallTree has the trees and goes on.                             *)
(***************************************************************************)
EXTENDS Integers, Sequences, FiniteSetsExt

CONSTANTS
    Chunks,         \* the number of chunks the arenas can hold
    RunSize,        \* SHM_CHUNK_RUN_SIZE, 256 in the code
    UnitSize,       \* SHM_RUN_UNIT_SIZE, 4096 in the code
    HeaderSize,     \* RUN_HEADER_SIZE, 64 in the code
    Class,          \* the indices of run_config_list in use
    ElemSize        \* elemsize of each class

ASSUME RunAssumption ==
    /\ Chunks \in Nat /\ RunSize \in Nat /\ RunSize >= 2
    /\ UnitSize \in Nat /\ HeaderSize \in Nat /\ HeaderSize >= 1
    /\ ElemSize \in [Class -> Nat \ {0}]
    /\ \A c \in Class : HeaderSize + ElemSize[c] <= UnitSize

VARIABLES
    type,           \* chunk_header.type: "EMPTY" or "SMALL"
    maxsize,        \* v.maxsize of each chunk's node in chunk_small_pool
    used,           \* chunk_small_detial.used
    bitmap,         \* chunk_small_detial.bitmap
    run,            \* the run_header at each run number
    pool,           \* run_pool: the runs of each class that are in its pool
    held,           \* history: size of the slot a caller holds at each position
    linked,         \* history: the runs popped with links to other runs
    torn,           \* history: one of these has been pushed again
    failed          \* the assertion that aborted the process, or "no"

vars == <<type, maxsize, used, bitmap, run, pool, held, linked, torn, failed>>

Chunk == 0 .. (Chunks - 1)
Index == 0 .. (RunSize - 1)
Run   == 0 .. (Chunks * RunSize - 1)
Pos   == 1 .. (Chunks * RunSize * UnitSize)

\* Mutant: one slot more than fits.
total_one_more(c) == (UnitSize - HeaderSize) \div ElemSize[c] + 1

total(c) == (UnitSize - HeaderSize) \div ElemSize[c]

\* Mutants: the slots begin at the run header; the last slot is left out.
InitialFree_over_header(c) == [i \in 1 .. total(c) |-> (i - 1) * ElemSize[c]]
InitialFree_but_last(c) ==
    [i \in 1 .. (total(c) - 1) |-> (i - 1) * ElemSize[c] + HeaderSize]

\* The free list new_chunk_run builds: the slots in the order of their offsets.
InitialFree(c) == [i \in 1 .. total(c) |-> (i - 1) * ElemSize[c] + HeaderSize]

\* The header of a page that was no run yet.  A run that is given up leaves its
\* header behind, until new_chunk_run overwrites it.
Blank == [conf_index |-> 0, used |-> 0, free |-> <<>>]

Init ==
    /\ type = [k \in Chunk |-> "EMPTY"] /\ maxsize = [k \in Chunk |-> 0]
    /\ used = [k \in Chunk |-> 0] /\ bitmap = [k \in Chunk |-> {}]
    /\ run = [r \in Run |-> Blank]
    /\ pool = [c \in Class |-> {}]
    /\ held = [p \in Pos |-> 0]
    /\ linked = {} /\ torn = FALSE
    /\ failed = "no"

abort(why) ==
    /\ failed' = why
    /\ UNCHANGED <<type, maxsize, used, bitmap, run, pool, held, linked, torn>>

-----------------------------------------------------------------------------
(* malloc_arena, for a size of class c *)

run_full(h) == h.used = total(h.conf_index)

\* The assertions of malloc_run, and what it does: the first free slot is taken.
HasSlot(h) == h.free # <<>> /\ h.used < total(h.conf_index)
malloc_run(h) == [h EXCEPT !.free = Tail(@), !.used = @ + 1]

\* malloc_chunk_run: take the first slot of run r, given the run headers and
\* the pools as they are by now.  A run that is full leaves its pool, with the
\* links it has unless it was alone.
malloc_chunk_run(r, headers, pools) ==
    LET h == headers[r]
        c == h.conf_index
        g == malloc_run(h)
    IN  /\ run' = [headers EXCEPT ![r] = g]
        /\ pool' = IF run_full(g) THEN [pools EXCEPT ![c] = @ \ {r}] ELSE pools
        /\ linked' = IF run_full(g) /\ pools[c] # {r} THEN linked \cup {r} ELSE linked
        /\ held' = [held EXCEPT ![r * UnitSize + Head(h.free)] = ElemSize[c]]
        /\ UNCHANGED torn

\* The pool has run r at its root.
try_run_pool(r) ==
    /\ failed = "no"
    /\ IF HasSlot(run[r])
         THEN malloc_chunk_run(r, run, pool) /\ UNCHANGED <<type, maxsize, used, bitmap, failed>>
         ELSE abort("run")

\* Mutant: init_chunk_small does not mark the header page.
Marked_no_header(k) == IF type[k] = "EMPTY" THEN {} ELSE bitmap[k]

\* The pages of chunk k in use, once init_chunk has prepared a new chunk, and
\* the run bitmap_sfu finds for a new run.
Marked(k)   == IF type[k] = "EMPTY" THEN {0} ELSE bitmap[k]
FirstRun(k) == k * RunSize + Min(Index \ Marked(k))

\* The pool of class c is empty: new_chunk_run turns the first free page of
\* chunk k, which init_chunk prepares if it is new, into a run.
new_chunk_run(c, k) ==
    LET fresh == type[k] = "EMPTY"
        count == IF fresh THEN 1 ELSE used[k]
        r     == FirstRun(k)
    IN  /\ failed = "no"
        /\ IF count < RunSize /\ Marked(k) # Index
             THEN /\ type' = [type EXCEPT ![k] = "SMALL"]
                  /\ used' = [used EXCEPT ![k] = count + 1]
                  /\ bitmap' = [bitmap EXCEPT ![k] = Marked(k) \cup {r % RunSize}]
                  /\ maxsize' = [maxsize EXCEPT ![k] = IF count + 1 = RunSize THEN 0
                                                       ELSE IF fresh THEN 1 ELSE @]
                  /\ malloc_chunk_run(r,
                        [run EXCEPT ![r] = [conf_index |-> c, used |-> 0, free |-> InitialFree(c)]],
                        [pool EXCEPT ![c] = @ \cup {r}])
                  /\ UNCHANGED failed
             ELSE abort("new run")

\* get_or_new_chunk: a chunk of the pool that has a free page, or else a chunk
\* not in use.
Available == {k \in Chunk : type[k] = "SMALL" /\ maxsize[k] >= 1}
Candidates == IF Available # {} THEN Available ELSE {k \in Chunk : type[k] = "EMPTY"}

\* No chunk is left: shm_malloc returns SHM_NULL.
malloc_full == failed = "no" /\ Candidates = {} /\ UNCHANGED vars

-----------------------------------------------------------------------------
(* free_arena, for a position in a small chunk *)

\* find_run: position p is in a page that is a run.
Found(p) ==
    LET r == p \div UnitSize IN r \in Run /\ (r % RunSize) \in bitmap[r \div RunSize]

\* The slot at offset o becomes the first of the free list.
free_run(h, o) == [h EXCEPT !.free = <<o>> \o @, !.used = @ - 1]

\* Mutant: a pool keeps two empty runs.
GivenUp_keep_two(left, n) == left = 0 /\ n > 2

\* A run with left slots in use, in a pool of n runs, is given up.
GivenUp(left, n) == left = 0 /\ n > 1

\* The pools after run r has got a slot back: a run that was full is pushed.
Pushed(r) ==
    IF run_full(run[r]) THEN [pool EXCEPT ![run[r].conf_index] = @ \cup {r}] ELSE pool

\* free_chunk_small: the slot goes back to the front of the free list, a run
\* that was full goes back into its pool, with the links it left with, and a
\* run left empty is given up unless the pool, now of n runs, has no other.
\* With its last run the chunk is deleted.
free_chunk_small(p, n) ==
    LET r     == p \div UnitSize
        k     == r \div RunSize
        c     == run[r].conf_index
        drop  == GivenUp(run[r].used - 1, n)
    IN  /\ failed = "no" /\ Found(p)
        /\ IF run[r].used > 0
             THEN /\ run' = [run EXCEPT ![r] = free_run(@, p % UnitSize)]
                  /\ pool' = IF drop THEN [Pushed(r) EXCEPT ![c] = @ \ {r}] ELSE Pushed(r)
                  /\ torn' = (torn \/ (run_full(run[r]) /\ r \in linked))
                  /\ UNCHANGED linked
                  /\ maxsize' = IF drop /\ used[k] = RunSize THEN [maxsize EXCEPT ![k] = 1]
                                                             ELSE maxsize
                  /\ used' = IF drop THEN [used EXCEPT ![k] = @ - 1] ELSE used
                  /\ bitmap' = IF drop THEN [bitmap EXCEPT ![k] = @ \ {r % RunSize}] ELSE bitmap
                  /\ type' = IF drop /\ used'[k] = 1 THEN [type EXCEPT ![k] = "EMPTY"] ELSE type
                  /\ held' = [held EXCEPT ![p] = 0]
                  /\ UNCHANGED failed
             ELSE abort("free run")

\* A position in a page that is no run is refused.
free_out_of_range(p) == failed = "no" /\ ~Found(p) /\ UNCHANGED vars

\* The number of runs in the pool once the run of position p is back in it.
PoolSize(p) ==
    LET r == p \div UnitSize IN Cardinality(Pushed(r)[run[r].conf_index])

\* Callers give back what they hold.  A page that is no run may be named too,
\* by a caller who kept a position too long; its positions are all alike.
Next ==
    /\ ~torn
    /\ \/ \E c \in Class : \E r \in pool[c] : try_run_pool(r)
       \/ \E c \in Class : pool[c] = {} /\ \E k \in Candidates : new_chunk_run(c, k)
       \/ \E c \in Class : pool[c] = {} /\ malloc_full
       \/ \E p \in Pos : held[p] # 0 /\ free_chunk_small(p, PoolSize(p))
       \/ \E r \in Run : free_out_of_range(r * UnitSize + HeaderSize)

Spec == Init /\ [][Next]_vars

-----------------------------------------------------------------------------
(* Properties *)

\* The live runs: the pages marked in a chunk's bitmap, but for its header.
Live == {r \in Run : type[r \div RunSize] = "SMALL" /\ r % RunSize # 0
                       /\ (r % RunSize) \in bitmap[r \div RunSize]}

\* Every field of the chunk and run headers has its type.
TypeOK ==
    /\ type \in [Chunk -> {"EMPTY", "SMALL"}]
    /\ maxsize \in [Chunk -> 0 .. 1]
    /\ used \in [Chunk -> 0 .. RunSize]
    /\ bitmap \in [Chunk -> SUBSET Index]
    /\ \A r \in Run : /\ run[r].conf_index \in Class \cup {0}
                      /\ run[r].used \in Nat
                      /\ run[r].free \in Seq(1 .. UnitSize)
    /\ pool \in [Class -> SUBSET Run]
    /\ held \in [Pos -> Nat]
    /\ linked \subseteq Run /\ torn \in BOOLEAN
    /\ failed \in {"no", "run", "new run", "free run", "tree"}

Heap == INSTANCE PageHeap WITH N <- Chunks * RunSize * UnitSize

\* As long as no run has gone back into its pool with old links, the small
\* chunks keep the promise of PageHeap, bytes for pages: no byte is given to a
\* second caller, not even when a page is given up, becomes a run of another
\* class, or its chunk is deleted and made anew.
HeapSpec == Heap!Init /\ [][torn \/ Heap!Next]_held

\* The free list of a run holds each slot that nobody holds once, and no other
\* offset; used counts the rest.  Until a run is pushed with old links.
FreeListExact ==
    ~torn => \A r \in Live :
        LET h     == run[r]
            slots == {HeaderSize + i * ElemSize[h.conf_index] : i \in 0 .. (total(h.conf_index) - 1)}
            given == {o \in 0 .. (UnitSize - 1) : held[r * UnitSize + o] # 0}
        IN  /\ \A i, j \in 1 .. Len(h.free) : i # j => h.free[i] # h.free[j]
            /\ {h.free[i] : i \in 1 .. Len(h.free)} = slots \ given
            /\ given \subseteq slots /\ h.used = Cardinality(given)

\* As long as no run has been pushed with old links, a run is in the pool of its
\* class exactly while it has a free slot: no free slot is forgotten, and no full
\* run and no page given up is offered.  At most one of them is empty: the last
\* but one is given up.
PoolHasRoom ==
    ~torn => \A c \in Class :
        /\ pool[c] = {r \in Live : run[r].conf_index = c /\ run[r].used < total(c)}
        /\ Cardinality({r \in Live : run[r].conf_index = c /\ run[r].used = 0}) <= 1

\* As long as no run has been pushed with old links, a chunk counts its pages,
\* advertises a free page exactly when it has one, and is in use exactly while it
\* has a run.
ChunkCounts ==
    ~torn => \A k \in Chunk :
        IF type[k] = "SMALL"
        THEN /\ used[k] = Cardinality(bitmap[k]) /\ 0 \in bitmap[k] /\ used[k] > 1
             /\ maxsize[k] = 0 <=> used[k] = RunSize
        ELSE \A p \in Pos : held[p] # 0 => (p \div UnitSize) \div RunSize # k

\* As long as no run has been pushed with old links, no assertion of malloc_run,
\* free_run or new_chunk_run fails, and no operation on a pool does.
AssertsHold == ~torn => failed = "no"
===============================================================================
