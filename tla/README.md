# shmmalloc: a TLA+ model

shmmalloc is a memory allocator over System V shared memory. Several processes
open the same path, share one heap, and name memory by positions (arena index
and offset) that each process turns into an address of its own. These modules
model the allocator from its C source, check it with TLC on small instances, and
prove its safety properties (of the whole allocator, medium chunks, small chunks,
the arena table, start and exit of processes, the leftist tree, the size tables and the
bitmaps) with TLAPS.

Contents: [the system](#the-system), [modules](#modules-and-the-code),
[runs](#runs), [bounds](#bounds), [fairness](#fairness), [proofs](#proofs),
[findings](#findings), [not modelled](#not-modelled), [plan](#plan).
Paths are relative to the repository; `src/x.c` is the library's `src` directory.

## The system

A process calls `shm_init`, which attaches the *context*: the first segment,
found by a key made from a file name. The context holds a mutex, a count of its
users, the table of arenas, and the roots of all pools. Every public call but
the user data takes the mutex, works, and releases it. From the top down:

| part | state | operations | interacts with |
|---|---|---|---|
| start and exit of processes, locks (`shm_context.c`, `shm_malloc.c`, `shm_lock.c`) | the segment under the key, `init_flag`, `key`, `count`, the mutex, the file lock | `init_shared_context`, `init_shm_shared_field`, `exit_shared_context`, `lock_context`, `unlock_context` | the kernel's segments and file locks, `atexit` |
| public calls (`shm_malloc.c`) | none of their own | `shm_malloc`, `shm_free`, `shm_realloc`, `shm_check_size` | lock, call the arena table, unlock |
| address cache (`shm_malloc.c`, `shm_malloc_inc.h`) | per process: address and segment id of each arena | `shm_get_addr`, `get_or_update_arena_addr`, `set_` and `clear_arena_addr` | compares its ids with the arena table |
| arena table (`shm_context.c`) | for each index: type, segment, chunks in use | `malloc_arena`, `free_arena`, `check_arena`, `new_arena`, `delete_arena`, `new_chunk`, `check_delete_chunk` | makes segments; makes and deletes chunks; uses the cache |
| chunk pools (`shm_chunk.c`) | a red-black tree of small and one of medium chunks, by the room left | `init_chunk`, `get_avaliable_chunk`, `update_chunk_pool`, `delete_chunk` | called by the arena table and the chunks |
| medium chunks (`chunk_medium.c`) | 256 pages: three bitmaps, a red-black tree of the free units, `free_size`, `max_size` | `malloc_chunk_medium`, `free_chunk_medium`, `check_chunk_medium` | bitmaps, red-black tree, chunk pool |
| small chunks and run pools (`chunk_small.c`) | pages that are runs of slots of one size class, free lists, a leftist tree of runs for each class | `new_chunk_run`, `malloc_chunk_run`, `free_chunk_small` | leftist tree, bitmaps, chunk pool |
| red-black tree (`rbtree.h`), leftist tree (`shm_tree.*`) | linked nodes inside the chunks and runs | insert, delete, lower, min, max, next, prev; merge, push, pop, remove | used by the pools and the medium chunks |
| helpers (`shm_util.h`, `builtin_wrapper.h`) | none | bitmap operations, scans, rounding | used by the chunks |
| System V wrapper, logger | none of their own | thin wrappers | kernel |

What is hard about it, and what would make each part correct:

- *Processes come and go at any time.* The context is initialised store by store
  with the flag first; creators are kept apart by a file lock, others are not;
  the count decides who removes the segment. Correct: who comes in finds a
  complete context, the count is the number of users, the segment goes with the
  last, and nobody waits for the file lock forever. A step of several may fail
  (the file lock, `shmat`, a segment that cannot be removed) and leaves the rest.
- *Each process has its own view of the arenas.* Others delete and remake arenas
  at an index without telling. Correct: no address is of an unmapped or an older
  segment, and no process runs into a NULL address.
- *A death under the mutex is final*: the mutex is not robust. So an assertion
  under the mutex that can fail stops every process. And the mutex is there to be
  used before it is initialised.
- *Long histories of splits, merges and reuse.* Correct: no byte is given to two
  callers, none is lost, counters that decide about deletion are exact, and what
  a chunk advertises to its pool is true; what a holder stored stays, also when
  the block moves.
- *Linked structures inside shared memory*: nodes keep the links of an earlier
  stay, comparison functions are expected to be orders.

`PROJECT.json` lists all components, and all hazards with their source lines and
the properties that cover them.

## Modules and the code

| module | models | state and actions |
|---|---|---|
| `PageHeap` | what an allocator promises: a run of units is given to one caller at a time and stays with it until freed | `held[p]`, the length of the run at `p`; `Malloc`, `Free` |
| `BlockHeap` | what the allocator promises at its interface: `PageHeap`, and a block keeps what its holder stored, through `shm_realloc` too | adds `data`, which only a holder's store makes one of the values holders store (`Value`); `MallocBlock`, `FreeBlock`, `Store`, `Move` |
| `Allocator` | the composition: arena table, chunk pools, small and medium chunks, run pool, and the public calls on top | the heap as one record; the functions of the code as operators from a heap to its possible outcomes; actions `shm_malloc`, `shm_free`, `shm_realloc`, and a holder's `Write` |
| `MediumChunk` | one medium chunk and its entry in the chunk pool; the free tree is a set, and a search in it returns *any* of its nodes | the detail record field by field; `init_chunk`, `malloc_chunk_medium`, `malloc_no_fit` (the assertion on the fit fails), `free_chunk_medium`, `free_not_used` (the refused frees) |
| `MediumTree` | `MediumChunk` with the red-black tree as the code builds it, with its comparison function | adds `rb`; each action of `MediumChunk` together with the tree operations of the function |
| `RBTree`, `RBTreeSet` | `rbtree.h`: operators on linked nodes with parent links, colours and the deletion sentinel; a state machine that inserts and deletes | one operator for each function; loops are recursion |
| `SmallChunk` | small chunks and the run pools, a pool being a set of runs; stops when a run is pushed with old links | run headers with free lists, page bitmaps, pools, the history `linked` and `torn`; `try_run_pool` with `malloc_chunk_run`, `new_chunk_run`, `free_chunk_small` and the refused frees |
| `SmallTree` | `SmallChunk` with the leftist trees of the pools, whose links live in the run headers; goes on after a run was pushed with old links | adds `node`, `root`, `size`, and the history `clash`: memory was given out that somebody holds |
| `ShmTree`, `ShmTreeSet` | `shm_tree.h` and `shm_tree.c`: operators; a state machine that keeps to the contract that a node is pushed with its links cleared | `ends` records a failed assertion, a NULL dereference or an endless recursion |
| `Bitmap`, `SizeClass` | `shm_util.h` word by word; the size-class tables, page rounding and the choice of `malloc_arena`, with the code's numbers | the bitmap with the word behind it, which `bitmap_ffsp` reads and which may hold anything (`behind`), and the set it stands for; the request |
| `Session` | start and exit of processes and the mutex around their calls, one action per step that another process can see, with kills and failing system calls | a program counter per process, the segment under the key, the context in each segment with its mutex, the file lock |
| `Arena` | the arena table, the address caches and the kernel's attachments; one action per public call, since each runs under the mutex | `arena`, `addrs`, `attached`, `keyed`, `leaked`; `shm_init`, `shm_get_addr`, `malloc_large`, `new_chunk_context`, `new_chunk_arena` (each with `new_arena_fails`), `use_chunks`, `free_chunk`, `free_large`, and the ends of processes |
| `AllocatorProofs`, `MediumChunkProofs`, `SmallChunkProofs`, `ArenaProofs`, `SessionProofs`, `ShmTreeProofs`, `UtilProofs` | the theorems about the module of the same name (`UtilProofs`: `SizeClass` and `Bitmap`) | |
| `NumberFacts` | lemmas about numbers that the proofs share | |
| `MC*` | instances for TLC | |

How the modules fit together. `MediumChunk`, `SmallChunk` and `Arena` implement
`PageHeap`, each for its own unit (a page, a byte, a chunk). `MediumTree`
implements `MediumChunk`: where the chunk module says "any node", the tree module
says which, and `ChunkSpec` checks that it is one the chunk module allows.
`SmallTree` is built on `SmallChunk` in the same way; it implements it only until
a run re-enters its pool with old links, and what becomes of the pool then is the
subject of two findings.
`RBTree`, `ShmTree` and `Bitmap` justify the sets that the chunk modules use.
`Allocator` puts the parts together on one process's side and implements
`BlockHeap`; `Arena` has the several processes, and `Session` the life of the
context around them.

Some choices that a reader should know of:

- A call of the code that runs under the context mutex is one action. In
  `Session`, where there is no mutex, every store that another process can see is
  an action of its own. `memset` and the `init_flag` store are one step: in
  between the context looks as it did before the `memset`, zeroed.
- *Old links.* `shm_tree_pop` leaves the links of the run it pops in place, and
  `free_chunk_small` pushes the run with them when it gets a slot back. A run popped
  while its pool has others is in `linked`; when one of these is pushed, `torn` is
  set. Up to then a pool is a set, whose root is any of its runs, and a run that is
  given up is reached by nobody: `ChunkSpec` of the run `small_chunk` shows this of
  the real trees. From then on it is not so, and `SmallChunk` and `Allocator` stop.
  Their properties are about the time before: `~torn => ...` for a state,
  `[][torn \/ ...]` for a step. `SmallTree` goes on, with the trees deciding and the
  headers of runs given up left as they are; `small_pool` and `small_twice` show
  what happens. Four allocations and two frees of one class are enough to get there.
- `Allocator` takes the chunks as they are up to that point: a run
  is the set of its free slots, a pool gives any of its runs, a medium chunk is
  its units, a search in its tree returns any free unit (too small a one fails
  the assertion), and its advertised size is that of any free unit. One size
  class stands for all, of one unit of memory, and a run has no header. Every
  segment may be refused by the kernel. One block at a time carries a stored
  value, which may be any block and at any time. An index stands for `ArenaSpan`
  positions (`index2pos` keeps the offset in 32 bits); the chunks of an arena and
  every block are assumed to be within that reach, so a block of more than 4 GB,
  whose end no position names, is left out.
- A zeroed `pthread_mutex_t` is a normal unlocked mutex, private to a process, to
  glibc: in `Session` whoever comes before `shm_lock_init` can lock it, and since
  its wake-ups do not cross processes no progress is assumed after that (`raced`).
  `shm_lock_init` then clears it, locked or not.
- A failed `assert` ends the process; the chunk modules record which assertion
  in `failed` and stop, since the mutex stays locked.
- In `Arena` an address is the id of the segment that is mapped there, so a stale
  address is visible. Which arenas a call touches while it follows the pools is
  left open (any subset `T` of those with chunks). A chunk is held from
  `new_chunk` until the call that empties it; what happens inside chunks is the
  business of the chunk modules.
- In `Arena` the table survives when no process is left. That happens when one
  was killed: its count is never taken back. A clean last exit ends the life of
  the context, and `Session` covers that.
- The kernel does not give a new segment the id of one that the table or a cache
  still names (System V ids count the uses of their slot).

## Runs

Passing runs. Each property has a mutant in `PROJECT.json`, a plausible slip in
the code under which TLC finds the property violated.

- `medium_chunk`: one chunk with the red-black tree the code builds, over a
  comparison that is not an order, under every history. Units tile the chunk
  (`Tiled`), the three bitmaps and the tree agree (`BitmapsAgree`), free neighbours
  are merged (`Coalesced`), the pool entry is the size of a unit there is
  (`MaxSizeIsFree`), the counter that decides about deletion is exact
  (`FreeSizeExact`), the assertions on units never fail (`UnitAssertsHold`), and the
  chunk implements `PageHeap` (`HeapSpec`). The tree holds exactly the free units
  (`TreeIsFreeUnits`), and every step is one of `MediumChunk` (`ChunkSpec`). For
  `MediumChunk` itself, with any order of the tree, the properties are proved.
- `small_chunk`: two chunks, two size classes, with the leftist trees, until a run is
  pushed with old links. Free lists are exact (`FreeListExact`), a pool holds exactly
  the runs with room and one empty run at most (`PoolHasRoom`), counters and bitmaps
  agree (`ChunkCounts`), no assertion fails (`AssertsHold`), no byte is given out
  twice (`HeapSpec`), and every step is one of `SmallChunk` (`ChunkSpec`).
- `structures`: the data structures and helpers, which take turns. The red-black
  tree with eight nodes, two to each key, under all orders of insertion and
  deletion: it holds its members and its links agree (`HoldsMembers`), colours and
  black heights (`RedBlack`), iteration and searches miss nothing
  (`SearchComplete`). The leftist tree with seven nodes, all sequences of push,
  pop and remove within its contract: one tree, least node at the root, every
  operation returns (`PoolLinked`). The bitmap is a set and its scans find the
  least bit across word boundaries, whatever lies behind it (`BitmapIsSet`). The tables pick the smallest
  class that fits, and bytes and pages agree about what fits (`RequestFits`).
- `allocator`: the whole allocator, until a run is pushed with old links. `BlocksKept`: it implements `BlockHeap`, so no
  memory is given out twice by any two of its parts, and what a holder stored is
  there until it frees the block, whatever is allocated, freed, given up or
  deleted around it, and also after `shm_realloc`. `ChunksInUse`: table, pools and
  chunks agree, and a chunk or an arena is there exactly while something in it is
  held (or for the one empty run a class keeps). `PoolsTrue`: what the pools offer
  exists. `CopyFits`: `check_arena` says nothing or the truth, so `shm_realloc`
  never copies more than the block has.
- `session`: two processes that start with and without create, call, exit, abort,
  and are killed anywhere; `shmat` and the file lock may fail. `CreatorReady`,
  `CountExact`, `NoLeak`; `MutualExclusion`: the mutex is locked exactly while one
  process is in it, or for good once one died there; `InitEnds`: every
  `init_shared_context` ends; `MutexLive`: every call ends and a free mutex is
  given to somebody who waits, unless a process was killed in it.
- `arena`: two processes, two arenas besides the context. `NoDangling` and
  `AddrIsCurrent` for the caches, `TableSound` and `HeapSpec` for the table,
  `DeathNeedsLoss`: the assertions and NULL addresses under the mutex are met
  only after an arena has lost its segment with the last process attached.

Most of the `session` properties are qualified, each by a history variable that
says when: after a creator was killed in the middle (`torn`) the context is
never completed; a process without create that is counted before the `count = 0`
store (`hasty`) is forgotten, and its exit takes the count below the number of
users; one that locks before the context is complete (`raced`) may have the mutex
cleared under it; a killed process is never counted down (`lost`) and leaves the
mutex locked if it was in it (`abandoned`).

Runs that TLC must find violated are the [findings](#findings).

## Bounds

- `medium_chunk`: 10 pages, so 9 to give out: enough for a free unit between two
  others with something on both sides, for every merge case, for a full, an empty
  and a deleted chunk, and for a tree of five nodes, which rotates. The code has
  256; the proofs hold for every number.
- `structures`: eight nodes reach black height 3 and all cases of both fix-ups;
  seven nodes make a full leftist tree of three levels; of three words the one in
  the middle is neither first nor last; requests are 1 to 2000 and those within 20
  bytes of the first three page ends, of the medium limit, of the chunk size, and of
  the two ends of the last megabyte of `size_t`, which has 4 MB here (`SizeLimit`).
- `small_chunk`: two chunks of two runs with two classes, of two slots to a run, as
  the largest class of the code has, and of one: the least with which a page changes
  its class while its neighbour is in use, a run of one chunk competes with one of the
  other, and a pool has more than two runs (half a million states). `small_pool` has one
  class; `small_twice` one chunk, the least that has two runs.
- `allocator`: three arenas, the context's with one chunk to give and two more;
  two pages to a chunk, two slots to a page. So a request finds the pool empty,
  the context's arena full and the table full; a page is a run, part of a medium
  unit and part of a large block in turn; requests are one small, a medium of one
  page, one of two, and a large one. Callers hold seven blocks at most (`MaxLive`),
  so three runs are full with a block to spare, or all five chunks are taken by medium
  blocks. `ArenaSpan` is as long as the chunks of an
  arena, so that neighbours in the table are neighbours in memory.
- `session`: two processes, two segments over time, one fault (a kill or a failed
  call), count modulo 8; with two faults it passes as well and takes four times as
  long. `session_split` needs three processes and neither faults nor openers
  without create.
- `arena`: two processes, table of three, two chunks to an arena, four segment
  ids, which are interchangeable, as the processes are (symmetry). An index is deleted and remade behind the back of the other process, and
  again before it looks.

Deadlock checking is off where the system may stop: the process aborted
(`failed`), the mutex stays locked, or the bound on segments is reached.

## Fairness

Only `Session` states fairness. A running process is scheduled: weak fairness of
its steps in `shm_init`, in `shm_exit` and inside a call. `shm_lock_file` waits in
`F_SETLKW`; the kernel wakes the waiters when the lock is released, and with other
creators coming and going, that each gets it in the end is strong fairness of
`shm_lock_file`. For the mutex only weak fairness is assumed, and only where it was
not used before its initialisation: it does not stay free for ever under a waiter.
A normal mutex promises no order among those who wait, so that *each* of them is
served is not claimed. Nothing makes a process start, call, exit or die.

## Proofs

Seven modules have theorems about a component. But for the sizes, each proves an
inductive invariant of its component first (`Spec => []IInv`, which TLC has found to
hold on the instances of the runs too) and from it the properties of the run, for
every value of the constants. `PROJECT.json` lists the theorems with the properties.
What `SmallChunkProofs` and `AllocatorProofs` prove is about the time before a run is
pushed with old links (`torn`, see [modules](#modules-and-the-code)): the invariant of
the allocator is `~heap.torn => IInv`, that of the small chunks says the same of the
pools. After that the statements are false of the code, as the findings show.

| module | theorems | assumptions on the constants |
|---|---|---|
| `AllocatorProofs` | `ChunksInUseThm`, `PoolsTrueThm`, `CopyFitsThm`, `BlocksKeptThm` | an arena, two chunks or more to one, two pages or more to a chunk; the chunks of an arena and the longest block within reach of an offset |
| `MediumChunkProofs` | `TypeCorrect`, `UnitsTile`, `MarksAgree`, `MarksAreHolds`, `AlwaysCoalesced`, `AdvertisedIsFree`, `FreeSizeCounts`, `DeletedAreUnheld`, `UnitAssertsNeverFail`, `ImplementsPageHeap` | two pages or more |
| `SmallChunkProofs` | `TypeCorrect`, `FreeListExactHolds`, `PoolHasRoomHolds`, `ChunkCountsHolds`, `AssertsNeverFail`, `ImplementsPageHeap` | two pages or more to a chunk, a run header, one slot of each class fits behind it |
| `ArenaProofs` | `TypeCorrect`, `NoDanglingHolds`, `AddrIsCurrentHolds`, `TableSoundHolds`, `DeathNeedsLossHolds`, `ImplementsPageHeap` | a table with an index, two chunks or more to an arena, no segment with id 0 |
| `SessionProofs` | `TypeCorrect`, `CreatorReadyHolds`, `CountExactHolds`, `NoLeakHolds`, `MutualExclusionHolds` | finitely many processes (so that they can be counted), a counter of any width |
| `ShmTreeProofs` | `PoolLinkedThm` | finitely many positions |
| `UtilProofs` | `EveryRequestFits`, `BitmapThm` | the code's tables and limits, `size_t` of any width that is a multiple of a megabyte, above two; any number of words and bits to a word |

The numbers of the code (256 pages of 4096 bytes, 64 bytes of header, 32-bit
count, 64-bit `size_t`) satisfy the assumptions.

**The whole allocator.** `Good`, the invariant, has five parts: the types (`Heap`); an
arena is empty, has a chunk or is one large block (`Arenas`); a slot is taken exactly by
a chunk in the pool of its type, whose header is that of a small or of a medium chunk
and has a run or a unit handed out (`Chunks`); the run pool has the runs with a free
slot, and at most one of them is empty (`Runs`); and the size held at every position is
what table and headers say of it (`Helds`). The last is what `BlocksKept` needs: callers'
blocks are a history variable, which the allocator never reads, so without it nothing
says that a page which is no run and no unit is nobody's. While a call is under way a new
chunk is in its pool and not in use, so `Good` takes the set of chunks excused.
Four lemmas say which change of a header or an entry keeps a heap good (`ChunkStep`,
`ChunkMade`, `ChunkGone`, `LargeStep`); each outcome of `malloc_arena`, `free_arena` and
`shm_realloc` is shown to be such a change or two, and to touch no more of `held` and
`mem` than it should (`Malloced`, `BlockFreed`, `Realloced`). `Covers` says that all of a
block is `Busy`, `LiveApart` that two blocks are apart, and allocation is from what is
not busy: that is the refinement of `BlockHeap`. Two things come out on the way: before a
run is pushed with old links a small request fails no assertion, and a medium one only
where the search in the tree
of the free units ends at one that is too small (`UnitGiven`), which is the finding
`medium_fit`.

**Medium chunk.** None of the invariants is inductive alone. That
`free_chunk_medium` merges with the right neighbours needs the bitmap scans to find
the next and the previous unit, which needs the tiling and the agreement of the
bitmaps; that the tiling is kept needs to know which units are free and how long
they are (`BitmapsAgree`, `HeldIsMarked`); that free neighbours stay merged needs
that there was nothing to merge before (`Coalesced`); that deletion is safe needs the
exact `free_size`, which counts pages and so needs the tiling again. `IInv` is the
conjunction of all of them, with `HeldIsMarked` (the marks are the units held) and
`DeletedIsUnheld` (a deleted chunk has none). `NextUnitIs` and `PrevUnitIs` say what
the scans return, `RunCount` and its neighbours count pages.

**Small chunks.** `IInv` adds to the properties that what callers hold lies in live
runs and is as long as their slots (`HeldIsLive`), and says of each live run that its
header is `Sound` for the slots held: the free list lists the others, each once, and
`used` counts them. `SoundTake` and `SoundGive` show that `malloc_run` and `free_run`
keep a run sound, `SoundNew` that `new_chunk_run` makes a sound one; from `SoundRoom`
(fewer used than there are slots, so the list is not empty) come the assertions.
`HeldIsLive` is what lets a page become a run of another class: a page that is no
live run holds nothing (`DeadHoldsNothing`). Giving up a run splits in two,
`KeepStep` and `DropStep`; that no second empty run is kept follows from
`PoolHasRoom`, since an empty run is in its pool and makes it larger than one. For
`PageHeap`, slots of a run are apart (`SlotsApart`) and pages are (`PagesApart`).

**Arena table and address caches.** `IInv` says for each index what the table and
each process may have there: nothing, the address of the segment it names, or a NULL
address, and that only after a loss (`Entries`); that a process is attached to exactly
the segments it has addresses of (`Mapped`); that a segment has one index for
everybody, and one that only a key leads to is known to nobody (`OneIndex`), so that a
new segment never looks like an old one; and that the listed segments exist unless one
was lost (`Lossless`). `NoDangling` is not inductive without `OneIndex`: were one
segment at two indices, unmapping it at the one would leave the address at the other.

**Sessions.** `IInv` relates the place each process is at to the fields of its
context: which are stored at which step of the creator (`Stages`, `Fields`), who has
the file lock (`FileLock`), that a context with its flag set is complete, being
completed by somebody, or torn (`Completed`), that nobody is counted while the count
is still to be stored unless the segment is hasty (`ZeroIsFirst`), who holds the mutex
(`Locked`, `Raced`), and that without faults somebody is left to remove each segment
(`Removable`), which is what makes `NoLeak` inductive. `CountExact` is proved modulo
the width of the counter, for any number of processes.

**Sizes.** Not an induction: `RequestFits` is proved for every size that a `size_t`
can have. The last megabyte of sizes rounds up to 0.

**Bitmaps.** The words hold a set, and a scan that starts at word `i` finds the least
member from there on. The scan is a recursion over the words, and the provers cannot
use induction with an operator; so the proof takes the last word from which the scan
would go wrong, the greatest of a bounded set of numbers, and finds that it does not.

**Leftist tree.** `PoolIInv` says that the nodes in the pool are one tree (`OneTree`): a
link leads to a higher node of the pool, which names the node it hangs under, and the
root is the one node that hangs nowhere. `shm_tree_merge` does not keep this on the way:
while a call is pending, the right link of the lower tree is out of date. The proof
therefore speaks of forests some of whose links are cut (`Forest`, `Top`). A call cuts
the right link of the lower head, the call below merges what that cuts off with the other
tree (`StepDown`), and `Join` mends the cut (`StepUp`). Each call cuts a link that no
call above it has cut, so no more calls are pending than there are nodes and the
recursion ends: `MergeIs` takes the least number of calls to go with which it would not,
and finds none. That the recursive function exists at all is shown the same way
(`MergeUnfold`). `shm_tree_remove` is one cut more: the link from the parent
(`Detach`, `Graft`). The rank is not part of it: that a merge is fast needs the leftist
order, that it ends and loses no node does not.

Least elements (the first free page, index or chunk that the code scans for) come
from the well-foundedness of the numbers (`MinIs` in `NumberFacts`).

Only model-checked: liveness (`InitEnds`, `MutexLive`), which is out of the
prover's reach; and everything about the red-black tree, whose operators are
declared `RECURSIVE` and whose invariant counts black nodes along every path
(`HoldsMembers`, `RedBlack`, `SearchComplete`, `TreeIsFreeUnits`, `ChunkSpec`).
`PoolLinkedThm` is about nodes pushed with their links cleared, as `new_chunk_run` does
and `free_chunk_small` does not. That the pools of the code are the sets of `SmallChunk`
as long as every push is clean is checked (`ChunkSpec` of `SmallTree`), not proved.

## Findings

Violated by the code as it is, with the trace TLC finds:

- `medium_fit`: `medium_tree_compare` keeps a difference in a `uint16_t`, so the
  free tree is not ordered by size, and the unit that `rbtree_lower` returns may
  be too small. `malloc_chunk_medium` asserts that it is not.
- `small_pool`: `shm_tree_pop` leaves the links of the run it pops, and
  `free_chunk_small` pushes the run again with them. A subtree then hangs in the
  tree twice, full runs come back to the root, and `malloc_run` asserts.
- `small_twice`: the same old links, with a worse end. With two slots to a run,
  three mallocs fill run A and half of B; a slot of A is freed, given out and freed
  again, so that both links of A lead to B. The slot of B is freed and B given up:
  `shm_tree_remove` clears one of the links. A malloc fills A, B is the root, and the
  next malloc is given a slot of a page that is free. A malloc of another class makes
  the page a run and is given the same position. So the promise of `PageHeap` and of
  `BlockHeap` ends where `HeapSpec` and `BlocksKept` say it may, with the first run
  pushed with old links.
- `session_split`: counting down and removing the context segment are two steps.
  A process that comes in between keeps a segment without a key, and the next one
  makes a second context: two heaps and two user data under one path.
- `arena_large`: `delete_arena` asserts a local address that a process has not
  got if it frees a large arena of another process without having looked at it.
- `realloc`: `check_arena` gives `check_chunk` the offset in the arena where the one
  in the chunk is meant (`src/shm_context.c:323`), and `check_chunk_medium` looks for
  the next unit from the unit's own bit on (`src/chunk_medium.c:250`). So the size of
  most blocks comes out as 0, and `shm_realloc` returns the old block unchanged to a
  caller that asked for more. `CopyFits` shows that nothing is copied wrongly.

Seen while reading, and not the subject of a run:

- `new_chunk` (`src/shm_context.c:177`) tests for the context's type twice, so
  arenas of type `CHUNK` give out their first chunk only.
- `rbtree_lower` (`src/rbtree.h:330`) returns a node that is large enough and not
  always the least; `check_chunk_medium_max` takes the rightmost node of the
  unordered tree, so a chunk may advertise less than its largest unit.
- `shm_tree_remove` (`src/shm_tree.h:49`) does not restore the ranks above the
  node removed; the tree stays correct and may become deep.
- A process without create may come between `init_flag` and the end of the
  initialisation: it is then counted and forgotten, locks a mutex that is cleared
  under it, or records id 0 for arena 0 (`src/shm_malloc.c:30`). In the last case
  its next use of arena 0 fails the assertion of `mmap_arena` under the mutex.
- `new_arena` overwrites a stale cached address without detaching it
  (`src/shm_context.c:130`), and when it fails half way leaves the segment under
  its key, for the next `new_arena` at the index to take over (sizes may differ).
- An arena segment goes with the last process attached to it, while the table
  still lists it (`src/shm_context.c:115`).
- `shm_mmap` takes the valid segment id 0 for a failure (`src/shm_op_wrapper.c:25`).

## Not modelled

- `shm_get_key`, which creates a file and hashes its name, and the failures of the
  calls that do not fail in practice (`pthread_mutexattr_*`, `shmdt`).
- `shmat` failing for an arena segment that exists, other than in `new_arena`.
- A request in the last megabyte of `size_t` that meets a segment left under its key:
  `shmget` with size 0 creates nothing, but would return that one.
- `shm_check_size` as an action: it reads, and what it returns is `check_arena`,
  which `CopyFits` is about.
- Several size classes at once in `Allocator`; `SmallChunk` has two.
- `user_data`, one word read and written without the mutex.
- Two threads of one process: the address cache is read under the context mutex
  as well, so they behave as one process.
- Logger, tests and example.

## Plan

1. Done: medium chunks with abstract and real tree, red-black tree, small chunks
   with pools and leftist trees, helpers, sessions, arenas and addresses; proofs
   for the medium chunk.
2. Done: the composition in `Allocator` with `shm_realloc` and `BlockHeap`; the
   mutex and failing calls in `Session`; failures inside `new_arena` in `Arena`.
3. Done: the safety properties of `SmallChunk`, `Arena`, `Session` and `SizeClass`
   proved, and that the small chunks and the arena table implement `PageHeap`.
4. Done: the safety properties of `Allocator` proved, and that it implements
   `BlockHeap`; the bitmaps, for any number of words; the leftist tree, for any
   number of nodes.
5. Left to TLC: the red-black tree and liveness, as said under [proofs](#proofs).
