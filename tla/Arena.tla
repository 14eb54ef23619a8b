--------------------------------- MODULE Arena ---------------------------------
(***************************************************************************)
(* The arena table and the addresses of its segments (shm_context.c,       *)
(* shm_malloc.c).  An arena is a System V segment; the table in the shared *)
(* context says which segment is at which index, and every process keeps   *)
(* its own addresses of the segments, brought up to date when it next      *)
(* needs them.  Arena 0 is the context's own segment, always mapped.       *)
(*                                                                         *)
(* Every operation runs under the context mutex, so it is one action here. *)
(* A process that dies in the middle (an assertion, a NULL address, a      *)
(* kill) leaves the mutex locked, and nobody comes to see what it left.    *)
(*                                                                         *)
(* The kernel: arena segments are marked for removal as soon as they are   *)
(* attached, so a segment exists while a process is attached to it.  When  *)
(* new_arena fails on the way, the segment stays under its key as well,    *)
(* and the next new_arena at the index is given that one.  That a segment  *)
(* there is can be attached is taken for granted elsewhere.                *)
(***************************************************************************)
EXTENDS Integers, FiniteSetsExt

CONSTANTS
    Proc,           \* the processes
    ArenaMax,       \* SHM_ARENA_MAX, 128 in the code
    ArenaChunks,    \* SHM_ARENA_CHUNK_SIZE, 8 in the code
    Shmid           \* the ids the kernel may give an arena segment

ASSUME ArenaAssumption ==
    /\ ArenaMax \in Nat \ {0} /\ ArenaChunks \in Nat \ {0, 1}
    /\ 0 \notin Shmid

VARIABLES
    running,        \* the processes between shm_init and their end
    locked,         \* a process died with the mutex locked
    arena,          \* shm_shared_context.arenas
    addrs,          \* arena_addrs of each process; an address is the id of the
                    \* segment that is mapped there, 0 for NULL
    attached,       \* the segments each process is attached to
    leaked,         \* those it is attached to once more, at an address it forgot
    keyed,          \* the segment under the key of each index, 0 if none
    held,           \* history: what callers hold, see PageHeap
    why,            \* history: what a process died of with the mutex locked
    lost            \* history: an arena of the table has lost its segment

local == <<addrs, attached, leaked>>
vars  == <<running, locked, arena, local, keyed, held, why, lost>>

Index == 1 .. (ArenaMax - 1)        \* the arenas other than the context's
Slot  == 0 .. (ArenaChunks - 1)     \* the chunks of an arena

EMPTY    == [type |-> "EMPTY", shmid |-> 0, chunks |-> {}, used |-> 0]
NoAddr   == [addr |-> 0, shmid |-> 0]

\* Position of chunk c of arena i in PageHeap, which counts from 1.
Pos(i, c) == i * ArenaChunks + c + 1

is_arena_valid(i) == arena[i].type # "EMPTY"

Listed == {arena[i].shmid : i \in {j \in Index : is_arena_valid(j)}}
Keyed  == {keyed[i] : i \in Index} \ {0}
Exists == Keyed \cup UNION {attached[p] \cup leaked[p] : p \in Proc}

Init ==
    /\ running = {} /\ locked = FALSE
    /\ arena = [i \in 0 .. (ArenaMax - 1) |->
                  IF i = 0 THEN [type |-> "CONTEXT", shmid |-> 0, chunks |-> {0}, used |-> 1]
                           ELSE EMPTY]
    /\ addrs = [p \in Proc |-> [i \in Index |-> NoAddr]]
    /\ attached = [p \in Proc |-> {}] /\ leaked = [p \in Proc |-> {}]
    /\ keyed = [i \in Index |-> 0]
    /\ held = [x \in 1 .. (ArenaMax * ArenaChunks) |-> 0]
    /\ why = "alive" /\ lost = FALSE

-----------------------------------------------------------------------------
(* Processes *)

\* The mutex is free and p may call.
Locks(p) == p \in running /\ ~locked

\* p ends: the kernel detaches it.
Leaves(p) ==
    /\ running' = running \ {p}
    /\ addrs' = [addrs EXCEPT ![p] = [i \in Index |-> NoAddr]]
    /\ attached' = [attached EXCEPT ![p] = {}] /\ leaked' = [leaked EXCEPT ![p] = {}]
    /\ UNCHANGED <<arena, keyed, held>>
    /\ lost' = (lost \/ ~(Listed \subseteq Exists'))

\* p dies with the mutex locked.
dies(p, reason) == Leaves(p) /\ locked' = TRUE /\ why' = reason

\* p ends with the mutex free, by exit or by a kill.  The module is about one
\* life of the context (see Session): after a kill the count never comes to 0, and
\* the table stays when no process is left.
exit(p) == p \in running /\ Leaves(p) /\ UNCHANGED <<locked, why>>

killed(p) == Locks(p) /\ dies(p, "killed")

\* The segment at index i, if it still exists.
mmap_arena(i) == IF arena[i].shmid \in Exists THEN arena[i].shmid ELSE 0

\* The loop of shm_init: a process maps all arenas there are.
shm_init(p) ==
    /\ p \notin running /\ ~locked
    /\ running' = running \cup {p}
    /\ addrs' = [addrs EXCEPT ![p] = [i \in Index |->
                    IF is_arena_valid(i) THEN [addr |-> mmap_arena(i), shmid |-> arena[i].shmid]
                                         ELSE NoAddr]]
    /\ attached' = [attached EXCEPT ![p] = {mmap_arena(i) : i \in {j \in Index : is_arena_valid(j)}} \ {0}]
    /\ UNCHANGED <<locked, arena, leaked, keyed, held, why, lost>>

-----------------------------------------------------------------------------
(* Addresses *)

\* Mutant: the address is brought up to date only when there is none.
NewEntry_first_only(p, i) ==
    IF addrs[p][i].shmid # 0 THEN addrs[p][i]
    ELSE IF is_arena_valid(i) THEN [addr |-> mmap_arena(i), shmid |-> arena[i].shmid] ELSE NoAddr

\* get_or_update_arena_addr: what p has for arena i afterwards.
NewEntry(p, i) ==
    IF addrs[p][i].shmid = arena[i].shmid THEN addrs[p][i]
    ELSE IF is_arena_valid(i) THEN [addr |-> mmap_arena(i), shmid |-> arena[i].shmid] ELSE NoAddr

\* Its assertion: an address that is replaced is not NULL.
Replaces(p, i) == addrs[p][i].shmid # arena[i].shmid /\ addrs[p][i].shmid # 0
EntryAssert(p, i) == Replaces(p, i) => addrs[p][i].addr # 0

\* What the updates for the arenas in T detach and attach.
NewAttached(p, T) ==
    (attached[p] \ {addrs[p][i].addr : i \in {j \in T : Replaces(p, j)}})
        \cup ({NewEntry(p, i).addr : i \in T} \ {0})

NewAddrs(p, T) == [i \in Index |-> IF i \in T THEN NewEntry(p, i) ELSE addrs[p][i]]

\* An operation of p follows positions into the arenas T: it needs an address
\* for each.
CanUse(p, T) == \A i \in T : EntryAssert(p, i) /\ NewEntry(p, i).addr # 0

\* The updates of p for the arenas in T, and nothing else of p.
Update(p, T) ==
    /\ addrs' = [addrs EXCEPT ![p] = NewAddrs(p, T)]
    /\ attached' = [attached EXCEPT ![p] = NewAttached(p, T)]
    /\ UNCHANGED leaked

shm_get_addr(p, i) ==
    /\ Locks(p)
    /\ IF EntryAssert(p, i)
         THEN Update(p, {i}) /\ UNCHANGED <<running, locked, arena, keyed, held, why, lost>>
         ELSE dies(p, "entry")

\* The arenas that hold chunks, and with them the nodes of the pools.
ChunkArenas == {i \in Index : arena[i].type = "CHUNK"}

\* A call that finds what it needs in a chunk there is, or frees something that
\* leaves its chunk in use; the pools lead it through the arenas T.
use_chunks(p, T) ==
    /\ Locks(p) /\ T \subseteq ChunkArenas
    /\ IF CanUse(p, T)
         THEN Update(p, T) /\ UNCHANGED <<running, locked, arena, keyed, held, why, lost>>
         ELSE dies(p, "address")

-----------------------------------------------------------------------------
(* New arenas and chunks *)

EmptyIndex == {i \in Index : arena[i].type = "EMPTY"}

\* The kernel gives a new segment an id that nobody knows any more: ids count
\* the uses of their slot, and come back after many thousands of segments.
Fresh(s) ==
    /\ s \in Shmid \ (Exists \cup Listed)
    /\ \A p \in Proc, i \in Index : addrs[p][i].shmid # s

\* shmget with IPC_CREAT: the segment under the key of index i, or a new one.
shmget(i, s) == IF keyed[i] # 0 THEN s = keyed[i] ELSE Fresh(s)

\* new_arena: the segment s at the first empty index, with the chunks given.  An
\* address that p still has for an older arena there is forgotten, not unmapped.
\* T is what else the operation touches.
new_arena(p, s, type, chunks, T) ==
    LET i   == Min(EmptyIndex)
        old == {addrs[p][i].addr} \ {0}
    IN  /\ shmget(i, s)
        /\ arena' = [arena EXCEPT ![i] = [type |-> type, shmid |-> s, chunks |-> chunks,
                                          used |-> Cardinality(chunks)]]
        /\ addrs' = [addrs EXCEPT ![p] = [NewAddrs(p, T) EXCEPT ![i] = [addr |-> s, shmid |-> s]]]
        /\ attached' = [attached EXCEPT ![p] = (NewAttached(p, T) \ old) \cup {s}]
        /\ leaked' = [leaked EXCEPT ![p] = @ \cup old]
        /\ keyed' = [keyed EXCEPT ![i] = 0]
        /\ held' = [held EXCEPT ![Pos(i, 0)] = IF type = "LARGE" THEN ArenaChunks ELSE 1]
        /\ UNCHANGED <<running, locked, why, lost>>

\* new_arena gives up after shmget: shmat fails, or shm_remove does and the segment
\* stays attached.  Either way it stays under its key, and malloc returns SHM_NULL.
\* (When shmget fails already, nothing has changed.)
new_arena_fails(p, s, T) ==
    LET i == Min(EmptyIndex)
    IN  /\ shmget(i, s)
        /\ keyed' = [keyed EXCEPT ![i] = s]
        /\ addrs' = [addrs EXCEPT ![p] = NewAddrs(p, T)]
        /\ attached' = [attached EXCEPT ![p] = NewAttached(p, T)]
        /\ \/ leaked' = [leaked EXCEPT ![p] = @ \cup {s}]
           \/ UNCHANGED leaked
        /\ UNCHANGED <<running, locked, arena, held, why, lost>>

malloc_large(p, s) ==
    /\ Locks(p) /\ EmptyIndex # {}
    /\ new_arena(p, s, "LARGE", {}, {}) \/ new_arena_fails(p, s, {})

\* Mutant: the chunk of the context itself is given out too.
FreeSlots_all == {c \in Slot : c \notin arena[0].chunks \ {0}}

\* new_chunk asks the context's arena only; its chunk 0 is the context.
FreeSlots == {c \in Slot : c >= 1 /\ c \notin arena[0].chunks}

new_chunk_context(p, T) ==
    LET c == Min(FreeSlots)
    IN  /\ Locks(p) /\ FreeSlots # {} /\ T \subseteq ChunkArenas
        /\ IF CanUse(p, T)
             THEN /\ arena' = [arena EXCEPT ![0].chunks = @ \cup {c}, ![0].used = @ + 1]
                  /\ Update(p, T)
                  /\ held' = [held EXCEPT ![Pos(0, c)] = 1]
                  /\ UNCHANGED <<running, locked, keyed, why, lost>>
             ELSE dies(p, "address")

new_chunk_arena(p, s, T) ==
    /\ Locks(p) /\ FreeSlots = {} /\ EmptyIndex # {} /\ T \subseteq ChunkArenas
    /\ IF CanUse(p, T) THEN new_arena(p, s, "CHUNK", {0}, T) \/ new_arena_fails(p, s, T)
                       ELSE dies(p, "address")

-----------------------------------------------------------------------------
(* free_arena *)

\* Mutant: clear_arena_addr is not called.
delete_arena_keeps_addr(p, i, T) ==
    /\ arena' = [arena EXCEPT ![i] = EMPTY]
    /\ addrs' = [addrs EXCEPT ![p] = NewAddrs(p, T)]
    /\ attached' = [attached EXCEPT ![p] = NewAttached(p, T) \ {NewAddrs(p, T)[i].addr}]
    /\ UNCHANGED leaked

\* Mutant: clear_arena_addr forgets the id.
delete_arena_keeps_shmid(p, i, T) ==
    /\ arena' = [arena EXCEPT ![i] = EMPTY]
    /\ addrs' = [addrs EXCEPT ![p] = [NewAddrs(p, T) EXCEPT ![i].addr = 0]]
    /\ attached' = [attached EXCEPT ![p] = NewAttached(p, T) \ {NewAddrs(p, T)[i].addr}]
    /\ UNCHANGED leaked

\* delete_arena, when the operation touches the arenas T: the address of arena i
\* that p has by then is unmapped.
delete_arena(p, i, T) ==
    /\ arena' = [arena EXCEPT ![i] = EMPTY]
    /\ addrs' = [addrs EXCEPT ![p] = [NewAddrs(p, T) EXCEPT ![i] = NoAddr]]
    /\ attached' = [attached EXCEPT ![p] = NewAttached(p, T) \ {NewAddrs(p, T)[i].addr}]
    /\ UNCHANGED leaked

\* The last use of chunk c of arena i ends: check_delete_chunk.
free_chunk(p, i, c, T) ==
    LET touched == (T \cup {i}) \ {0}
        left    == [arena[i] EXCEPT !.chunks = @ \ {c}, !.used = @ - 1]
    IN  /\ Locks(p) /\ T \subseteq ChunkArenas
        /\ arena[i].type \in {"CONTEXT", "CHUNK"} /\ held[Pos(i, c)] # 0
        /\ IF CanUse(p, touched)
             THEN /\ IF left.used = 0 /\ arena[i].type # "CONTEXT"
                       THEN delete_arena(p, i, touched)
                       ELSE arena' = [arena EXCEPT ![i] = left] /\ Update(p, touched)
                  /\ held' = [held EXCEPT ![Pos(i, c)] = 0]
                  /\ UNCHANGED <<running, locked, keyed, why, lost>>
             ELSE dies(p, "address")

\* A large arena is deleted through the address p has, up to date or not.
free_large(p, i) ==
    /\ Locks(p) /\ arena[i].type = "LARGE"
    /\ IF addrs[p][i].addr # 0
         THEN /\ delete_arena(p, i, {})
              /\ held' = [held EXCEPT ![Pos(i, 0)] = 0]
              /\ UNCHANGED <<running, locked, keyed, why, lost>>
         ELSE dies(p, "large")

Next ==
    \E p \in Proc :
        \/ shm_init(p) \/ exit(p) \/ killed(p)
        \/ \E i \in Index : shm_get_addr(p, i) \/ free_large(p, i)
        \/ \E s \in Shmid : malloc_large(p, s)
        \/ \E T \in SUBSET Index :
             \/ use_chunks(p, T)
             \/ new_chunk_context(p, T)
             \/ \E s \in Shmid : new_chunk_arena(p, s, T)
             \/ \E i \in Index \cup {0}, c \in Slot : free_chunk(p, i, c, T)

Spec == Init /\ [][Next]_vars

-----------------------------------------------------------------------------
(* Properties *)

TypeOK ==
    /\ running \subseteq Proc /\ locked \in BOOLEAN /\ lost \in BOOLEAN
    /\ arena \in [0 .. (ArenaMax - 1) -> [type : {"EMPTY", "CONTEXT", "CHUNK", "LARGE"},
                    shmid : Shmid \cup {0}, chunks : SUBSET Slot, used : 0 .. ArenaChunks]]
    /\ addrs \in [Proc -> [Index -> [addr : Shmid \cup {0}, shmid : Shmid \cup {0}]]]
    /\ attached \in [Proc -> SUBSET Shmid] /\ leaked \in [Proc -> SUBSET Shmid]
    /\ keyed \in [Index -> Shmid \cup {0}]
    /\ held \in [1 .. (ArenaMax * ArenaChunks) -> 0 .. ArenaChunks]
    /\ why \in {"alive", "killed", "entry", "address", "large"}

\* Whatever the others did to the indices in the meantime, the segments a process
\* is attached to, but for those at forgotten addresses, are the ones it has
\* recorded, each at one index: it keeps no address of a segment it has unmapped
\* and unmaps none that it still uses (clear_arena_addr, get_or_update_arena_addr).
NoDangling ==
    \A p \in Proc :
        /\ attached[p] = {addrs[p][i].addr : i \in Index} \ {0}
        /\ \A i, j \in Index : addrs[p][i].addr = addrs[p][j].addr => i = j \/ addrs[p][i].addr = 0

\* Whatever the others have done to the table since a process last looked, what
\* get_or_update_arena_addr gives it is the address of the arena now at the index:
\* never of one that was there before, and NULL only if a segment was lost.
AddrIsCurrent ==
    \A p \in running, i \in Index :
        EntryAssert(p, i) => \/ NewEntry(p, i).addr = arena[i].shmid
                             \/ NewEntry(p, i).addr = 0 /\ lost

\* A segment is at one index of the table, and not also there for the taking under
\* a key; used counts the chunks of an arena, and an arena without chunks is given
\* up (check_delete_chunk).
TableSound ==
    /\ Listed \cap Keyed = {}
    /\ \A i, j \in Index : is_arena_valid(i) /\ arena[i].shmid = arena[j].shmid => i = j
    /\ \A i \in 0 .. (ArenaMax - 1) : arena[i].used = Cardinality(arena[i].chunks)
    /\ \A i \in ChunkArenas : arena[i].used > 0

Heap == INSTANCE PageHeap WITH N <- ArenaMax * ArenaChunks

\* Chunks and large arenas are given out once at a time and the context's own
\* chunk never: malloc_arena and free_arena implement PageHeap over the table.
HeapSpec == Heap!Spec /\ [](held[Pos(0, 0)] = 0)

\* A process finds a NULL address, or replaces one, only after an arena of the
\* table has lost its segment with the last process attached to it.
DeathNeedsLoss == why \in {"entry", "address"} => lost

\* "assert(addr != NULL)" in delete_arena: a process that frees a large arena has
\* an address for it.
LargeIsMapped == why # "large"
===============================================================================
