-------------------------------- MODULE Session --------------------------------
(***************************************************************************)
(* How processes come to share a context, use it and leave it (shm_init    *)
(* and shm_exit of shm_malloc.c, init_shared_context, exit_shared_context, *)
(* lock_context and unlock_context of shm_context.c, shm_lock.c).  The     *)
(* context lives in a System V segment found under a key; a process that   *)
(* may create it takes the file lock while it looks whether the context is *)
(* initialised, one that may not takes no lock.  Every call then runs      *)
(* under the mutex in the context, which is neither robust nor recursive.  *)
(*                                                                         *)
(* Failures covered: a process is killed at any point; shmat fails; the    *)
(* file lock cannot be had; an assertion fails.                            *)
(*                                                                         *)
(* The kernel: shmget with a key finds the segment under the key or makes  *)
(* one; IPC_RMID takes a segment from its key, and the segment is          *)
(* destroyed once nobody is attached to it.  A file lock ends with its     *)
(* holder, a locked mutex stays locked.  A zeroed mutex is an unlocked one *)
(* for the processes that use it too early (glibc), and nobody who sleeps  *)
(* on it is woken by another process.                                      *)
(***************************************************************************)
EXTENDS Integers, FiniteSets

CONSTANTS
    Proc,           \* the processes
    Creates,        \* the values shm_init is called with: a subset of BOOLEAN
    NoProc,         \* no process
    CountLimit,     \* 2^32 in the code: count is an unsigned int
    MaxSeg,         \* bound: segments made over time
    MaxFault        \* bound: kills and failed system calls over time

ASSUME SessionAssumption ==
    /\ IsFiniteSet(Proc) /\ NoProc \notin Proc /\ Creates \subseteq BOOLEAN
    /\ CountLimit \in Nat \ {0} /\ MaxSeg \in Nat /\ MaxFault \in Nat

VARIABLES
    pc,             \* where each process is, "out" when it does not run
    create,         \* its argument
    seg,            \* the segment it knows, 0 if none
    early,          \* the processes that have recorded 0 as the id of arena 0
    keyed,          \* the segment under the key, 0 if none
    made,           \* how many segments there have been
    dest,           \* the segments marked for removal
    ctx,            \* the shm_shared_context in each segment
    lockfile,       \* the holder of the file lock, or NoProc
    faults, lost,   \* history: faults so far; counted processes that died, by segment
    hasty,          \* history: segments counted up before the store of count
    raced,          \* history: segments locked before they were initialised
    torn,           \* history: segments whose initialisation was cut short
    abandoned       \* history: segments in whose mutex a process died

local  == <<pc, create, seg, early>>
kernel == <<keyed, made, dest>>
past   == <<faults, lost, hasty, raced, torn, abandoned>>
vars   == <<local, kernel, ctx, lockfile, past>>

Seg == 1 .. MaxSeg

Context == [init_flag : BOOLEAN, key : BOOLEAN, count : 0 .. (CountLimit - 1),
            locked : BOOLEAN, shared : BOOLEAN, arena0 : BOOLEAN]

\* A new segment is zeroed.  shared: the mutex is initialised; arena0: so is
\* arenas[0], with the id of the segment itself.
Zeroed == [init_flag |-> FALSE, key |-> FALSE, count |-> 0,
           locked |-> FALSE, shared |-> FALSE, arena0 |-> FALSE]

Ready(s) == ctx[s].shared /\ ctx[s].arena0

\* Between its shmat and its end a process is attached.
Attached(p) == pc[p] \notin {"out", "shmat"}
Exists(s)   == s <= made /\ (s \notin dest \/ \E p \in Proc : Attached(p) /\ seg[p] = s)

\* The processes counted in segment s, those that want its mutex, and those that
\* have passed lock_context.
Counted(s) == {p \in Proc : seg[p] = s /\ pc[p] \in {"wait", "map", "in", "want", "call"}}
Waiting(s) == {p \in Proc : seg[p] = s /\ pc[p] \in {"wait", "want"}}
Holders(s) == {p \in Proc : seg[p] = s /\ pc[p] \in {"map", "call"}}

Go(p, where) == pc' = [pc EXCEPT ![p] = where] /\ UNCHANGED <<create, seg, early>>
Set(p, fields) == ctx' = [ctx EXCEPT ![seg[p]] = fields]

\* The kernel detaches a process that ends, takes the file lock from it, and
\* destroys a segment marked for removal with the last to detach; its history,
\* with the values given for lost, torn and abandoned, ends with it.
Gone(p, died, cut, stuck) ==
    LET s       == seg[p]
        last    == s \in dest /\ \A q \in Proc \ {p} : ~(Attached(q) /\ seg[q] = s)
        Kept(S) == IF last THEN S \ {s} ELSE S
    IN  /\ pc' = [pc EXCEPT ![p] = "out"] /\ create' = [create EXCEPT ![p] = FALSE]
        /\ seg' = [seg EXCEPT ![p] = 0] /\ early' = early \ {p}
        /\ lockfile' = IF lockfile = p THEN NoProc ELSE lockfile
        /\ ctx' = IF last THEN [ctx EXCEPT ![s] = Zeroed] ELSE ctx
        /\ lost' = IF last THEN [died EXCEPT ![s] = 0] ELSE died
        /\ hasty' = Kept(hasty) /\ raced' = Kept(raced)
        /\ torn' = Kept(cut) /\ abandoned' = Kept(stuck)
        /\ UNCHANGED kernel

Init ==
    /\ pc = [p \in Proc |-> "out"] /\ create = [p \in Proc |-> FALSE]
    /\ seg = [p \in Proc |-> 0] /\ early = {}
    /\ keyed = 0 /\ made = 0 /\ dest = {}
    /\ ctx = [s \in Seg |-> Zeroed]
    /\ lockfile = NoProc
    /\ faults = 0 /\ lost = [s \in Seg |-> 0]
    /\ hasty = {} /\ raced = {} /\ torn = {} /\ abandoned = {}

-----------------------------------------------------------------------------
(* shm_init: init_shared_context *)

\* shmget of shm_mmap.  Without create, and with nothing under the key, shm_init
\* returns -1.
Shmget(p, c) ==
    LET s == IF keyed # 0 THEN keyed ELSE IF c THEN made + 1 ELSE 0
    IN  /\ pc[p] = "out" /\ s <= MaxSeg
        /\ pc' = [pc EXCEPT ![p] = IF s = 0 THEN "out" ELSE "shmat"]
        /\ create' = [create EXCEPT ![p] = (c /\ s # 0)]
        /\ seg' = [seg EXCEPT ![p] = s]
        /\ keyed' = s
        /\ made' = IF keyed = 0 /\ c THEN s ELSE made
        /\ UNCHANGED <<early, dest, ctx, lockfile, past>>

\* shmat of shm_mmap.  When the segment is gone by now, shm_init returns -1.
Shmat(p) ==
    /\ pc[p] = "shmat"
    /\ IF Exists(seg[p])
         THEN Go(p, IF create[p] THEN "lock" ELSE "check")
                /\ UNCHANGED <<kernel, ctx, lockfile, past>>
         ELSE Gone(p, lost, torn, abandoned) /\ UNCHANGED faults

\* Mutant: init_flag is not looked at.
Initialised_never(s) == FALSE

Initialised(s) == ctx[s].init_flag

\* shm_lock_file returns with the lock, and init_shared_context looks at init_flag.
shm_lock_file(p) ==
    /\ pc[p] = "lock" /\ lockfile = NoProc
    /\ lockfile' = p
    /\ Go(p, IF Initialised(seg[p]) THEN "unlock" ELSE "init")
    /\ UNCHANGED <<kernel, ctx, past>>

\* A normal mutex shared by processes, unlocked.  (That the calls on its attributes
\* may fail is not modelled: they do not.)
shm_lock_init(f) == [f EXCEPT !.locked = FALSE, !.shared = TRUE]

\* init_shm_shared_field, in the order of its stores: the memset and init_flag;
\* key; count; the mutex (shm_lock_init); arena 0.
init_shm_shared_field(p) ==
    LET f == ctx[seg[p]]
    IN  /\ UNCHANGED <<kernel, lockfile, past>>
        /\ \/ pc[p] = "init"  /\ Go(p, "key")    /\ Set(p, [Zeroed EXCEPT !.init_flag = TRUE])
           \/ pc[p] = "key"   /\ Go(p, "zero")   /\ Set(p, [f EXCEPT !.key = TRUE])
           \/ pc[p] = "zero"  /\ Go(p, "mutex")  /\ Set(p, [f EXCEPT !.count = 0])
           \/ pc[p] = "mutex" /\ Go(p, "arena")  /\ Set(p, shm_lock_init(f))
           \/ pc[p] = "arena" /\ Go(p, "unlock") /\ Set(p, [f EXCEPT !.arena0 = TRUE])

\* Mutant: the lock is kept.
shm_unlock_file_kept(p) ==
    /\ pc[p] = "unlock"
    /\ Go(p, "check")
    /\ UNCHANGED <<kernel, ctx, lockfile, past>>

shm_unlock_file(p) ==
    /\ pc[p] = "unlock"
    /\ lockfile' = NoProc
    /\ Go(p, "check")
    /\ UNCHANGED <<kernel, ctx, past>>

\* The assertions of init_shared_context hold, and the process is counted.  It is
\* hasty when the creator has yet to store count.
Count(p) ==
    LET f == ctx[seg[p]]
    IN  /\ pc[p] = "check" /\ f.init_flag /\ f.key
        /\ Set(p, [f EXCEPT !.count = (@ + 1) % CountLimit])
        /\ hasty' = IF \E q \in Proc : pc[q] = "zero" /\ seg[q] = seg[p]
                    THEN hasty \cup {seg[p]} ELSE hasty
        /\ Go(p, "wait")
        /\ UNCHANGED <<kernel, lockfile, faults, lost, raced, torn, abandoned>>

-----------------------------------------------------------------------------
(* Calls under the mutex *)

\* Mutant: the lock is taken whoever holds it.
lock_context_blind(p) ==
    /\ pc[p] \in {"wait", "want"}
    /\ Set(p, [ctx[seg[p]] EXCEPT !.locked = TRUE])
    /\ raced' = IF Ready(seg[p]) THEN raced ELSE raced \cup {seg[p]}
    /\ Go(p, IF pc[p] = "wait" THEN "map" ELSE "call")
    /\ UNCHANGED <<kernel, lockfile, faults, lost, hasty, torn, abandoned>>

\* lock_context returns, in shm_init ("wait") or in a later call ("want").
lock_context(p) ==
    /\ pc[p] \in {"wait", "want"} /\ ~ctx[seg[p]].locked
    /\ Set(p, [ctx[seg[p]] EXCEPT !.locked = TRUE])
    /\ raced' = IF Ready(seg[p]) THEN raced ELSE raced \cup {seg[p]}
    /\ Go(p, IF pc[p] = "wait" THEN "map" ELSE "call")
    /\ UNCHANGED <<kernel, lockfile, faults, lost, hasty, torn, abandoned>>

\* Mutant: a way out of a call that forgets the mutex.
unlock_context_kept(p) ==
    /\ pc' = [pc EXCEPT ![p] = "in"] /\ UNCHANGED <<create, seg>>
    /\ UNCHANGED <<kernel, ctx, lockfile, past>>

\* A normal mutex does not ask who unlocks it.
unlock_context(p) ==
    /\ pc' = [pc EXCEPT ![p] = "in"] /\ UNCHANGED <<create, seg>>
    /\ Set(p, [ctx[seg[p]] EXCEPT !.locked = FALSE])
    /\ UNCHANGED <<kernel, lockfile, past>>

\* The rest of shm_init: the arenas are mapped, and arena 0 is recorded with the
\* id the context gives for it (set_arena_addr), which is 0 before it is set.
map_arenas(p) ==
    /\ pc[p] = "map"
    /\ early' = IF ctx[seg[p]].arena0 THEN early ELSE early \cup {p}
    /\ unlock_context(p)

\* shm_malloc, shm_free, shm_realloc, shm_check_size, shm_get_addr: each runs
\* between lock_context and unlock_context.
Call(p)   == pc[p] = "in" /\ Go(p, "want") /\ UNCHANGED <<kernel, ctx, lockfile, past>>
Return(p) == pc[p] = "call" /\ unlock_context(p) /\ UNCHANGED early

-----------------------------------------------------------------------------
(* The end of a process *)

\* Mutant: only a count already at zero makes it remove.
exit_shared_context_late(p) ==
    LET n == ctx[seg[p]].count
    IN  /\ pc[p] = "in"
        /\ Set(p, [ctx[seg[p]] EXCEPT !.count = (n - 1) % CountLimit])
        /\ Go(p, IF n = 0 THEN "remove" ELSE "end")
        /\ UNCHANGED <<kernel, lockfile, past>>

\* Mutant: count is signed.
exit_shared_context_signed(p) ==
    LET n == ctx[seg[p]].count - 1
    IN  /\ pc[p] = "in"
        /\ Set(p, [ctx[seg[p]] EXCEPT !.count = n])
        /\ Go(p, IF n = 0 THEN "remove" ELSE "end")
        /\ UNCHANGED <<kernel, lockfile, past>>

\* shm_exit: count down, and be the one to remove the segment at zero.
exit_shared_context(p) ==
    LET n == (ctx[seg[p]].count - 1) % CountLimit
    IN  /\ pc[p] = "in"
        /\ Set(p, [ctx[seg[p]] EXCEPT !.count = n])
        /\ Go(p, IF n = 0 THEN "remove" ELSE "end")
        /\ UNCHANGED <<kernel, lockfile, past>>

\* The segment named by arenas[0] is marked for removal; before arena 0 is set
\* that names no segment, and the call fails.
shm_remove(p) ==
    /\ pc[p] = "remove"
    /\ IF ctx[seg[p]].arena0
         THEN dest' = dest \cup {seg[p]} /\ keyed' = IF keyed = seg[p] THEN 0 ELSE keyed
         ELSE UNCHANGED <<dest, keyed>>
    /\ Go(p, "end")
    /\ UNCHANGED <<made, ctx, lockfile, past>>

End(p) == pc[p] = "end" /\ Gone(p, lost, torn, abandoned) /\ UNCHANGED faults

\* An assertion of init_shared_context fails: abort runs no exit handler.
Abort(p) ==
    /\ pc[p] = "check" /\ ~(ctx[seg[p]].init_flag /\ ctx[seg[p]].key)
    /\ Gone(p, lost, torn, abandoned) /\ UNCHANGED faults

\* p dies: it may have been counted, hold the mutex, or be initialising.
Dies(p) ==
    Gone(p, IF p \in Counted(seg[p]) THEN [lost EXCEPT ![seg[p]] = @ + 1] ELSE lost,
            IF pc[p] \in {"key", "zero", "mutex", "arena"} THEN torn \cup {seg[p]} ELSE torn,
            IF p \in Holders(seg[p]) THEN abandoned \cup {seg[p]} ELSE abandoned)

\* A call that comes to arena 0 finds the recorded id out of date and would map the
\* arena anew: the assertion of mmap_arena fails, under the mutex.
AbortCall(p) ==
    /\ pc[p] = "call" /\ p \in early /\ ctx[seg[p]].arena0
    /\ Dies(p) /\ UNCHANGED faults

\* A process is killed, and counts nothing down.
Crash(p) ==
    /\ pc[p] # "out" /\ faults < MaxFault
    /\ faults' = faults + 1
    /\ Dies(p)

\* shm_lock_file fails, and shm_init returns -1: the process stays attached until
\* its end, and was not counted.
LockFails(p) ==
    /\ pc[p] = "lock" /\ faults < MaxFault
    /\ faults' = faults + 1
    /\ Go(p, "end")
    /\ UNCHANGED <<kernel, ctx, lockfile, lost, hasty, raced, torn, abandoned>>

\* shmat fails, and shm_init returns -1: a segment just made stays under its key.
ShmatFails(p) ==
    /\ pc[p] = "shmat" /\ faults < MaxFault
    /\ faults' = faults + 1
    /\ Gone(p, lost, torn, abandoned)

Step(p) ==
    \/ Shmat(p) \/ init_shm_shared_field(p) \/ shm_unlock_file(p) \/ Count(p) \/ Abort(p)
    \/ map_arenas(p) \/ Return(p) \/ AbortCall(p)
    \/ shm_remove(p) \/ End(p)

Next ==
    \E p \in Proc :
        \/ \E c \in Creates : Shmget(p, c)
        \/ shm_lock_file(p) \/ lock_context(p) \/ Step(p)
        \/ Call(p) \/ exit_shared_context(p)
        \/ Crash(p) \/ LockFails(p) \/ ShmatFails(p)

\* A running process is scheduled.  The kernel hands a file lock to each who waits
\* for it.  The mutex is only known not to stay free for ever under a waiter, and
\* that only where it was initialised first.  Whether a process starts, calls,
\* exits or dies is its own affair.
Fairness ==
    \A p \in Proc :
        /\ WF_vars(Step(p)) /\ SF_vars(shm_lock_file(p))
        /\ WF_vars(seg[p] \notin raced /\ lock_context(p))

Spec == Init /\ [][Next]_vars /\ Fairness

-----------------------------------------------------------------------------
(* Properties *)

TypeOK ==
    /\ pc \in [Proc -> {"out", "shmat", "lock", "init", "key", "zero", "mutex", "arena", "unlock",
                        "check", "wait", "map", "in", "want", "call", "remove", "end"}]
    /\ create \in [Proc -> BOOLEAN] /\ seg \in [Proc -> 0 .. MaxSeg] /\ early \subseteq Proc
    /\ keyed \in 0 .. MaxSeg /\ made \in 0 .. MaxSeg /\ dest \subseteq Seg
    /\ ctx \in [Seg -> Context]
    /\ lockfile \in Proc \cup {NoProc}
    /\ faults \in Nat /\ lost \in [Seg -> Nat]
    /\ hasty \cup raced \cup torn \cup abandoned \subseteq Seg

\* A process that may create the context finds it complete once it has passed
\* the file lock, unless another was killed while it initialised the context
\* (init_shared_context).
CreatorReady ==
    \A s \in Seg \ torn : \A p \in Counted(s) : create[p] => Ready(s)

\* count is the number of processes inside and of those that died inside, as far as
\* its width goes, unless a process without create was counted before the store of
\* count.
CountExact ==
    \A s \in Seg \ hasty : ctx[s].count = (Cardinality(Counted(s)) + lost[s]) % CountLimit

\* Unless something failed, or a process without create came before the context
\* was initialised, the segments are gone when the last process is: the last to
\* count down removes its segment, whatever comes in at the same time, and a
\* process that aborts leaves nothing behind.
NoLeak ==
    faults = 0 /\ (\A p \in Proc : pc[p] = "out") => \A s \in Seg \ (hasty \cup raced) : ~Exists(s)

\* The mutex keeps its promise as long as nobody locked it before it was
\* initialised: it is locked exactly while one process is between lock_context and
\* unlock_context, or for good once a process has died there.
MutualExclusion ==
    \A s \in Seg \ raced :
        Cardinality(Holders(s)) + (IF s \in abandoned THEN 1 ELSE 0)
            = IF ctx[s].locked THEN 1 ELSE 0

\* init_shared_context returns or aborts: nobody waits for the file lock forever,
\* whoever dies with it.
InitEnds == \A p \in Proc : pc[p] = "shmat" ~> pc[p] \in {"wait", "out"}

\* Calls end, and the mutex does not stay free while somebody waits for it, unless
\* a process was killed in it or it was locked before it was initialised.
MutexLive ==
    \A s \in Seg :
        /\ ctx[s].locked ~> (~ctx[s].locked \/ s \in raced \/ (s \in abandoned /\ faults > 0))
        /\ Waiting(s) # {} ~> (Holders(s) # {} \/ Waiting(s) = {} \/ s \in raced
                                 \/ (s \in abandoned /\ faults > 0))

\* "user data is shared between diff process" (shm_malloc.h): processes that
\* are inside at the same time share one context.
OneContext == \A p, q \in Proc : pc[p] = "in" /\ pc[q] = "in" => seg[p] = seg[q]
===============================================================================
