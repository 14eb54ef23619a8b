----------------------------- MODULE SessionProofs -----------------------------
(***************************************************************************)
(* Proofs about Session, for any number of processes, segments and faults. *)
(***************************************************************************)
EXTENDS Session, NumberFacts, FiniteSetTheorems

-----------------------------------------------------------------------------
(* The inductive invariant *)

HasFile      == {"init", "key", "zero", "mutex", "arena", "unlock"}
Initialising == {"key", "zero", "mutex", "arena"}
IsCounted    == {"wait", "map", "in", "want", "call"}
HasLocked    == {"map", "in", "want", "call", "remove"}
Starting     == {"shmat", "lock"} \cup HasFile \cup {"check"}

\* A segment nobody has written to.
Untouched(s) ==
    ctx[s] = Zeroed /\ lost[s] = 0 /\ s \notin hasty \cup raced \cup torn \cup abandoned

\* A process that runs knows a segment that was made; the key leads to none that
\* is marked for removal; a segment not yet made is untouched.
Places ==
    /\ dest \subseteq 1 .. made
    /\ keyed # 0 => keyed \in (1 .. made) \ dest
    /\ \A p \in Proc : IF pc[p] = "out" THEN seg[p] = 0 /\ p \notin early ELSE seg[p] \in 1 .. made
    /\ \A s \in Seg : s > made => Untouched(s)

\* The file lock is with the process in its section.
FileLock == \A p \in Proc : pc[p] \in HasFile <=> lockfile = p

\* The fields of a context are written in their order, and before the key is there
\* nobody is counted.
Fields ==
    \A s \in Seg :
        /\ ~ctx[s].init_flag => ctx[s] = Zeroed
        /\ ctx[s].key => ctx[s].init_flag
        /\ ctx[s].shared => ctx[s].key
        /\ ctx[s].arena0 => ctx[s].shared
        /\ ~ctx[s].key => /\ ctx[s].count = 0 /\ ~ctx[s].locked /\ lost[s] = 0
                          /\ s \notin hasty \cup raced \cup abandoned
                          /\ \A p \in Proc : seg[p] = s => pc[p] \notin IsCounted

\* How far the context is, by the step its creator is at.
Stages ==
    \A p \in Proc :
        LET f == ctx[seg[p]] IN
        /\ pc[p] = "init"  => ~f.init_flag
        /\ pc[p] = "key"   => f.init_flag /\ ~f.key
        /\ pc[p] = "zero"  => f.key /\ ~f.shared
        /\ pc[p] = "mutex" => f.key /\ ~f.shared
        /\ pc[p] = "arena" => f.shared /\ ~f.arena0

\* While the count is still to be stored, nobody is counted who is not hasty.
ZeroIsFirst ==
    \A p, q \in Proc :
        pc[p] = "zero" /\ seg[p] \notin hasty =>
            lost[seg[p]] = 0 /\ (seg[q] = seg[p] => pc[q] \notin IsCounted)

\* A context with its flag set is complete, or is being completed, or was given up;
\* whoever passed the file lock knows that it is not being completed any more.
Completed ==
    /\ \A s \in Seg : ctx[s].init_flag =>
          Ready(s) \/ s \in torn \/ \E p \in Proc : seg[p] = s /\ pc[p] \in Initialising
    /\ \A p \in Proc : create[p] /\ pc[p] \in {"unlock", "check"} \cup IsCounted =>
          Ready(seg[p]) \/ seg[p] \in torn

\* Who has had the mutex of an incomplete context has raced for it.
Raced ==
    /\ \A p \in Proc : pc[p] \in HasLocked => Ready(seg[p]) \/ seg[p] \in raced
    /\ \A s \in abandoned : Ready(s) \/ s \in raced
    /\ \A p \in early : pc[p] \in {"in", "want", "call", "remove", "end"} /\ seg[p] \in raced

\* The mutex is locked for one holder, or for one who died.
Locked ==
    \A s \in Seg \ raced :
        /\ ctx[s].locked <=> s \in abandoned \/ \E p \in Proc : p \in Holders(s)
        /\ \A p, q \in Holders(s) : p = q /\ s \notin abandoned

\* The processes that will see to the removal of segment s: those that have yet to
\* count down, those that came down to zero, and those that may create it and have
\* yet to be counted.
Removers(s) ==
    {p \in Proc : /\ seg[p] = s
                  /\ \/ pc[p] \in IsCounted \cup {"remove"}
                     \/ create[p] /\ pc[p] \in Starting}

\* As long as nothing has failed, somebody is there to remove each segment.
Removable ==
    faults = 0 =>
        /\ torn = {}
        /\ \A s \in Seg \ raced : lost[s] = 0
        /\ \A s \in (1 .. made) \ (dest \cup hasty \cup raced) : Removers(s) # {}

IInv ==
    /\ TypeOK /\ Places /\ FileLock /\ Fields /\ Stages /\ ZeroIsFirst /\ Completed
    /\ Raced /\ Locked /\ CountExact /\ Removable

-----------------------------------------------------------------------------
(* Arithmetic and cardinality *)

\* % CountLimit may be taken before one is added or taken away as well as after.
LEMMA ModStep ==
    ASSUME NEW k \in Int
    PROVE  /\ k % CountLimit \in 0 .. (CountLimit - 1)
           /\ ((k % CountLimit) + 1) % CountLimit = (k + 1) % CountLimit
           /\ ((k % CountLimit) - 1) % CountLimit = (k - 1) % CountLimit
<1> DEFINE C == CountLimit
           q == k \div C
           r == k % C
<1>1. C \in Nat \ {0}
  BY SessionAssumption
<1>2. q \in Int /\ r \in 0 .. (C - 1) /\ k = q * C + r
  BY <1>1
<1> HIDE DEF C, q, r
<1>3. (r + 1) % C = (k + 1) % C
  <2>1. CASE r + 1 < C
    <3>1. k + 1 = q * C + (r + 1) /\ r + 1 = 0 * C + (r + 1) /\ r + 1 \in 0 .. (C - 1)
      BY <1>1, <1>2, <2>1
    <3> QED BY <1>1, <1>2, <3>1, DivModIs
  <2>2. CASE r + 1 = C
    <3>1. k + 1 = (q + 1) * C + 0 /\ r + 1 = 1 * C + 0 /\ 0 \in 0 .. (C - 1) /\ q + 1 \in Int
      BY <1>1, <1>2, <2>2
    <3>2. \A i \in Int : (i * C + 0) % C = 0
      BY <1>1, <3>1, DivModIs
    <3> QED BY <3>1, <3>2
  <2> QED BY <1>1, <1>2, <2>1, <2>2
<1>4. (r - 1) % C = (k - 1) % C
  <2>1. CASE r >= 1
    <3>1. k - 1 = q * C + (r - 1) /\ r - 1 = 0 * C + (r - 1) /\ r - 1 \in 0 .. (C - 1)
      BY <1>1, <1>2, <2>1
    <3> QED BY <1>1, <1>2, <3>1, DivModIs
  <2>2. CASE r = 0
    <3>1. /\ k - 1 = (q - 1) * C + (C - 1) /\ r - 1 = (-1) * C + (C - 1)
          /\ C - 1 \in 0 .. (C - 1) /\ q - 1 \in Int
      BY <1>1, <1>2, <2>2
    <3>2. \A i \in Int : (i * C + (C - 1)) % C = C - 1
      BY <1>1, <3>1, DivModIs
    <3> QED BY <3>1, <3>2
  <2> QED BY <1>1, <1>2, <2>1, <2>2
<1> QED BY <1>2, <1>3, <1>4 DEF C, r

\* The number of processes counted, when one comes and when one goes.
LEMMA CountedFinite ==
    \A s : IsFiniteSet(Counted(s)) /\ Cardinality(Counted(s)) \in Nat
<1>1. \A s : Counted(s) \subseteq Proc
  BY DEF Counted
<1> QED BY <1>1, SessionAssumption, FS_Subset, FS_CardinalityType

-----------------------------------------------------------------------------
(* What a step leaves alone *)

\* A step of one process on its segment moves no process to another place, as far
\* as Places says.
LEMMA PlacesKept ==
    ASSUME IInv, NEW p \in Proc, pc[p] # "out",
           UNCHANGED <<seg, kernel, lost, torn, abandoned>>,
           \A q \in Proc : pc'[q] = "out" <=> pc[q] = "out",
           early' \subseteq early \cup {p},
           hasty' \subseteq hasty \cup {seg[p]}, raced' \subseteq raced \cup {seg[p]},
           \A s \in Seg \ {seg[p]} : ctx'[s] = ctx[s]
    PROVE  Places'
<1>1. seg[p] \in 1 .. made
  BY DEF IInv, Places
<1>2. \A s \in Seg : s > made => Untouched(s)'
  <2> SUFFICES ASSUME NEW s \in Seg, s > made
               PROVE  Untouched(s)'
    OBVIOUS
  <2>1. s # seg[p] /\ Untouched(s)
    BY <1>1 DEF IInv, TypeOK, Places
  <2> QED BY <2>1 DEF Untouched, Zeroed
<1> QED BY <1>2 DEF IInv, Places, kernel

\* The count stays exact when neither it nor the processes counted change.
LEMMA CountKept ==
    ASSUME CountExact, lost' = lost, hasty' = hasty,
           \A s \in Seg : Counted(s)' = Counted(s) /\ ctx'[s].count = ctx[s].count
    PROVE  CountExact'
BY DEF CountExact

\* The mutex keeps its promise when neither it nor its holders change.
LEMMA LockedKept ==
    ASSUME Locked, raced' = raced, abandoned' = abandoned,
           \A s \in Seg : Holders(s)' = Holders(s) /\ ctx'[s].locked = ctx[s].locked
    PROVE  Locked'
BY DEF Locked

\* A segment that somebody will remove is one after a step that takes nobody away.
LEMMA RemovableKept ==
    ASSUME Removable, faults' = 0 => faults = 0,
           torn' = torn, lost' = lost, made' = made, dest \subseteq dest',
           hasty \subseteq hasty', raced \subseteq raced',
           \A s \in Seg \ (dest' \cup raced') : Removers(s) \subseteq Removers(s)',
           made <= MaxSeg, made \in Nat, MaxSeg \in Nat
    PROVE  Removable'
BY DEF Removable, Seg

\* A complete context stays complete when one process goes on that does not
\* initialise it.
LEMMA CompletedKept ==
    ASSUME IInv, NEW p \in Proc, pc[p] \in {"check"} \cup IsCounted,
           UNCHANGED <<create, seg, torn>>, \A q \in Proc \ {p} : pc'[q] = pc[q],
           \A s \in Seg : /\ ctx'[s].init_flag => ctx[s].init_flag
                          /\ Ready(s) => Ready(s)'
    PROVE  Completed'
<1>1. pc[p] \notin Initialising
  BY DEF IsCounted, Initialising
<1>2. \A s \in Seg : ctx'[s].init_flag =>
         Ready(s)' \/ s \in torn \/ \E q \in Proc : seg[q] = s /\ pc'[q] \in Initialising
  BY <1>1 DEF IInv, Completed
<1>3. \A q \in Proc : pc[q] # "out" => seg[q] \in Seg
  BY DEF IInv, TypeOK, Places, Seg
<1>4. \A q \in Proc : create[q] /\ pc'[q] \in {"unlock", "check"} \cup IsCounted =>
         Ready(seg[q])' \/ seg[q] \in torn
  BY <1>3 DEF IInv, Completed, IsCounted
<1> QED BY <1>2, <1>4 DEF Completed

\* Each store leaves a context.
LEMMA ContextStores ==
    /\ Zeroed \in Context
    /\ \A f \in Context :
         /\ [f EXCEPT !.init_flag = TRUE] \in Context
         /\ [f EXCEPT !.key = TRUE] \in Context
         /\ [f EXCEPT !.arena0 = TRUE] \in Context
         /\ shm_lock_init(f) \in Context
         /\ \A b \in BOOLEAN : [f EXCEPT !.locked = b] \in Context
         /\ \A n \in 0 .. (CountLimit - 1) : [f EXCEPT !.count = n] \in Context
<1>1. Zeroed \in Context
  BY SessionAssumption DEF Zeroed, Context
<1>2. ASSUME NEW f \in Context
      PROVE  /\ [f EXCEPT !.init_flag = TRUE] \in Context
             /\ [f EXCEPT !.key = TRUE] \in Context
             /\ [f EXCEPT !.arena0 = TRUE] \in Context
             /\ shm_lock_init(f) \in Context
  BY <1>2 DEF Context, shm_lock_init
<1>3. ASSUME NEW f \in Context, NEW b \in BOOLEAN
      PROVE  [f EXCEPT !.locked = b] \in Context
  BY <1>3 DEF Context
<1>4. ASSUME NEW f \in Context, NEW n \in 0 .. (CountLimit - 1)
      PROVE  [f EXCEPT !.count = n] \in Context
  BY <1>4 DEF Context
<1> QED BY <1>1, <1>2, <1>3, <1>4

\* A call begins: a process inside goes for the mutex, and nothing shared changes.
LEMMA CallStep ==
    ASSUME IInv, NEW p \in Proc, Call(p)
    PROVE  IInv'
<1>1. TypeOK'
  BY DEF IInv, TypeOK, Call, Go, kernel, past
<1>2. Places'
  BY DEF IInv, TypeOK, Places, Untouched, Call, Go, kernel, past
<1>3. FileLock'
  BY DEF IInv, TypeOK, FileLock, HasFile, Call, Go
<1>4. Fields'
  BY DEF IInv, TypeOK, Fields, IsCounted, Call, Go, past
<1>5. Stages'
  BY DEF IInv, TypeOK, Stages, Call, Go
<1>6. ZeroIsFirst'
  BY DEF IInv, TypeOK, ZeroIsFirst, IsCounted, Call, Go, past
<1>7. Completed'
  BY DEF IInv, TypeOK, Completed, Ready, Initialising, IsCounted, Call, Go, past
<1>8. Raced'
  BY DEF IInv, TypeOK, Raced, Ready, HasLocked, Call, Go, past
<1>9. Locked'
  <2>1. \A s \in Seg : Holders(s)' = Holders(s) /\ ctx'[s].locked = ctx[s].locked
    BY DEF IInv, TypeOK, Holders, Call, Go
  <2> QED BY <2>1, LockedKept DEF IInv, Call, Go, past
<1>10. CountExact'
  <2>1. \A s \in Seg : Counted(s)' = Counted(s) /\ ctx'[s].count = ctx[s].count
    BY DEF IInv, TypeOK, Counted, Call, Go
  <2> QED BY <2>1, CountKept DEF IInv, Call, Go, past
<1>11. Removable'
  <2>1. \A s \in Seg : Removers(s) \subseteq Removers(s)'
    BY DEF IInv, TypeOK, Removers, IsCounted, Starting, Call, Go
  <2> QED BY SessionAssumption, <2>1, RemovableKept DEF IInv, TypeOK, Call, Go, kernel, past
<1> QED BY <1>1, <1>2, <1>3, <1>4, <1>5, <1>6, <1>7, <1>8, <1>9, <1>10, <1>11 DEF IInv

\* A process attaches the segment it got; it now goes for the file lock, or without
\* IPC_CREAT straight to the context.
LEMMA ShmatStep ==
    ASSUME IInv, NEW p \in Proc, pc[p] = "shmat", Go(p, IF create[p] THEN "lock" ELSE "check"), UNCHANGED <<kernel, ctx, lockfile, past>>
    PROVE  IInv'
<1>1. TypeOK'
  BY DEF IInv, TypeOK, Go, kernel, past
<1>2. Places'
  BY DEF IInv, TypeOK, Places, Untouched, Go, kernel, past
<1>3. FileLock'
  BY DEF IInv, TypeOK, FileLock, HasFile, Go
<1>4. Fields'
  BY DEF IInv, TypeOK, Fields, IsCounted, Go, past
<1>5. Stages'
  BY DEF IInv, TypeOK, Stages, Go
<1>6. ZeroIsFirst'
  BY DEF IInv, TypeOK, ZeroIsFirst, IsCounted, Go, past
<1>7. Completed'
  BY DEF IInv, TypeOK, Completed, Ready, Initialising, IsCounted, Go, past
<1>8. Raced'
  BY DEF IInv, TypeOK, Raced, Ready, HasLocked, Go, past
<1>9. Locked'
  <2>1. \A s \in Seg : Holders(s)' = Holders(s) /\ ctx'[s].locked = ctx[s].locked
    BY DEF IInv, TypeOK, Holders, Go
  <2> QED BY <2>1, LockedKept DEF IInv, Go, past
<1>10. CountExact'
  <2>1. \A s \in Seg : Counted(s)' = Counted(s) /\ ctx'[s].count = ctx[s].count
    BY DEF IInv, TypeOK, Counted, Go
  <2> QED BY <2>1, CountKept DEF IInv, Go, past
<1>11. Removable'
  <2>1. \A s \in Seg : Removers(s) \subseteq Removers(s)'
    BY DEF IInv, TypeOK, Removers, IsCounted, Starting, Go
  <2> QED BY SessionAssumption, <2>1, RemovableKept DEF IInv, TypeOK, Go, kernel, past
<1> QED BY <1>1, <1>2, <1>3, <1>4, <1>5, <1>6, <1>7, <1>8, <1>9, <1>10, <1>11 DEF IInv

\* A creator gets the file lock and will look at the context alone.
LEMMA FileStep ==
    ASSUME IInv, NEW p \in Proc, shm_lock_file(p)
    PROVE  IInv'
<1>1. TypeOK'
  BY DEF IInv, TypeOK, shm_lock_file, Initialised, Go, kernel, past
<1>2. Places'
  BY DEF IInv, TypeOK, Places, Untouched, shm_lock_file, Initialised, Go, kernel, past
<1>3. FileLock'
  BY SessionAssumption DEF IInv, TypeOK, FileLock, HasFile, shm_lock_file, Initialised, Go
<1>4. Fields'
  BY DEF IInv, TypeOK, Fields, IsCounted, shm_lock_file, Initialised, Go, past
<1>5. Stages'
  BY DEF IInv, TypeOK, Stages, shm_lock_file, Initialised, Go
<1>6. ZeroIsFirst'
  BY DEF IInv, TypeOK, ZeroIsFirst, IsCounted, shm_lock_file, Initialised, Go, past
<1>7. Completed'
  <2>1. ~ \E q \in Proc : pc[q] \in Initialising
    BY SessionAssumption DEF IInv, TypeOK, FileLock, HasFile, Initialising, shm_lock_file
  <2>2. \A s \in Seg : ctx[s].init_flag => Ready(s) \/ s \in torn
    BY <2>1 DEF IInv, Completed
  <2>3. seg[p] \in Seg
    BY DEF IInv, TypeOK, Places, Seg, shm_lock_file
  <2> QED BY <2>2, <2>3
             DEF IInv, TypeOK, Completed, Ready, IsCounted, shm_lock_file, Initialised, Go,
                 past
<1>8. Raced'
  BY DEF IInv, TypeOK, Raced, Ready, HasLocked, shm_lock_file, Initialised, Go, past
<1>9. Locked'
  <2>1. \A s \in Seg : Holders(s)' = Holders(s) /\ ctx'[s].locked = ctx[s].locked
    BY DEF IInv, TypeOK, Holders, shm_lock_file, Initialised, Go
  <2> QED BY <2>1, LockedKept DEF IInv, shm_lock_file, Initialised, Go, past
<1>10. CountExact'
  <2>1. \A s \in Seg : Counted(s)' = Counted(s) /\ ctx'[s].count = ctx[s].count
    BY DEF IInv, TypeOK, Counted, shm_lock_file, Initialised, Go
  <2> QED BY <2>1, CountKept DEF IInv, shm_lock_file, Initialised, Go, past
<1>11. Removable'
  <2>1. \A s \in Seg : Removers(s) \subseteq Removers(s)'
    BY DEF IInv, TypeOK, Removers, IsCounted, Starting, HasFile, shm_lock_file, Initialised, Go
  <2> QED BY SessionAssumption, <2>1, RemovableKept
             DEF IInv, TypeOK, shm_lock_file, Initialised, Go, kernel, past
<1> QED BY <1>1, <1>2, <1>3, <1>4, <1>5, <1>6, <1>7, <1>8, <1>9, <1>10, <1>11 DEF IInv

\* A creator gives up the file lock, behind a context that is complete or was torn.
LEMMA UnfileStep ==
    ASSUME IInv, NEW p \in Proc, shm_unlock_file(p)
    PROVE  IInv'
<1>1. TypeOK'
  BY DEF IInv, TypeOK, shm_unlock_file, Go, kernel, past
<1>2. Places'
  BY DEF IInv, TypeOK, Places, Untouched, shm_unlock_file, Go, kernel, past
<1>3. FileLock'
  BY SessionAssumption DEF IInv, TypeOK, FileLock, HasFile, shm_unlock_file, Go
<1>4. Fields'
  BY DEF IInv, TypeOK, Fields, IsCounted, shm_unlock_file, Go, past
<1>5. Stages'
  BY DEF IInv, TypeOK, Stages, shm_unlock_file, Go
<1>6. ZeroIsFirst'
  BY DEF IInv, TypeOK, ZeroIsFirst, IsCounted, shm_unlock_file, Go, past
<1>7. Completed'
  BY DEF IInv, TypeOK, Completed, Ready, Initialising, IsCounted, shm_unlock_file, Go, past
<1>8. Raced'
  BY DEF IInv, TypeOK, Raced, Ready, HasLocked, shm_unlock_file, Go, past
<1>9. Locked'
  <2>1. \A s \in Seg : Holders(s)' = Holders(s) /\ ctx'[s].locked = ctx[s].locked
    BY DEF IInv, TypeOK, Holders, shm_unlock_file, Go
  <2> QED BY <2>1, LockedKept DEF IInv, shm_unlock_file, Go, past
<1>10. CountExact'
  <2>1. \A s \in Seg : Counted(s)' = Counted(s) /\ ctx'[s].count = ctx[s].count
    BY DEF IInv, TypeOK, Counted, shm_unlock_file, Go
  <2> QED BY <2>1, CountKept DEF IInv, shm_unlock_file, Go, past
<1>11. Removable'
  <2>1. \A s \in Seg : Removers(s) \subseteq Removers(s)'
    BY DEF IInv, TypeOK, Removers, IsCounted, Starting, shm_unlock_file, Go
  <2> QED BY SessionAssumption, <2>1, RemovableKept
             DEF IInv, TypeOK, shm_unlock_file, Go, kernel, past
<1> QED BY <1>1, <1>2, <1>3, <1>4, <1>5, <1>6, <1>7, <1>8, <1>9, <1>10, <1>11 DEF IInv

\* The process that came down to zero marks the segment for removal: none is left that
\* is counted, so nobody else will.
LEMMA RemoveStep ==
    ASSUME IInv, NEW p \in Proc, shm_remove(p)
    PROVE  IInv'
<1>s. /\ pc[p] = "remove" /\ pc' = [pc EXCEPT ![p] = "end"]
      /\ seg[p] \in 1 .. made /\ seg[p] \in Seg
      /\ UNCHANGED <<create, seg, early, made, ctx, lockfile, past>>
  BY DEF IInv, TypeOK, Places, Seg, shm_remove, Go
<1>k. \/ dest' = dest \cup {seg[p]} /\ keyed' = (IF keyed = seg[p] THEN 0 ELSE keyed)
      \/ ~ctx[seg[p]].arena0 /\ UNCHANGED <<dest, keyed>>
  BY DEF shm_remove
<1>1. TypeOK'
  <2>1. dest' \subseteq Seg
    BY <1>s, <1>k DEF IInv, TypeOK
  <2>2. keyed' \in 0 .. MaxSeg
    BY SessionAssumption, <1>k DEF IInv, TypeOK
  <2> QED BY <1>s, <2>1, <2>2 DEF IInv, TypeOK, past
<1>2. Places'
  <2>1. dest' \subseteq 1 .. made
    BY <1>s, <1>k DEF IInv, TypeOK, Places
  <2>2. keyed' # 0 => keyed' \in (1 .. made) \ dest'
    BY <1>s, <1>k DEF IInv, TypeOK, Places
  <2> QED BY <1>s, <2>1, <2>2 DEF IInv, TypeOK, Places, Untouched, past
<1>3. FileLock'
  BY DEF IInv, TypeOK, FileLock, HasFile, shm_remove, Go
<1>4. Fields'
  BY DEF IInv, TypeOK, Fields, IsCounted, shm_remove, Go, past
<1>5. Stages'
  BY DEF IInv, TypeOK, Stages, shm_remove, Go
<1>6. ZeroIsFirst'
  BY DEF IInv, TypeOK, ZeroIsFirst, IsCounted, shm_remove, Go, past
<1>7. Completed'
  BY DEF IInv, TypeOK, Completed, Ready, Initialising, IsCounted, shm_remove, Go, past
<1>8. Raced'
  BY DEF IInv, TypeOK, Raced, Ready, HasLocked, shm_remove, Go, past
<1>9. Locked'
  <2>1. \A s \in Seg : Holders(s)' = Holders(s) /\ ctx'[s].locked = ctx[s].locked
    BY DEF IInv, TypeOK, Holders, shm_remove, Go
  <2> QED BY <2>1, LockedKept DEF IInv, shm_remove, Go, past
<1>10. CountExact'
  <2>1. \A s \in Seg : Counted(s)' = Counted(s) /\ ctx'[s].count = ctx[s].count
    BY DEF IInv, TypeOK, Counted, shm_remove, Go
  <2> QED BY <2>1, CountKept DEF IInv, shm_remove, Go, past
<1>11. Removable'
  <2>1. Ready(seg[p]) \/ seg[p] \in raced
    BY <1>s DEF IInv, Raced, HasLocked
  <2>2. seg[p] \in dest' \cup raced /\ dest \subseteq dest'
    BY <1>k, <2>1 DEF Ready
  <2>3. \A s \in Seg \ (dest' \cup raced') : Removers(s) \subseteq Removers(s)'
    BY <1>s, <2>2 DEF IInv, TypeOK, Removers, past
  <2> QED BY SessionAssumption, <1>s, <2>2, <2>3, RemovableKept DEF IInv, TypeOK, past
<1> QED BY <1>1, <1>2, <1>3, <1>4, <1>5, <1>6, <1>7, <1>8, <1>9, <1>10, <1>11 DEF IInv

\* A process is refused the file lock and goes away with its error: that is a fault.
LEMMA LockFailsStep ==
    ASSUME IInv, NEW p \in Proc, LockFails(p)
    PROVE  IInv'
<1>1. TypeOK'
  BY DEF IInv, TypeOK, LockFails, Go, kernel
<1>2. Places'
  BY DEF IInv, TypeOK, Places, Untouched, LockFails, Go, kernel
<1>3. FileLock'
  BY DEF IInv, TypeOK, FileLock, HasFile, LockFails, Go
<1>4. Fields'
  BY DEF IInv, TypeOK, Fields, IsCounted, LockFails, Go
<1>5. Stages'
  BY DEF IInv, TypeOK, Stages, LockFails, Go
<1>6. ZeroIsFirst'
  BY DEF IInv, TypeOK, ZeroIsFirst, IsCounted, LockFails, Go
<1>7. Completed'
  BY DEF IInv, TypeOK, Completed, Ready, Initialising, IsCounted, LockFails, Go
<1>8. Raced'
  BY DEF IInv, TypeOK, Raced, Ready, HasLocked, LockFails, Go
<1>9. Locked'
  <2>1. \A s \in Seg : Holders(s)' = Holders(s) /\ ctx'[s].locked = ctx[s].locked
    BY DEF IInv, TypeOK, Holders, LockFails, Go
  <2> QED BY <2>1, LockedKept DEF IInv, LockFails, Go
<1>10. CountExact'
  <2>1. \A s \in Seg : Counted(s)' = Counted(s) /\ ctx'[s].count = ctx[s].count
    BY DEF IInv, TypeOK, Counted, LockFails, Go
  <2> QED BY <2>1, CountKept DEF IInv, LockFails, Go
<1>11. Removable'
  <2>1. faults' # 0
    BY DEF IInv, TypeOK, LockFails
  <2> QED BY <2>1 DEF Removable
<1> QED BY <1>1, <1>2, <1>3, <1>4, <1>5, <1>6, <1>7, <1>8, <1>9, <1>10, <1>11 DEF IInv

\* shmget gives a process the segment under the key, or makes a new one that nobody has
\* written to.
LEMMA ShmgetStep ==
    ASSUME IInv, NEW p \in Proc, NEW c \in Creates, Shmget(p, c)
    PROVE  IInv'
<1>1. TypeOK'
  BY DEF IInv, TypeOK, Shmget, past
<1>2. Places'
  BY DEF IInv, TypeOK, Places, Untouched, Shmget, past
<1>3. FileLock'
  BY DEF IInv, TypeOK, FileLock, HasFile, Shmget
<1>4. Fields'
  BY DEF IInv, TypeOK, Fields, IsCounted, Shmget, past
<1>5. Stages'
  BY DEF IInv, TypeOK, Stages, Shmget
<1>6. ZeroIsFirst'
  BY DEF IInv, TypeOK, ZeroIsFirst, IsCounted, Shmget, past
<1>7. Completed'
  BY DEF IInv, TypeOK, Completed, Ready, Initialising, IsCounted, Shmget, past
<1>8. Raced'
  BY DEF IInv, TypeOK, Raced, Ready, HasLocked, Shmget, past
<1>9. Locked'
  <2>1. \A s \in Seg : Holders(s)' = Holders(s) /\ ctx'[s].locked = ctx[s].locked
    BY DEF IInv, TypeOK, Holders, Shmget
  <2> QED BY <2>1, LockedKept DEF IInv, Shmget, past
<1>10. CountExact'
  <2>1. \A s \in Seg : Counted(s)' = Counted(s) /\ ctx'[s].count = ctx[s].count
    BY DEF IInv, TypeOK, Counted, Shmget
  <2> QED BY <2>1, CountKept DEF IInv, Shmget, past
<1>11. Removable'
  <2>1. \A s \in Seg : Removers(s) \subseteq Removers(s)'
    BY DEF IInv, TypeOK, Removers, IsCounted, Starting, HasFile, Shmget
  <2>2. made \in Nat /\ made' \in Nat /\ MaxSeg \in Nat /\ made' <= MaxSeg
    BY SessionAssumption DEF IInv, TypeOK, Shmget
  <2>3. \/ made' = made
        \/ made' = made + 1 /\ seg'[p] = made' /\ create'[p] /\ pc'[p] = "shmat"
    BY SessionAssumption, <2>2 DEF IInv, TypeOK, Shmget
  <2>4. \A s \in 1 .. made' : s > made => p \in Removers(s)'
    BY <2>2, <2>3 DEF Removers, Starting
  <2>5. UNCHANGED <<dest, past>>
    BY DEF Shmget
  <2> QED BY <2>1, <2>2, <2>4, <2>5 DEF IInv, Removable, Seg, past
<1> QED BY <1>1, <1>2, <1>3, <1>4, <1>5, <1>6, <1>7, <1>8, <1>9, <1>10, <1>11 DEF IInv

\* The context is cleared and init_flag set, in a segment where nobody is counted yet.
LEMMA InitStep ==
    ASSUME IInv, NEW p \in Proc, init_shm_shared_field(p), pc[p] = "init"
    PROVE  IInv'
<1>s. /\ pc[p] = "init" /\ pc' = [pc EXCEPT ![p] = "key"] /\ seg[p] \in Seg
      /\ ctx' = [ctx EXCEPT ![seg[p]] = [Zeroed EXCEPT !.init_flag = TRUE]]
      /\ UNCHANGED <<create, seg, early, kernel, lockfile, past>>
  BY DEF IInv, TypeOK, Places, Seg, init_shm_shared_field, Go, Set
<1>t. [Zeroed EXCEPT !.init_flag = TRUE] \in Context
  BY <1>s, ContextStores DEF IInv, TypeOK
<1>1. TypeOK'
  BY <1>s, <1>t DEF IInv, TypeOK, past, kernel
<1>2. Places'
  BY <1>s, PlacesKept DEF IInv, TypeOK, past
<1>3. FileLock'
  BY <1>s DEF IInv, TypeOK, FileLock, HasFile
<1>4. Fields'
  BY <1>s DEF IInv, TypeOK, Fields, IsCounted, Zeroed, Stages, past
<1>5. Stages'
  BY <1>s DEF IInv, TypeOK, FileLock, Stages, HasFile, Zeroed
<1>6. ZeroIsFirst'
  BY <1>s DEF IInv, TypeOK, ZeroIsFirst, IsCounted, FileLock, HasFile, Zeroed
<1>7. Completed'
  BY <1>s
     DEF IInv, TypeOK, Completed, Ready, Initialising, IsCounted, Stages, Fields, Zeroed, past
<1>8. Raced'
  BY <1>s DEF IInv, TypeOK, Raced, Ready, HasLocked, Fields, Stages, Zeroed, past
<1>9. Locked'
  <2>1. ctx[seg[p]] = Zeroed
    BY <1>s DEF IInv, Fields, Stages
  <2>2. \A s \in Seg : Holders(s)' = Holders(s)
    BY <1>s DEF IInv, TypeOK, Holders
  <2>3. \A s \in Seg : ctx'[s].locked = ctx[s].locked
    BY <1>s, <2>1 DEF IInv, TypeOK, Zeroed
  <2> QED BY <1>s, <2>2, <2>3, LockedKept DEF IInv, past
<1>10. CountExact'
  <2>1. \A s \in Seg : Counted(s)' = Counted(s) /\ ctx'[s].count = ctx[s].count
    BY <1>s DEF IInv, TypeOK, Counted, Fields, Stages, Zeroed
  <2> QED BY <1>s, <2>1, CountKept DEF IInv, past
<1>11. Removable'
  <2>1. \A s \in Seg : Removers(s) \subseteq Removers(s)'
    BY <1>s DEF IInv, TypeOK, Removers, IsCounted, Starting, HasFile
  <2> QED BY SessionAssumption, <1>s, <2>1, RemovableKept DEF IInv, TypeOK, past, kernel
<1> QED BY <1>1, <1>2, <1>3, <1>4, <1>5, <1>6, <1>7, <1>8, <1>9, <1>10, <1>11 DEF IInv

\* The key is stored.  From here on the context may be mistaken for a complete one.
LEMMA KeyStep ==
    ASSUME IInv, NEW p \in Proc, init_shm_shared_field(p), pc[p] = "key"
    PROVE  IInv'
<1>s. /\ pc[p] = "key" /\ pc' = [pc EXCEPT ![p] = "zero"] /\ seg[p] \in Seg
      /\ ctx' = [ctx EXCEPT ![seg[p]] = [ctx[seg[p]] EXCEPT !.key = TRUE]]
      /\ UNCHANGED <<create, seg, early, kernel, lockfile, past>>
  BY DEF IInv, TypeOK, Places, Seg, init_shm_shared_field, Go, Set
<1>t. [ctx[seg[p]] EXCEPT !.key = TRUE] \in Context
  BY <1>s, ContextStores DEF IInv, TypeOK
<1>1. TypeOK'
  BY <1>s, <1>t DEF IInv, TypeOK, past, kernel
<1>2. Places'
  BY <1>s, PlacesKept DEF IInv, TypeOK, past
<1>3. FileLock'
  BY <1>s DEF IInv, TypeOK, FileLock, HasFile
<1>4. Fields'
  BY <1>s DEF IInv, TypeOK, Fields, IsCounted, Stages, past
<1>5. Stages'
  BY <1>s DEF IInv, TypeOK, FileLock, Stages, HasFile, Fields
<1>6. ZeroIsFirst'
  BY <1>s DEF IInv, TypeOK, Fields, Stages, ZeroIsFirst, IsCounted, past
<1>7. Completed'
  BY <1>s DEF IInv, TypeOK, Completed, Ready, Initialising, IsCounted, past
<1>8. Raced'
  BY <1>s DEF IInv, TypeOK, Raced, Ready, HasLocked, past
<1>9. Locked'
  <2>1. \A s \in Seg : Holders(s)' = Holders(s) /\ ctx'[s].locked = ctx[s].locked
    BY <1>s DEF IInv, TypeOK, Holders
  <2> QED BY <1>s, <2>1, LockedKept DEF IInv, past
<1>10. CountExact'
  <2>1. \A s \in Seg : Counted(s)' = Counted(s) /\ ctx'[s].count = ctx[s].count
    BY <1>s DEF IInv, TypeOK, Counted
  <2> QED BY <1>s, <2>1, CountKept DEF IInv, past
<1>11. Removable'
  <2>1. \A s \in Seg : Removers(s) \subseteq Removers(s)'
    BY <1>s DEF IInv, TypeOK, Removers, IsCounted, Starting, HasFile
  <2> QED BY SessionAssumption, <1>s, <2>1, RemovableKept DEF IInv, TypeOK, past, kernel
<1> QED BY <1>1, <1>2, <1>3, <1>4, <1>5, <1>6, <1>7, <1>8, <1>9, <1>10, <1>11 DEF IInv

\* The count is stored as 0: nobody was counted before, unless somebody was hasty.
LEMMA ZeroStep ==
    ASSUME IInv, NEW p \in Proc, init_shm_shared_field(p), pc[p] = "zero"
    PROVE  IInv'
<1>s. /\ pc[p] = "zero" /\ pc' = [pc EXCEPT ![p] = "mutex"] /\ seg[p] \in Seg
      /\ ctx' = [ctx EXCEPT ![seg[p]] = [ctx[seg[p]] EXCEPT !.count = 0]]
      /\ UNCHANGED <<create, seg, early, kernel, lockfile, past>>
  BY DEF IInv, TypeOK, Places, Seg, init_shm_shared_field, Go, Set
<1>t. [ctx[seg[p]] EXCEPT !.count = 0] \in Context
  BY SessionAssumption, <1>s, ContextStores DEF IInv, TypeOK, Context
<1>1. TypeOK'
  BY <1>s, <1>t DEF IInv, TypeOK, past, kernel
<1>2. Places'
  BY <1>s, PlacesKept DEF IInv, TypeOK, past
<1>3. FileLock'
  BY <1>s DEF IInv, TypeOK, FileLock, HasFile
<1>4. Fields'
  BY <1>s DEF IInv, TypeOK, Fields, IsCounted, Stages, past
<1>5. Stages'
  BY <1>s DEF IInv, TypeOK, Stages
<1>6. ZeroIsFirst'
  BY <1>s DEF IInv, TypeOK, ZeroIsFirst, IsCounted, FileLock, HasFile
<1>7. Completed'
  BY <1>s DEF IInv, TypeOK, Completed, Ready, Initialising, IsCounted, past
<1>8. Raced'
  BY <1>s DEF IInv, TypeOK, Raced, Ready, HasLocked, past
<1>9. Locked'
  <2>1. \A s \in Seg : Holders(s)' = Holders(s) /\ ctx'[s].locked = ctx[s].locked
    BY <1>s DEF IInv, TypeOK, Holders
  <2> QED BY <1>s, <2>1, LockedKept DEF IInv, past
<1>10. CountExact'
  <2>1. \A s \in Seg : Counted(s)' = Counted(s)
    BY <1>s DEF IInv, TypeOK, Counted
  <2>2. seg[p] \notin hasty => Counted(seg[p]) = {} /\ lost[seg[p]] = 0
    BY <1>s DEF IInv, ZeroIsFirst, Counted, IsCounted
  <2>3. (Cardinality({}) + 0) % CountLimit = 0
    BY SessionAssumption, FS_EmptySet
  <2>4. /\ ctx'[seg[p]].count = 0
        /\ \A s \in Seg \ {seg[p]} : ctx'[s] = ctx[s]
    BY <1>s DEF IInv, TypeOK
  <2> QED BY <1>s, <2>1, <2>2, <2>3, <2>4 DEF IInv, CountExact, past
<1>11. Removable'
  <2>1. \A s \in Seg : Removers(s) \subseteq Removers(s)'
    BY <1>s DEF IInv, TypeOK, Removers, IsCounted, Starting, HasFile
  <2> QED BY SessionAssumption, <1>s, <2>1, RemovableKept DEF IInv, TypeOK, past, kernel
<1> QED BY <1>1, <1>2, <1>3, <1>4, <1>5, <1>6, <1>7, <1>8, <1>9, <1>10, <1>11 DEF IInv

\* The mutex is made.  One that was locked already is unlocked by that.
LEMMA MutexStep ==
    ASSUME IInv, NEW p \in Proc, init_shm_shared_field(p), pc[p] = "mutex"
    PROVE  IInv'
<1>s. /\ pc[p] = "mutex" /\ pc' = [pc EXCEPT ![p] = "arena"] /\ seg[p] \in Seg
      /\ ctx' = [ctx EXCEPT ![seg[p]] = shm_lock_init(ctx[seg[p]])]
      /\ UNCHANGED <<create, seg, early, kernel, lockfile, past>>
  BY DEF IInv, TypeOK, Places, Seg, init_shm_shared_field, Go, Set
<1>t. shm_lock_init(ctx[seg[p]]) \in Context
  BY <1>s, ContextStores DEF IInv, TypeOK
<1>1. TypeOK'
  BY <1>s, <1>t DEF IInv, TypeOK, past, kernel
<1>2. Places'
  BY <1>s, PlacesKept DEF IInv, TypeOK, past
<1>3. FileLock'
  BY <1>s DEF IInv, TypeOK, FileLock, HasFile
<1>4. Fields'
  BY <1>s DEF IInv, TypeOK, Fields, IsCounted, shm_lock_init, Stages, past
<1>5. Stages'
  BY <1>s DEF IInv, TypeOK, FileLock, Stages, HasFile, shm_lock_init, Fields
<1>6. ZeroIsFirst'
  BY <1>s DEF IInv, TypeOK, ZeroIsFirst, IsCounted, shm_lock_init, past
<1>7. Completed'
  BY <1>s DEF IInv, TypeOK, Completed, Ready, Initialising, IsCounted, shm_lock_init, past
<1>8. Raced'
  BY <1>s DEF IInv, TypeOK, Raced, Ready, HasLocked, shm_lock_init, past
<1>9. Locked'
  <2>1. seg[p] \notin raced => ~ctx[seg[p]].locked
    BY <1>s DEF IInv, Stages, Locked, Raced, Holders, Ready, HasLocked
  <2>2. \A s \in Seg \ raced : Holders(s)' = Holders(s) /\ ctx'[s].locked = ctx[s].locked
    BY <1>s, <2>1 DEF IInv, TypeOK, Holders, Context, shm_lock_init
  <2> QED BY <1>s, <2>2 DEF IInv, Locked, past
<1>10. CountExact'
  <2>1. \A s \in Seg : Counted(s)' = Counted(s) /\ ctx'[s].count = ctx[s].count
    BY <1>s DEF IInv, TypeOK, Counted, shm_lock_init
  <2> QED BY <1>s, <2>1, CountKept DEF IInv, past
<1>11. Removable'
  <2>1. \A s \in Seg : Removers(s) \subseteq Removers(s)'
    BY <1>s DEF IInv, TypeOK, Removers, IsCounted, Starting, HasFile
  <2> QED BY SessionAssumption, <1>s, <2>1, RemovableKept DEF IInv, TypeOK, past, kernel
<1> QED BY <1>1, <1>2, <1>3, <1>4, <1>5, <1>6, <1>7, <1>8, <1>9, <1>10, <1>11 DEF IInv

\* The first arena is entered, and the context is complete.
LEMMA ArenaStep ==
    ASSUME IInv, NEW p \in Proc, init_shm_shared_field(p), pc[p] = "arena"
    PROVE  IInv'
<1>s. /\ pc[p] = "arena" /\ pc' = [pc EXCEPT ![p] = "unlock"] /\ seg[p] \in Seg
      /\ ctx' = [ctx EXCEPT ![seg[p]] = [ctx[seg[p]] EXCEPT !.arena0 = TRUE]]
      /\ UNCHANGED <<create, seg, early, kernel, lockfile, past>>
  BY DEF IInv, TypeOK, Places, Seg, init_shm_shared_field, Go, Set
<1>t. [ctx[seg[p]] EXCEPT !.arena0 = TRUE] \in Context
  BY <1>s, ContextStores DEF IInv, TypeOK
<1>1. TypeOK'
  BY <1>s, <1>t DEF IInv, TypeOK, past, kernel
<1>2. Places'
  BY <1>s, PlacesKept DEF IInv, TypeOK, past
<1>3. FileLock'
  BY <1>s DEF IInv, TypeOK, FileLock, HasFile
<1>4. Fields'
  BY <1>s DEF IInv, TypeOK, Fields, IsCounted, Stages, past
<1>5. Stages'
  BY <1>s DEF IInv, TypeOK, FileLock, Stages, HasFile
<1>6. ZeroIsFirst'
  BY <1>s DEF IInv, TypeOK, ZeroIsFirst, IsCounted, past
<1>7. Completed'
  BY <1>s DEF IInv, TypeOK, Completed, Ready, Initialising, IsCounted, Stages, past
<1>8. Raced'
  BY <1>s DEF IInv, TypeOK, Raced, Ready, HasLocked, past
<1>9. Locked'
  <2>1. \A s \in Seg : Holders(s)' = Holders(s) /\ ctx'[s].locked = ctx[s].locked
    BY <1>s DEF IInv, TypeOK, Holders
  <2> QED BY <1>s, <2>1, LockedKept DEF IInv, past
<1>10. CountExact'
  <2>1. \A s \in Seg : Counted(s)' = Counted(s) /\ ctx'[s].count = ctx[s].count
    BY <1>s DEF IInv, TypeOK, Counted
  <2> QED BY <1>s, <2>1, CountKept DEF IInv, past
<1>11. Removable'
  <2>1. \A s \in Seg : Removers(s) \subseteq Removers(s)'
    BY <1>s DEF IInv, TypeOK, Removers, IsCounted, Starting, HasFile
  <2> QED BY SessionAssumption, <1>s, <2>1, RemovableKept DEF IInv, TypeOK, past, kernel
<1> QED BY <1>1, <1>2, <1>3, <1>4, <1>5, <1>6, <1>7, <1>8, <1>9, <1>10, <1>11 DEF IInv

\* The count is raised and the process is counted.
LEMMA CountStep ==
    ASSUME IInv, NEW p \in Proc, Count(p)
    PROVE  IInv'
<1> DEFINE f == ctx[seg[p]]
           n == (f.count + 1) % CountLimit
<1>s. /\ pc[p] = "check" /\ pc' = [pc EXCEPT ![p] = "wait"] /\ seg[p] \in Seg
      /\ f \in Context /\ f.init_flag /\ f.key
      /\ ctx' = [ctx EXCEPT ![seg[p]] = [f EXCEPT !.count = n]]
      /\ hasty' = IF \E q \in Proc : pc[q] = "zero" /\ seg[q] = seg[p]
                  THEN hasty \cup {seg[p]} ELSE hasty
      /\ UNCHANGED <<create, seg, early, kernel, lockfile, faults, lost, raced, torn, abandoned>>
  BY DEF IInv, TypeOK, Places, Seg, Count, Go, Set
<1>t. [f EXCEPT !.count = n] \in Context
  <2>1. n \in 0 .. (CountLimit - 1)
    BY <1>s, ModStep DEF Context
  <2> QED BY <1>s, <2>1, ContextStores
<1> HIDE DEF n
<1>c. /\ ctx'[seg[p]] = [f EXCEPT !.count = n] /\ ctx'[seg[p]].count = n
      /\ \A s \in Seg \ {seg[p]} : ctx'[s] = ctx[s]
  BY <1>s DEF IInv, TypeOK
<1>1. TypeOK'
  <2>1. hasty' \subseteq Seg
    BY <1>s DEF IInv, TypeOK
  <2> QED BY <1>s, <1>t, <2>1 DEF IInv, TypeOK, kernel
<1>2. Places'
  BY <1>s, PlacesKept DEF IInv, TypeOK
<1>3. FileLock'
  BY <1>s DEF IInv, TypeOK, FileLock, HasFile
<1>4. Fields'
  BY <1>s DEF IInv, TypeOK, Fields, IsCounted
<1>5. Stages'
  BY <1>s DEF IInv, TypeOK, Stages
<1>6. ZeroIsFirst'
  BY <1>s DEF IInv, TypeOK, ZeroIsFirst, IsCounted
<1>7. Completed'
  <2>1. \A s \in Seg : Ready(s)' = Ready(s) /\ ctx'[s].init_flag = ctx[s].init_flag
    BY <1>s DEF IInv, TypeOK, Ready
  <2> QED BY <1>s, <2>1, CompletedKept DEF IInv, TypeOK, IsCounted
<1>8. Raced'
  BY <1>s DEF IInv, TypeOK, Raced, Ready, HasLocked
<1>9. Locked'
  <2>1. \A s \in Seg : Holders(s)' = Holders(s) /\ ctx'[s].locked = ctx[s].locked
    BY <1>s DEF IInv, TypeOK, Holders
  <2> QED BY <1>s, <2>1, LockedKept DEF IInv
<1>10. CountExact'
  <2> SUFFICES ASSUME NEW s \in Seg \ hasty'
               PROVE  ctx'[s].count = (Cardinality(Counted(s)') + lost'[s]) % CountLimit
    BY DEF CountExact
  <2>1. ctx[s].count = (Cardinality(Counted(s)) + lost[s]) % CountLimit /\ lost[s] \in Nat
    BY <1>s DEF IInv, TypeOK, CountExact
  <2>2. CASE s = seg[p]
    <3>1. Counted(s)' = Counted(s) \cup {p} /\ p \notin Counted(s)
      BY <1>s, <2>2 DEF IInv, TypeOK, Counted
    <3>2. Cardinality(Counted(s)') = Cardinality(Counted(s)) + 1
      BY <3>1, CountedFinite, FS_AddElement
    <3>3. Cardinality(Counted(s)) + lost[s] \in Int
      BY <2>1, CountedFinite
    <3>4. n = (Cardinality(Counted(s)) + lost[s] + 1) % CountLimit
      BY <2>1, <2>2, <3>3, ModStep DEF n
    <3> QED BY <1>s, <1>c, <2>1, <2>2, <3>2, <3>4, CountedFinite
  <2>3. CASE s # seg[p]
    <3>1. Counted(s)' = Counted(s)
      BY <1>s, <2>3 DEF IInv, TypeOK, Counted
    <3> QED BY <1>s, <1>c, <2>1, <2>3, <3>1
  <2> QED BY <2>2, <2>3
<1>11. Removable'
  <2>1. \A s \in Seg : Removers(s) \subseteq Removers(s)'
    BY <1>s DEF IInv, TypeOK, Removers, IsCounted, Starting
  <2> QED BY SessionAssumption, <1>s, <2>1, RemovableKept DEF IInv, TypeOK, kernel
<1> QED BY <1>1, <1>2, <1>3, <1>4, <1>5, <1>6, <1>7, <1>8, <1>9, <1>10, <1>11 DEF IInv

\* A process gets the mutex: nobody else has it, unless there was a race for it.
LEMMA LockStep ==
    ASSUME IInv, NEW p \in Proc, lock_context(p)
    PROVE  IInv'
<1> DEFINE f == ctx[seg[p]]
           to == IF pc[p] = "wait" THEN "map" ELSE "call"
<1>s. /\ pc[p] \in {"wait", "want"} /\ pc' = [pc EXCEPT ![p] = to] /\ seg[p] \in Seg
      /\ f \in Context /\ ~f.locked
      /\ ctx' = [ctx EXCEPT ![seg[p]] = [f EXCEPT !.locked = TRUE]]
      /\ raced' = IF Ready(seg[p]) THEN raced ELSE raced \cup {seg[p]}
      /\ UNCHANGED <<create, seg, early, kernel, lockfile, faults, lost, hasty, torn, abandoned>>
  BY DEF IInv, TypeOK, Places, Seg, lock_context, Go, Set
<1>t. [f EXCEPT !.locked = TRUE] \in Context
  BY <1>s, ContextStores
<1>c. /\ ctx'[seg[p]] = [f EXCEPT !.locked = TRUE] /\ ctx'[seg[p]].locked
      /\ \A s \in Seg \ {seg[p]} : ctx'[s] = ctx[s]
  BY <1>s DEF IInv, TypeOK
<1>1. TypeOK'
  <2>1. raced' \subseteq Seg
    BY <1>s DEF IInv, TypeOK
  <2> QED BY <1>s, <1>t, <2>1 DEF IInv, TypeOK, kernel
<1>2. Places'
  BY <1>s, PlacesKept DEF IInv, TypeOK
<1>3. FileLock'
  BY <1>s DEF IInv, TypeOK, FileLock, HasFile
<1>4. Fields'
  BY <1>s DEF IInv, TypeOK, Fields, IsCounted
<1>5. Stages'
  BY <1>s DEF IInv, TypeOK, Stages
<1>6. ZeroIsFirst'
  BY <1>s DEF IInv, TypeOK, ZeroIsFirst, IsCounted
<1>7. Completed'
  <2>1. \A s \in Seg : Ready(s)' = Ready(s) /\ ctx'[s].init_flag = ctx[s].init_flag
    BY <1>s DEF IInv, TypeOK, Ready
  <2> QED BY <1>s, <2>1, CompletedKept DEF IInv, TypeOK, IsCounted
<1>8. Raced'
  BY <1>s DEF IInv, TypeOK, Raced, Ready, HasLocked
<1>9. Locked'
  <2> SUFFICES ASSUME NEW s \in Seg \ raced'
               PROVE  /\ ctx'[s].locked <=> s \in abandoned' \/ \E q \in Proc : q \in Holders(s)'
                      /\ \A q, r \in Holders(s)' : q = r /\ s \notin abandoned'
    BY DEF Locked
  <2>1. s \notin raced
    BY <1>s
  <2>2. CASE s = seg[p]
    <3>1. Holders(s)' = {p} /\ s \notin abandoned
      BY <1>s, <2>1, <2>2 DEF IInv, TypeOK, Locked, Holders
    <3> QED BY <1>s, <1>c, <2>2, <3>1
  <2>3. CASE s # seg[p]
    <3>1. Holders(s)' = Holders(s)
      BY <1>s, <2>3 DEF IInv, TypeOK, Holders
    <3> QED BY <1>s, <1>c, <2>1, <2>3, <3>1 DEF IInv, Locked
  <2> QED BY <2>2, <2>3
<1>10. CountExact'
  <2>1. \A s \in Seg : Counted(s)' = Counted(s) /\ ctx'[s].count = ctx[s].count
    BY <1>s DEF IInv, TypeOK, Counted
  <2> QED BY <1>s, <2>1, CountKept DEF IInv
<1>11. Removable'
  <2>1. \A s \in Seg : Removers(s) \subseteq Removers(s)'
    BY <1>s DEF IInv, TypeOK, Removers, IsCounted, Starting
  <2> QED BY SessionAssumption, <1>s, <2>1, RemovableKept DEF IInv, TypeOK, kernel
<1> QED BY <1>1, <1>2, <1>3, <1>4, <1>5, <1>6, <1>7, <1>8, <1>9, <1>10, <1>11 DEF IInv

\* A process gives up the mutex.
LEMMA UnlockStep ==
    ASSUME IInv, NEW p \in Proc, map_arenas(p) \/ Return(p)
    PROVE  IInv'
<1> DEFINE f == ctx[seg[p]]
<1>s. /\ pc[p] \in {"map", "call"} /\ pc' = [pc EXCEPT ![p] = "in"] /\ seg[p] \in Seg
      /\ f \in Context
      /\ ctx' = [ctx EXCEPT ![seg[p]] = [f EXCEPT !.locked = FALSE]]
      /\ early' = early \/ (early' = early \cup {p} /\ ~f.arena0)
      /\ UNCHANGED <<create, seg, kernel, lockfile, past>>
  <2>1. seg[p] \in Seg /\ f \in Context
    BY DEF IInv, TypeOK, Places, Seg, map_arenas, Return
  <2>2. CASE map_arenas(p)
    BY <2>1, <2>2 DEF map_arenas, unlock_context, Set
  <2>3. CASE Return(p)
    BY <2>1, <2>3 DEF Return, unlock_context, Set
  <2> QED BY <2>2, <2>3
<1>t. [f EXCEPT !.locked = FALSE] \in Context
  BY <1>s, ContextStores
<1>c. /\ ctx'[seg[p]] = [f EXCEPT !.locked = FALSE] /\ ~ctx'[seg[p]].locked
      /\ \A s \in Seg \ {seg[p]} : ctx'[s] = ctx[s]
  BY <1>s DEF IInv, TypeOK
<1>1. TypeOK'
  <2>1. early' \subseteq Proc
    BY <1>s DEF IInv, TypeOK
  <2> QED BY <1>s, <1>t, <2>1 DEF IInv, TypeOK, kernel, past
<1>2. Places'
  BY <1>s, PlacesKept DEF IInv, TypeOK, past
<1>3. FileLock'
  BY <1>s DEF IInv, TypeOK, FileLock, HasFile
<1>4. Fields'
  BY <1>s DEF IInv, TypeOK, Fields, IsCounted, past
<1>5. Stages'
  BY <1>s DEF IInv, TypeOK, Stages
<1>6. ZeroIsFirst'
  BY <1>s DEF IInv, TypeOK, ZeroIsFirst, IsCounted, past
<1>7. Completed'
  <2>1. \A s \in Seg : Ready(s)' = Ready(s) /\ ctx'[s].init_flag = ctx[s].init_flag
    BY <1>s DEF IInv, TypeOK, Ready
  <2> QED BY <1>s, <2>1, CompletedKept DEF IInv, TypeOK, IsCounted, past
<1>8. Raced'
  BY <1>s DEF IInv, TypeOK, Raced, Ready, HasLocked, past
<1>9. Locked'
  <2> SUFFICES ASSUME NEW s \in Seg \ raced
               PROVE  /\ ctx'[s].locked <=> s \in abandoned \/ \E q \in Proc : q \in Holders(s)'
                      /\ \A q, r \in Holders(s)' : q = r /\ s \notin abandoned
    BY <1>s DEF Locked, past
  <2>1. CASE s = seg[p]
    <3>1. p \in Holders(s)
      BY <1>s, <2>1 DEF Holders
    <3>2. Holders(s)' = {} /\ s \notin abandoned
      BY <1>s, <2>1, <3>1 DEF IInv, TypeOK, Locked, Holders
    <3> QED BY <1>c, <2>1, <3>2
  <2>2. CASE s # seg[p]
    <3>1. Holders(s)' = Holders(s)
      BY <1>s, <2>2 DEF IInv, TypeOK, Holders
    <3> QED BY <1>c, <2>2, <3>1 DEF IInv, Locked
  <2> QED BY <2>1, <2>2
<1>10. CountExact'
  <2>1. \A s \in Seg : Counted(s)' = Counted(s) /\ ctx'[s].count = ctx[s].count
    BY <1>s DEF IInv, TypeOK, Counted
  <2> QED BY <1>s, <2>1, CountKept DEF IInv, past
<1>11. Removable'
  <2>1. \A s \in Seg : Removers(s) \subseteq Removers(s)'
    BY <1>s DEF IInv, TypeOK, Removers, IsCounted, Starting
  <2> QED BY SessionAssumption, <1>s, <2>1, RemovableKept DEF IInv, TypeOK, past, kernel
<1> QED BY <1>1, <1>2, <1>3, <1>4, <1>5, <1>6, <1>7, <1>8, <1>9, <1>10, <1>11 DEF IInv

\* A process counts down on its way out.  Unless it comes to 0, others are still
\* counted.
LEMMA ExitStep ==
    ASSUME IInv, NEW p \in Proc, exit_shared_context(p)
    PROVE  IInv'
<1> DEFINE f == ctx[seg[p]]
           n == (f.count - 1) % CountLimit
           to == IF n = 0 THEN "remove" ELSE "end"
<1>s. /\ pc[p] = "in" /\ pc' = [pc EXCEPT ![p] = to] /\ seg[p] \in Seg
      /\ f \in Context
      /\ ctx' = [ctx EXCEPT ![seg[p]] = [f EXCEPT !.count = n]]
      /\ UNCHANGED <<create, seg, early, kernel, lockfile, past>>
  BY DEF IInv, TypeOK, Places, Seg, exit_shared_context, Go, Set
<1>t. [f EXCEPT !.count = n] \in Context
  <2>1. f.count - 1 \in Int
    BY <1>s DEF Context
  <2>2. n \in 0 .. (CountLimit - 1)
    BY <2>1, ModStep
  <2> QED BY <1>s, <2>2, ContextStores
<1> HIDE DEF n
<1>c. /\ ctx'[seg[p]] = [f EXCEPT !.count = n] /\ ctx'[seg[p]].count = n
      /\ \A s \in Seg \ {seg[p]} : ctx'[s] = ctx[s]
  BY <1>s DEF IInv, TypeOK
<1>d. /\ Counted(seg[p])' = Counted(seg[p]) \ {p} /\ p \in Counted(seg[p])
      /\ \A s \in Seg \ {seg[p]} : Counted(s)' = Counted(s)
  BY <1>s DEF IInv, TypeOK, Counted
<1>e. seg[p] \notin hasty =>
         n = (Cardinality(Counted(seg[p]) \ {p}) + lost[seg[p]]) % CountLimit
  <2> SUFFICES ASSUME seg[p] \notin hasty
               PROVE  n = (Cardinality(Counted(seg[p]) \ {p}) + lost[seg[p]]) % CountLimit
    OBVIOUS
  <2> DEFINE k == Cardinality(Counted(seg[p])) + lost[seg[p]]
  <2>1. f.count = k % CountLimit /\ lost[seg[p]] \in Nat
    BY <1>s DEF IInv, TypeOK, CountExact
  <2>2. k \in Int
    BY <2>1, CountedFinite
  <2>3. n = (k - 1) % CountLimit
    <3> HIDE DEF k
    <3> QED BY <2>1, <2>2, ModStep DEF n
  <2>4. Cardinality(Counted(seg[p]) \ {p}) = Cardinality(Counted(seg[p])) - 1
    BY <1>d, CountedFinite, FS_RemoveElement
  <2> QED BY <2>1, <2>3, <2>4, CountedFinite
<1>1. TypeOK'
  BY <1>s, <1>t DEF IInv, TypeOK, past, kernel
<1>2. Places'
  BY <1>s, PlacesKept DEF IInv, TypeOK, past
<1>3. FileLock'
  BY <1>s DEF IInv, TypeOK, FileLock, HasFile
<1>4. Fields'
  BY <1>s DEF IInv, TypeOK, Fields, IsCounted, past
<1>5. Stages'
  BY <1>s DEF IInv, TypeOK, Stages
<1>6. ZeroIsFirst'
  BY <1>s DEF IInv, TypeOK, ZeroIsFirst, IsCounted, past
<1>7. Completed'
  <2>1. \A s \in Seg : Ready(s)' = Ready(s) /\ ctx'[s].init_flag = ctx[s].init_flag
    BY <1>s DEF IInv, TypeOK, Ready
  <2> QED BY <1>s, <2>1, CompletedKept DEF IInv, TypeOK, IsCounted, past
<1>8. Raced'
  BY <1>s DEF IInv, TypeOK, Raced, Ready, HasLocked, past
<1>9. Locked'
  <2>1. \A s \in Seg : Holders(s)' = Holders(s) /\ ctx'[s].locked = ctx[s].locked
    BY <1>s DEF IInv, TypeOK, Holders
  <2> QED BY <1>s, <2>1, LockedKept DEF IInv, past
<1>10. CountExact'
  <2>1. \A s \in Seg \ {seg[p]} : Counted(s)' = Counted(s) /\ ctx'[s] = ctx[s]
    BY <1>c, <1>d
  <2>2. seg[p] \notin hasty =>
           ctx'[seg[p]].count = (Cardinality(Counted(seg[p])') + lost[seg[p]]) % CountLimit
    BY <1>c, <1>d, <1>e
  <2>3. UNCHANGED <<seg, lost, hasty>>
    BY <1>s DEF past
  <2> QED BY <2>1, <2>2, <2>3 DEF IInv, CountExact
<1>11. Removable'
  <2>1. \A s \in Seg \ {seg[p]} : Removers(s) \subseteq Removers(s)'
    BY <1>s DEF IInv, TypeOK, Removers
  <2>2. ASSUME faults = 0, seg[p] \notin dest \cup hasty \cup raced
        PROVE  Removers(seg[p])' # {}
    <3>1. CASE n = 0
      BY <1>s, <3>1 DEF IInv, TypeOK, Removers
    <3>2. CASE n # 0
      <4>1. lost[seg[p]] = 0
        BY <1>s, <2>2 DEF IInv, Removable
      <4>2. (Cardinality({}) + 0) % CountLimit = 0
        BY SessionAssumption, FS_EmptySet
      <4>3. Counted(seg[p]) \ {p} # {}
        BY <1>e, <2>2, <3>2, <4>1, <4>2
      <4>4. PICK q \in Proc : q \in Counted(seg[p])'
        BY <1>d, <4>3 DEF Counted
      <4>5. q \in Removers(seg[p])'
        BY <1>s, <4>4 DEF Counted, Removers, IsCounted
      <4> QED BY <4>5
    <3> QED BY <3>1, <3>2
  <2>3. UNCHANGED <<seg, made, dest, past>> /\ 1 .. made \subseteq Seg
    BY SessionAssumption, <1>s DEF IInv, TypeOK, Seg, kernel
  <2>4. ASSUME faults = 0, NEW s \in (1 .. made) \ (dest \cup hasty \cup raced)
        PROVE  Removers(s)' # {}
    BY <2>1, <2>2, <2>3, <2>4 DEF IInv, Removable
  <2> QED BY <2>3, <2>4 DEF IInv, Removable, past
<1> QED BY <1>1, <1>2, <1>3, <1>4, <1>5, <1>6, <1>7, <1>8, <1>9, <1>10, <1>11 DEF IInv

\* A process ends, counted or not, with or without the mutex, in the middle of the
\* initialisation or not.  Unless that is a fault, somebody else is left to remove the
\* segment.
LEMMA DiesStep ==
    ASSUME IInv, NEW p \in Proc, pc[p] # "out", Dies(p), faults' \in Nat,
           \/ faults' # 0
           \/ /\ faults' = faults /\ pc[p] \notin Initialising
              /\ seg[p] \in dest \cup raced \/ p \notin Removers(seg[p])
              /\ p \in Counted(seg[p]) => seg[p] \in raced
    PROVE  IInv'
<1>s. PICK s \in Seg : s = seg[p] /\ s \in 1 .. made
  BY DEF IInv, TypeOK, Places, Seg
<1> DEFINE last == s \in dest /\ \A q \in Proc \ {p} : ~(Attached(q) /\ seg[q] = s)
           died == IF p \in Counted(s) THEN [lost EXCEPT ![s] = @ + 1] ELSE lost
           cut == IF pc[p] \in {"key", "zero", "mutex", "arena"} THEN torn \cup {s} ELSE torn
           stuck == IF p \in Holders(s) THEN abandoned \cup {s} ELSE abandoned
           Kept(S) == IF last THEN S \ {s} ELSE S
<1>a. /\ pc' = [pc EXCEPT ![p] = "out"] /\ create' = [create EXCEPT ![p] = FALSE]
      /\ seg' = [seg EXCEPT ![p] = 0] /\ early' = early \ {p}
      /\ lockfile' = IF lockfile = p THEN NoProc ELSE lockfile
      /\ UNCHANGED kernel /\ UNCHANGED <<keyed, made, dest>>
  BY DEF Dies, Gone, kernel
<1>b. /\ ctx' = IF last THEN [ctx EXCEPT ![s] = Zeroed] ELSE ctx
      /\ lost' = IF last THEN [died EXCEPT ![s] = 0] ELSE died
      /\ hasty' = Kept(hasty) /\ raced' = Kept(raced)
      /\ torn' = Kept(cut) /\ abandoned' = Kept(stuck)
  BY <1>s DEF Dies, Gone
<1>t. /\ hasty \subseteq Seg /\ raced \subseteq Seg /\ torn \subseteq Seg /\ abandoned \subseteq Seg
      /\ cut \subseteq Seg /\ stuck \subseteq Seg /\ died \in [Seg -> Nat]
  BY <1>s DEF IInv, TypeOK
<1>o. \A t \in Seg \ {s} :
        /\ ctx'[t] = ctx[t] /\ lost'[t] = lost[t]
        /\ t \in hasty' <=> t \in hasty
        /\ t \in raced' <=> t \in raced
        /\ t \in torn' <=> t \in torn
        /\ t \in abandoned' <=> t \in abandoned
  <2>1. \A t \in Seg \ {s} : died[t] = lost[t] /\ (t \in cut <=> t \in torn)
                                /\ (t \in stuck <=> t \in abandoned)
    BY <1>s DEF IInv, TypeOK
  <2> HIDE DEF died, cut, stuck, last
  <2> QED BY <1>b, <1>s, <1>t, <2>1 DEF IInv, TypeOK
<1>l. ASSUME last
      PROVE  /\ Untouched(s)'
             /\ \A q \in Proc \ {p} : seg[q] = s => pc[q] = "shmat"
  <2>1. ctx'[s] = Zeroed /\ lost'[s] = 0
    BY <1>b, <1>l, <1>s, <1>t DEF IInv, TypeOK
  <2>2. s \notin hasty' \cup raced' \cup torn' \cup abandoned'
    BY <1>b, <1>l
  <2>3. \A q \in Proc \ {p} : seg[q] = s => pc[q] = "shmat"
    BY <1>l, <1>s DEF IInv, TypeOK, Places, Attached
  <2>4. Untouched(s)'
    BY <2>1, <2>2 DEF Untouched, Zeroed
  <2> QED BY <2>3, <2>4
<1>n. ASSUME ~last
      PROVE  /\ ctx'[s] = ctx[s]
             /\ s \in hasty' <=> s \in hasty
             /\ s \in raced' <=> s \in raced
             /\ lost'[s] = lost[s] + (IF pc[p] \in IsCounted THEN 1 ELSE 0)
             /\ s \in torn' <=> s \in torn \/ pc[p] \in Initialising
             /\ s \in abandoned' <=> s \in abandoned \/ pc[p] \in {"map", "call"}
  <2>1. lost'[s] = lost[s] + (IF pc[p] \in IsCounted THEN 1 ELSE 0)
    BY <1>b, <1>n, <1>s DEF IInv, TypeOK, Counted, IsCounted
  <2>2. s \in torn' <=> s \in torn \/ pc[p] \in Initialising
    BY <1>b, <1>n DEF Initialising
  <2>3. s \in abandoned' <=> s \in abandoned \/ pc[p] \in {"map", "call"}
    BY <1>b, <1>n, <1>s DEF Holders
  <2> QED BY <1>b, <1>n, <2>1, <2>2, <2>3
<1>1. TypeOK'
  <2>1. ctx' \in [Seg -> Context] /\ lost' \in [Seg -> Nat]
    BY <1>b, <1>s, <1>t, ContextStores DEF IInv, TypeOK
  <2>2. hasty' \cup raced' \cup torn' \cup abandoned' \subseteq Seg
    BY <1>b, <1>t
  <2> QED BY SessionAssumption, <1>a, <2>1, <2>2 DEF IInv, TypeOK
<1> HIDE DEF last, died, cut, stuck, Kept
<1>2. Places'
  <2>1. \A q \in Proc : IF pc'[q] = "out" THEN seg'[q] = 0 /\ q \notin early'
                                          ELSE seg'[q] \in 1 .. made
    BY <1>a DEF IInv, TypeOK, Places
  <2>2. \A t \in Seg : t > made => Untouched(t)'
    <3> SUFFICES ASSUME NEW t \in Seg, t > made
                 PROVE  Untouched(t)'
      OBVIOUS
    <3>1. t # s /\ Untouched(t)
      BY <1>s DEF IInv, TypeOK, Places
    <3> QED BY <1>o, <3>1 DEF Untouched, Zeroed
  <2> QED BY <1>a, <2>1, <2>2 DEF IInv, Places
<1>3. FileLock'
  BY SessionAssumption, <1>a DEF IInv, TypeOK, FileLock, HasFile
<1>4. Fields'
  <2> SUFFICES ASSUME NEW t \in Seg
               PROVE  (/\ ~ctx[t].init_flag => ctx[t] = Zeroed
                       /\ ctx[t].key => ctx[t].init_flag
                       /\ ctx[t].shared => ctx[t].key
                       /\ ctx[t].arena0 => ctx[t].shared
                       /\ ~ctx[t].key => /\ ctx[t].count = 0 /\ ~ctx[t].locked /\ lost[t] = 0
                                         /\ t \notin hasty \cup raced \cup abandoned
                                         /\ \A q \in Proc : seg[q] = t => pc[q] \notin IsCounted)'
    BY DEF Fields
  <2>1. \A q \in Proc : seg'[q] = t => pc'[q] \notin IsCounted \/ (pc[q] \in IsCounted /\ seg[q] = t)
    BY <1>a DEF IInv, TypeOK, IsCounted
  <2>2. CASE t # s
    BY <1>o, <2>1, <2>2 DEF IInv, Fields, Zeroed
  <2>3. CASE t = s /\ last
    <3>1. Untouched(t)' /\ \A q \in Proc : seg'[q] = t => pc'[q] \notin IsCounted
      BY <1>a, <1>l, <2>3 DEF IInv, TypeOK, IsCounted
    <3> QED BY <3>1 DEF Untouched, Zeroed
  <2>4. CASE t = s /\ ~last
    <3>1. ~ctx[s].key => pc[p] \notin IsCounted
      BY <1>s DEF IInv, Fields
    <3>2. /\ ctx'[t] = ctx[t] /\ (t \in hasty' <=> t \in hasty) /\ (t \in raced' <=> t \in raced)
          /\ ~ctx[s].key => lost'[t] = lost[t] /\ (t \in abandoned' <=> t \in abandoned)
      BY <1>n, <1>s, <2>4, <3>1 DEF IInv, TypeOK, IsCounted
    <3> QED BY <2>1, <2>4, <3>2 DEF IInv, Fields, Zeroed
  <2> QED BY <2>2, <2>3, <2>4
<1>q. ASSUME NEW q \in Proc, pc'[q] \notin {"out", "shmat"}
      PROVE  /\ q # p /\ pc'[q] = pc[q] /\ seg'[q] = seg[q] /\ create'[q] = create[q]
             /\ seg[q] \in Seg /\ ctx'[seg[q]] = ctx[seg[q]]
             /\ seg[q] \in hasty' <=> seg[q] \in hasty
             /\ seg[q] \in raced' <=> seg[q] \in raced
             /\ seg[q] \in torn => seg[q] \in torn'
             /\ seg[q] = s => ~last
  <2>1. q # p /\ pc'[q] = pc[q] /\ seg'[q] = seg[q] /\ create'[q] = create[q]
    BY <1>a, <1>q DEF IInv, TypeOK
  <2>2. seg[q] \in Seg
    BY <1>q, <2>1 DEF IInv, TypeOK, Places, Seg
  <2>3. seg[q] = s => ~last
    BY <1>l, <1>q, <2>1
  <2> QED BY <1>n, <1>o, <2>1, <2>2, <2>3
<1>5. Stages'
  BY <1>q DEF IInv, Stages
<1>6. ZeroIsFirst'
  <2> SUFFICES ASSUME NEW q \in Proc, NEW r \in Proc, pc'[q] = "zero", seg'[q] \notin hasty'
               PROVE  lost'[seg'[q]] = 0 /\ (seg'[r] = seg'[q] => pc'[r] \notin IsCounted)
    BY DEF ZeroIsFirst
  <2>1. /\ pc[q] = "zero" /\ seg'[q] = seg[q] /\ seg[q] \in Seg /\ seg[q] \notin hasty
        /\ seg[q] = s => ~last
    BY <1>q
  <2>2. lost[seg[q]] = 0 /\ \A x \in Proc : seg[x] = seg[q] => pc[x] \notin IsCounted
    BY <2>1 DEF IInv, ZeroIsFirst
  <2>3. lost'[seg[q]] = 0
    BY <1>n, <1>o, <1>s, <2>1, <2>2
  <2>4. seg'[r] = seg[q] => pc'[r] \notin IsCounted
    BY <1>q, <2>2 DEF IsCounted
  <2> QED BY <2>1, <2>3, <2>4
<1>7. Completed'
  <2>1. ASSUME NEW t \in Seg, ctx'[t].init_flag
        PROVE  Ready(t)' \/ t \in torn' \/ \E q \in Proc : seg'[q] = t /\ pc'[q] \in Initialising
    <3>1. t = s => ~last
      BY <1>l, <2>1 DEF Untouched, Zeroed
    <3>2. ctx'[t] = ctx[t] /\ (t \in torn => t \in torn')
      BY <1>n, <1>o, <3>1
    <3>3. \/ Ready(t) \/ t \in torn
          \/ \E q \in Proc : seg[q] = t /\ pc[q] \in Initialising
      BY <2>1, <3>2 DEF IInv, Completed
    <3>4. \A q \in Proc \ {p} : seg'[q] = seg[q] /\ pc'[q] = pc[q]
      BY <1>a DEF IInv, TypeOK
    <3>5. seg[p] = t /\ pc[p] \in Initialising => t \in torn'
      BY <1>n, <1>s, <3>1
    <3> QED BY <3>2, <3>3, <3>4, <3>5 DEF Ready
  <2>2. ASSUME NEW q \in Proc, create'[q], pc'[q] \in {"unlock", "check"} \cup IsCounted
        PROVE  Ready(seg[q])' \/ seg'[q] \in torn'
    <3>1. /\ pc'[q] = pc[q] /\ seg'[q] = seg[q] /\ create'[q] = create[q]
          /\ ctx'[seg[q]] = ctx[seg[q]] /\ (seg[q] \in torn => seg[q] \in torn')
      BY <1>q, <2>2 DEF IsCounted
    <3> QED BY <2>2, <3>1 DEF IInv, Completed, Ready
  <2> QED BY <2>1, <2>2 DEF Completed
<1>8. Raced'
  <2>1. ASSUME NEW q \in Proc, pc'[q] \in HasLocked
        PROVE  Ready(seg[q])' \/ seg'[q] \in raced'
    <3>1. /\ pc'[q] = pc[q] /\ seg'[q] = seg[q]
          /\ ctx'[seg[q]] = ctx[seg[q]] /\ (seg[q] \in raced => seg[q] \in raced')
      BY <1>q, <2>1 DEF HasLocked
    <3> QED BY <2>1, <3>1 DEF IInv, Raced, Ready
  <2>2. ASSUME NEW t \in abandoned'
        PROVE  Ready(t)' \/ t \in raced'
    <3>1. t \in Seg /\ (t = s => ~last)
      BY <1>1, <1>l, <2>2 DEF TypeOK, Untouched
    <3>2. ctx'[t] = ctx[t] /\ (t \in raced => t \in raced')
      BY <1>n, <1>o, <3>1
    <3>3. Ready(t) \/ t \in raced
      BY <1>n, <1>o, <1>s, <2>2, <3>1 DEF IInv, Raced, HasLocked
    <3> QED BY <3>2, <3>3 DEF Ready
  <2>3. ASSUME NEW q \in early'
        PROVE  pc'[q] \in {"in", "want", "call", "remove", "end"} /\ seg'[q] \in raced'
    <3>1. q \in early /\ q \in Proc /\ q # p /\ pc'[q] = pc[q] /\ seg'[q] = seg[q]
      BY <1>a, <2>3 DEF IInv, TypeOK
    <3>2. pc[q] \in {"in", "want", "call", "remove", "end"} /\ seg[q] \in raced
      BY <3>1 DEF IInv, Raced
    <3> QED BY <1>q, <3>1, <3>2
  <2> QED BY <2>1, <2>2, <2>3 DEF Raced
<1>9. Locked'
  <2> SUFFICES ASSUME NEW t \in Seg \ raced'
               PROVE  /\ ctx'[t].locked <=> t \in abandoned' \/ \E q \in Proc : q \in Holders(t)'
                      /\ \A q, r \in Holders(t)' : q = r /\ t \notin abandoned'
    BY DEF Locked
  <2>1. Holders(t)' = Holders(t) \ {p}
    BY <1>a DEF IInv, TypeOK, Holders
  <2>2. CASE t # s
    <3>1. Holders(t)' = Holders(t) /\ t \notin raced
      BY <1>o, <1>s, <2>1, <2>2 DEF Holders
    <3> QED BY <1>o, <2>2, <3>1 DEF IInv, Locked
  <2>3. CASE t = s /\ last
    <3>1. Holders(t)' = {}
      BY <1>l, <2>1, <2>3 DEF Holders
    <3>2. ~ctx'[t].locked /\ t \notin abandoned'
      BY <1>l, <2>3 DEF Untouched, Zeroed
    <3> QED BY <3>1, <3>2
  <2>4. CASE t = s /\ ~last
    <3>1. t \notin raced /\ ctx'[t] = ctx[t]
      BY <1>n, <2>4
    <3>2. p \in Holders(t) <=> pc[p] \in {"map", "call"}
      BY <1>s, <2>4 DEF Holders
    <3> QED BY <1>n, <2>1, <2>4, <3>1, <3>2 DEF IInv, Locked
  <2> QED BY <2>2, <2>3, <2>4
<1>10. CountExact'
  <2> SUFFICES ASSUME NEW t \in Seg \ hasty'
               PROVE  ctx'[t].count = (Cardinality(Counted(t)') + lost'[t]) % CountLimit
    BY DEF CountExact
  <2>1. Counted(t)' = Counted(t) \ {p}
    BY <1>a DEF IInv, TypeOK, Counted
  <2>2. CASE t # s
    <3>1. Counted(t)' = Counted(t) /\ t \notin hasty
      BY <1>o, <1>s, <2>1, <2>2 DEF Counted
    <3> QED BY <1>o, <2>2, <3>1 DEF IInv, CountExact
  <2>3. CASE t = s /\ last
    <3>1. Counted(t)' = {}
      BY <1>l, <2>1, <2>3 DEF Counted
    <3>2. (Cardinality({}) + 0) % CountLimit = 0
      BY SessionAssumption, FS_EmptySet
    <3>3. ctx'[t].count = 0 /\ lost'[t] = 0
      BY <1>l, <2>3 DEF Untouched, Zeroed
    <3> QED BY <3>1, <3>2, <3>3
  <2>4. CASE t = s /\ ~last
    <3>1. t \notin hasty /\ ctx'[t] = ctx[t] /\ lost[t] \in Nat
      BY <1>n, <2>4 DEF IInv, TypeOK
    <3>2. p \in Counted(t) <=> pc[p] \in IsCounted
      BY <1>s, <2>4 DEF Counted, IsCounted
    <3>3. Cardinality(Counted(t) \ {p}) =
             IF p \in Counted(t) THEN Cardinality(Counted(t)) - 1 ELSE Cardinality(Counted(t))
      BY CountedFinite, FS_RemoveElement
    <3>4. Cardinality(Counted(t)') + lost'[t] = Cardinality(Counted(t)) + lost[t]
      BY <1>n, <2>1, <2>4, <3>1, <3>2, <3>3, CountedFinite
    <3> QED BY <3>1, <3>4 DEF IInv, CountExact
  <2> QED BY <2>2, <2>3, <2>4
<1>11. Removable'
  <2> SUFFICES ASSUME faults' = 0
               PROVE  /\ torn' = {}
                      /\ \A t \in Seg \ raced' : lost'[t] = 0
                      /\ \A t \in (1 .. made) \ (dest \cup hasty' \cup raced') : Removers(t)' # {}
    BY <1>a DEF Removable
  <2>1. /\ faults = 0 /\ pc[p] \notin Initialising
        /\ s \in dest \cup raced \/ p \notin Removers(s)
        /\ pc[p] \in IsCounted => s \in raced
    BY <1>s DEF Counted, IsCounted
  <2>2. /\ torn = {} /\ \A t \in Seg \ raced : lost[t] = 0
        /\ \A t \in (1 .. made) \ (dest \cup hasty \cup raced) : Removers(t) # {}
    BY <2>1 DEF IInv, Removable
  <2>3. torn' = {}
    BY <1>1, <1>l, <1>n, <1>o, <2>1, <2>2 DEF TypeOK, Untouched
  <2>4. ASSUME NEW t \in Seg \ raced'
        PROVE  lost'[t] = 0
    <3>1. CASE t # s
      BY <1>o, <2>2, <2>4, <3>1
    <3>2. CASE t = s /\ last
      BY <1>l, <3>2 DEF Untouched
    <3>3. CASE t = s /\ ~last
      BY <1>n, <2>1, <2>2, <2>4, <3>3
    <3> QED BY <3>1, <3>2, <3>3
  <2>5. ASSUME NEW t \in (1 .. made) \ (dest \cup hasty' \cup raced')
        PROVE  Removers(t)' # {}
    <3>1. t \in Seg /\ (t = s => ~last)
      BY SessionAssumption, <1>s, <2>5 DEF IInv, TypeOK, Seg, last
    <3>2. t \notin hasty \cup raced
      BY <1>n, <1>o, <2>5, <3>1
    <3>3. PICK q \in Proc : q \in Removers(t)
      BY <2>2, <2>5, <3>2 DEF Removers
    <3>4. q # p
      BY <1>s, <2>1, <2>5, <3>2, <3>3 DEF Removers
    <3>5. q \in Removers(t)'
      BY <1>a, <3>3, <3>4 DEF IInv, TypeOK, Removers
    <3> QED BY <3>5
  <2> QED BY <2>3, <2>4, <2>5
<1> QED BY <1>1, <1>2, <1>3, <1>4, <1>5, <1>6, <1>7, <1>8, <1>9, <1>10, <1>11 DEF IInv

\* The steps by which a process ends, faults or not.
LEMMA GoneStep ==
    ASSUME IInv, NEW p \in Proc,
           \/ pc[p] = "shmat" /\ ~Exists(seg[p]) /\ Gone(p, lost, torn, abandoned) /\ UNCHANGED faults
           \/ End(p) \/ Abort(p) \/ AbortCall(p) \/ Crash(p) \/ ShmatFails(p)
    PROVE  IInv'
<1>1. ASSUME pc[p] \in {"shmat", "check", "end"}, Gone(p, lost, torn, abandoned)
      PROVE  /\ Dies(p) /\ pc[p] \notin Initialising /\ p \notin Counted(seg[p])
  BY <1>1 DEF Dies, Counted, Holders, Initialising
<1>2. faults \in Nat
  BY DEF IInv, TypeOK
<1>3. CASE pc[p] = "shmat" /\ ~Exists(seg[p]) /\ Gone(p, lost, torn, abandoned) /\ UNCHANGED faults
  <2>1. seg[p] \in dest
    BY <1>3 DEF IInv, TypeOK, Places, Exists
  <2> QED BY <1>1, <1>2, <1>3, <2>1, DiesStep
<1>4. CASE End(p)
  <2>1. p \notin Removers(seg[p])
    BY <1>4 DEF End, Removers, IsCounted, Starting, HasFile
  <2> QED BY <1>1, <1>2, <1>4, <2>1, DiesStep DEF End
<1>5. CASE Abort(p)
  <2>1. seg[p] \in Seg
    BY <1>5 DEF IInv, TypeOK, Places, Seg, Abort
  <2>2. ~Ready(seg[p])
    BY <1>5, <2>1 DEF IInv, Fields, Ready, Abort
  <2>3. faults = 0 => ~create[p]
    BY <1>5, <2>2 DEF IInv, Completed, Removable, Abort
  <2>4. faults = 0 => p \notin Removers(seg[p])
    BY <1>5, <2>3 DEF Abort, Removers, IsCounted
  <2>5. pc[p] # "out" /\ faults' = faults
    BY <1>5 DEF Abort
  <2> QED BY <1>1, <1>2, <1>5, <2>4, <2>5, DiesStep DEF Abort
<1>6. CASE AbortCall(p)
  <2>1. seg[p] \in raced
    BY <1>6 DEF IInv, Raced, AbortCall
  <2> QED BY <1>2, <1>6, <2>1, DiesStep DEF AbortCall, Initialising
<1>7. CASE Crash(p)
  <2>1. faults' \in Nat /\ faults' # 0
    BY <1>2, <1>7 DEF Crash
  <2> QED BY <1>7, <2>1, DiesStep DEF Crash
<1>8. CASE ShmatFails(p)
  <2>1. faults' \in Nat /\ faults' # 0
    BY <1>2, <1>8 DEF ShmatFails
  <2> QED BY <1>1, <1>8, <2>1, DiesStep DEF ShmatFails
<1> QED BY <1>3, <1>4, <1>5, <1>6, <1>7, <1>8

-----------------------------------------------------------------------------
(* Theorems *)

\* The invariant holds at first, when no process runs.
LEMMA InitIInv == Init => IInv
<1> SUFFICES ASSUME Init
             PROVE  IInv
  OBVIOUS
<1>1. TypeOK
  BY SessionAssumption, ContextStores DEF Init, TypeOK
<1>2. \A s : Counted(s) = {} /\ Holders(s) = {}
  BY DEF Init, Counted, Holders
<1>3. CountExact
  <2>1. (Cardinality({}) + 0) % CountLimit = 0
    BY SessionAssumption, FS_EmptySet
  <2> QED BY <1>2, <2>1 DEF Init, CountExact, Zeroed
<1>4. Locked
  BY <1>2 DEF Init, Locked, Zeroed
<1>5. Places /\ FileLock
  BY SessionAssumption DEF Init, Places, FileLock, HasFile, Untouched
<1>6. Fields /\ Stages /\ ZeroIsFirst
  BY DEF Init, Fields, Stages, ZeroIsFirst, IsCounted, Zeroed
<1>7. Completed /\ Raced
  BY DEF Init, Completed, Raced, IsCounted, HasLocked, Zeroed
<1>8. Removable
  BY DEF Init, Removable
<1> QED BY <1>1, <1>3, <1>4, <1>5, <1>6, <1>7, <1>8 DEF IInv

\* Every step keeps it.
LEMMA NextIInv == IInv /\ [Next]_vars => IInv'
<1> SUFFICES ASSUME IInv, [Next]_vars
             PROVE  IInv'
  OBVIOUS
<1>1. CASE UNCHANGED vars
  <2>1. /\ \A s : Counted(s)' = Counted(s) /\ Holders(s)' = Holders(s)
        /\ \A s : Removers(s)' = Removers(s) /\ Untouched(s)' = Untouched(s)
        /\ \A s : Ready(s)' = Ready(s)
    BY <1>1 DEF vars, local, past, Counted, Holders, Removers, Untouched, Ready
  <2>2. /\ TypeOK' /\ Places' /\ FileLock' /\ Fields' /\ Stages' /\ ZeroIsFirst'
    BY <1>1, <2>1
       DEF vars, local, kernel, past, IInv, TypeOK, Places, FileLock, Fields, Stages,
           ZeroIsFirst
  <2>3. Completed' /\ Raced' /\ Locked' /\ CountExact' /\ Removable'
    BY <1>1, <2>1
       DEF vars, local, kernel, past, IInv, Completed, Raced, Locked, CountExact, Removable
  <2> QED BY <2>2, <2>3 DEF IInv
<1>2. ASSUME NEW p \in Proc, NEW c \in Creates, Shmget(p, c)
      PROVE  IInv'
  BY <1>2, ShmgetStep
<1>3. ASSUME NEW p \in Proc, shm_lock_file(p) \/ lock_context(p)
      PROVE  IInv'
  BY <1>3, FileStep, LockStep
<1>4. ASSUME NEW p \in Proc, Shmat(p)
      PROVE  IInv'
  BY <1>4, ShmatStep, GoneStep DEF Shmat
<1>5. ASSUME NEW p \in Proc, init_shm_shared_field(p)
      PROVE  IInv'
  <2>1. pc[p] \in {"init", "key", "zero", "mutex", "arena"}
    BY <1>5 DEF init_shm_shared_field
  <2> QED BY <1>5, <2>1, InitStep, KeyStep, ZeroStep, MutexStep, ArenaStep
<1>6. ASSUME NEW p \in Proc,
             \/ shm_unlock_file(p) \/ Count(p) \/ map_arenas(p) \/ Return(p) \/ shm_remove(p)
             \/ Call(p) \/ exit_shared_context(p) \/ LockFails(p)
      PROVE  IInv'
  BY <1>6, UnfileStep, CountStep, UnlockStep, RemoveStep, CallStep, ExitStep, LockFailsStep
<1>7. ASSUME NEW p \in Proc,
             Abort(p) \/ AbortCall(p) \/ End(p) \/ Crash(p) \/ ShmatFails(p)
      PROVE  IInv'
  BY <1>7, GoneStep
<1> QED BY <1>1, <1>2, <1>3, <1>4, <1>5, <1>6, <1>7 DEF Next, Step

\* The invariant holds in every state of every run, for any number of processes and
\* faults and any width of the counter.
THEOREM Invariance == Spec => []IInv
BY InitIInv, NextIInv, PTL DEF Spec

\* Every variable keeps its type: shm_init, the calls and the exits never leave the places
\* and values that Session lists.
THEOREM TypeCorrect == Spec => []TypeOK
<1>1. IInv => TypeOK
  BY DEF IInv
<1> QED BY <1>1, Invariance, PTL

\* A process that came in by shm_init with create finds a complete context (init_flag,
\* key, mutex and first arena stored by init_shared_context), whoever ran beside it, unless
\* the process that was to complete it died on the way.
THEOREM CreatorReadyHolds == Spec => []CreatorReady
<1>1. IInv => CreatorReady
  BY DEF IInv, Completed, CreatorReady, Counted, IsCounted
<1> QED BY <1>1, Invariance, PTL

\* The count of a context is the number of its processes plus those that died without
\* counting down (init_shared_context and exit_shared_context, __sync_fetch_and_add and
\* _sub), modulo the width of the counter, unless a process was let in before the count was
\* stored.
THEOREM CountExactHolds == Spec => []CountExact
<1>1. IInv => CountExact
  BY DEF IInv
<1> QED BY <1>1, Invariance, PTL

\* As long as nothing fails, a segment that nobody uses any more has been marked for removal
\* (exit_shared_context), unless processes raced with its initialisation.
THEOREM NoLeakHolds == Spec => []NoLeak
<1>1. IInv => NoLeak
  <2> SUFFICES ASSUME IInv, faults = 0, \A p \in Proc : pc[p] = "out",
                      NEW s \in Seg \ (hasty \cup raced), Exists(s)
               PROVE  FALSE
    BY DEF NoLeak
  <2>1. s \in 1 .. made /\ s \notin dest
    BY DEF IInv, TypeOK, Exists, Attached, Seg
  <2>2. Removers(s) = {}
    BY DEF Removers, IsCounted, Starting, HasFile
  <2> QED BY <2>1, <2>2 DEF IInv, Removable
<1> QED BY <1>1, Invariance, PTL

\* Between lock_context and unlock_context a process is alone in its context, unless it came
\* in before the mutex was made.
THEOREM MutualExclusionHolds == Spec => []MutualExclusion
<1>1. ASSUME IInv, NEW s \in Seg \ raced
      PROVE  Cardinality(Holders(s)) + (IF s \in abandoned THEN 1 ELSE 0)
                = IF ctx[s].locked THEN 1 ELSE 0
  <2>1. /\ ctx[s].locked <=> s \in abandoned \/ \E p \in Proc : p \in Holders(s)
        /\ \A p, q \in Holders(s) : p = q /\ s \notin abandoned
    BY <1>1 DEF IInv, Locked
  <2>2. CASE Holders(s) = {}
    BY <2>1, <2>2, FS_EmptySet
  <2>3. CASE Holders(s) # {}
    <3>1. PICK p \in Proc : Holders(s) = {p}
      BY <2>1, <2>3 DEF Holders
    <3> QED BY <2>1, <3>1, FS_Singleton
  <2> QED BY <2>2, <2>3
<1>2. IInv => MutualExclusion
  BY <1>1 DEF MutualExclusion
<1> QED BY <1>2, Invariance, PTL

===============================================================================
