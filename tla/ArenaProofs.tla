------------------------------ MODULE ArenaProofs ------------------------------
(***************************************************************************)
(* Proofs about Arena, for any number of processes, arenas and chunks.     *)
(***************************************************************************)
EXTENDS Arena, NumberFacts, FiniteSetTheorems

-----------------------------------------------------------------------------
(* The inductive invariant *)

Arenas == 0 .. (ArenaMax - 1)
Entry  == [addr : Shmid \cup {0}, shmid : Shmid \cup {0}]

\* The segments that the table, the keys or a process name at index i.
Names(i) == {arena[i].shmid, keyed[i]} \cup {addrs[p][i].shmid : p \in Proc}

\* What callers hold of chunk c of arena i.
Share(i, c) ==
    IF arena[i].type = "LARGE" THEN IF c = 0 THEN ArenaChunks ELSE 0
    ELSE IF c \in arena[i].chunks /\ (i # 0 \/ c # 0) THEN 1 ELSE 0

\* The context is at index 0 and only there, and never gives up its own chunk; an
\* index without an arena is clear; a large arena has no chunks, and a chunk arena
\* has some.
Shape ==
    /\ arena[0].type = "CONTEXT" /\ 0 \in arena[0].chunks
    /\ \A i \in Index :
         /\ arena[i].type # "CONTEXT"
         /\ arena[i].type = "EMPTY" => arena[i] = EMPTY
         /\ arena[i].type # "EMPTY" => arena[i].shmid # 0
         /\ arena[i].type = "LARGE" => arena[i].chunks = {}
         /\ arena[i].type = "CHUNK" => arena[i].used > 0

\* used counts the chunks.
Counts == \A i \in Arenas : arena[i].used = Cardinality(arena[i].chunks)

\* A segment has one index, whoever names it; under a key nobody knows it yet.
OneIndex ==
    /\ \A i, j \in Index : i # j => Names(i) \cap Names(j) \subseteq {0}
    /\ \A i \in Index : keyed[i] # 0 =>
         keyed[i] # arena[i].shmid /\ \A p \in Proc : addrs[p][i].shmid # keyed[i]

\* What a process has for an index: nothing, the address of the segment it names, or,
\* if a segment was lost, a NULL address.
Entries ==
    \A p \in Proc, i \in Index :
        /\ addrs[p][i].addr \in {0, addrs[p][i].shmid}
        /\ addrs[p][i].addr = 0 /\ addrs[p][i].shmid # 0 => lost

\* A process is attached to the segments it has addresses of.
Mapped == \A p \in Proc : attached[p] = {addrs[p][i].addr : i \in Index} \ {0}

\* The segments of the table exist, unless one was lost.
Lossless == lost \/ Listed \subseteq Exists

\* Callers hold what the table says.
HeldIsTable == \A i \in Arenas, c \in Slot : held[Pos(i, c)] = Share(i, c)

IInv ==
    /\ TypeOK /\ Shape /\ Counts /\ OneIndex /\ Entries /\ Mapped /\ Lossless
    /\ HeldIsTable /\ DeathNeedsLoss

-----------------------------------------------------------------------------
(* Arithmetic *)

\* Positions count the chunks of the arenas one after the other.
LEMMA PosIs ==
    ASSUME NEW i \in Arenas, NEW c \in Slot
    PROVE  /\ Pos(i, c) \in 1 .. (ArenaMax * ArenaChunks)
           /\ \A j \in Arenas, d \in Slot : Pos(i, c) = Pos(j, d) => i = j /\ c = d
<1> DEFINE A == ArenaChunks
<1>1. A \in Nat /\ A >= 2 /\ ArenaMax \in Nat /\ i \in Nat /\ i + 1 <= ArenaMax
      /\ c \in 0 .. (A - 1)
  BY ArenaAssumption DEF Arenas, Slot
<1>2. \A k, m \in Nat : k + 1 <= m => k * A + A <= m * A
  BY <1>1
<1> HIDE DEF A
<1>3. i * A + c + 1 \in 1 .. (ArenaMax * A)
  <2>1. i * A \in Nat /\ ArenaMax * A \in Nat
    BY <1>1
  <2>2. i * A + A <= ArenaMax * A
    BY <1>1, <1>2
  <2> QED BY <1>1, <2>1, <2>2
<1>4. ASSUME NEW j \in Arenas, NEW d \in Slot, i * A + c + 1 = j * A + d + 1
      PROVE  i = j /\ c = d
  <2>1. j \in Nat /\ d \in 0 .. (A - 1)
    BY ArenaAssumption DEF Arenas, Slot, A
  <2>2. i * A \in Nat /\ j * A \in Nat
    BY <1>1, <2>1
  <2>3. ~(i + 1 <= j) /\ ~(j + 1 <= i)
    BY <1>1, <1>2, <1>4, <2>1, <2>2
  <2>4. i = j
    BY <1>1, <2>1, <2>3
  <2> QED BY <1>1, <1>4, <2>1, <2>2, <2>4
<1> QED BY <1>3, <1>4 DEF Pos, A

\* Every position is that of a chunk.
LEMMA PosOnto ==
    ASSUME NEW x \in 1 .. (ArenaMax * ArenaChunks)
    PROVE  \E i \in Arenas, c \in Slot : x = Pos(i, c)
<1> DEFINE A == ArenaChunks
           i == (x - 1) \div A
           c == (x - 1) % A
<1>1. A \in Nat /\ A >= 2 /\ ArenaMax \in Nat /\ ArenaMax >= 1 /\ ArenaMax * A \in Nat
  BY ArenaAssumption
<1>2. x \in Nat /\ x >= 1 /\ x <= ArenaMax * A
  BY <1>1
<1>3. i \in Nat /\ c \in 0 .. (A - 1) /\ x - 1 = i * A + c
  <2>1. x - 1 \in Nat
    BY <1>2
  <2> QED BY <1>1, <2>1
<1> HIDE DEF A, i, c
<1>4. i < ArenaMax
  <2>1. \A k, m \in Nat : m <= k => m * A <= k * A
    BY <1>1
  <2>2. i * A \in Nat /\ i * A < ArenaMax * A
    BY <1>1, <1>2, <1>3
  <2> QED BY <1>1, <1>3, <2>1, <2>2
<1>5. i \in Arenas /\ c \in Slot /\ x = i * A + c + 1
  <2>1. i * A \in Nat
    BY <1>1, <1>3
  <2> QED BY <1>1, <1>2, <1>3, <1>4, <2>1 DEF Arenas, Slot, A
<1> QED BY <1>5 DEF Pos, A

\* A store to what is held of one chunk leaves the other chunks alone.
LEMMA HeldPut ==
    ASSUME TypeOK, NEW i \in Arenas, NEW c \in Slot, NEW v \in 0 .. ArenaChunks,
           held' = [held EXCEPT ![Pos(i, c)] = v]
    PROVE  /\ held' \in [1 .. (ArenaMax * ArenaChunks) -> 0 .. ArenaChunks]
           /\ held'[Pos(i, c)] = v
           /\ \A j \in Arenas, d \in Slot : j # i \/ d # c => held'[Pos(j, d)] = held[Pos(j, d)]
<1>1. /\ held \in [1 .. (ArenaMax * ArenaChunks) -> 0 .. ArenaChunks]
      /\ Pos(i, c) \in 1 .. (ArenaMax * ArenaChunks)
  BY PosIs DEF TypeOK
<1>2. \A j \in Arenas, d \in Slot :
         /\ Pos(j, d) \in 1 .. (ArenaMax * ArenaChunks)
         /\ j # i \/ d # c => Pos(j, d) # Pos(i, c)
  BY PosIs
<1> QED BY <1>1, <1>2

-----------------------------------------------------------------------------
(* The addresses of a process *)

\* Two indices name no segment in common.
LEMMA NamesApart ==
    ASSUME IInv, NEW i \in Index, NEW j \in Index,
           NEW s \in Names(i), s \in Names(j), s # 0
    PROVE  i = j
BY DEF IInv, OneIndex

\* get_or_update_arena_addr leaves an entry for the arena now at the index, with its
\* address unless a segment was lost.
LEMMA NewEntryIs ==
    ASSUME IInv, NEW p \in Proc, NEW i \in Index
    PROVE  /\ NewEntry(p, i) \in Entry
           /\ NewEntry(p, i).shmid = arena[i].shmid
           /\ NewEntry(p, i).addr \in {0, arena[i].shmid}
           /\ NewEntry(p, i).addr = 0 /\ arena[i].shmid # 0 => lost
<1>1. addrs[p][i] \in Entry /\ arena[i].shmid \in Shmid \cup {0} /\ i \in Arenas
  BY ArenaAssumption DEF IInv, TypeOK, Entry, Index, Arenas
<1>2. CASE addrs[p][i].shmid = arena[i].shmid
  BY <1>1, <1>2 DEF IInv, Entries, NewEntry
<1>3. CASE addrs[p][i].shmid # arena[i].shmid /\ is_arena_valid(i)
  <2>1. arena[i].shmid \in Listed /\ arena[i].shmid # 0
    BY <1>3 DEF Listed, IInv, Shape, is_arena_valid
  <2>2. mmap_arena(i) \in {0, arena[i].shmid} /\ (mmap_arena(i) = 0 => lost)
    BY <2>1 DEF IInv, Lossless, mmap_arena
  <2>3. NewEntry(p, i) = [addr |-> mmap_arena(i), shmid |-> arena[i].shmid]
    BY <1>3 DEF NewEntry
  <2> QED BY <1>1, <2>2, <2>3 DEF Entry
<1>4. CASE addrs[p][i].shmid # arena[i].shmid /\ ~is_arena_valid(i)
  <2>1. arena[i].shmid = 0 /\ NewEntry(p, i) = NoAddr
    BY <1>4 DEF IInv, Shape, EMPTY, NewEntry, is_arena_valid
  <2> QED BY <2>1 DEF NoAddr, Entry
<1> QED BY <1>2, <1>3, <1>4

\* The entries of a process after the updates for the arenas in T, and the segments it
\* is attached to then: those it has addresses of, and among them all of the table
\* that it was attached to.
LEMMA NewAddrsIs ==
    ASSUME IInv, NEW p \in Proc, NEW T \in SUBSET Index
    PROVE  /\ NewAddrs(p, T) \in [Index -> Entry]
           /\ \A i \in Index :
                LET e == NewAddrs(p, T)[i] IN
                /\ e.shmid \in {addrs[p][i].shmid, arena[i].shmid}
                /\ e.addr \in {0, e.shmid}
                /\ e.addr = 0 /\ e.shmid # 0 => lost
           /\ NewAttached(p, T) = {NewAddrs(p, T)[i].addr : i \in Index} \ {0}
           /\ NewAttached(p, T) \subseteq Shmid
           /\ Listed \cap attached[p] \subseteq NewAttached(p, T)
<1> DEFINE A == NewAddrs(p, T)
           gone == {addrs[p][i].addr : i \in {j \in T : Replaces(p, j)}}
           new == {NewEntry(p, i).addr : i \in T} \ {0}
<1>1. \A i \in Index : /\ addrs[p][i] \in Entry /\ addrs[p][i].addr \in {0, addrs[p][i].shmid}
                       /\ addrs[p][i].addr = 0 /\ addrs[p][i].shmid # 0 => lost
  BY DEF IInv, TypeOK, Entries, Entry
<1>2. attached[p] = {addrs[p][i].addr : i \in Index} \ {0}
  BY DEF IInv, Mapped
<1>3. A \in [Index -> Entry] /\ \A i \in Index : A[i] = IF i \in T THEN NewEntry(p, i) ELSE addrs[p][i]
  BY <1>1, NewEntryIs DEF NewAddrs
<1>4. \A i \in Index : /\ A[i].shmid \in {addrs[p][i].shmid, arena[i].shmid}
                       /\ A[i].addr \in {0, A[i].shmid}
                       /\ A[i].addr = 0 /\ A[i].shmid # 0 => lost
  BY <1>1, <1>3, NewEntryIs
<1>5. NewAttached(p, T) = (attached[p] \ gone) \cup new
  BY DEF NewAttached
<1>6. ASSUME NEW i \in Index, addrs[p][i].addr # 0, i \in T => ~Replaces(p, i)
      PROVE  A[i] = addrs[p][i]
  BY <1>1, <1>3, <1>6 DEF Replaces, NewEntry
<1>7. ASSUME NEW i \in Index, NEW j \in Index, addrs[p][i].addr = addrs[p][j].addr,
             addrs[p][i].addr # 0
      PROVE  i = j
  <2>1. addrs[p][i].addr \in Names(i) /\ addrs[p][i].addr \in Names(j)
    BY <1>1, <1>7 DEF Names
  <2> QED BY <1>7, <2>1, NamesApart
<1>8. ASSUME NEW x \in NewAttached(p, T)
      PROVE  x # 0 /\ \E i \in Index : x = A[i].addr
  <2>1. CASE x \in new
    BY <1>3, <2>1
  <2>2. CASE x \in attached[p] \ gone
    <3>1. PICK i \in Index : x = addrs[p][i].addr /\ x # 0
      BY <1>2, <2>2
    <3>2. i \in T => ~Replaces(p, i)
      BY <2>2, <3>1
    <3> QED BY <1>6, <3>1, <3>2
  <2> QED BY <1>5, <1>8, <2>1, <2>2
<1>9. ASSUME NEW i \in Index, A[i].addr # 0
      PROVE  A[i].addr \in NewAttached(p, T)
  <2>1. CASE i \in T
    BY <1>3, <1>5, <1>9, <2>1
  <2>2. CASE i \notin T
    <3>1. A[i] = addrs[p][i] /\ addrs[p][i].addr \in attached[p]
      BY <1>2, <1>3, <1>9, <2>2
    <3>2. addrs[p][i].addr \notin gone
      BY <1>7, <1>9, <2>2, <3>1
    <3> QED BY <1>5, <3>1, <3>2
  <2> QED BY <2>1, <2>2
<1>10. NewAttached(p, T) = {A[i].addr : i \in Index} \ {0}
  BY <1>8, <1>9
<1>11. NewAttached(p, T) \subseteq Shmid
  BY <1>3, <1>10 DEF Entry
<1>12. ASSUME NEW x \in Listed \cap attached[p]
       PROVE  x \in NewAttached(p, T)
  <2>1. PICK i \in Index : x = addrs[p][i].addr /\ x = addrs[p][i].shmid /\ x # 0
    BY <1>1, <1>2, <1>12
  <2>2. PICK j \in Index : x = arena[j].shmid
    BY <1>12 DEF Listed
  <2>3. i = j
    BY <2>1, <2>2, NamesApart DEF Names
  <2>4. A[i] = addrs[p][i]
    BY <1>6, <2>1, <2>2, <2>3 DEF Replaces
  <2> QED BY <1>9, <2>1, <2>4
<1> QED BY <1>3, <1>4, <1>10, <1>11, <1>12

\* A process replaces its entries by good ones, and is attached to what they name.
LEMMA LocalStep ==
    ASSUME IInv, NEW p \in Proc, NEW A \in [Index -> Entry], lost => lost',
           addrs' = [addrs EXCEPT ![p] = A],
           attached' = [attached EXCEPT ![p] = {A[i].addr : i \in Index} \ {0}],
           \A i \in Index : /\ A[i].addr \in {0, A[i].shmid}
                            /\ A[i].addr = 0 /\ A[i].shmid # 0 => lost'
    PROVE  /\ addrs' \in [Proc -> [Index -> Entry]] /\ attached' \in [Proc -> SUBSET Shmid]
           /\ Entries' /\ Mapped'
<1>1. /\ addrs' \in [Proc -> [Index -> Entry]] /\ addrs'[p] = A
      /\ \A q \in Proc \ {p} : addrs'[q] = addrs[q] /\ attached'[q] = attached[q]
      /\ attached'[p] = {A[i].addr : i \in Index} \ {0}
  BY DEF IInv, TypeOK, Entry
<1>2. {A[i].addr : i \in Index} \ {0} \subseteq Shmid
  BY DEF Entry
<1>3. attached' \in [Proc -> SUBSET Shmid]
  BY <1>2 DEF IInv, TypeOK
<1>4. Entries'
  BY <1>1 DEF IInv, Entries
<1>5. Mapped'
  <2> SUFFICES ASSUME NEW q \in Proc
               PROVE  attached'[q] = {addrs'[q][i].addr : i \in Index} \ {0}
    BY DEF Mapped
  <2>1. CASE q = p
    BY <1>1, <2>1
  <2>2. CASE q # p
    BY <1>1, <2>2 DEF IInv, Mapped
  <2> QED BY <2>1, <2>2
<1> QED BY <1>1, <1>3, <1>4, <1>5

\* A segment keeps its one index when nobody comes to name it.
LEMMA OneIndexKept ==
    ASSUME IInv, keyed' = keyed,
           \A i \in Index : /\ arena'[i].shmid \in {0, arena[i].shmid}
                            /\ \A p \in Proc : addrs'[p][i].shmid \in
                                                 {0, addrs[p][i].shmid, arena[i].shmid}
    PROVE  OneIndex'
<1>1. \A i \in Index : Names(i)' \subseteq Names(i) \cup {0}
  BY DEF Names
<1>2. \A i, j \in Index : i # j => Names(i)' \cap Names(j)' \subseteq {0}
  BY <1>1 DEF IInv, OneIndex
<1>3. \A i \in Index : keyed'[i] # 0 =>
         keyed'[i] # arena'[i].shmid /\ \A p \in Proc : addrs'[p][i].shmid # keyed'[i]
  BY DEF IInv, OneIndex
<1> QED BY <1>2, <1>3 DEF OneIndex

\* A segment exists while a process is attached to it or a key leads to it.
LEMMA ExistsIs ==
    /\ \A x : x \in Exists <=> x \in Keyed \/ \E q \in Proc : x \in attached[q] \/ x \in leaked[q]
    /\ \A x : x \in Exists' <=>
                x \in Keyed' \/ \E q \in Proc : x \in attached'[q] \/ x \in leaked'[q]
<1> DEFINE U == UNION {attached[p] \cup leaked[p] : p \in Proc}
<1>1. Exists = Keyed \cup U /\ Exists' = Keyed' \cup U'
  BY DEF Exists
<1>2. \A x : x \in U <=>
               \E q \in Proc : x \in attached[q] \/ x \in leaked[q]
  OBVIOUS
<1>3. \A x : x \in U' <=>
               \E q \in Proc : x \in attached'[q] \/ x \in leaked'[q]
  OBVIOUS
<1> HIDE DEF U
<1> QED BY <1>1, <1>2, <1>3

\* The segments of the table stay while the one process that goes on stays attached to
\* those it was attached to.
LEMMA LosslessKept ==
    ASSUME IInv, NEW p \in Proc, lost' = lost, keyed' = keyed, Listed' \subseteq Listed,
           \A q \in Proc : leaked[q] \subseteq leaked'[q],
           \A q \in Proc \ {p} : attached'[q] = attached[q],
           Listed' \cap attached[p] \subseteq attached'[p] \cup leaked'[p]
    PROVE  Lossless'
<1>1. Keyed' = Keyed
  BY DEF Keyed
<1>2. ASSUME NEW x \in Listed', x \in Exists
      PROVE  x \in Exists'
  <2>1. CASE x \in Keyed
    BY <1>1, <2>1, ExistsIs
  <2>2. CASE \E q \in Proc : x \in attached[q] \/ x \in leaked[q]
    <3>1. PICK q \in Proc : x \in attached[q] \/ x \in leaked[q]
      BY <2>2
    <3>2. x \in attached'[q] \/ x \in leaked'[q]
      BY <1>2, <3>1
    <3> QED BY <3>2, ExistsIs
  <2> QED BY <1>2, <2>1, <2>2, ExistsIs
<1> QED BY <1>2 DEF IInv, Lossless

\* The updates of a process, when the table keeps its segments.
LEMMA UpdateStep ==
    ASSUME IInv, NEW p \in Proc, NEW T \in SUBSET Index, Update(p, T),
           lost' = lost, keyed' = keyed,
           \A i \in Index : arena'[i].shmid = arena[i].shmid /\ arena'[i].type = arena[i].type
    PROVE  /\ addrs' \in [Proc -> [Index -> Entry]] /\ attached' \in [Proc -> SUBSET Shmid]
           /\ leaked' = leaked
           /\ OneIndex' /\ Entries' /\ Mapped' /\ Lossless'
<1> DEFINE A == NewAddrs(p, T)
<1>1. /\ addrs' = [addrs EXCEPT ![p] = A]
      /\ attached' = [attached EXCEPT ![p] = NewAttached(p, T)] /\ leaked' = leaked
  BY DEF Update
<1>2. /\ A \in [Index -> Entry]
      /\ \A i \in Index : /\ A[i].shmid \in {addrs[p][i].shmid, arena[i].shmid}
                          /\ A[i].addr \in {0, A[i].shmid}
                          /\ A[i].addr = 0 /\ A[i].shmid # 0 => lost
      /\ NewAttached(p, T) = {A[i].addr : i \in Index} \ {0}
      /\ Listed \cap attached[p] \subseteq NewAttached(p, T)
  BY NewAddrsIs
<1> HIDE DEF A
<1>3. /\ addrs' \in [Proc -> [Index -> Entry]] /\ attached' \in [Proc -> SUBSET Shmid]
      /\ Entries' /\ Mapped'
  BY <1>1, <1>2, LocalStep
<1>4. \A q \in Proc, i \in Index : addrs'[q][i].shmid \in {0, addrs[q][i].shmid, arena[i].shmid}
  BY <1>1, <1>2 DEF IInv, TypeOK
<1>5. OneIndex'
  BY <1>4, OneIndexKept
<1>6. Listed' = Listed
  BY DEF Listed, is_arena_valid
<1>7. /\ attached'[p] = NewAttached(p, T)
      /\ \A q \in Proc \ {p} : attached'[q] = attached[q]
  BY <1>1 DEF IInv, TypeOK
<1>8. Lossless'
  BY <1>1, <1>2, <1>6, <1>7, LosslessKept
<1> QED BY <1>1, <1>3, <1>5, <1>8

\* A process ends.  What it dies of with the mutex locked needs a loss, unless it was
\* killed or freed a large arena.
LEMMA LeavesStep ==
    ASSUME IInv, NEW p \in Proc, Leaves(p), locked' \in BOOLEAN,
           why' \in {"alive", "killed", "entry", "address", "large"},
           why' \in {"entry", "address"} => lost
    PROVE  IInv'
<1> DEFINE A == [i \in Index |-> NoAddr]
<1>1. /\ running' = running \ {p} /\ addrs' = [addrs EXCEPT ![p] = A]
      /\ attached' = [attached EXCEPT ![p] = {}] /\ leaked' = [leaked EXCEPT ![p] = {}]
      /\ UNCHANGED <<arena, keyed, held>>
      /\ lost' = (lost \/ ~(Listed \subseteq Exists'))
  BY DEF Leaves
<1>2. /\ A \in [Index -> Entry]
      /\ \A i \in Index : A[i].addr = 0 /\ A[i].shmid = 0
      /\ {A[i].addr : i \in Index} \ {0} = {}
  BY DEF NoAddr, Entry
<1> HIDE DEF A
<1>3. /\ addrs' \in [Proc -> [Index -> Entry]] /\ attached' \in [Proc -> SUBSET Shmid]
      /\ Entries' /\ Mapped'
  BY <1>1, <1>2, LocalStep
<1>4. TypeOK'
  <2>1. leaked' \in [Proc -> SUBSET Shmid] /\ lost' \in BOOLEAN /\ running' \subseteq Proc
    BY <1>1 DEF IInv, TypeOK
  <2> QED BY <1>1, <1>3, <2>1 DEF IInv, TypeOK, Entry
<1>5. OneIndex'
  <2>1. \A q \in Proc, i \in Index : addrs'[q][i].shmid \in {0, addrs[q][i].shmid, arena[i].shmid}
    BY <1>1, <1>2 DEF IInv, TypeOK
  <2> QED BY <1>1, <2>1, OneIndexKept
<1>6. Lossless'
  <2>1. Listed' = Listed
    BY <1>1 DEF Listed, is_arena_valid
  <2> QED BY <1>1, <2>1 DEF Lossless
<1>7. Shape' /\ Counts' /\ HeldIsTable'
  BY <1>1 DEF IInv, Shape, Counts, HeldIsTable, Share
<1>8. DeathNeedsLoss'
  BY <1>1 DEF DeathNeedsLoss
<1> QED BY <1>3, <1>4, <1>5, <1>6, <1>7, <1>8 DEF IInv

\* A NULL address is found, for an arena of the table, only after a loss.
LEMMA NullNeedsLoss ==
    ASSUME IInv, NEW p \in Proc
    PROVE  /\ \A i \in Index : ~EntryAssert(p, i) => lost
           /\ \A T \in SUBSET Index : (\A i \in T : is_arena_valid(i)) /\ ~CanUse(p, T) => lost
<1>1. \A i \in Index : ~EntryAssert(p, i) => lost
  BY DEF IInv, Entries, EntryAssert, Replaces
<1>2. \A i \in Index : is_arena_valid(i) => arena[i].shmid # 0
  BY DEF IInv, Shape, is_arena_valid
<1>3. \A i \in Index : is_arena_valid(i) /\ NewEntry(p, i).addr = 0 => lost
  BY <1>2, NewEntryIs
<1> QED BY <1>1, <1>3 DEF CanUse

\* The chunks of an arena: how many there are, and how that changes.
LEMMA ChunksFinite ==
    ASSUME NEW S \in SUBSET Slot
    PROVE  /\ IsFiniteSet(S) /\ Cardinality(S) \in 0 .. ArenaChunks
           /\ Cardinality(S) = 0 <=> S = {}
<1>1. IsFiniteSet(Slot) /\ Cardinality(Slot) = ArenaChunks
  BY ArenaAssumption, FS_Interval DEF Slot
<1>2. IsFiniteSet(S) /\ Cardinality(S) \in Nat /\ Cardinality(S) <= ArenaChunks
  BY <1>1, FS_Subset, FS_CardinalityType
<1>3. Cardinality(S) = 0 <=> S = {}
  BY <1>2, FS_EmptySet
<1> QED BY ArenaAssumption, <1>2, <1>3

-----------------------------------------------------------------------------
(* The operations *)

\* shm_init maps what there is.
LEMMA InitStep ==
    ASSUME IInv, NEW p \in Proc, shm_init(p)
    PROVE  IInv'
<1> DEFINE A == [i \in Index |->
                   IF is_arena_valid(i) THEN [addr |-> mmap_arena(i), shmid |-> arena[i].shmid]
                                        ELSE NoAddr]
           S == {mmap_arena(i) : i \in {j \in Index : is_arena_valid(j)}} \ {0}
<1>1. /\ running' = running \cup {p} /\ addrs' = [addrs EXCEPT ![p] = A]
      /\ attached' = [attached EXCEPT ![p] = S]
      /\ UNCHANGED <<locked, arena, leaked, keyed, held, why, lost>>
  BY DEF shm_init
<1>2. ASSUME NEW i \in Index
      PROVE  /\ A[i] \in Entry /\ A[i].shmid \in {0, arena[i].shmid}
             /\ A[i].addr \in {0, A[i].shmid}
             /\ A[i].addr = 0 /\ A[i].shmid # 0 => lost
             /\ is_arena_valid(i) => A[i].addr = mmap_arena(i)
             /\ ~is_arena_valid(i) => A[i].addr = 0
  <2>1. CASE is_arena_valid(i)
    <3>1. arena[i].shmid \in Listed /\ arena[i].shmid \in Shmid \cup {0}
      BY ArenaAssumption, <2>1 DEF Listed, IInv, TypeOK, Index
    <3>2. mmap_arena(i) \in {0, arena[i].shmid} /\ (mmap_arena(i) = 0 => lost \/ arena[i].shmid = 0)
      BY <3>1 DEF IInv, Lossless, mmap_arena
    <3>3. A[i] = [addr |-> mmap_arena(i), shmid |-> arena[i].shmid]
      BY <2>1
    <3> QED BY <2>1, <3>1, <3>2, <3>3 DEF Entry
  <2>2. CASE ~is_arena_valid(i)
    BY <2>2 DEF NoAddr, Entry
  <2> QED BY <2>1, <2>2
<1>3. A \in [Index -> Entry]
  BY <1>2
<1> HIDE DEF A
<1>4. S = {A[i].addr : i \in Index} \ {0}
  BY <1>2
<1>5. Listed \cap attached[p] \subseteq S
  <2> SUFFICES ASSUME NEW x \in Listed, x \in attached[p]
               PROVE  x \in S
    OBVIOUS
  <2>1. PICK i \in Index : is_arena_valid(i) /\ x = arena[i].shmid
    BY DEF Listed
  <2>2. x \in Exists /\ x # 0
    BY ExistsIs DEF IInv, Mapped
  <2> QED BY <2>1, <2>2 DEF mmap_arena
<1> HIDE DEF S
<1>6. /\ addrs' \in [Proc -> [Index -> Entry]] /\ attached' \in [Proc -> SUBSET Shmid]
      /\ Entries' /\ Mapped'
  BY <1>1, <1>2, <1>3, <1>4, LocalStep
<1>7. OneIndex'
  <2>1. \A q \in Proc, i \in Index : addrs'[q][i].shmid \in {0, addrs[q][i].shmid, arena[i].shmid}
    BY <1>1, <1>2 DEF IInv, TypeOK
  <2> QED BY <1>1, <2>1, OneIndexKept
<1>8. Lossless'
  <2>1. Listed' = Listed
    BY <1>1 DEF Listed, is_arena_valid
  <2>2. attached'[p] = S /\ \A q \in Proc \ {p} : attached'[q] = attached[q]
    BY <1>1 DEF IInv, TypeOK
  <2> QED BY <1>1, <1>5, <2>1, <2>2, LosslessKept
<1>9. TypeOK'
  BY <1>1, <1>6 DEF IInv, TypeOK, Entry
<1>10. Shape' /\ Counts' /\ HeldIsTable' /\ DeathNeedsLoss'
  BY <1>1 DEF IInv, Shape, Counts, HeldIsTable, Share, DeathNeedsLoss
<1> QED BY <1>6, <1>7, <1>8, <1>9, <1>10 DEF IInv

\* A call that leaves the table alone.
LEMMA UseStep ==
    ASSUME IInv, NEW p \in Proc, NEW T \in SUBSET Index, Update(p, T),
           UNCHANGED <<running, locked, arena, keyed, held, why, lost>>
    PROVE  IInv'
<1>1. /\ addrs' \in [Proc -> [Index -> Entry]] /\ attached' \in [Proc -> SUBSET Shmid]
      /\ leaked' = leaked /\ OneIndex' /\ Entries' /\ Mapped' /\ Lossless'
  BY UpdateStep
<1>2. TypeOK'
  BY <1>1 DEF IInv, TypeOK, Entry
<1>3. Shape' /\ Counts' /\ HeldIsTable' /\ DeathNeedsLoss'
  BY DEF IInv, Shape, Counts, HeldIsTable, Share, DeathNeedsLoss
<1> QED BY <1>1, <1>2, <1>3 DEF IInv

\* A chunk of the context's arena is given out.
LEMMA ContextStep ==
    ASSUME IInv, NEW p \in Proc, NEW T \in SUBSET Index, new_chunk_context(p, T), CanUse(p, T)
    PROVE  IInv'
<1> DEFINE c == Min(FreeSlots)
           old == arena[0]
<1>1. c \in Slot /\ c >= 1 /\ c \notin old.chunks
  <2>1. FreeSlots \in SUBSET Nat /\ FreeSlots # {}
    BY ArenaAssumption DEF FreeSlots, Slot, new_chunk_context
  <2>2. c \in FreeSlots
    BY <2>1, MinIs
  <2> QED BY <2>2 DEF FreeSlots
<1>2. /\ arena' = [arena EXCEPT ![0].chunks = @ \cup {c}, ![0].used = @ + 1]
      /\ Update(p, T) /\ held' = [held EXCEPT ![Pos(0, c)] = 1]
      /\ UNCHANGED <<running, locked, keyed, why, lost>>
  BY DEF new_chunk_context
<1> HIDE DEF c
<1>3. 0 \in Arenas /\ \A i \in Index : i \in Arenas /\ i # 0
  BY ArenaAssumption DEF Arenas, Index
<1>4. /\ old.chunks \in SUBSET Slot /\ old.used = Cardinality(old.chunks)
      /\ old.type = "CONTEXT" /\ 0 \in old.chunks
  BY <1>3 DEF IInv, TypeOK, Counts, Shape, Arenas
<1>5. /\ arena'[0] = [old EXCEPT !.chunks = @ \cup {c}, !.used = @ + 1]
      /\ \A i \in Arenas : i # 0 => arena'[i] = arena[i]
  BY <1>2, <1>3 DEF IInv, TypeOK, Arenas
<1>6. arena'[0].chunks = old.chunks \cup {c} /\ arena'[0].used = old.used + 1
      /\ arena'[0].type = old.type
  BY <1>3, <1>5 DEF IInv, TypeOK, Arenas
<1>7. Cardinality(old.chunks \cup {c}) = old.used + 1 /\ old.used + 1 \in 0 .. ArenaChunks
  <2>1. IsFiniteSet(old.chunks) /\ old.chunks \cup {c} \in SUBSET Slot
    BY <1>1, <1>4, ChunksFinite
  <2>2. Cardinality(old.chunks \cup {c}) = Cardinality(old.chunks) + 1
    BY <1>1, <2>1, FS_AddElement
  <2> QED BY <1>4, <2>1, <2>2, ChunksFinite
<1>8. /\ addrs' \in [Proc -> [Index -> Entry]] /\ attached' \in [Proc -> SUBSET Shmid]
      /\ leaked' = leaked /\ OneIndex' /\ Entries' /\ Mapped' /\ Lossless'
  BY <1>2, <1>3, <1>5, UpdateStep
<1>9. /\ held' \in [1 .. (ArenaMax * ArenaChunks) -> 0 .. ArenaChunks]
      /\ held'[Pos(0, c)] = 1
      /\ \A j \in Arenas, d \in Slot : j # 0 \/ d # c => held'[Pos(j, d)] = held[Pos(j, d)]
  <2>1. 1 \in 0 .. ArenaChunks /\ TypeOK
    BY ArenaAssumption DEF IInv
  <2> QED BY <1>1, <1>2, <1>3, <2>1, HeldPut
<1>10. TypeOK'
  <2>1. arena' \in [Arenas -> [type : {"EMPTY", "CONTEXT", "CHUNK", "LARGE"},
                      shmid : Shmid \cup {0}, chunks : SUBSET Slot, used : 0 .. ArenaChunks]]
    BY <1>1, <1>2, <1>3, <1>4, <1>7 DEF IInv, TypeOK, Arenas
  <2> QED BY <1>2, <1>8, <1>9, <2>1 DEF IInv, TypeOK, Entry, Arenas
<1>11. Shape'
  BY <1>3, <1>4, <1>5, <1>6 DEF IInv, Shape
<1>12. Counts'
  BY <1>5, <1>6, <1>7 DEF IInv, Counts
<1>13. HeldIsTable'
  <2> SUFFICES ASSUME NEW i \in Arenas, NEW d \in Slot
               PROVE  held'[Pos(i, d)] = Share(i, d)'
    BY DEF HeldIsTable
  <2>1. CASE i # 0
    BY <1>5, <1>9, <2>1 DEF IInv, HeldIsTable, Share
  <2>2. CASE i = 0 /\ d = c
    BY <1>1, <1>4, <1>6, <1>9, <2>2 DEF Share
  <2>3. CASE i = 0 /\ d # c
    BY <1>4, <1>6, <1>9, <2>3 DEF IInv, HeldIsTable, Share
  <2> QED BY <2>1, <2>2, <2>3
<1>14. DeathNeedsLoss'
  BY <1>2 DEF IInv, DeathNeedsLoss
<1> QED BY <1>8, <1>10, <1>11, <1>12, <1>13, <1>14 DEF IInv

\* A process has the address of a segment at one index only, after the updates too.
LEMMA NewAddrsApart ==
    ASSUME IInv, NEW p \in Proc, NEW T \in SUBSET Index, NEW i \in Index, NEW j \in Index,
           NewAddrs(p, T)[i].addr = NewAddrs(p, T)[j].addr, NewAddrs(p, T)[i].addr # 0
    PROVE  i = j
<1> DEFINE A == NewAddrs(p, T)
<1>1. \A k \in Index : A[k].shmid \in {addrs[p][k].shmid, arena[k].shmid} /\ A[k].addr \in {0, A[k].shmid}
  BY NewAddrsIs
<1>2. \A k \in Index : A[k].addr # 0 => A[k].addr \in Names(k)
  BY <1>1 DEF Names
<1> QED BY <1>2, NamesApart

\* The table and the key of an index do not name the same segment.
LEMMA ListedNotKeyed ==
    ASSUME IInv
    PROVE  Listed \cap Keyed = {}
<1> SUFFICES ASSUME NEW i \in Index, NEW j \in Index,
                    arena[i].shmid = keyed[j], keyed[j] # 0
             PROVE  FALSE
  BY DEF Listed, Keyed
<1>1. i = j
  BY NamesApart DEF Names
<1> QED BY <1>1 DEF IInv, OneIndex

\* The segment that shmget returns for an empty index is not known elsewhere, nor to
\* any process.
LEMMA ShmgetIs ==
    ASSUME IInv, NEW i \in Index, NEW s \in Shmid, shmget(i, s)
    PROVE  /\ s # 0
           /\ \A j \in Index : arena[j].shmid # s
           /\ \A j \in Index : j # i => keyed[j] # s
           /\ \A q \in Proc, j \in Index : addrs[q][j].shmid # s
<1>1. s # 0
  BY ArenaAssumption
<1>2. CASE keyed[i] # 0
  <2>1. s = keyed[i] /\ s \in Names(i)
    BY <1>2 DEF shmget, Names
  <2>2. \A j \in Index : j # i => s \notin Names(j)
    BY <1>1, <2>1, NamesApart
  <2>3. s # arena[i].shmid /\ \A q \in Proc : addrs[q][i].shmid # s
    BY <1>2, <2>1 DEF IInv, OneIndex
  <2> QED BY <1>1, <2>2, <2>3 DEF Names
<1>3. CASE keyed[i] = 0
  <2>1. /\ s \notin Exists /\ s \notin Listed
        /\ \A q \in Proc, j \in Index : addrs[q][j].shmid # s
    BY <1>3 DEF shmget, Fresh
  <2>2. \A j \in Index : keyed[j] # s
    BY <1>1, <2>1, ExistsIs DEF Keyed
  <2>3. \A j \in Index : arena[j].shmid # s
    BY <1>1, <2>1 DEF Listed, is_arena_valid, IInv, Shape, EMPTY
  <2> QED BY <1>1, <2>1, <2>2, <2>3
<1> QED BY <1>2, <1>3

\* new_arena at an index that is empty.
LEMMA NewArenaStep ==
    ASSUME IInv, NEW p \in Proc, NEW T \in SUBSET ChunkArenas, NEW s \in Shmid,
           NEW t \in {"LARGE", "CHUNK"}, NEW chunks,
           chunks = IF t = "LARGE" THEN {} ELSE {0},
           EmptyIndex # {}, new_arena(p, s, t, chunks, T)
    PROVE  IInv'
<1>1. PICK i \in Index : i = Min(EmptyIndex) /\ i \in EmptyIndex
  <2>1. EmptyIndex \in SUBSET Nat
    BY ArenaAssumption DEF EmptyIndex, Index
  <2> QED BY <2>1, MinIs DEF EmptyIndex
<1> DEFINE N == NewAddrs(p, T)
           A == [N EXCEPT ![i] = [addr |-> s, shmid |-> s]]
           old == {addrs[p][i].addr} \ {0}
           v == IF t = "LARGE" THEN ArenaChunks ELSE 1
<1>2. /\ shmget(i, s)
      /\ arena' = [arena EXCEPT ![i] = [type |-> t, shmid |-> s, chunks |-> chunks,
                                        used |-> Cardinality(chunks)]]
      /\ addrs' = [addrs EXCEPT ![p] = A]
      /\ attached' = [attached EXCEPT ![p] = (NewAttached(p, T) \ old) \cup {s}]
      /\ leaked' = [leaked EXCEPT ![p] = @ \cup old]
      /\ keyed' = [keyed EXCEPT ![i] = 0] /\ held' = [held EXCEPT ![Pos(i, 0)] = v]
      /\ UNCHANGED <<running, locked, why, lost>>
  BY <1>1 DEF new_arena
<1>3. /\ s # 0 /\ \A j \in Index : arena[j].shmid # s /\ (j # i => keyed[j] # s)
      /\ \A q \in Proc, j \in Index : addrs[q][j].shmid # s
  BY <1>2, ShmgetIs
<1>4. /\ T \in SUBSET Index /\ i \notin T /\ i \in Arenas /\ i # 0 /\ 0 \in Slot
      /\ arena[i] = EMPTY
  BY ArenaAssumption, <1>1
     DEF ChunkArenas, EmptyIndex, Index, Arenas, Slot, IInv, Shape
<1>5. /\ N \in [Index -> Entry] /\ N[i] = addrs[p][i]
      /\ \A j \in Index : /\ N[j].shmid \in {addrs[p][j].shmid, arena[j].shmid}
                          /\ N[j].addr \in {0, N[j].shmid}
                          /\ N[j].addr = 0 /\ N[j].shmid # 0 => lost
      /\ NewAttached(p, T) = {N[j].addr : j \in Index} \ {0}
      /\ NewAttached(p, T) \subseteq Shmid
      /\ Listed \cap attached[p] \subseteq NewAttached(p, T)
      /\ \A j, k \in Index : N[j].addr = N[k].addr /\ N[j].addr # 0 => j = k
  <2>1. N[i] = addrs[p][i]
    BY <1>4 DEF NewAddrs
  <2> QED BY <1>4, <2>1, NewAddrsIs, NewAddrsApart
<1> HIDE DEF N
<1>6. /\ A \in [Index -> Entry] /\ A[i].addr = s /\ A[i].shmid = s
      /\ \A j \in Index : j # i => A[j] = N[j]
  BY <1>5 DEF Entry
<1> HIDE DEF A
<1>7. (NewAttached(p, T) \ old) \cup {s} = {A[j].addr : j \in Index} \ {0}
  <2>1. \A j \in Index : j # i /\ N[j].addr # 0 => N[j].addr \notin old
    BY <1>5
  <2> QED BY <1>3, <1>5, <1>6, <2>1
<1>8. /\ addrs' \in [Proc -> [Index -> Entry]] /\ attached' \in [Proc -> SUBSET Shmid]
      /\ Entries' /\ Mapped'
  <2>1. \A j \in Index : A[j].addr \in {0, A[j].shmid} /\ (A[j].addr = 0 /\ A[j].shmid # 0 => lost)
    BY <1>3, <1>5, <1>6
  <2> QED BY <1>2, <1>6, <1>7, <2>1, LocalStep
<1>9. /\ arena'[i] = [type |-> t, shmid |-> s, chunks |-> chunks, used |-> Cardinality(chunks)]
      /\ \A j \in Arenas : j # i => arena'[j] = arena[j]
  BY <1>2, <1>4 DEF IInv, TypeOK, Arenas
<1>10. /\ keyed'[i] = 0 /\ \A j \in Index : j # i => keyed'[j] = keyed[j]
       /\ addrs'[p] = A /\ \A q \in Proc : q # p => addrs'[q] = addrs[q]
  BY <1>2 DEF IInv, TypeOK
<1>11. \A j \in Index : j \in Arenas /\ j # 0
  BY ArenaAssumption DEF Index, Arenas
<1>12. OneIndex'
  <2>1. Names(i)' \subseteq Names(i) \cup {0, s}
    <3>1. \A q \in Proc : addrs'[q][i].shmid \in Names(i) \cup {s}
      BY <1>6, <1>10 DEF Names
    <3> QED BY <1>9, <1>10, <3>1 DEF Names
  <2>2. ASSUME NEW j \in Index, j # i
        PROVE  Names(j)' \subseteq Names(j) /\ s \notin Names(j)
    <3>1. \A q \in Proc : addrs'[q][j].shmid \in Names(j)
      BY <1>5, <1>6, <1>10, <2>2 DEF Names
    <3>2. s \notin Names(j)
      BY <1>3, <2>2 DEF Names
    <3> QED BY <1>9, <1>10, <1>11, <2>2, <3>1, <3>2 DEF Names
  <2>3. \A j, k \in Index : j # k => Names(j)' \cap Names(k)' \subseteq {0}
    BY <2>1, <2>2 DEF IInv, OneIndex
  <2>4. ASSUME NEW j \in Index, keyed'[j] # 0
        PROVE  keyed'[j] # arena'[j].shmid /\ \A q \in Proc : addrs'[q][j].shmid # keyed'[j]
    <3>1. j # i /\ keyed'[j] = keyed[j] /\ arena'[j] = arena[j]
      BY <1>9, <1>10, <1>11, <2>4
    <3>2. \A q \in Proc : addrs'[q][j].shmid \in {addrs[q][j].shmid, arena[j].shmid}
      BY <1>5, <1>6, <1>10, <3>1
    <3> QED BY <2>4, <3>1, <3>2 DEF IInv, OneIndex
  <2> QED BY <2>3, <2>4 DEF OneIndex
<1>13. Lossless'
  <2>1. Listed' \subseteq Listed \cup {s}
    BY <1>9, <1>11 DEF Listed, is_arena_valid
  <2>2. s \in attached'[p]
    BY <1>2 DEF IInv, TypeOK
  <2>3. ASSUME NEW x \in Listed, x \in Exists
        PROVE  x \in Exists'
    <3>1. x \notin Keyed
      BY <2>3, ListedNotKeyed
    <3>2. PICK q \in Proc : x \in attached[q] \/ x \in leaked[q]
      BY <2>3, <3>1, ExistsIs
    <3>3. x \in attached'[q] \/ x \in leaked'[q]
      BY <1>2, <1>5, <2>3, <3>2 DEF IInv, TypeOK
    <3> QED BY <3>3, ExistsIs
  <2>4. s \in Exists'
    BY <2>2, ExistsIs
  <2> QED BY <1>2, <2>1, <2>3, <2>4 DEF IInv, Lossless
<1>14. chunks \in SUBSET Slot /\ Cardinality(chunks) = IF t = "LARGE" THEN 0 ELSE 1
  BY <1>4, FS_EmptySet, FS_Singleton
<1>15. /\ held' \in [1 .. (ArenaMax * ArenaChunks) -> 0 .. ArenaChunks]
       /\ held'[Pos(i, 0)] = v
       /\ \A j \in Arenas, d \in Slot : j # i \/ d # 0 => held'[Pos(j, d)] = held[Pos(j, d)]
  <2>1. v \in 0 .. ArenaChunks /\ TypeOK
    BY ArenaAssumption DEF IInv
  <2> HIDE DEF v
  <2> QED BY <1>2, <1>4, <2>1, HeldPut
<1>16. TypeOK'
  <2>1. arena' \in [Arenas -> [type : {"EMPTY", "CONTEXT", "CHUNK", "LARGE"},
                      shmid : Shmid \cup {0}, chunks : SUBSET Slot, used : 0 .. ArenaChunks]]
    <3>1. Cardinality(chunks) \in 0 .. ArenaChunks
      BY <1>14, ChunksFinite
    <3> QED BY <1>2, <1>14, <3>1 DEF IInv, TypeOK, Arenas
  <2>2. leaked' \in [Proc -> SUBSET Shmid]
    <3>1. old \subseteq Shmid
      BY DEF IInv, TypeOK
    <3> QED BY <1>2, <3>1 DEF IInv, TypeOK
  <2>3. keyed' \in [Index -> Shmid \cup {0}]
    BY <1>2 DEF IInv, TypeOK
  <2> QED BY <1>2, <1>8, <1>15, <2>1, <2>2, <2>3 DEF IInv, TypeOK, Entry, Arenas
<1>17. Shape'
  <2>1. 0 \in Arenas
    BY ArenaAssumption DEF Arenas
  <2> QED BY <1>3, <1>4, <1>9, <1>11, <1>14, <2>1 DEF IInv, Shape
<1>18. Counts'
  <2>1. arena'[i].used = Cardinality(chunks) /\ arena'[i].chunks = chunks
    BY <1>9
  <2>2. \A j \in Arenas : j # i => arena'[j].used = Cardinality(arena'[j].chunks)
    BY <1>9 DEF IInv, Counts
  <2> QED BY <2>1, <2>2 DEF Counts
<1>19. HeldIsTable'
  <2> SUFFICES ASSUME NEW j \in Arenas, NEW d \in Slot
               PROVE  held'[Pos(j, d)] = Share(j, d)'
    BY DEF HeldIsTable
  <2>1. CASE j # i
    BY <1>9, <1>15, <2>1 DEF IInv, HeldIsTable, Share
  <2>2. CASE j = i /\ d = 0
    BY <1>4, <1>9, <1>15, <2>2 DEF Share
  <2>3. CASE j = i /\ d # 0
    <3>1. held[Pos(j, d)] = 0
      BY <1>4, <2>3 DEF IInv, HeldIsTable, Share, EMPTY
    <3> QED BY <1>4, <1>9, <1>15, <2>3, <3>1 DEF Share
  <2> QED BY <2>1, <2>2, <2>3
<1>20. DeathNeedsLoss'
  BY <1>2 DEF IInv, DeathNeedsLoss
<1> QED BY <1>8, <1>12, <1>13, <1>16, <1>17, <1>18, <1>19, <1>20 DEF IInv

\* new_arena that gives up leaves the segment under the key of the index.
LEMMA NewArenaFailsStep ==
    ASSUME IInv, NEW p \in Proc, NEW T \in SUBSET ChunkArenas, NEW s \in Shmid,
           EmptyIndex # {}, new_arena_fails(p, s, T)
    PROVE  IInv'
<1>1. PICK i \in Index : i = Min(EmptyIndex) /\ i \in EmptyIndex
  <2>1. EmptyIndex \in SUBSET Nat
    BY ArenaAssumption DEF EmptyIndex, Index
  <2> QED BY <2>1, MinIs DEF EmptyIndex
<1> DEFINE N == NewAddrs(p, T)
<1>2. /\ shmget(i, s) /\ keyed' = [keyed EXCEPT ![i] = s]
      /\ addrs' = [addrs EXCEPT ![p] = N]
      /\ attached' = [attached EXCEPT ![p] = NewAttached(p, T)]
      /\ leaked' = [leaked EXCEPT ![p] = @ \cup {s}] \/ leaked' = leaked
      /\ UNCHANGED <<running, locked, arena, held, why, lost>>
  BY <1>1 DEF new_arena_fails
<1>3. /\ s # 0 /\ \A j \in Index : arena[j].shmid # s /\ (j # i => keyed[j] # s)
      /\ \A q \in Proc, j \in Index : addrs[q][j].shmid # s
  BY <1>2, ShmgetIs
<1>4. T \in SUBSET Index
  BY DEF ChunkArenas
<1>5. /\ N \in [Index -> Entry]
      /\ \A j \in Index : /\ N[j].shmid \in {addrs[p][j].shmid, arena[j].shmid}
                          /\ N[j].addr \in {0, N[j].shmid}
                          /\ N[j].addr = 0 /\ N[j].shmid # 0 => lost
      /\ NewAttached(p, T) = {N[j].addr : j \in Index} \ {0}
      /\ Listed \cap attached[p] \subseteq NewAttached(p, T)
  BY <1>4, NewAddrsIs
<1> HIDE DEF N
<1>6. /\ addrs' \in [Proc -> [Index -> Entry]] /\ attached' \in [Proc -> SUBSET Shmid]
      /\ Entries' /\ Mapped'
  BY <1>2, <1>5, LocalStep
<1>7. /\ keyed'[i] = s /\ \A j \in Index : j # i => keyed'[j] = keyed[j]
      /\ \A q \in Proc, j \in Index : addrs'[q][j].shmid \in {addrs[q][j].shmid, arena[j].shmid}
  BY <1>2, <1>5 DEF IInv, TypeOK
<1>8. OneIndex'
  <2>1. Names(i)' \subseteq Names(i) \cup {s}
    BY <1>2, <1>7 DEF Names
  <2>2. \A j \in Index : j # i => Names(j)' \subseteq Names(j) /\ s \notin Names(j)
    BY <1>2, <1>3, <1>7 DEF Names
  <2>3. \A j, k \in Index : j # k => Names(j)' \cap Names(k)' \subseteq {0}
    BY <2>1, <2>2 DEF IInv, OneIndex
  <2>4. \A j \in Index : keyed'[j] # 0 =>
           keyed'[j] # arena[j].shmid /\ \A q \in Proc : addrs'[q][j].shmid # keyed'[j]
    BY <1>3, <1>7 DEF IInv, OneIndex
  <2> QED BY <1>2, <2>3, <2>4 DEF OneIndex
<1>9. Lossless'
  <2>1. Listed' = Listed
    BY <1>2 DEF Listed, is_arena_valid
  <2>2. ASSUME NEW x \in Listed, x \in Exists
        PROVE  x \in Exists'
    <3>1. x \notin Keyed
      BY <2>2, ListedNotKeyed
    <3>2. PICK q \in Proc : x \in attached[q] \/ x \in leaked[q]
      BY <2>2, <3>1, ExistsIs
    <3>3. x \in attached'[q] \/ x \in leaked'[q]
      BY <1>2, <1>5, <2>2, <3>2 DEF IInv, TypeOK
    <3> QED BY <3>3, ExistsIs
  <2> QED BY <1>2, <2>1, <2>2 DEF IInv, Lossless
<1>10. TypeOK'
  <2>1. leaked' \in [Proc -> SUBSET Shmid] /\ keyed' \in [Index -> Shmid \cup {0}]
    BY <1>2 DEF IInv, TypeOK
  <2> QED BY <1>2, <1>6, <2>1 DEF IInv, TypeOK, Entry
<1>11. Shape' /\ Counts' /\ HeldIsTable' /\ DeathNeedsLoss'
  BY <1>2 DEF IInv, Shape, Counts, HeldIsTable, Share, DeathNeedsLoss
<1> QED BY <1>6, <1>8, <1>9, <1>10, <1>11 DEF IInv

\* delete_arena of the arena at index i, whose last caller gives back chunk c.
LEMMA DeleteStep ==
    ASSUME IInv, NEW p \in Proc, NEW T \in SUBSET Index, NEW i \in Index, NEW c \in Slot,
           delete_arena(p, i, T), held' = [held EXCEPT ![Pos(i, c)] = 0],
           \A d \in Slot : d # c => held[Pos(i, d)] = 0,
           UNCHANGED <<running, locked, keyed, why, lost>>
    PROVE  IInv'
<1> DEFINE N == NewAddrs(p, T)
           A == [N EXCEPT ![i] = NoAddr]
<1>1. /\ arena' = [arena EXCEPT ![i] = EMPTY] /\ addrs' = [addrs EXCEPT ![p] = A]
      /\ attached' = [attached EXCEPT ![p] = NewAttached(p, T) \ {N[i].addr}]
      /\ leaked' = leaked
  BY DEF delete_arena
<1>2. /\ N \in [Index -> Entry]
      /\ \A j \in Index : /\ N[j].shmid \in {addrs[p][j].shmid, arena[j].shmid}
                          /\ N[j].addr \in {0, N[j].shmid}
                          /\ N[j].addr = 0 /\ N[j].shmid # 0 => lost
      /\ NewAttached(p, T) = {N[j].addr : j \in Index} \ {0}
      /\ Listed \cap attached[p] \subseteq NewAttached(p, T)
      /\ \A j, k \in Index : N[j].addr = N[k].addr /\ N[j].addr # 0 => j = k
  BY NewAddrsIs, NewAddrsApart
<1> HIDE DEF N
<1>3. /\ A \in [Index -> Entry] /\ A[i] = NoAddr /\ \A j \in Index : j # i => A[j] = N[j]
  BY <1>2 DEF Entry, NoAddr
<1> HIDE DEF A
<1>4. NewAttached(p, T) \ {N[i].addr} = {A[j].addr : j \in Index} \ {0}
  BY <1>2, <1>3 DEF NoAddr
<1>5. /\ addrs' \in [Proc -> [Index -> Entry]] /\ attached' \in [Proc -> SUBSET Shmid]
      /\ Entries' /\ Mapped'
  <2>1. \A j \in Index : A[j].addr \in {0, A[j].shmid} /\ (A[j].addr = 0 /\ A[j].shmid # 0 => lost)
    BY <1>2, <1>3 DEF NoAddr
  <2> QED BY <1>1, <1>3, <1>4, <2>1, LocalStep
<1>6. /\ i \in Arenas /\ i # 0 /\ 0 \in Arenas /\ \A j \in Index : j \in Arenas
      /\ arena'[i] = EMPTY /\ \A j \in Arenas : j # i => arena'[j] = arena[j]
  BY ArenaAssumption, <1>1 DEF Index, Arenas, IInv, TypeOK
<1>7. OneIndex'
  <2>1. \A q \in Proc, j \in Index : addrs'[q][j].shmid \in {0, addrs[q][j].shmid, arena[j].shmid}
    <3>1. addrs'[p] = A /\ \A q \in Proc : q # p => addrs'[q] = addrs[q]
      BY <1>1 DEF IInv, TypeOK
    <3>2. \A j \in Index : A[j].shmid \in {0, addrs[p][j].shmid, arena[j].shmid}
      BY <1>2, <1>3 DEF NoAddr
    <3> QED BY <3>1, <3>2
  <2>2. \A j \in Index : arena'[j].shmid \in {0, arena[j].shmid}
    BY <1>6 DEF EMPTY
  <2> QED BY <2>1, <2>2, OneIndexKept
<1>8. Lossless'
  <2>1. ASSUME NEW x \in Listed'
        PROVE  x \in Listed /\ x # N[i].addr
    <3>1. PICK j \in Index : arena'[j].type # "EMPTY" /\ x = arena'[j].shmid
      BY DEF Listed, is_arena_valid
    <3>2. j # i /\ x = arena[j].shmid /\ arena[j].type # "EMPTY"
      BY <1>6, <3>1 DEF EMPTY
    <3>3. x # 0 /\ x \in Names(j) /\ x \in Listed
      BY <3>2 DEF IInv, Shape, Names, Listed, is_arena_valid
    <3>4. N[i].addr # 0 => N[i].addr \in Names(i)
      BY <1>2 DEF Names
    <3> QED BY <3>2, <3>3, <3>4, NamesApart
  <2>2. /\ attached'[p] = NewAttached(p, T) \ {N[i].addr}
        /\ \A q \in Proc \ {p} : attached'[q] = attached[q]
    BY <1>1 DEF IInv, TypeOK
  <2>3. Listed' \cap attached[p] \subseteq attached'[p]
    BY <1>2, <2>1, <2>2
  <2> QED BY <1>1, <2>1, <2>2, <2>3, LosslessKept
<1>9. /\ held' \in [1 .. (ArenaMax * ArenaChunks) -> 0 .. ArenaChunks]
      /\ held'[Pos(i, c)] = 0
      /\ \A j \in Arenas, d \in Slot : j # i \/ d # c => held'[Pos(j, d)] = held[Pos(j, d)]
  <2>1. 0 \in 0 .. ArenaChunks /\ TypeOK
    BY ArenaAssumption DEF IInv
  <2> QED BY <1>6, <2>1, HeldPut
<1>10. TypeOK'
  <2>1. arena' \in [Arenas -> [type : {"EMPTY", "CONTEXT", "CHUNK", "LARGE"},
                      shmid : Shmid \cup {0}, chunks : SUBSET Slot, used : 0 .. ArenaChunks]]
    <3>1. EMPTY \in [type : {"EMPTY", "CONTEXT", "CHUNK", "LARGE"}, shmid : Shmid \cup {0},
                     chunks : SUBSET Slot, used : 0 .. ArenaChunks]
      BY ArenaAssumption DEF EMPTY
    <3> QED BY <1>1, <3>1 DEF IInv, TypeOK, Arenas
  <2> QED BY <1>1, <1>5, <1>9, <2>1 DEF IInv, TypeOK, Entry, Arenas
<1>11. Shape'
  BY <1>6 DEF IInv, Shape, EMPTY
<1>12. Counts'
  <2>1. EMPTY.used = Cardinality(EMPTY.chunks)
    BY FS_EmptySet DEF EMPTY
  <2> QED BY <1>6, <2>1 DEF IInv, Counts
<1>13. HeldIsTable'
  <2> SUFFICES ASSUME NEW j \in Arenas, NEW d \in Slot
               PROVE  held'[Pos(j, d)] = Share(j, d)'
    BY DEF HeldIsTable
  <2>1. CASE j # i
    BY <1>6, <1>9, <2>1 DEF IInv, HeldIsTable, Share
  <2>2. CASE j = i
    <3>1. held'[Pos(j, d)] = 0
      BY <1>9, <2>2
    <3>2. Share(j, d)' = 0
      BY <1>6, <2>2 DEF Share, EMPTY
    <3> QED BY <3>1, <3>2
  <2> QED BY <2>1, <2>2
<1>14. DeathNeedsLoss'
  BY DEF IInv, DeathNeedsLoss
<1> QED BY <1>5, <1>7, <1>8, <1>10, <1>11, <1>12, <1>13, <1>14 DEF IInv

\* A chunk of an arena that keeps others, or of the context's arena, is given back.
LEMMA ClearStep ==
    ASSUME IInv, NEW p \in Proc, NEW T \in SUBSET Index, NEW i \in Arenas, NEW c \in Slot,
           arena[i].type \in {"CONTEXT", "CHUNK"}, held[Pos(i, c)] # 0,
           arena' = [arena EXCEPT ![i] = [arena[i] EXCEPT !.chunks = @ \ {c}, !.used = @ - 1]],
           arena[i].used - 1 # 0 \/ arena[i].type = "CONTEXT",
           Update(p, T), held' = [held EXCEPT ![Pos(i, c)] = 0],
           UNCHANGED <<running, locked, keyed, why, lost>>
    PROVE  IInv'
<1> DEFINE old == arena[i]
<1>1. c \in old.chunks /\ (i # 0 \/ c # 0)
  BY DEF IInv, HeldIsTable, Share
<1>2. /\ old.chunks \in SUBSET Slot /\ old.used = Cardinality(old.chunks) /\ old.used \in 0 .. ArenaChunks
  BY DEF IInv, TypeOK, Counts, Arenas
<1>3. /\ arena'[i].chunks = old.chunks \ {c} /\ arena'[i].used = old.used - 1
      /\ arena'[i].type = old.type /\ arena'[i].shmid = old.shmid
      /\ \A j \in Arenas : j # i => arena'[j] = arena[j]
  BY DEF IInv, TypeOK, Arenas
<1>4. Cardinality(old.chunks \ {c}) = old.used - 1 /\ old.used - 1 \in 0 .. ArenaChunks
  <2>1. IsFiniteSet(old.chunks) /\ old.chunks \ {c} \in SUBSET Slot
    BY <1>2, ChunksFinite
  <2>2. Cardinality(old.chunks \ {c}) = Cardinality(old.chunks) - 1
    BY <1>1, <2>1, FS_RemoveElement
  <2> QED BY <1>2, <2>1, <2>2, ChunksFinite
<1>5. 0 \in Arenas /\ \A j \in Index : j \in Arenas /\ j # 0
  BY ArenaAssumption DEF Index, Arenas
<1>6. /\ addrs' \in [Proc -> [Index -> Entry]] /\ attached' \in [Proc -> SUBSET Shmid]
      /\ leaked' = leaked /\ OneIndex' /\ Entries' /\ Mapped' /\ Lossless'
  <2>1. \A j \in Index : arena'[j].shmid = arena[j].shmid /\ arena'[j].type = arena[j].type
    BY <1>3, <1>5
  <2> QED BY <2>1, UpdateStep
<1>7. /\ held' \in [1 .. (ArenaMax * ArenaChunks) -> 0 .. ArenaChunks]
      /\ held'[Pos(i, c)] = 0
      /\ \A j \in Arenas, d \in Slot : j # i \/ d # c => held'[Pos(j, d)] = held[Pos(j, d)]
  <2>1. 0 \in 0 .. ArenaChunks /\ TypeOK
    BY ArenaAssumption DEF IInv
  <2> QED BY <2>1, HeldPut
<1>8. TypeOK'
  <2>1. arena' \in [Arenas -> [type : {"EMPTY", "CONTEXT", "CHUNK", "LARGE"},
                      shmid : Shmid \cup {0}, chunks : SUBSET Slot, used : 0 .. ArenaChunks]]
    BY <1>2, <1>4 DEF IInv, TypeOK, Arenas
  <2> QED BY <1>6, <1>7, <2>1 DEF IInv, TypeOK, Entry, Arenas
<1>9. Shape'
  <2>1. arena'[0].type = "CONTEXT" /\ 0 \in arena'[0].chunks
    BY <1>1, <1>3, <1>5 DEF IInv, Shape
  <2>2. ASSUME NEW j \in Index
        PROVE  (/\ arena[j].type # "CONTEXT"
                /\ arena[j].type = "EMPTY" => arena[j] = EMPTY
                /\ arena[j].type # "EMPTY" => arena[j].shmid # 0
                /\ arena[j].type = "LARGE" => arena[j].chunks = {}
                /\ arena[j].type = "CHUNK" => arena[j].used > 0)'
    <3>1. CASE j # i
      BY <1>3, <1>5, <3>1 DEF IInv, Shape, EMPTY
    <3>2. CASE j = i
      <4>1. old.type = "CHUNK" /\ old.shmid # 0
        BY <3>2 DEF IInv, Shape
      <4>2. old.used - 1 # 0
        BY <4>1
      <4>3. old.used - 1 > 0
        <5>1. \A n \in 0 .. ArenaChunks : n # 0 => n > 0
          BY ArenaAssumption
        <5> QED BY <1>4, <4>2, <5>1
      <4> QED BY <1>3, <3>2, <4>1, <4>3
    <3> QED BY <3>1, <3>2
  <2> QED BY <2>1, <2>2 DEF Shape
<1>10. Counts'
  BY <1>3, <1>4 DEF IInv, Counts
<1>11. HeldIsTable'
  <2> SUFFICES ASSUME NEW j \in Arenas, NEW d \in Slot
               PROVE  held'[Pos(j, d)] = Share(j, d)'
    BY DEF HeldIsTable
  <2>1. CASE j # i
    BY <1>3, <1>7, <2>1 DEF IInv, HeldIsTable, Share
  <2>2. CASE j = i /\ d = c
    BY <1>3, <1>7, <2>2 DEF Share
  <2>3. CASE j = i /\ d # c
    BY <1>3, <1>7, <2>3 DEF IInv, HeldIsTable, Share
  <2> QED BY <2>1, <2>2, <2>3
<1>12. DeathNeedsLoss'
  BY DEF IInv, DeathNeedsLoss
<1> QED BY <1>6, <1>8, <1>9, <1>10, <1>11, <1>12 DEF IInv

\* free_chunk, in each of its cases.
LEMMA FreeChunkStep ==
    ASSUME IInv, NEW p \in Proc, NEW T \in SUBSET Index, NEW i \in Index \cup {0}, NEW c \in Slot,
           free_chunk(p, i, c, T)
    PROVE  IInv'
<1> DEFINE touched == (T \cup {i}) \ {0}
<1>1. /\ T \subseteq ChunkArenas /\ arena[i].type \in {"CONTEXT", "CHUNK"} /\ held[Pos(i, c)] # 0
      /\ touched \in SUBSET Index /\ i \in Arenas
  BY ArenaAssumption DEF free_chunk, Index, Arenas
<1>2. CASE ~CanUse(p, touched)
  <2>1. dies(p, "address")
    BY <1>2 DEF free_chunk
  <2>2. \A j \in touched : is_arena_valid(j)
    BY <1>1 DEF ChunkArenas, is_arena_valid
  <2>3. lost
    BY <1>1, <1>2, <2>2, NullNeedsLoss
  <2> QED BY <2>1, <2>3, LeavesStep DEF dies
<1>3. CASE CanUse(p, touched)
  <2>1. /\ IF arena[i].used - 1 = 0 /\ arena[i].type # "CONTEXT"
             THEN delete_arena(p, i, touched)
             ELSE /\ arena' = [arena EXCEPT ![i] = [arena[i] EXCEPT !.chunks = @ \ {c}, !.used = @ - 1]]
                  /\ Update(p, touched)
        /\ held' = [held EXCEPT ![Pos(i, c)] = 0]
        /\ UNCHANGED <<running, locked, keyed, why, lost>>
    <3>1. [arena[i] EXCEPT !.chunks = @ \ {c}, !.used = @ - 1].used = arena[i].used - 1
      BY <1>1 DEF IInv, TypeOK, Arenas
    <3> QED BY <1>3, <3>1 DEF free_chunk
  <2>2. CASE arena[i].used - 1 = 0 /\ arena[i].type # "CONTEXT"
    <3>1. i \in Index /\ arena[i].type = "CHUNK"
      BY <1>1, <2>2 DEF IInv, Shape
    <3>2. /\ c \in arena[i].chunks /\ arena[i].chunks \in SUBSET Slot
          /\ Cardinality(arena[i].chunks) = 1
      BY <1>1, <2>2 DEF IInv, HeldIsTable, Share, TypeOK, Counts, Arenas
    <3>3. arena[i].chunks \ {c} = {}
      <4>1. IsFiniteSet(arena[i].chunks) /\ arena[i].chunks \ {c} \in SUBSET Slot
        BY <3>2, ChunksFinite
      <4>2. Cardinality(arena[i].chunks \ {c}) = Cardinality(arena[i].chunks) - 1
        BY <3>2, <4>1, FS_RemoveElement
      <4> QED BY <3>2, <4>1, <4>2, ChunksFinite
    <3>4. \A d \in Slot : d # c => held[Pos(i, d)] = 0
      BY <1>1, <3>1, <3>3 DEF IInv, HeldIsTable, Share
    <3> QED BY <1>1, <2>1, <2>2, <3>1, <3>4, DeleteStep
  <2>3. CASE ~(arena[i].used - 1 = 0 /\ arena[i].type # "CONTEXT")
    BY <1>1, <2>1, <2>3, ClearStep
  <2> QED BY <2>2, <2>3
<1> QED BY <1>2, <1>3

\* free_large, in both cases.
LEMMA FreeLargeStep ==
    ASSUME IInv, NEW p \in Proc, NEW i \in Index, free_large(p, i)
    PROVE  IInv'
<1>1. arena[i].type = "LARGE" /\ i \in Arenas /\ 0 \in Slot
  BY ArenaAssumption DEF free_large, Index, Arenas, Slot
<1>2. CASE addrs[p][i].addr # 0
  <2>1. /\ delete_arena(p, i, {}) /\ held' = [held EXCEPT ![Pos(i, 0)] = 0]
        /\ UNCHANGED <<running, locked, keyed, why, lost>>
    BY <1>2 DEF free_large
  <2>2. \A d \in Slot : d # 0 => held[Pos(i, d)] = 0
    BY <1>1 DEF IInv, HeldIsTable, Share
  <2> QED BY <1>1, <2>1, <2>2, DeleteStep
<1>3. CASE addrs[p][i].addr = 0
  BY <1>3, LeavesStep DEF free_large, dies
<1> QED BY <1>2, <1>3

-----------------------------------------------------------------------------
(* Theorems *)

\* The invariant holds of an empty table.
LEMMA InitIInv == Init => IInv
<1> SUFFICES ASSUME Init
             PROVE  IInv
  OBVIOUS
<1>1. 0 \in Slot /\ 1 \in 0 .. ArenaChunks /\ 0 \in 0 .. ArenaChunks /\ 0 \in Arenas
      /\ \A i \in Index : i \in Arenas /\ i # 0
  BY ArenaAssumption DEF Slot, Arenas, Index
<1>2. TypeOK
  <2>1. arena \in [Arenas -> [type : {"EMPTY", "CONTEXT", "CHUNK", "LARGE"},
                     shmid : Shmid \cup {0}, chunks : SUBSET Slot, used : 0 .. ArenaChunks]]
    BY <1>1 DEF Init, Arenas, EMPTY
  <2> QED BY <1>1, <2>1 DEF Init, TypeOK, NoAddr, Arenas
<1>3. /\ arena[0] = [type |-> "CONTEXT", shmid |-> 0, chunks |-> {0}, used |-> 1]
      /\ \A i \in Arenas : i # 0 => arena[i] = EMPTY
  BY <1>1 DEF Init, Arenas
<1>4. Shape
  BY <1>1, <1>3 DEF Shape, EMPTY
<1>5. Counts
  <2>1. Cardinality({}) = 0 /\ Cardinality({0}) = 1
    BY FS_EmptySet, FS_Singleton
  <2> QED BY <1>3, <2>1 DEF Counts, EMPTY
<1>6. OneIndex
  BY <1>1, <1>3 DEF Init, OneIndex, Names, EMPTY, NoAddr
<1>7. Entries /\ Mapped /\ DeathNeedsLoss
  BY DEF Init, Entries, Mapped, NoAddr, DeathNeedsLoss
<1>8. Lossless
  BY <1>1, <1>3 DEF Lossless, Listed, is_arena_valid, EMPTY
<1>9. HeldIsTable
  <2>1. \A i \in Arenas, c \in Slot : held[Pos(i, c)] = 0
    BY PosIs DEF Init
  <2>2. \A i \in Arenas, c \in Slot : Share(i, c) = 0
    BY <1>3 DEF Share, EMPTY
  <2> QED BY <2>1, <2>2 DEF HeldIsTable
<1> QED BY <1>2, <1>4, <1>5, <1>6, <1>7, <1>8, <1>9 DEF IInv

\* Every step keeps it.
LEMMA NextIInv == IInv /\ [Next]_vars => IInv'
<1> SUFFICES ASSUME IInv, [Next]_vars
             PROVE  IInv'
  OBVIOUS
<1>1. CASE UNCHANGED vars
  <2>1. /\ \A i : Names(i)' = Names(i) /\ \A c : Share(i, c)' = Share(i, c)
        /\ Listed' = Listed /\ Exists' = Exists
    BY <1>1 DEF vars, local, Names, Share, Listed, is_arena_valid, Exists, Keyed
  <2>2. TypeOK' /\ Shape' /\ Counts' /\ OneIndex'
    BY <1>1, <2>1 DEF vars, local, IInv, TypeOK, Shape, Counts, OneIndex
  <2>3. Entries' /\ Mapped' /\ Lossless' /\ HeldIsTable' /\ DeathNeedsLoss'
    BY <1>1, <2>1 DEF vars, local, IInv, Entries, Mapped, Lossless, HeldIsTable, DeathNeedsLoss
  <2> QED BY <2>2, <2>3 DEF IInv
<1>2. ASSUME NEW p \in Proc, shm_init(p)
      PROVE  IInv'
  BY <1>2, InitStep
<1>3. ASSUME NEW p \in Proc, exit(p) \/ killed(p)
      PROVE  IInv'
  <2>1. locked \in BOOLEAN /\ why \in {"alive", "killed", "entry", "address", "large"}
        /\ (why \in {"entry", "address"} => lost)
    BY DEF IInv, TypeOK, DeathNeedsLoss
  <2> QED BY <1>3, <2>1, LeavesStep DEF exit, killed, dies
<1>4. ASSUME NEW p \in Proc, NEW i \in Index, shm_get_addr(p, i)
      PROVE  IInv'
  <2>1. CASE EntryAssert(p, i)
    BY <1>4, <2>1, UseStep DEF shm_get_addr
  <2>2. CASE ~EntryAssert(p, i)
    BY <1>4, <2>2, NullNeedsLoss, LeavesStep DEF shm_get_addr, dies
  <2> QED BY <2>1, <2>2
<1>5. ASSUME NEW p \in Proc, NEW i \in Index, free_large(p, i)
      PROVE  IInv'
  BY <1>5, FreeLargeStep
<1>6. ASSUME NEW p \in Proc, NEW s \in Shmid, malloc_large(p, s)
      PROVE  IInv'
  BY <1>6, NewArenaStep, NewArenaFailsStep DEF malloc_large
<1>7. ASSUME NEW p \in Proc, NEW T \in SUBSET Index,
             T \subseteq ChunkArenas, ~CanUse(p, T), dies(p, "address")
      PROVE  IInv'
  <2>1. lost
    BY <1>7, NullNeedsLoss DEF ChunkArenas, is_arena_valid
  <2> QED BY <1>7, <2>1, LeavesStep DEF dies
<1>8. ASSUME NEW p \in Proc, NEW T \in SUBSET Index, use_chunks(p, T)
      PROVE  IInv'
  BY <1>7, <1>8, UseStep DEF use_chunks
<1>9. ASSUME NEW p \in Proc, NEW T \in SUBSET Index, new_chunk_context(p, T)
      PROVE  IInv'
  BY <1>7, <1>9, ContextStep DEF new_chunk_context
<1>10. ASSUME NEW p \in Proc, NEW T \in SUBSET Index, NEW s \in Shmid, new_chunk_arena(p, s, T)
       PROVE  IInv'
  <2>1. CASE CanUse(p, T)
    BY <1>10, <2>1, NewArenaStep, NewArenaFailsStep DEF new_chunk_arena
  <2>2. CASE ~CanUse(p, T)
    BY <1>7, <1>10, <2>2 DEF new_chunk_arena
  <2> QED BY <2>1, <2>2
<1>11. ASSUME NEW p \in Proc, NEW T \in SUBSET Index, NEW i \in Index \cup {0}, NEW c \in Slot,
              free_chunk(p, i, c, T)
       PROVE  IInv'
  BY <1>11, FreeChunkStep
<1> QED BY <1>1, <1>2, <1>3, <1>4, <1>5, <1>6, <1>8, <1>9, <1>10, <1>11 DEF Next

\* The invariant holds in every state of every run, for any number of processes, indices
\* and chunks.
THEOREM Invariance == Spec => []IInv
BY InitIInv, NextIInv, PTL DEF Spec

\* Every variable of the arena table and of the processes' addresses keeps its type, for
\* any number of processes, indices, chunks and segment ids.
THEOREM TypeCorrect == Spec => []TypeOK
<1>1. IInv => TypeOK
  BY DEF IInv
<1> QED BY <1>1, Invariance, PTL

\* A process never keeps the address of a segment it has unmapped and never unmaps one it
\* still has an address of, whatever the other processes do to the table between its calls
\* (set_arena_addr, clear_arena_addr, get_or_update_arena_addr).
THEOREM NoDanglingHolds == Spec => []NoDangling
<1>1. IInv => NoDangling
  <2> SUFFICES ASSUME IInv, NEW p \in Proc
               PROVE  /\ attached[p] = {addrs[p][i].addr : i \in Index} \ {0}
                      /\ \A i, j \in Index : addrs[p][i].addr = addrs[p][j].addr =>
                                               i = j \/ addrs[p][i].addr = 0
    BY DEF NoDangling
  <2>1. attached[p] = {addrs[p][i].addr : i \in Index} \ {0}
    BY DEF IInv, Mapped
  <2>2. \A i \in Index : addrs[p][i].addr # 0 => addrs[p][i].addr \in Names(i)
    BY DEF IInv, Entries, Names
  <2> QED BY <2>1, <2>2, NamesApart
<1> QED BY <1>1, Invariance, PTL

\* get_or_update_arena_addr never returns the address of an arena that was at the index
\* before: it is the one the table names now, or NULL after a loss.
THEOREM AddrIsCurrentHolds == Spec => []AddrIsCurrent
<1>1. IInv => AddrIsCurrent
  <2> SUFFICES ASSUME IInv, NEW p \in running, NEW i \in Index
               PROVE  \/ NewEntry(p, i).addr = arena[i].shmid
                      \/ NewEntry(p, i).addr = 0 /\ lost
    BY DEF AddrIsCurrent
  <2>1. p \in Proc
    BY DEF IInv, TypeOK
  <2> QED BY <2>1, NewEntryIs
<1> QED BY <1>1, Invariance, PTL

\* No segment is at two indices of the table or free under a key as well, and used counts
\* the chunks of each arena: a chunk arena in the table has at least one
\* (new_arena, delete_arena, check_delete_chunk).
THEOREM TableSoundHolds == Spec => []TableSound
<1>1. IInv => TableSound
  <2> SUFFICES ASSUME IInv
               PROVE  TableSound
    OBVIOUS
  <2>1. Listed \cap Keyed = {}
    BY ListedNotKeyed
  <2>2. \A i, j \in Index : is_arena_valid(i) /\ arena[i].shmid = arena[j].shmid => i = j
    BY NamesApart DEF IInv, Shape, is_arena_valid, Names
  <2>3. \A i \in ChunkArenas : arena[i].used > 0
    BY DEF IInv, Shape, ChunkArenas
  <2> QED BY <2>1, <2>2, <2>3 DEF IInv, Counts, Arenas, TableSound
<1> QED BY <1>1, Invariance, PTL

\* The assertions of get_or_update_arena_addr and the uses of the address it returns fail
\* only after an arena of the table has lost its segment.
THEOREM DeathNeedsLossHolds == Spec => []DeathNeedsLoss
<1>1. IInv => DeathNeedsLoss
  BY DEF IInv
<1> QED BY <1>1, Invariance, PTL

-----------------------------------------------------------------------------
(* Refinement *)

\* The positions of the chunks of arena i lie between those of its neighbours.
LEMMA PosBetween ==
    ASSUME NEW i \in Arenas, NEW c \in Slot
    PROVE  /\ Pos(i, c) \in Int /\ Pos(i, 0) \in Int /\ ArenaChunks \in Int /\ ArenaChunks >= 2
           /\ Pos(i, 0) <= Pos(i, c) /\ Pos(i, c) < Pos(i, 0) + ArenaChunks
           /\ Pos(i, 0) >= 1 /\ Pos(i, 0) + ArenaChunks - 1 <= ArenaMax * ArenaChunks
           /\ \A j \in Arenas : j # i => \/ Pos(i, 0) + ArenaChunks <= Pos(j, 0)
                                      \/ Pos(j, 0) + ArenaChunks <= Pos(i, 0)
<1> DEFINE A == ArenaChunks
<1>1. /\ A \in Nat /\ A >= 2 /\ ArenaMax \in Nat /\ i \in Nat /\ i + 1 <= ArenaMax
      /\ c \in 0 .. (A - 1) /\ Arenas \subseteq Nat
  BY ArenaAssumption DEF Arenas, Slot
<1>2. \A k, m \in Nat : k + 1 <= m => k * A + A <= m * A
  BY <1>1
<1> HIDE DEF A
<1>3. \A k \in Nat : k * A \in Nat
  BY <1>1
<1>4. i * A \in Nat /\ ArenaMax * A \in Nat /\ i * A + A <= ArenaMax * A
  BY <1>1, <1>2, <1>3
<1>5. ASSUME NEW j \in Arenas, j # i
      PROVE  \/ i * A + 0 + 1 + A <= j * A + 0 + 1
             \/ j * A + 0 + 1 + A <= i * A + 0 + 1
  <2>1. j \in Nat /\ j * A \in Nat /\ (i + 1 <= j \/ j + 1 <= i)
    BY <1>1, <1>3, <1>5
  <2>2. i * A + A <= j * A \/ j * A + A <= i * A
    BY <1>1, <1>2, <2>1
  <2> QED BY <1>1, <1>4, <2>1, <2>2
<1>6. /\ i * A + c + 1 \in Int /\ i * A + 0 + 1 \in Int /\ A \in Int
      /\ i * A + 0 + 1 <= i * A + c + 1 /\ i * A + c + 1 < i * A + 0 + 1 + A
      /\ i * A + 0 + 1 >= 1 /\ i * A + 0 + 1 + A - 1 <= ArenaMax * A
  BY <1>1, <1>4
<1> QED BY <1>1, <1>5, <1>6 DEF Pos, A

\* What is held from a chunk on lies within its arena, and is that chunk alone unless
\* the arena is a large one.
LEMMA ExtentInside ==
    ASSUME IInv, NEW i \in Arenas, NEW c \in Slot,
           NEW x \in Heap!Extent(Pos(i, c), held[Pos(i, c)])
    PROVE  /\ x \in Int /\ Pos(i, 0) <= x /\ x < Pos(i, 0) + ArenaChunks
           /\ held[Pos(i, c)] # 0
           /\ arena[i].type # "LARGE" => x = Pos(i, c)
<1>1. held[Pos(i, c)] = Share(i, c) /\ x \in Pos(i, c) .. (Pos(i, c) + held[Pos(i, c)] - 1)
  BY DEF IInv, HeldIsTable, Heap!Extent
<1>2. Share(i, c) \in {0, 1} \/ (arena[i].type = "LARGE" /\ c = 0 /\ Share(i, c) = ArenaChunks)
  BY DEF Share
<1>3. arena[i].type # "LARGE" => Share(i, c) \in {0, 1}
  BY DEF Share
<1> QED BY <1>1, <1>2, <1>3, PosBetween

\* Giving out a chunk that nobody holds, or a whole arena of which nobody holds a chunk,
\* is a Malloc of PageHeap.
LEMMA MallocStep ==
    ASSUME IInv, NEW i \in Arenas, NEW c \in Slot, NEW v,
           arena[i].type # "LARGE", held[Pos(i, c)] = 0,
           v = 1 \/ (v = ArenaChunks /\ c = 0 /\ \A d \in Slot : held[Pos(i, d)] = 0),
           held' = [held EXCEPT ![Pos(i, c)] = v]
    PROVE  Heap!Next
<1> DEFINE x == Pos(i, c)
<1>1. /\ x \in Int /\ Pos(i, 0) \in Int /\ ArenaChunks \in Int /\ ArenaChunks >= 2
      /\ Pos(i, 0) <= x /\ x < Pos(i, 0) + ArenaChunks
      /\ Pos(i, 0) >= 1 /\ Pos(i, 0) + ArenaChunks - 1 <= ArenaMax * ArenaChunks
  BY PosBetween
<1>2. x \in Heap!Page /\ ArenaMax * ArenaChunks \in Int
  BY ArenaAssumption, PosIs DEF Heap!Page
<1>3. v \in Int /\ v >= 1 /\ v <= ArenaMax * ArenaChunks
      /\ Pos(i, 0) <= x /\ x + v <= Pos(i, 0) + ArenaChunks
  BY <1>1, <1>2
<1>4. Heap!Extent(x, v) \subseteq Heap!Page /\ v \in Heap!Page
  BY <1>1, <1>2, <1>3 DEF Heap!Extent, Heap!Page
<1>5. ASSUME NEW q \in Heap!Page PROVE Heap!Extent(x, v) \cap Heap!Extent(q, held[q]) = {}
  <2> SUFFICES ASSUME NEW y \in Heap!Extent(x, v), y \in Heap!Extent(q, held[q])
               PROVE  FALSE
    OBVIOUS
  <2>1. PICK j \in Arenas, d \in Slot : q = Pos(j, d)
    BY PosOnto DEF Heap!Page
  <2>2. /\ y \in Int /\ Pos(j, 0) <= y /\ y < Pos(j, 0) + ArenaChunks /\ held[Pos(j, d)] # 0
        /\ arena[j].type # "LARGE" => y = Pos(j, d)
    BY <2>1, ExtentInside
  <2>3. x <= y /\ y < x + v
    BY <1>1, <1>3, <2>2 DEF Heap!Extent
  <2>4. i = j
    <3> SUFFICES ASSUME i # j PROVE FALSE
      OBVIOUS
    <3>1. \/ Pos(i, 0) + ArenaChunks <= Pos(j, 0)
          \/ Pos(j, 0) + ArenaChunks <= Pos(i, 0)
      BY PosBetween
    <3>2. Pos(j, 0) \in Int
      BY PosBetween
    <3> QED BY <1>1, <1>3, <2>2, <2>3, <3>1, <3>2
  <2>5. v = 1 /\ y = Pos(i, d)
    BY <2>2, <2>4
  <2>6. y = x
    BY <1>1, <2>2, <2>3, <2>5
  <2> QED BY <2>2, <2>4, <2>5, <2>6
<1>6. held' = [held EXCEPT ![x] = v] /\ held[x] = 0 /\ held'[x] = v /\ held'[x] # held[x]
  BY <1>2, <1>3 DEF IInv, TypeOK, Heap!Page
<1>7. Heap!Malloc(x, v)
  BY <1>4, <1>5, <1>6 DEF Heap!Malloc
<1> HIDE DEF x
<1> QED BY <1>2, <1>6, <1>7 DEF Heap!Next

\* Giving back what is held at a chunk is a Free of PageHeap.
LEMMA FreeStep ==
    ASSUME IInv, NEW i \in Arenas, NEW c \in Slot, held[Pos(i, c)] # 0,
           held' = [held EXCEPT ![Pos(i, c)] = 0]
    PROVE  Heap!Next
<1>1. Pos(i, c) \in Heap!Page
  BY PosIs DEF Heap!Page
<1>2. held'[Pos(i, c)] = 0
  BY <1>1 DEF IInv, TypeOK, Heap!Page
<1> QED BY <1>1, <1>2 DEF Heap!Next, Heap!Free

\* A new arena is given out as a whole, or its first chunk is.
LEMMA NewArenaHeap ==
    ASSUME IInv, NEW p \in Proc, NEW s, NEW type \in {"LARGE", "CHUNK"}, NEW chunks, NEW T,
           EmptyIndex # {}, new_arena(p, s, type, chunks, T)
    PROVE  Heap!Next
<1> DEFINE i == Min(EmptyIndex)
<1>1. i \in EmptyIndex
  <2>1. EmptyIndex \in SUBSET Nat
    BY ArenaAssumption DEF EmptyIndex, Index
  <2> QED BY <2>1, MinIs
<1> HIDE DEF i
<1>2. i \in Arenas /\ 0 \in Slot /\ arena[i] = EMPTY
  BY <1>1, ArenaAssumption DEF EmptyIndex, Index, Arenas, Slot, IInv, Shape
<1>3. arena[i].type # "LARGE" /\ \A d \in Slot : held[Pos(i, d)] = 0
  BY <1>2 DEF IInv, HeldIsTable, Share, EMPTY
<1>4. held' = [held EXCEPT ![Pos(i, 0)] = IF type = "LARGE" THEN ArenaChunks ELSE 1]
  BY DEF new_arena, i
<1> QED BY <1>2, <1>3, <1>4, MallocStep

\* malloc_arena and free_arena implement PageHeap over the chunks of all arenas: no chunk is
\* given out while somebody holds it or the large arena it lies in, it stays with its
\* holder until it is freed, and the context's own chunk is never given out.
THEOREM ImplementsPageHeap == Spec => HeapSpec
<1>1. Init => Heap!Init
  BY DEF Init, Heap!Init, Heap!Page
<1>2. IInv /\ [Next]_vars => [Heap!Next]_held
  <2> SUFFICES ASSUME IInv, [Next]_vars PROVE Heap!Next \/ UNCHANGED held
    OBVIOUS
  <2>1. CASE UNCHANGED vars
    BY <2>1 DEF vars
  <2>2. ASSUME NEW p \in Proc, NEW reason, dies(p, reason)
        PROVE  UNCHANGED held
    BY <2>2 DEF dies, Leaves
  <2>3. ASSUME NEW p \in Proc, shm_init(p) \/ exit(p) \/ killed(p)
        PROVE  UNCHANGED held
    BY <2>3 DEF shm_init, exit, killed, dies, Leaves
  <2>4. ASSUME NEW p \in Proc, NEW i \in Index, shm_get_addr(p, i)
        PROVE  UNCHANGED held
    BY <2>2, <2>4 DEF shm_get_addr
  <2>5. ASSUME NEW p \in Proc, NEW i \in Index, free_large(p, i)
        PROVE  Heap!Next \/ UNCHANGED held
    <3>1. i \in Arenas /\ 0 \in Slot /\ arena[i].type = "LARGE"
      BY <2>5, ArenaAssumption DEF free_large, Index, Arenas, Slot
    <3>2. held[Pos(i, 0)] # 0
      BY <3>1, ArenaAssumption DEF IInv, HeldIsTable, Share
    <3> QED BY <2>2, <2>5, <3>1, <3>2, FreeStep DEF free_large
  <2>6. ASSUME NEW p \in Proc, NEW s \in Shmid, malloc_large(p, s)
        PROVE  Heap!Next \/ UNCHANGED held
    BY <2>6, NewArenaHeap DEF malloc_large, new_arena_fails
  <2>7. ASSUME NEW p \in Proc, NEW T \in SUBSET Index, use_chunks(p, T)
        PROVE  UNCHANGED held
    BY <2>2, <2>7 DEF use_chunks
  <2>8. ASSUME NEW p \in Proc, NEW T \in SUBSET Index, new_chunk_context(p, T)
        PROVE  Heap!Next \/ UNCHANGED held
    <3>1. CASE dies(p, "address")
      BY <2>2, <3>1
    <3>2. CASE held' = [held EXCEPT ![Pos(0, Min(FreeSlots))] = 1] /\ FreeSlots # {}
      <4> DEFINE c == Min(FreeSlots)
      <4>1. c \in FreeSlots
        <5>1. FreeSlots \in SUBSET Nat
          BY ArenaAssumption DEF FreeSlots, Slot
        <5> QED BY <3>2, <5>1, MinIs
      <4>2. held' = [held EXCEPT ![Pos(0, c)] = 1]
        BY <3>2
      <4> HIDE DEF c
      <4>3. 0 \in Arenas /\ c \in Slot /\ arena[0].type # "LARGE" /\ c \notin arena[0].chunks
        BY <4>1, ArenaAssumption DEF FreeSlots, Arenas, IInv, Shape
      <4>4. held[Pos(0, c)] = 0
        BY <4>3 DEF IInv, HeldIsTable, Share
      <4> QED BY <4>2, <4>3, <4>4, MallocStep
    <3> QED BY <2>8, <3>1, <3>2 DEF new_chunk_context
  <2>9. ASSUME NEW p \in Proc, NEW T \in SUBSET Index, NEW s \in Shmid, new_chunk_arena(p, s, T)
        PROVE  Heap!Next \/ UNCHANGED held
    <3>1. CASE CanUse(p, T)
      BY <2>9, <3>1, NewArenaHeap DEF new_chunk_arena, new_arena_fails
    <3>2. CASE ~CanUse(p, T)
      BY <2>2, <2>9, <3>2 DEF new_chunk_arena
    <3> QED BY <3>1, <3>2
  <2>10. ASSUME NEW p \in Proc, NEW T \in SUBSET Index, NEW i \in Index \cup {0}, NEW c \in Slot,
                free_chunk(p, i, c, T)
         PROVE  Heap!Next \/ UNCHANGED held
    <3>1. i \in Arenas /\ held[Pos(i, c)] # 0
      BY <2>10, ArenaAssumption DEF free_chunk, Index, Arenas
    <3>2. \/ held' = [held EXCEPT ![Pos(i, c)] = 0]
          \/ dies(p, "address")
      BY <2>10 DEF free_chunk
    <3> QED BY <2>2, <3>1, <3>2, FreeStep
  <2> QED BY <2>1, <2>3, <2>4, <2>5, <2>6, <2>7, <2>8, <2>9, <2>10 DEF Next
<1>3. IInv => held[Pos(0, 0)] = 0
  BY ArenaAssumption DEF IInv, HeldIsTable, Share, Shape, Arenas, Slot
<1> QED BY <1>1, <1>2, <1>3, Invariance, PTL DEF Spec, HeapSpec, Heap!Spec
===============================================================================
