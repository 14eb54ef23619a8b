--------------------------- MODULE SmallChunkProofs ----------------------------
(***************************************************************************)
(* Proofs about SmallChunk, for any number of chunks, pages and classes.   *)
(***************************************************************************)
EXTENDS SmallChunk, NumberFacts, FiniteSetTheorems

-----------------------------------------------------------------------------
(* The inductive invariant *)

Header == [conf_index : Class \cup {0}, used : Nat, free : Seq(1 .. UnitSize)]

\* The offsets of the slots in a run of class c, and those that callers hold in page r.
Slots(c) == {HeaderSize + i * ElemSize[c] : i \in 0 .. (total(c) - 1)}
Given(r) == {o \in 0 .. (UnitSize - 1) : held[r * UnitSize + o] # 0}

\* The sequence s lists the elements of S, each once.
Lists(s, S) ==
    /\ \A i, j \in 1 .. Len(s) : i # j => s[i] # s[j]
    /\ {s[i] : i \in 1 .. Len(s)} = S

\* A run with header h, of which callers hold the slots G.
Sound(h, G) ==
    /\ h.conf_index \in Class /\ G \subseteq Slots(h.conf_index)
    /\ Lists(h.free, Slots(h.conf_index) \ G) /\ h.used = Cardinality(G)

Headers == run \in [Run -> Header]
Runs    == \A r \in Live : Sound(run[r], Given(r))

\* What callers hold are slots of live runs, as long as those of their class.
HeldIsLive ==
    \A p \in Pos : held[p] # 0 =>
        p \div UnitSize \in Live /\ held[p] = ElemSize[run[p \div UnitSize].conf_index]

\* Two runs of a class are not both empty.
OneEmpty ==
    \A r, s \in Live :
        run[r].conf_index = run[s].conf_index /\ run[r].used = 0 /\ run[s].used = 0 => r = s

\* A chunk in use counts its pages, has a run, and says whether a page is free.
Counts ==
    \A k \in Chunk : type[k] = "SMALL" =>
        /\ used[k] = Cardinality(bitmap[k]) /\ 0 \in bitmap[k] /\ used[k] > 1
        /\ maxsize[k] = 0 <=> used[k] = RunSize

\* The set of a pool has exactly the runs of its class with a free slot.
PoolExact ==
    \A c \in Class :
        pool[c] = {r \in Live : run[r].conf_index = c /\ run[r].used < total(c)}

NoFailure == failed = "no"

\* These facts hold up to and including the step that pushes a run with old links, which
\* is the last one of SmallChunk.
IInv ==
    /\ TypeOK /\ Headers /\ Runs /\ HeldIsLive /\ PoolExact /\ OneEmpty /\ Counts
    /\ NoFailure

-----------------------------------------------------------------------------
(* Lists *)

\* Without its first element, a list holds the others.
LEMMA ListsTail ==
    ASSUME NEW X, NEW s \in Seq(X), NEW S, Lists(s, S), s # <<>>
    PROVE  /\ Head(s) \in S /\ Head(s) \in X /\ Tail(s) \in Seq(X)
           /\ Lists(Tail(s), S \ {Head(s)})
<1>1. /\ Len(s) \in Nat /\ Len(s) >= 1 /\ Tail(s) \in Seq(X) /\ Len(Tail(s)) = Len(s) - 1
      /\ Head(s) = s[1] /\ \A i \in 1 .. Len(s) : s[i] \in X
  OBVIOUS
<1>2. \A i \in 1 .. Len(Tail(s)) : Tail(s)[i] = s[i + 1] /\ i + 1 \in 1 .. Len(s) /\ i + 1 # 1
  BY <1>1
<1>3. 1 \in 1 .. Len(s) /\ \A i \in 1 .. Len(s) : i # 1 => i - 1 \in 1 .. Len(Tail(s)) /\ (i - 1) + 1 = i
  BY <1>1
<1>4. \A i, j \in 1 .. Len(Tail(s)) : i # j => Tail(s)[i] # Tail(s)[j]
  <2> SUFFICES ASSUME NEW i \in 1 .. Len(Tail(s)), NEW j \in 1 .. Len(Tail(s)), i # j
               PROVE  Tail(s)[i] # Tail(s)[j]
    OBVIOUS
  <2>1. i + 1 # j + 1
    BY <1>1
  <2> QED BY <1>2, <2>1 DEF Lists
<1>5. {Tail(s)[i] : i \in 1 .. Len(Tail(s))} = S \ {Head(s)}
  <2>1. ASSUME NEW i \in 1 .. Len(Tail(s)) PROVE Tail(s)[i] \in S \ {Head(s)}
    BY <1>1, <1>2, <1>3 DEF Lists
  <2>2. ASSUME NEW x \in S \ {Head(s)} PROVE \E i \in 1 .. Len(Tail(s)) : Tail(s)[i] = x
    <3>1. PICK i \in 1 .. Len(s) : s[i] = x
      BY DEF Lists
    <3>2. i # 1
      BY <1>1, <3>1
    <3> QED BY <1>2, <1>3, <3>1, <3>2
  <2> QED BY <2>1, <2>2
<1> QED BY <1>1, <1>3, <1>4, <1>5 DEF Lists

\* With another element in front, a list holds that one too.
LEMMA ListsCons ==
    ASSUME NEW X, NEW s \in Seq(X), NEW S, Lists(s, S), NEW x \in X, x \notin S
    PROVE  <<x>> \o s \in Seq(X) /\ Lists(<<x>> \o s, S \cup {x})
<1> DEFINE t == <<x>> \o s
<1>1. /\ Len(s) \in Nat /\ t \in Seq(X) /\ Len(t) = Len(s) + 1
      /\ t[1] = x /\ \A i \in 1 .. Len(s) : t[i + 1] = s[i]
  OBVIOUS
<1> HIDE DEF t
<1>2. \A i \in 1 .. Len(t) : i = 1 \/ (i - 1 \in 1 .. Len(s) /\ t[i] = s[i - 1])
  <2> SUFFICES ASSUME NEW i \in 1 .. Len(t), i # 1
               PROVE  i - 1 \in 1 .. Len(s) /\ t[i] = s[i - 1]
    OBVIOUS
  <2>1. i - 1 \in 1 .. Len(s) /\ (i - 1) + 1 = i
    BY <1>1
  <2> QED BY <1>1, <2>1
<1>3. \A i \in 1 .. Len(s) : s[i] \in S
  BY DEF Lists
<1>4. \A i, j \in 1 .. Len(t) : i # j => t[i] # t[j]
  <2> SUFFICES ASSUME NEW i \in 1 .. Len(t), NEW j \in 1 .. Len(t), i # j
               PROVE  t[i] # t[j]
    OBVIOUS
  <2>1. i - 1 # j - 1
    BY <1>1
  <2>2. CASE i = 1
    BY <1>1, <1>2, <1>3, <2>2
  <2>3. CASE j = 1
    BY <1>1, <1>2, <1>3, <2>3
  <2>4. CASE i # 1 /\ j # 1
    BY <1>2, <2>1, <2>4 DEF Lists
  <2> QED BY <2>2, <2>3, <2>4
<1>5. {t[i] : i \in 1 .. Len(t)} = S \cup {x}
  <2>1. ASSUME NEW i \in 1 .. Len(t) PROVE t[i] \in S \cup {x}
    BY <1>1, <1>2, <1>3
  <2>2. ASSUME NEW y \in S PROVE \E i \in 1 .. Len(t) : t[i] = y
    <3>1. PICK i \in 1 .. Len(s) : s[i] = y
      BY DEF Lists
    <3>2. i + 1 \in 1 .. Len(t)
      BY <1>1
    <3> QED BY <1>1, <3>1, <3>2
  <2>3. 1 \in 1 .. Len(t)
    BY <1>1
  <2> QED BY <1>1, <2>1, <2>2, <2>3
<1> QED BY <1>1, <1>4, <1>5 DEF Lists, t

-----------------------------------------------------------------------------
(* The slots of a run *)

\* The slots lie behind the header and within the page, one behind the other.
LEMMA SlotIs ==
    ASSUME NEW c \in Class
    PROVE  /\ total(c) \in Nat /\ total(c) >= 1 /\ ElemSize[c] \in Nat /\ ElemSize[c] >= 1
           /\ \A i \in 0 .. (total(c) - 1) :
                /\ HeaderSize + i * ElemSize[c] \in Nat /\ HeaderSize + i * ElemSize[c] >= 1
                /\ HeaderSize + i * ElemSize[c] + ElemSize[c] <= UnitSize
                /\ \A j \in 0 .. (total(c) - 1) : i < j =>
                     HeaderSize + i * ElemSize[c] + ElemSize[c] <= HeaderSize + j * ElemSize[c]
<1> DEFINE E == ElemSize[c]
           n == total(c)
<1>1. /\ E \in Nat /\ E >= 1 /\ UnitSize \in Nat /\ HeaderSize \in Nat /\ HeaderSize >= 1
      /\ HeaderSize + E <= UnitSize /\ n = (UnitSize - HeaderSize) \div E
  BY RunAssumption DEF total
<1> HIDE DEF E, n
<1>2. n \in Nat /\ n * E \in Nat /\ n * E <= UnitSize - HeaderSize /\ n >= 1
  <2> DEFINE d == UnitSize - HeaderSize
             m == d % E
  <2>1. d \in Nat /\ d >= E
    BY <1>1
  <2> HIDE DEF d
  <2>2. n \in Nat /\ m \in 0 .. (E - 1) /\ d = n * E + m
    <3>1. n = d \div E /\ E \in Nat \ {0}
      BY <1>1 DEF d
    <3> QED BY <2>1, <3>1, DivModSum
  <2>3. n * E \in Nat
    BY <1>1, <2>2
  <2>4. n # 0
    BY <1>1, <2>1, <2>2
  <2> QED BY <1>1, <2>1, <2>2, <2>3, <2>4 DEF d
<1>3. \A i, j \in Nat : i < j => i * E + E <= j * E
  BY <1>1, Multiples
<1>4. ASSUME NEW i \in 0 .. (n - 1)
      PROVE  /\ HeaderSize + i * E \in Nat /\ HeaderSize + i * E >= 1 /\ HeaderSize + i * E + E <= UnitSize
             /\ \A j \in 0 .. (n - 1) : i < j => HeaderSize + i * E + E <= HeaderSize + j * E
  <2>1. i \in Nat /\ i < n /\ i * E \in Nat
    BY <1>1, <1>2
  <2>2. i * E + E <= n * E
    BY <1>2, <1>3, <2>1
  <2>3. ASSUME NEW j \in 0 .. (n - 1), i < j PROVE HeaderSize + i * E + E <= HeaderSize + j * E
    <3>1. j \in Nat /\ j * E \in Nat
      BY <1>1, <1>2
    <3>2. i * E + E <= j * E
      BY <1>3, <2>1, <2>3, <3>1
    <3> QED BY <1>1, <2>1, <3>1, <3>2
  <2> QED BY <1>1, <1>2, <2>1, <2>2, <2>3
<1> QED BY <1>1, <1>2, <1>4 DEF E, n

\* A class has as many slots as total says, at different offsets.
LEMMA SlotsCount ==
    ASSUME NEW c \in Class
    PROVE  /\ Slots(c) \subseteq 1 .. (UnitSize - 1) /\ IsFiniteSet(Slots(c))
           /\ Cardinality(Slots(c)) = total(c)
<1> DEFINE n == total(c)
           at(i) == HeaderSize + i * ElemSize[c]
           f == [i \in 0 .. (n - 1) |-> at(i)]
<1>1. n \in Nat /\ n >= 1 /\ UnitSize \in Nat
  BY SlotIs, RunAssumption
<1>2. \A i \in 0 .. (n - 1) : at(i) \in 1 .. (UnitSize - 1)
  BY <1>1, SlotIs
<1>3. \A i, j \in 0 .. (n - 1) : at(i) = at(j) => i = j
  <2> SUFFICES ASSUME NEW i \in 0 .. (n - 1), NEW j \in 0 .. (n - 1), i # j PROVE at(i) # at(j)
    OBVIOUS
  <2>1. at(i) \in Nat /\ at(j) \in Nat /\ ElemSize[c] \in Nat /\ ElemSize[c] >= 1
    BY SlotIs
  <2>2. (i < j => at(i) + ElemSize[c] <= at(j)) /\ (j < i => at(j) + ElemSize[c] <= at(i))
    BY SlotIs
  <2>3. i < j \/ j < i
    BY <1>1
  <2> HIDE DEF at
  <2> QED BY <2>1, <2>2, <2>3
<1>4. Slots(c) = {at(i) : i \in 0 .. (n - 1)}
  BY DEF Slots
<1> HIDE DEF n, at
<1>5. f \in Bijection(0 .. (n - 1), Slots(c))
  <2>1. f \in [0 .. (n - 1) -> Slots(c)] /\ \A i \in 0 .. (n - 1) : f[i] = at(i)
    BY <1>4
  <2>2. \A i, j \in 0 .. (n - 1) : f[i] = f[j] => i = j
    BY <1>3, <2>1
  <2>3. \A x \in Slots(c) : \E i \in 0 .. (n - 1) : f[i] = x
    BY <1>4, <2>1
  <2> HIDE DEF f
  <2> QED BY <2>1, <2>2, <2>3 DEF Bijection, Injection, Surjection, IsInjective
<1>6. IsFiniteSet(0 .. (n - 1)) /\ Cardinality(0 .. (n - 1)) = n
  BY <1>1, FS_Interval
<1>7. IsFiniteSet(Slots(c)) /\ Cardinality(Slots(c)) = n
  BY <1>5, <1>6, FS_Bijection DEF ExistsBijection
<1> QED BY <1>2, <1>4, <1>7 DEF n

\* What a run can do: at most all of its slots are given out, and as long as some are
\* not, the free list has them.
LEMMA SoundRoom ==
    ASSUME NEW h \in Header, NEW G, Sound(h, G)
    PROVE  /\ IsFiniteSet(G) /\ h.used \in Nat /\ h.used <= total(h.conf_index)
           /\ h.used < total(h.conf_index) => HasSlot(h)
           /\ h.used = 0 <=> G = {}
           /\ total(h.conf_index) \in Nat /\ total(h.conf_index) >= 1
<1> DEFINE c == h.conf_index
<1>1. c \in Class /\ G \in SUBSET Slots(c) /\ h.used = Cardinality(G)
  BY DEF Sound
<1>2. IsFiniteSet(Slots(c)) /\ Cardinality(Slots(c)) = total(c) /\ total(c) \in Nat /\ total(c) >= 1
  BY <1>1, SlotsCount, SlotIs
<1>3. IsFiniteSet(G) /\ Cardinality(G) <= total(c) /\ Cardinality(G) \in Nat
  BY <1>1, <1>2, FS_Subset, FS_CardinalityType
<1>4. ASSUME h.used < total(c) PROVE h.free # <<>>
  <2>1. Slots(c) # G
    BY <1>1, <1>2, <1>3, <1>4
  <2>2. PICK x \in Slots(c) \ G : TRUE
    BY <1>1, <2>1
  <2>3. PICK i \in 1 .. Len(h.free) : h.free[i] = x
    BY <2>2 DEF Sound, Lists
  <2> QED BY <2>3
<1>5. Cardinality(G) = 0 <=> G = {}
  BY <1>3, FS_EmptySet
<1> QED BY <1>1, <1>2, <1>3, <1>4, <1>5 DEF HasSlot

\* malloc_run takes a slot that nobody holds.
LEMMA SoundTake ==
    ASSUME NEW h \in Header, NEW G, Sound(h, G), HasSlot(h)
    PROVE  /\ Head(h.free) \in Slots(h.conf_index) \ G
           /\ malloc_run(h) \in Header /\ malloc_run(h).conf_index = h.conf_index
           /\ malloc_run(h).used = h.used + 1
           /\ Sound(malloc_run(h), G \cup {Head(h.free)})
<1> DEFINE c == h.conf_index
           o == Head(h.free)
           g == malloc_run(h)
<1>1. h.free \in Seq(1 .. UnitSize) /\ h.free # <<>> /\ Lists(h.free, Slots(c) \ G)
      /\ G \subseteq Slots(c) /\ h.used = Cardinality(G) /\ c \in Class
  BY DEF Header, HasSlot, Sound
<1>2. o \in Slots(c) \ G /\ Tail(h.free) \in Seq(1 .. UnitSize) /\ Lists(Tail(h.free), (Slots(c) \ G) \ {o})
  BY <1>1, ListsTail
<1>3. g \in Header /\ g.conf_index = c /\ g.used = h.used + 1 /\ g.free = Tail(h.free)
  <2>1. \A t \in Seq(1 .. UnitSize), n \in Nat : [h EXCEPT !.free = t, !.used = n] \in Header
    BY DEF Header
  <2>2. g = [h EXCEPT !.free = Tail(h.free), !.used = h.used + 1]
    BY DEF malloc_run
  <2>3. h.used + 1 \in Nat
    BY DEF Header
  <2>4. g \in Header
    BY <1>2, <2>1, <2>2, <2>3
  <2> QED BY <2>4 DEF malloc_run, Header
<1>4. IsFiniteSet(G) /\ Cardinality(G \cup {o}) = h.used + 1
  BY <1>1, <1>2, SoundRoom, FS_AddElement
<1>5. (Slots(c) \ G) \ {o} = Slots(c) \ (G \cup {o})
  OBVIOUS
<1> HIDE DEF o, g, c
<1>6. Sound(g, G \cup {o})
  BY <1>1, <1>2, <1>3, <1>4, <1>5 DEF Sound
<1> QED BY <1>2, <1>3, <1>6 DEF o, g, c

\* free_run takes back a slot that somebody holds.
LEMMA SoundGive ==
    ASSUME NEW h \in Header, NEW G, Sound(h, G), NEW o \in G
    PROVE  /\ h.used >= 1
           /\ free_run(h, o) \in Header /\ free_run(h, o).conf_index = h.conf_index
           /\ free_run(h, o).used = h.used - 1
           /\ Sound(free_run(h, o), G \ {o})
<1> DEFINE c == h.conf_index
           g == free_run(h, o)
<1>1. h.free \in Seq(1 .. UnitSize) /\ Lists(h.free, Slots(c) \ G)
      /\ G \subseteq Slots(c) /\ h.used = Cardinality(G) /\ c \in Class
  BY DEF Header, Sound
<1>2. o \in Slots(c) /\ o \in 1 .. UnitSize
  BY <1>1, SlotsCount, RunAssumption
<1>3. <<o>> \o h.free \in Seq(1 .. UnitSize) /\ Lists(<<o>> \o h.free, (Slots(c) \ G) \cup {o})
  BY <1>1, <1>2, ListsCons
<1>4. IsFiniteSet(G) /\ h.used \in Nat /\ h.used >= 1
  BY <1>1, SoundRoom
<1>5. Cardinality(G \ {o}) = h.used - 1
  BY <1>1, <1>4, FS_RemoveElement
<1>6. g \in Header /\ g.conf_index = c /\ g.used = h.used - 1 /\ g.free = <<o>> \o h.free
  <2>1. \A t \in Seq(1 .. UnitSize), n \in Nat : [h EXCEPT !.free = t, !.used = n] \in Header
    BY DEF Header
  <2>2. g = [h EXCEPT !.free = <<o>> \o h.free, !.used = h.used - 1]
    BY DEF free_run
  <2>3. h.used - 1 \in Nat
    BY <1>4 DEF Header
  <2>4. g \in Header
    BY <1>3, <2>1, <2>2, <2>3
  <2> QED BY <2>4 DEF free_run, Header
<1>7. (Slots(c) \ G) \cup {o} = Slots(c) \ (G \ {o})
  BY <1>2
<1> HIDE DEF g, c
<1>8. Sound(g, G \ {o})
  BY <1>1, <1>3, <1>5, <1>6, <1>7 DEF Sound
<1> QED BY <1>4, <1>6, <1>8 DEF g, c

\* The run that new_chunk_run makes.
LEMMA SoundNew ==
    ASSUME NEW c \in Class
    PROVE  LET h == [conf_index |-> c, used |-> 0, free |-> InitialFree(c)]
           IN  h \in Header /\ Sound(h, {}) /\ HasSlot(h)
<1> DEFINE s == InitialFree(c)
           n == total(c)
           at(i) == HeaderSize + i * ElemSize[c]
<1>1. n \in Nat /\ n >= 1 /\ UnitSize \in Nat
  BY SlotIs, RunAssumption
<1>2. \A i \in 1 .. n : i - 1 \in 0 .. (n - 1)
  BY <1>1
<1>3. \A i \in 0 .. (n - 1) : i + 1 \in 1 .. n /\ (i + 1) - 1 = i
  BY <1>1
<1>4. \A i \in 0 .. (n - 1) : at(i) \in 1 .. UnitSize /\ at(i) = i * ElemSize[c] + HeaderSize
  BY <1>1, SlotIs, RunAssumption
<1>5. s = [i \in 1 .. n |-> at(i - 1)]
  BY <1>2, <1>4 DEF InitialFree
<1>6. \A i, j \in 0 .. (n - 1) : i # j => at(i) # at(j)
  <2> SUFFICES ASSUME NEW i \in 0 .. (n - 1), NEW j \in 0 .. (n - 1), i # j PROVE at(i) # at(j)
    OBVIOUS
  <2>1. at(i) \in Nat /\ at(j) \in Nat /\ ElemSize[c] \in Nat /\ ElemSize[c] >= 1
    BY SlotIs
  <2>2. (i < j => at(i) + ElemSize[c] <= at(j)) /\ (j < i => at(j) + ElemSize[c] <= at(i))
    BY SlotIs
  <2>3. i < j \/ j < i
    BY <1>1
  <2> HIDE DEF at
  <2> QED BY <2>1, <2>2, <2>3
<1>7. Slots(c) = {at(i) : i \in 0 .. (n - 1)}
  BY DEF Slots
<1> HIDE DEF n, at, s
<1>8. s \in Seq(1 .. UnitSize) /\ Len(s) = n /\ \A i \in 1 .. n : s[i] = at(i - 1)
  BY <1>1, <1>2, <1>4, <1>5
<1>9. Lists(s, Slots(c))
  <2>1. \A i, j \in 1 .. n : i # j => s[i] # s[j]
    <3> SUFFICES ASSUME NEW i \in 1 .. n, NEW j \in 1 .. n, i # j PROVE s[i] # s[j]
      OBVIOUS
    <3>1. i - 1 # j - 1
      BY <1>1
    <3> QED BY <1>2, <1>6, <1>8, <3>1
  <2>2. {s[i] : i \in 1 .. n} = Slots(c)
    BY <1>2, <1>3, <1>7, <1>8
  <2> QED BY <1>8, <2>1, <2>2 DEF Lists
<1>10. s # <<>>
  BY <1>1, <1>8
<1> DEFINE h == [conf_index |-> c, used |-> 0, free |-> s]
<1>11. h \in Header /\ h.conf_index = c /\ h.used = 0 /\ h.free = s
  BY <1>8 DEF Header
<1> HIDE DEF h
<1>12. Sound(h, {})
  BY <1>9, <1>11, FS_EmptySet DEF Sound
<1>13. HasSlot(h)
  BY <1>1, <1>10, <1>11 DEF HasSlot, n
<1> QED BY <1>11, <1>12, <1>13 DEF h, s

-----------------------------------------------------------------------------
(* Pages and positions *)

\* Run numbers count the pages of the chunks one after the other.
LEMMA PageIs ==
    ASSUME NEW k \in Chunk, NEW i \in Index
    PROVE  /\ k * RunSize + i \in Run
           /\ (k * RunSize + i) \div RunSize = k /\ (k * RunSize + i) % RunSize = i
<1>1. /\ RunSize \in Nat \ {0} /\ k \in Nat /\ k < Chunks /\ Chunks \in Nat /\ i \in 0 .. (RunSize - 1)
      /\ k \in Int
  BY RunAssumption DEF Chunk, Index
<1>2. /\ k * RunSize \in Nat /\ Chunks * RunSize \in Nat
      /\ k * RunSize + RunSize <= Chunks * RunSize
  BY <1>1, Multiples
<1>3. k * RunSize + i \in Run
  BY <1>1, <1>2 DEF Run
<1> QED BY <1>1, <1>3, DivModIs

\* Every run number is that of a page of a chunk.
LEMMA RunIs ==
    ASSUME NEW r \in Run
    PROVE  /\ r \in Nat /\ r \div RunSize \in Chunk /\ r % RunSize \in Index
           /\ r = (r \div RunSize) * RunSize + (r % RunSize)
<1> DEFINE k == r \div RunSize
           i == r % RunSize
<1>1. /\ RunSize \in Nat \ {0} /\ Chunks \in Nat /\ Chunks * RunSize \in Nat
      /\ r \in Nat /\ r < Chunks * RunSize
  BY RunAssumption DEF Run
<1>2. k \in Nat /\ i \in 0 .. (RunSize - 1) /\ r = k * RunSize + i
  BY <1>1, DivModSum
<1> HIDE DEF k, i
<1>3. k < Chunks
  <2> SUFFICES ASSUME ~(k < Chunks) PROVE FALSE
    OBVIOUS
  <2>1. k * RunSize \in Nat /\ Chunks * RunSize <= k * RunSize
    BY <1>1, <1>2
  <2> QED BY <1>1, <1>2, <2>1
<1> QED BY <1>1, <1>2, <1>3 DEF Chunk, Index, k, i

\* Positions count the bytes of the pages one after the other.
LEMMA PosIs ==
    ASSUME NEW r \in Run, NEW o \in 0 .. (UnitSize - 1), r # 0
    PROVE  /\ r * UnitSize + o \in Pos
           /\ (r * UnitSize + o) \div UnitSize = r /\ (r * UnitSize + o) % UnitSize = o
<1> DEFINE R == Chunks * RunSize
<1>1. /\ UnitSize \in Nat \ {0} /\ R \in Nat /\ r \in Nat /\ r < R /\ 0 < r /\ o \in 0 .. (UnitSize - 1)
      /\ r \in Int
  BY RunAssumption DEF Run
<1> HIDE DEF R
<1>2. /\ r * UnitSize \in Nat /\ R * UnitSize \in Nat /\ 0 * UnitSize = 0
      /\ r * UnitSize + UnitSize <= R * UnitSize /\ 0 * UnitSize + UnitSize <= r * UnitSize
  BY <1>1, Multiples
<1>3. r * UnitSize + o \in 1 .. (R * UnitSize)
  BY <1>1, <1>2
<1> QED BY <1>1, <1>3, DivModIs DEF Pos, R

\* Every position is a byte of a page.
LEMMA PosOf ==
    ASSUME NEW p \in Pos
    PROVE  /\ UnitSize \in Nat \ {0} /\ p \in Nat /\ p % UnitSize \in 0 .. (UnitSize - 1)
           /\ p = (p \div UnitSize) * UnitSize + (p % UnitSize)
<1>1. UnitSize \in Nat /\ Chunks * RunSize \in Nat
  BY RunAssumption
<1>2. UnitSize # 0
  <2> SUFFICES ASSUME UnitSize = 0 PROVE FALSE
    OBVIOUS
  <2>1. Chunks * RunSize * UnitSize = 0
    BY <1>1
  <2> QED BY <2>1 DEF Pos
<1>3. p \in Nat
  BY RunAssumption DEF Pos
<1> QED BY <1>1, <1>2, <1>3, DivModSum

\* A live run is a page of a chunk in use, and not its header.
LEMMA LiveIs ==
    ASSUME NEW r \in Live
    PROVE  /\ r \in Run /\ r # 0 /\ r \div RunSize \in Chunk
           /\ r % RunSize \in Index \ {0}
<1>1. r \in Run /\ r % RunSize # 0
  BY DEF Live
<1>2. RunSize \in Nat \ {0} /\ 0 = 0 * RunSize + 0 /\ 0 \in 0 .. (RunSize - 1)
  BY RunAssumption
<1>3. 0 % RunSize = 0
  BY <1>2, DivModIs
<1> QED BY <1>1, <1>3, RunIs

\* A store to one position changes what is held in its page, and in no other.
LEMMA GivenPut ==
    ASSUME TypeOK, NEW r \in Run, r # 0, NEW o \in 0 .. (UnitSize - 1), NEW v \in Nat,
           NEW x, x = r * UnitSize + o, held' = [held EXCEPT ![x] = v]
    PROVE  /\ held' \in [Pos -> Nat] /\ held'[x] = v
           /\ \A p \in Pos : p # x => held'[p] = held[p]
           /\ \A s \in Run : s # 0 /\ s # r => Given(s)' = Given(s)
           /\ v = 0 => Given(r)' = Given(r) \ {o}
           /\ v # 0 => Given(r)' = Given(r) \cup {o}
<1>1. x \in Pos /\ x \div UnitSize = r /\ x % UnitSize = o
  BY PosIs
<1>2. held' = [held EXCEPT ![x] = v] /\ held \in [Pos -> Nat]
  BY DEF TypeOK
<1>3. /\ held' \in [Pos -> Nat] /\ held'[x] = v
      /\ \A p \in Pos : p # x => held'[p] = held[p]
  BY <1>1, <1>2
<1>4. ASSUME NEW s \in Run, s # 0, s # r PROVE Given(s)' = Given(s)
  <2>1. \A e \in 0 .. (UnitSize - 1) : s * UnitSize + e \in Pos /\ s * UnitSize + e # x
    BY <1>1, <1>4, PosIs
  <2>2. \A e \in 0 .. (UnitSize - 1) : held'[s * UnitSize + e] = held[s * UnitSize + e]
    BY <1>3, <2>1
  <2> QED BY <2>2 DEF Given
<1>5. /\ v = 0 => Given(r)' = Given(r) \ {o}
      /\ v # 0 => Given(r)' = Given(r) \cup {o}
  <2>1. \A e \in 0 .. (UnitSize - 1) : r * UnitSize + e \in Pos /\ (r * UnitSize + e = x <=> e = o)
    BY <1>1, PosIs
  <2>2. \A e \in 0 .. (UnitSize - 1) : held'[r * UnitSize + e] = IF e = o THEN v ELSE held[r * UnitSize + e]
    BY <1>3, <2>1
  <2> QED BY <2>2 DEF Given
<1> QED BY <1>3, <1>4, <1>5

\* A store of a size adds a slot to what is held.
LEMMA GivenTake ==
    ASSUME TypeOK, NEW r \in Run, r # 0, NEW o \in 0 .. (UnitSize - 1), NEW v \in Nat \ {0},
           NEW x, x = r * UnitSize + o, held' = [held EXCEPT ![x] = v]
    PROVE  Given(r)' = Given(r) \cup {o}
BY GivenPut

\* A store of 0 takes it away.
LEMMA GivenGive ==
    ASSUME TypeOK, NEW r \in Run, r # 0, NEW o \in 0 .. (UnitSize - 1),
           NEW x, x = r * UnitSize + o, held' = [held EXCEPT ![x] = 0]
    PROVE  /\ held' \in [Pos -> Nat] /\ held'[x] = 0
           /\ \A p \in Pos : p # x => held'[p] = held[p]
           /\ \A s \in Run : s # 0 /\ s # r => Given(s)' = Given(s)
           /\ Given(r)' = Given(r) \ {o}
<1>1. 0 \in Nat
  OBVIOUS
<1>2. held' \in [Pos -> Nat] /\ held'[x] = 0
  <2>1. x \in Pos
    BY PosIs
  <2> QED BY <2>1 DEF TypeOK
<1>3. \A p \in Pos : p # x => held'[p] = held[p]
  BY <1>1, GivenPut
<1>4. \A s \in Run : s # 0 /\ s # r => Given(s)' = Given(s)
  BY <1>1, GivenPut
<1>5. Given(r)' = Given(r) \ {o}
  BY <1>1, GivenPut
<1> QED BY <1>2, <1>3, <1>4, <1>5

\* A page that is no live run holds nothing.
LEMMA DeadHoldsNothing ==
    ASSUME IInv, NEW r \in Run, r # 0, r \notin Live
    PROVE  Given(r) = {}
<1> SUFFICES ASSUME NEW o \in Given(r) PROVE FALSE
  OBVIOUS
<1>1. o \in 0 .. (UnitSize - 1) /\ held[r * UnitSize + o] # 0
  BY DEF Given
<1>2. r * UnitSize + o \in Pos /\ (r * UnitSize + o) \div UnitSize = r
  BY <1>1, PosIs
<1> QED BY <1>1, <1>2 DEF IInv, HeldIsLive

\* A held position is a slot of a live run.
LEMMA HeldIs ==
    ASSUME IInv, NEW p \in Pos, held[p] # 0
    PROVE  LET r == p \div UnitSize
               o == p % UnitSize
           IN  /\ r \in Live /\ r \in Run /\ r # 0 /\ o \in 0 .. (UnitSize - 1)
               /\ p = r * UnitSize + o /\ o \in Given(r) /\ Found(p)
<1> DEFINE r == p \div UnitSize
           o == p % UnitSize
<1>1. r \in Live /\ o \in 0 .. (UnitSize - 1) /\ p = r * UnitSize + o
  BY PosOf DEF IInv, HeldIsLive
<1>2. r \in Run /\ r # 0
  BY <1>1, LiveIs
<1>3. Found(p)
  BY <1>1, <1>2 DEF Found, Live
<1> HIDE DEF r, o
<1>4. o \in Given(r)
  BY <1>1 DEF Given
<1> QED BY <1>1, <1>2, <1>3, <1>4 DEF r, o

-----------------------------------------------------------------------------
(* The operations *)

\* What malloc_chunk_run does to run r of class c, whose header is h by then and which
\* is in its pool by then.
Takes(c, r, h) ==
    /\ run' = [run EXCEPT ![r] = malloc_run(h)]
    /\ pool' = IF run_full(malloc_run(h)) THEN [pool EXCEPT ![c] = @ \ {r}]
                                          ELSE [pool EXCEPT ![c] = @ \cup {r}]
    /\ held' = [held EXCEPT ![r * UnitSize + Head(h.free)] = ElemSize[c]]

\* malloc_chunk_run takes a slot of run r, one of the pool or a new one.
LEMMA TakeStep ==
    ASSUME IInv, NEW c \in Class, NEW r \in Run, r # 0, NEW h \in Header,
           h.conf_index = c, Sound(h, Given(r)), HasSlot(h), r \in Live => h = run[r],
           Live' = Live \cup {r}, Takes(c, r, h)
    PROVE  /\ Headers' /\ Runs' /\ HeldIsLive' /\ PoolExact' /\ OneEmpty'
           /\ pool' \in [Class -> SUBSET Run] /\ held' \in [Pos -> Nat]
<1> DEFINE o == Head(h.free)
           g == malloc_run(h)
<1>1. /\ o \in Slots(c) /\ g \in Header /\ g.conf_index = c /\ g.used = h.used + 1
      /\ Sound(g, Given(r) \cup {o})
  BY SoundTake
<1>2. /\ g.used \in Nat /\ g.used >= 1 /\ g.used <= total(c) /\ total(c) \in Nat
  <2>1. h.used \in Nat
    BY SoundRoom
  <2> QED BY <1>1, <2>1, SoundRoom
<1>3. o \in 0 .. (UnitSize - 1) /\ ElemSize[c] \in Nat /\ ElemSize[c] # 0
  BY <1>1, SlotsCount, SlotIs, RunAssumption
<1> DEFINE x == r * UnitSize + o
<1>4. x \in Pos /\ x \div UnitSize = r /\ x = r * UnitSize + o /\ held' = [held EXCEPT ![x] = ElemSize[c]]
  BY <1>3, PosIs DEF Takes
<1> HIDE DEF o, x
<1>5. /\ held' \in [Pos -> Nat] /\ held'[x] = ElemSize[c]
      /\ \A p \in Pos : p # x => held'[p] = held[p]
      /\ \A s \in Run : s # 0 /\ s # r => Given(s)' = Given(s)
      /\ Given(r)' = Given(r) \cup {o}
  <2>1. TypeOK
    BY DEF IInv
  <2>2. x = r * UnitSize + o /\ ElemSize[c] \in Nat /\ held' = [held EXCEPT ![x] = ElemSize[c]]
    BY <1>3, <1>4
  <2>3. ElemSize[c] \in Nat \ {0}
    BY <1>3
  <2>4. Given(r)' = Given(r) \cup {o}
    BY <1>3, <2>1, <2>2, <2>3, GivenTake
  <2>5. held' \in [Pos -> Nat] /\ held'[x] = ElemSize[c]
    BY <1>4, <2>1, <2>2 DEF TypeOK
  <2>6. /\ \A p \in Pos : p # x => held'[p] = held[p]
        /\ \A s \in Run : s # 0 /\ s # r => Given(s)' = Given(s)
    BY <1>3, <2>1, <2>2, GivenPut
  <2> QED BY <2>4, <2>5, <2>6
<1>6. /\ run \in [Run -> Header] /\ run' \in [Run -> Header] /\ run'[r] = g
      /\ \A s \in Run : s # r => run'[s] = run[s]
  BY <1>1 DEF IInv, Headers, Takes
<1>7. run_full(g) <=> g.used = total(c)
  BY <1>1 DEF run_full
<1> HIDE DEF g
<1>8. Runs'
  <2> SUFFICES ASSUME NEW s \in Live' PROVE Sound(run'[s], Given(s)')
    BY DEF Runs, Sound, Slots, Lists, total
  <2>1. CASE s = r
    BY <1>1, <1>5, <1>6, <2>1
  <2>2. CASE s # r
    <3>1. s \in Live /\ s \in Run /\ s # 0
      BY <2>2, LiveIs
    <3> QED BY <1>5, <1>6, <2>2, <3>1 DEF IInv, Runs
  <2> QED BY <2>1, <2>2
<1>9. HeldIsLive'
  <2> SUFFICES ASSUME NEW p \in Pos, held'[p] # 0
               PROVE  /\ p \div UnitSize \in Live'
                      /\ held'[p] = ElemSize[run'[p \div UnitSize].conf_index]
    BY DEF HeldIsLive
  <2>1. CASE p = x
    BY <1>1, <1>4, <1>5, <1>6, <2>1
  <2>2. CASE p # x
    <3>1. /\ held'[p] = held[p] /\ p \div UnitSize \in Live
          /\ held[p] = ElemSize[run[p \div UnitSize].conf_index]
      BY <1>5, <2>2 DEF IInv, HeldIsLive
    <3>2. p \div UnitSize \in Run
      BY <3>1, LiveIs
    <3> QED BY <1>1, <1>6, <3>1, <3>2
  <2> QED BY <2>1, <2>2
<1>10. /\ pool' \in [Class -> SUBSET Run]
       /\ pool'[c] = IF g.used = total(c) THEN pool[c] \ {r} ELSE pool[c] \cup {r}
       /\ \A d \in Class : d # c => pool'[d] = pool[d]
  BY <1>7 DEF IInv, TypeOK, Takes, g
<1>11. PoolExact'
  <2> SUFFICES ASSUME NEW d \in Class
               PROVE  pool'[d] = {s \in Live' : run'[s].conf_index = d /\ run'[s].used < total(d)}
    BY DEF PoolExact, total
  <2>1. pool[d] = {s \in Live : run[s].conf_index = d /\ run[s].used < total(d)}
    BY DEF IInv, PoolExact
  <2>2. \A s \in Live : s \in Run
    BY LiveIs
  <2>3. CASE d # c
    BY <1>1, <1>6, <1>10, <2>1, <2>2, <2>3
  <2>4. CASE d = c
    <3>1. r \in pool'[c] <=> g.used < total(c)
      BY <1>2, <1>10
    <3>2. \A s : s # r => (s \in pool'[c] <=> s \in pool[c])
      BY <1>10
    <3> QED BY <1>1, <1>6, <2>1, <2>2, <2>4, <3>1, <3>2
  <2> QED BY <2>3, <2>4
<1>12. OneEmpty'
  <2>1. \A s \in Live' : run'[s].used = 0 => s \in Live /\ run'[s] = run[s]
    BY <1>2, <1>6, LiveIs
  <2> QED BY <2>1 DEF IInv, OneEmpty
<1> QED BY <1>5, <1>6, <1>8, <1>9, <1>10, <1>11, <1>12 DEF Headers

\* A slot of a run in the pool.
LEMMA PoolStep ==
    ASSUME IInv, NEW c \in Class, NEW r \in pool[c], try_run_pool(r)
    PROVE  IInv'
<1>1. r \in Live /\ run[r].conf_index = c /\ run[r].used < total(c) /\ r \in Run /\ r # 0
  BY LiveIs DEF IInv, PoolExact
<1>2. run[r] \in Header /\ Sound(run[r], Given(r))
  BY <1>1 DEF IInv, Headers, Runs
<1>3. HasSlot(run[r])
  BY <1>1, <1>2, SoundRoom
<1>4. malloc_chunk_run(r, run, pool) /\ UNCHANGED <<type, maxsize, used, bitmap, failed>>
  BY <1>3 DEF try_run_pool
<1>5. pool = [pool EXCEPT ![c] = @ \cup {r}]
  BY DEF IInv, TypeOK
<1>6. /\ run' = [run EXCEPT ![r] = malloc_run(run[r])]
      /\ pool' = IF run_full(malloc_run(run[r])) THEN [pool EXCEPT ![c] = @ \ {r}] ELSE pool
      /\ held' = [held EXCEPT ![r * UnitSize + Head(run[r].free)] = ElemSize[c]]
  BY <1>1, <1>4 DEF malloc_chunk_run
<1>7. Takes(c, r, run[r])
  BY <1>5, <1>6 DEF Takes
<1>8. Live' = Live \cup {r}
  BY <1>1, <1>4 DEF Live
<1>9. /\ Headers' /\ Runs' /\ HeldIsLive' /\ PoolExact' /\ OneEmpty'
      /\ pool' \in [Class -> SUBSET Run] /\ held' \in [Pos -> Nat]
  BY <1>1, <1>2, <1>3, <1>7, <1>8, TakeStep
<1>10. \A s \in Run : /\ run'[s].conf_index \in Class \cup {0} /\ run'[s].used \in Nat
                      /\ run'[s].free \in Seq(1 .. UnitSize)
  BY <1>9 DEF Headers, Header
<1>11. linked' \subseteq Run /\ torn' \in BOOLEAN
  BY <1>1, <1>4 DEF IInv, TypeOK, malloc_chunk_run
<1>12. TypeOK' /\ Counts' /\ NoFailure'
  BY <1>4, <1>9, <1>10, <1>11 DEF IInv, TypeOK, Counts, NoFailure
<1> QED BY <1>9, <1>12 DEF IInv

\* The chunk that get_or_new_chunk returns has a free page, and counts the others.
LEMMA CandidateIs ==
    ASSUME IInv, NEW k \in Candidates
    PROVE  /\ k \in Chunk /\ Marked(k) \in SUBSET Index /\ 0 \in Marked(k)
           /\ IsFiniteSet(Marked(k)) /\ Marked(k) # Index
           /\ (IF type[k] = "EMPTY" THEN 1 ELSE used[k]) = Cardinality(Marked(k))
           /\ Cardinality(Marked(k)) \in 1 .. (RunSize - 1)
<1>1. /\ k \in Chunk /\ type[k] \in {"EMPTY", "SMALL"} /\ bitmap[k] \in SUBSET Index
      /\ type[k] = "SMALL" => maxsize[k] >= 1
  BY DEF Candidates, Available, IInv, TypeOK
<1>2. RunSize \in Nat /\ RunSize >= 2 /\ 0 \in Index /\ 1 \in Index
  BY RunAssumption DEF Index
<1>3. IsFiniteSet(Index) /\ Cardinality(Index) = RunSize
  BY <1>2, FS_Interval DEF Index
<1>4. CASE type[k] = "EMPTY"
  <2>1. Marked(k) = {0}
    BY <1>4 DEF Marked
  <2>2. IsFiniteSet({0}) /\ Cardinality({0}) = 1
    BY FS_Singleton
  <2>3. {0} # Index /\ {0} \in SUBSET Index
    BY <1>2
  <2>4. 1 \in 1 .. (RunSize - 1)
    BY <1>2
  <2> QED BY <1>1, <1>4, <2>1, <2>2, <2>3, <2>4
<1>5. CASE type[k] = "SMALL"
  <2>1. Marked(k) = bitmap[k]
    BY <1>5 DEF Marked
  <2>2. used[k] = Cardinality(bitmap[k]) /\ 0 \in bitmap[k] /\ used[k] > 1 /\ used[k] # RunSize
    BY <1>1, <1>5 DEF IInv, Counts
  <2>3. IsFiniteSet(bitmap[k]) /\ Cardinality(bitmap[k]) <= RunSize /\ Cardinality(bitmap[k]) \in Nat
    BY <1>1, <1>3, FS_Subset, FS_CardinalityType
  <2>4. Cardinality(bitmap[k]) \in 1 .. (RunSize - 1)
    BY <1>2, <2>2, <2>3
  <2>5. bitmap[k] # Index
    BY <1>3, <2>2
  <2> QED BY <1>1, <1>5, <2>1, <2>2, <2>3, <2>4, <2>5
<1> QED BY <1>1, <1>4, <1>5

\* new_chunk_run finds a free page in it.
LEMMA FirstRunIs ==
    ASSUME IInv, NEW k \in Candidates
    PROVE  LET r == FirstRun(k)
           IN  /\ r \in Run /\ r # 0 /\ r \div RunSize = k /\ r % RunSize \in Index
               /\ r % RunSize \notin Marked(k) /\ r = k * RunSize + (r % RunSize) /\ r \notin Live
<1> DEFINE M == Marked(k)
           i == Min(Index \ M)
           r == FirstRun(k)
<1>1. k \in Chunk /\ M \in SUBSET Index /\ 0 \in M /\ M # Index
  BY CandidateIs
<1> HIDE DEF M
<1>2. i \in Index /\ i \notin M
  <2>1. Index \ M # {}
    BY <1>1
  <2>2. Index \subseteq Nat
    BY RunAssumption DEF Index
  <2>3. Index \ M \in SUBSET Nat
    BY <2>2
  <2>4. Min(Index \ M) \in Index \ M
    BY <2>1, <2>3, MinIs
  <2> QED BY <2>4
<1>3. r = k * RunSize + i
  BY DEF FirstRun, M
<1> HIDE DEF i, r
<1>4. r \in Run /\ r \div RunSize = k /\ r % RunSize = i
  BY <1>1, <1>2, <1>3, PageIs
<1>5. r # 0
  <2>1. RunSize \in Nat \ {0} /\ 0 = 0 * RunSize + 0 /\ 0 \in 0 .. (RunSize - 1)
    BY RunAssumption
  <2>2. 0 % RunSize = 0
    BY <2>1, DivModIs
  <2> QED BY <1>1, <1>2, <1>4, <2>2
<1>6. r \notin Live
  BY <1>2, <1>4 DEF Live, Marked, M
<1> QED BY <1>2, <1>3, <1>4, <1>5, <1>6 DEF M, r

\* new_chunk_run makes a run of the first free page, in a new chunk or one in use.
LEMMA NewStep ==
    ASSUME IInv, NEW c \in Class, NEW k \in Candidates, new_chunk_run(c, k)
    PROVE  IInv'
<1> DEFINE M     == Marked(k)
           count == IF type[k] = "EMPTY" THEN 1 ELSE used[k]
           r     == FirstRun(k)
           h     == [conf_index |-> c, used |-> 0, free |-> InitialFree(c)]
<1>1. /\ k \in Chunk /\ M \in SUBSET Index /\ 0 \in M /\ IsFiniteSet(M) /\ M # Index
      /\ count = Cardinality(M) /\ count \in 1 .. (RunSize - 1)
  BY CandidateIs
<1>2. RunSize \in Nat /\ RunSize >= 2 /\ count < RunSize /\ count >= 1 /\ count \in Nat
  BY <1>1, RunAssumption
<1>3. /\ type' = [type EXCEPT ![k] = "SMALL"]
      /\ used' = [used EXCEPT ![k] = count + 1]
      /\ bitmap' = [bitmap EXCEPT ![k] = M \cup {r % RunSize}]
      /\ maxsize' = [maxsize EXCEPT ![k] = IF count + 1 = RunSize THEN 0
                                           ELSE IF type[k] = "EMPTY" THEN 1 ELSE @]
      /\ malloc_chunk_run(r, [run EXCEPT ![r] = h], [pool EXCEPT ![c] = @ \cup {r}])
      /\ UNCHANGED failed
  BY <1>1, <1>2 DEF new_chunk_run
<1>4. h \in Header /\ Sound(h, {}) /\ HasSlot(h) /\ h.conf_index = c
  BY SoundNew
<1> DEFINE i == r % RunSize
<1>5. /\ r \in Run /\ r # 0 /\ r \div RunSize = k /\ r % RunSize = i /\ i \in Index
      /\ i \notin M /\ r = k * RunSize + i /\ r \notin Live
  BY FirstRunIs
<1> HIDE DEF M, count, i, r, h
<1>6. /\ \A j \in Chunk : j # k => type'[j] = type[j] /\ used'[j] = used[j]
                                  /\ bitmap'[j] = bitmap[j] /\ maxsize'[j] = maxsize[j]
      /\ type'[k] = "SMALL" /\ used'[k] = count + 1 /\ bitmap'[k] = M \cup {i}
      /\ maxsize'[k] = IF count + 1 = RunSize THEN 0 ELSE IF type[k] = "EMPTY" THEN 1 ELSE maxsize[k]
  BY <1>1, <1>3, <1>5 DEF IInv, TypeOK
<1>7. Live' = Live \cup {r}
  <2> SUFFICES ASSUME NEW s \in Run PROVE s \in Live' <=> s \in Live \/ s = r
    BY <1>5 DEF Live
  <2>1. s \div RunSize \in Chunk /\ s % RunSize \in Index /\ s = (s \div RunSize) * RunSize + (s % RunSize)
    BY RunIs
  <2>2. CASE s \div RunSize # k
    BY <1>5, <1>6, <2>1, <2>2 DEF Live
  <2>3. CASE s \div RunSize = k
    <3>1. s = r <=> s % RunSize = i
      BY <1>5, <2>1, <2>3
    <3>2. s \in Live' <=> s % RunSize # 0 /\ (s % RunSize \in M \/ s % RunSize = i)
      BY <1>6, <2>3 DEF Live
    <3>3. s \in Live <=> s % RunSize # 0 /\ s % RunSize \in M
      <4>1. type[k] = "SMALL" \/ type[k] = "EMPTY"
        BY <1>1 DEF IInv, TypeOK
      <4> QED BY <2>3, <4>1 DEF Live, M, Marked
    <3> QED BY <1>1, <1>5, <3>1, <3>2, <3>3
  <2> QED BY <2>2, <2>3
<1>8. Takes(c, r, h)
  <2>1. [run EXCEPT ![r] = h][r] = h /\ [[run EXCEPT ![r] = h] EXCEPT ![r] = malloc_run(h)]
                                          = [run EXCEPT ![r] = malloc_run(h)]
    BY <1>5 DEF IInv, Headers
  <2>2. [[pool EXCEPT ![c] = @ \cup {r}] EXCEPT ![c] = @ \ {r}] = [pool EXCEPT ![c] = @ \ {r}]
    BY DEF IInv, TypeOK
  <2> QED BY <1>3, <1>4, <2>1, <2>2 DEF Takes, malloc_chunk_run
<1>9. Given(r) = {}
  BY <1>5, DeadHoldsNothing
<1>10. /\ Headers' /\ Runs' /\ HeldIsLive' /\ PoolExact' /\ OneEmpty'
       /\ pool' \in [Class -> SUBSET Run] /\ held' \in [Pos -> Nat]
  BY <1>4, <1>5, <1>7, <1>8, <1>9, TakeStep
<1>11. TypeOK'
  <2>1. \A s \in Run : /\ run'[s].conf_index \in Class \cup {0} /\ run'[s].used \in Nat
                       /\ run'[s].free \in Seq(1 .. UnitSize)
    BY <1>10 DEF Headers, Header
  <2>2. type' \in [Chunk -> {"EMPTY", "SMALL"}] /\ maxsize' \in [Chunk -> 0 .. 1]
    <3> DEFINE v == IF count + 1 = RunSize THEN 0 ELSE IF type[k] = "EMPTY" THEN 1 ELSE maxsize[k]
    <3>1. maxsize \in [Chunk -> 0 .. 1] /\ type \in [Chunk -> {"EMPTY", "SMALL"}]
      BY DEF IInv, TypeOK
    <3>2. v \in 0 .. 1
      BY <1>1, <3>1
    <3>3. maxsize' = [maxsize EXCEPT ![k] = v]
      BY <1>3
    <3> HIDE DEF v
    <3> QED BY <1>3, <3>1, <3>2, <3>3
  <2>3. used' \in [Chunk -> 0 .. RunSize]
    <3>1. count + 1 \in 0 .. RunSize
      BY <1>2
    <3> QED BY <1>3, <3>1 DEF IInv, TypeOK
  <2>4. bitmap' \in [Chunk -> SUBSET Index]
    BY <1>1, <1>3, <1>5 DEF IInv, TypeOK
  <2>5. linked' \subseteq Run /\ torn' \in BOOLEAN
    BY <1>3, <1>5 DEF IInv, TypeOK, malloc_chunk_run
  <2> QED BY <1>3, <1>10, <2>1, <2>2, <2>3, <2>4, <2>5 DEF IInv, TypeOK
<1>12. Counts'
  <2> SUFFICES ASSUME NEW j \in Chunk, type'[j] = "SMALL"
               PROVE  /\ used'[j] = Cardinality(bitmap'[j]) /\ 0 \in bitmap'[j] /\ used'[j] > 1
                      /\ maxsize'[j] = 0 <=> used'[j] = RunSize
    BY DEF Counts
  <2>1. CASE j # k
    BY <1>6, <2>1 DEF IInv, Counts
  <2>2. CASE j = k
    <3>1. Cardinality(M \cup {i}) = count + 1
      BY <1>1, <1>5, FS_AddElement
    <3>2. type[k] # "EMPTY" => maxsize[k] # 0
      <4>1. type[k] # "EMPTY" => k \in Available
        <5>1. Available # {} => Candidates = Available
          BY DEF Candidates
        <5>2. Available = {} => Candidates = {l \in Chunk : type[l] = "EMPTY"}
          BY DEF Candidates
        <5> QED BY <5>1, <5>2
      <4> QED BY <1>1, <4>1 DEF Available
    <3>3. count + 1 > 1
      BY <1>2
    <3>4. maxsize'[k] = 0 <=> used'[k] = RunSize
      BY <1>6, <3>2
    <3>5. used'[k] = Cardinality(bitmap'[k]) /\ 0 \in bitmap'[k] /\ used'[k] > 1
      BY <1>1, <1>6, <3>1, <3>3
    <3> QED BY <2>2, <3>4, <3>5
  <2> QED BY <2>1, <2>2
<1>13. NoFailure'
  BY <1>3 DEF IInv, NoFailure
<1> QED BY <1>10, <1>11, <1>12, <1>13 DEF IInv

\* free_chunk_small keeps a run that has more slots in use, or is the only one of its pool.
LEMMA KeepStep ==
    ASSUME IInv, NEW r \in Live, NEW o \in Given(r), NEW c, c = run[r].conf_index,
           run[r].used = 1 => pool[c] \cup {r} = {r},
           run' = [run EXCEPT ![r] = free_run(run[r], o)],
           pool' = [pool EXCEPT ![c] = @ \cup {r}],
           held' = [held EXCEPT ![r * UnitSize + o] = 0],
           UNCHANGED <<type, maxsize, used, bitmap, failed>>,
           linked' \subseteq Run, torn' \in BOOLEAN
    PROVE  IInv'
<1> DEFINE h == run[r]
           g == free_run(h, o)
           x == r * UnitSize + o
<1>1. r \in Run /\ r # 0 /\ o \in 0 .. (UnitSize - 1)
  BY LiveIs DEF Given
<1>2. h \in Header /\ Sound(h, Given(r)) /\ h.conf_index = c /\ c \in Class
  BY <1>1 DEF IInv, Headers, Runs, Sound
<1>3. /\ h.used >= 1 /\ g \in Header /\ g.conf_index = c /\ g.used = h.used - 1
      /\ Sound(g, Given(r) \ {o})
  BY <1>2, SoundGive
<1>4. h.used \in Nat /\ h.used <= total(c) /\ total(c) \in Nat /\ total(c) >= 1
  BY <1>2, SoundRoom
<1>5. x \in Pos /\ x \div UnitSize = r /\ x = r * UnitSize + o /\ held' = [held EXCEPT ![x] = 0]
  BY <1>1, PosIs
<1> HIDE DEF x
<1>6. /\ held' \in [Pos -> Nat] /\ held'[x] = 0
      /\ \A p \in Pos : p # x => held'[p] = held[p]
      /\ \A s \in Run : s # 0 /\ s # r => Given(s)' = Given(s)
      /\ Given(r)' = Given(r) \ {o}
  BY <1>1, <1>5, GivenGive DEF IInv
<1>7. /\ run \in [Run -> Header] /\ run' \in [Run -> Header] /\ run'[r] = g
      /\ \A s \in Run : s # r => run'[s] = run[s]
  BY <1>1, <1>3 DEF IInv, Headers
<1>8. Live' = Live
  BY DEF Live
<1> HIDE DEF g, h
<1>9. Runs'
  <2> SUFFICES ASSUME NEW s \in Live' PROVE Sound(run'[s], Given(s)')
    BY DEF Runs, Sound, Slots, Lists, total
  <2>1. CASE s = r
    BY <1>3, <1>6, <1>7, <2>1
  <2>2. CASE s # r
    <3>1. s \in Live /\ s \in Run /\ s # 0
      BY <1>8, <2>2, LiveIs
    <3> QED BY <1>6, <1>7, <2>2, <3>1 DEF IInv, Runs
  <2> QED BY <2>1, <2>2
<1>10. HeldIsLive'
  <2> SUFFICES ASSUME NEW p \in Pos, held'[p] # 0
               PROVE  /\ p \div UnitSize \in Live'
                      /\ held'[p] = ElemSize[run'[p \div UnitSize].conf_index]
    BY DEF HeldIsLive
  <2>1. /\ held'[p] = held[p] /\ p \div UnitSize \in Live
        /\ held[p] = ElemSize[run[p \div UnitSize].conf_index]
    BY <1>6 DEF IInv, HeldIsLive
  <2>2. p \div UnitSize \in Run
    BY <2>1, LiveIs
  <2>3. run'[p \div UnitSize].conf_index = run[p \div UnitSize].conf_index
    BY <1>2, <1>3, <1>7, <2>2 DEF h
  <2> QED BY <1>8, <2>1, <2>3
<1>11. /\ pool' \in [Class -> SUBSET Run] /\ pool'[c] = pool[c] \cup {r}
       /\ \A d \in Class : d # c => pool'[d] = pool[d]
  BY <1>1, <1>2 DEF IInv, TypeOK
<1>12. PoolExact'
  <2> SUFFICES ASSUME NEW d \in Class
               PROVE  pool'[d] = {s \in Live' : run'[s].conf_index = d /\ run'[s].used < total(d)}
    BY DEF PoolExact, total
  <2>1. pool[d] = {s \in Live : run[s].conf_index = d /\ run[s].used < total(d)}
    BY DEF IInv, PoolExact
  <2>2. \A s \in Live : s \in Run
    BY LiveIs
  <2>3. CASE d # c
    BY <1>2, <1>3, <1>7, <1>8, <1>11, <2>1, <2>2, <2>3 DEF h
  <2>4. CASE d = c
    <3>1. g.used < total(c)
      BY <1>3, <1>4
    <3> QED BY <1>3, <1>7, <1>8, <1>11, <2>1, <2>2, <2>4, <3>1
  <2> QED BY <2>3, <2>4
<1>13. OneEmpty'
  <2>1. ASSUME NEW s \in Live, s # r, run[s].conf_index = c, run[s].used = 0, g.used = 0 PROVE FALSE
    <3>1. h.used = 1
      BY <1>3, <1>4, <2>1
    <3>2. s \in pool[c]
      BY <1>2, <1>4, <2>1 DEF IInv, PoolExact
    <3> QED BY <2>1, <3>1, <3>2 DEF h
  <2>2. \A s \in Live : s \in Run
    BY LiveIs
  <2> SUFFICES ASSUME NEW s \in Live, NEW t \in Live, run'[s].conf_index = run'[t].conf_index,
                      run'[s].used = 0, run'[t].used = 0, s # t
               PROVE  FALSE
    BY <1>8 DEF OneEmpty
  <2>3. CASE s = r
    BY <1>3, <1>7, <2>1, <2>2, <2>3
  <2>4. CASE t = r
    BY <1>3, <1>7, <2>1, <2>2, <2>4
  <2>5. CASE s # r /\ t # r
    BY <1>7, <2>2, <2>5 DEF IInv, OneEmpty
  <2> QED BY <2>3, <2>4, <2>5
<1>14. \A s \in Run : /\ run'[s].conf_index \in Class \cup {0} /\ run'[s].used \in Nat
                      /\ run'[s].free \in Seq(1 .. UnitSize)
  BY <1>7 DEF Header
<1>15. TypeOK' /\ Counts' /\ NoFailure'
  BY <1>6, <1>11, <1>14 DEF IInv, TypeOK, Counts, NoFailure
<1> QED BY <1>7, <1>9, <1>10, <1>12, <1>13, <1>15 DEF IInv, Headers

\* Giving up a run keeps the counters of its chunk true, and deletes the chunk with its
\* last run.
LEMMA DropCounts ==
    ASSUME IInv, NEW r \in Live, NEW k, k = r \div RunSize,
           maxsize' = (IF used[k] = RunSize THEN [maxsize EXCEPT ![k] = 1] ELSE maxsize),
           used' = [used EXCEPT ![k] = @ - 1],
           bitmap' = [bitmap EXCEPT ![k] = @ \ {r % RunSize}],
           type' = IF used'[k] = 1 THEN [type EXCEPT ![k] = "EMPTY"] ELSE type
    PROVE  /\ Counts' /\ Live' = Live \ {r}
           /\ type' \in [Chunk -> {"EMPTY", "SMALL"}] /\ maxsize' \in [Chunk -> 0 .. 1]
           /\ used' \in [Chunk -> 0 .. RunSize] /\ bitmap' \in [Chunk -> SUBSET Index]
<1> DEFINE i == r % RunSize
<1>1. /\ r \in Run /\ k \in Chunk /\ i \in Index \ {0} /\ type[k] = "SMALL" /\ i \in bitmap[k]
      /\ r = k * RunSize + i
  BY LiveIs, RunIs DEF Live
<1>2. RunSize \in Nat /\ RunSize >= 2
  BY RunAssumption
<1> HIDE DEF i
<1>3. /\ used \in [Chunk -> 0 .. RunSize] /\ bitmap \in [Chunk -> SUBSET Index]
      /\ type \in [Chunk -> {"EMPTY", "SMALL"}] /\ maxsize \in [Chunk -> 0 .. 1]
  BY DEF IInv, TypeOK
<1>4. /\ used[k] = Cardinality(bitmap[k]) /\ 0 \in bitmap[k] /\ used[k] > 1
      /\ maxsize[k] = 0 <=> used[k] = RunSize
  BY <1>1 DEF IInv, Counts
<1>5. used[k] \in Nat /\ used[k] <= RunSize /\ used[k] - 1 \in 0 .. RunSize
  BY <1>1, <1>2, <1>3, <1>4
<1>6. /\ \A j \in Chunk : j # k => used'[j] = used[j] /\ bitmap'[j] = bitmap[j]
                                  /\ type'[j] = type[j] /\ maxsize'[j] = maxsize[j]
      /\ used'[k] = used[k] - 1 /\ bitmap'[k] = bitmap[k] \ {i}
      /\ type'[k] = IF used[k] - 1 = 1 THEN "EMPTY" ELSE "SMALL"
      /\ maxsize'[k] = IF used[k] = RunSize THEN 1 ELSE maxsize[k]
  BY <1>1, <1>3 DEF i
<1>7. IsFiniteSet(bitmap[k]) /\ Cardinality(bitmap[k] \ {i}) = used[k] - 1
  <2>1. IsFiniteSet(Index)
    BY <1>2, FS_Interval DEF Index
  <2>2. bitmap[k] \in SUBSET Index
    BY <1>1, <1>3
  <2>3. IsFiniteSet(bitmap[k])
    BY <2>1, <2>2, FS_Subset
  <2> QED BY <1>1, <1>4, <2>3, FS_RemoveElement
<1>8. used[k] - 1 = 1 => \A j \in bitmap[k] : j = i \/ j = 0
  <2> SUFFICES ASSUME used[k] - 1 = 1, NEW j \in bitmap[k], j # i, j # 0 PROVE FALSE
    OBVIOUS
  <2> DEFINE B == bitmap[k] \ {i}
  <2>1. IsFiniteSet(B) /\ Cardinality(B) = 1 /\ 0 \in B /\ j \in B
    BY <1>1, <1>4, <1>7, FS_RemoveElement
  <2> HIDE DEF B
  <2>2. IsFiniteSet(B \ {0}) /\ Cardinality(B \ {0}) = 0
    BY <2>1, FS_RemoveElement
  <2>3. B \ {0} = {}
    BY <2>2, FS_EmptySet
  <2> QED BY <2>1, <2>3
<1>9. Counts'
  <2> SUFFICES ASSUME NEW j \in Chunk, type'[j] = "SMALL"
               PROVE  /\ used'[j] = Cardinality(bitmap'[j]) /\ 0 \in bitmap'[j] /\ used'[j] > 1
                      /\ maxsize'[j] = 0 <=> used'[j] = RunSize
    BY DEF Counts
  <2>1. CASE j # k
    BY <1>6, <2>1 DEF IInv, Counts
  <2>2. CASE j = k
    <3>1. used'[k] = Cardinality(bitmap'[k]) /\ 0 \in bitmap'[k]
      BY <1>1, <1>4, <1>6, <1>7
    <3>2. used'[k] > 1
      <4>1. used[k] - 1 # 1
        BY <1>6, <2>2
      <4> QED BY <1>4, <1>5, <1>6, <4>1
    <3>3. maxsize'[k] # 0 /\ used'[k] # RunSize
      BY <1>4, <1>5, <1>6
    <3> QED BY <2>2, <3>1, <3>2, <3>3
  <2> QED BY <2>1, <2>2
<1>10. Live' = Live \ {r}
  <2> SUFFICES ASSUME NEW s \in Run PROVE s \in Live' <=> s \in Live /\ s # r
    BY DEF Live
  <2>1. s \div RunSize \in Chunk /\ s % RunSize \in Index /\ s = (s \div RunSize) * RunSize + (s % RunSize)
    BY RunIs
  <2>2. CASE s \div RunSize # k
    <3>1. s # r
      BY <2>2
    <3> QED BY <1>6, <2>1, <2>2, <3>1 DEF Live
  <2>3. CASE s \div RunSize = k
    <3>1. s = r <=> s % RunSize = i
      BY <1>1, <2>1, <2>3 DEF i
    <3>2. s \in Live <=> s % RunSize # 0 /\ s % RunSize \in bitmap[k]
      BY <1>1, <2>3 DEF Live
    <3>3. s \in Live' <=> type'[k] = "SMALL" /\ s % RunSize # 0 /\ s % RunSize \in bitmap[k] \ {i}
      BY <1>6, <2>3 DEF Live
    <3>4. CASE used[k] - 1 = 1
      BY <1>6, <1>8, <3>1, <3>2, <3>3, <3>4
    <3>5. CASE used[k] - 1 # 1
      BY <1>6, <3>1, <3>2, <3>3, <3>5
    <3> QED BY <3>4, <3>5
  <2> QED BY <2>2, <2>3
<1>11. type' \in [Chunk -> {"EMPTY", "SMALL"}] /\ maxsize' \in [Chunk -> 0 .. 1]
  <2>1. [type EXCEPT ![k] = "EMPTY"] \in [Chunk -> {"EMPTY", "SMALL"}]
    BY <1>3
  <2>2. 1 \in 0 .. 1
    OBVIOUS
  <2>3. \A v \in 0 .. 1 : [maxsize EXCEPT ![k] = v] \in [Chunk -> 0 .. 1]
    BY <1>3
  <2> QED BY <1>3, <2>1, <2>2, <2>3
<1>12. used' \in [Chunk -> 0 .. RunSize] /\ bitmap' \in [Chunk -> SUBSET Index]
  BY <1>1, <1>3, <1>5
<1> QED BY <1>9, <1>10, <1>11, <1>12

\* free_chunk_small gives up a run that is left empty and is not alone in its pool.
LEMMA DropStep ==
    ASSUME IInv, NEW r \in Live, NEW o \in Given(r), NEW c, c = run[r].conf_index,
           run[r].used = 1, NEW g \in Header, run' = [run EXCEPT ![r] = g],
           pool' = [pool EXCEPT ![c] = @ \ {r}],
           held' = [held EXCEPT ![r * UnitSize + o] = 0], UNCHANGED failed,
           Counts', Live' = Live \ {r},
           type' \in [Chunk -> {"EMPTY", "SMALL"}], maxsize' \in [Chunk -> 0 .. 1],
           used' \in [Chunk -> 0 .. RunSize], bitmap' \in [Chunk -> SUBSET Index],
           linked' \subseteq Run, torn' \in BOOLEAN
    PROVE  IInv'
<1> DEFINE h == run[r]
           x == r * UnitSize + o
<1>1. r \in Run /\ r # 0 /\ o \in 0 .. (UnitSize - 1)
  BY LiveIs DEF Given
<1>2. h \in Header /\ Sound(h, Given(r)) /\ c \in Class
  BY <1>1 DEF IInv, Headers, Runs, Sound
<1>3. Given(r) = {o}
  <2>1. IsFiniteSet(Given(r)) /\ Cardinality(Given(r)) = 1
    BY <1>2, SoundRoom DEF Sound
  <2>2. IsFiniteSet(Given(r) \ {o}) /\ Cardinality(Given(r) \ {o}) = Cardinality(Given(r)) - 1
    BY <2>1, FS_RemoveElement
  <2>3. Cardinality(Given(r) \ {o}) = 0
    BY <2>1, <2>2
  <2>4. Given(r) \ {o} = {}
    BY <2>2, <2>3, FS_EmptySet
  <2> QED BY <2>4
<1>4. x \in Pos /\ x = r * UnitSize + o /\ held' = [held EXCEPT ![x] = 0]
  BY <1>1, PosIs
<1> HIDE DEF x
<1>5. /\ held' \in [Pos -> Nat] /\ held'[x] = 0
      /\ \A p \in Pos : p # x => held'[p] = held[p]
      /\ \A s \in Run : s # 0 /\ s # r => Given(s)' = Given(s)
  <2>1. TypeOK
    BY DEF IInv
  <2>2. Given(r)' = Given(r) \ {o} /\ \A s \in Run : s # 0 /\ s # r => Given(s)' = Given(s)
    BY <1>1, <1>4, <2>1, GivenGive
  <2>3. held \in [Pos -> Nat] /\ 0 \in Nat
    BY <2>1 DEF TypeOK
  <2>4. \A p \in Pos : p # x => held'[p] = held[p]
    BY <1>4, <2>3
  <2>5. held'[x] = 0
    BY <1>4, <2>3
  <2>6. held' \in [Pos -> Nat]
    BY <1>4, <2>3
  <2> QED BY <2>2, <2>4, <2>5, <2>6
<1>6. /\ run \in [Run -> Header] /\ run' \in [Run -> Header]
      /\ \A s \in Run : s # r => run'[s] = run[s]
  BY <1>1 DEF IInv, Headers
<1>7. \A s \in Live' : s \in Live /\ s \in Run /\ s # 0 /\ s # r /\ run'[s] = run[s]
  BY <1>6, LiveIs
<1>8. Runs'
  <2> SUFFICES ASSUME NEW s \in Live' PROVE Sound(run'[s], Given(s)')
    BY DEF Runs, Sound, Slots, Lists, total
  <2>1. s \in Live /\ Given(s)' = Given(s) /\ run'[s] = run[s]
    BY <1>5, <1>7
  <2> QED BY <2>1 DEF IInv, Runs
<1>9. HeldIsLive'
  <2> SUFFICES ASSUME NEW p \in Pos, held'[p] # 0
               PROVE  /\ p \div UnitSize \in Live'
                      /\ held'[p] = ElemSize[run'[p \div UnitSize].conf_index]
    BY DEF HeldIsLive
  <2>1. /\ held'[p] = held[p] /\ p # x /\ p \div UnitSize \in Live
        /\ held[p] = ElemSize[run[p \div UnitSize].conf_index]
    BY <1>5 DEF IInv, HeldIsLive
  <2>2. p \div UnitSize # r
    <3>1. p % UnitSize \in Given(p \div UnitSize) /\ p = (p \div UnitSize) * UnitSize + (p % UnitSize)
      BY <2>1, HeldIs
    <3> QED BY <1>3, <1>4, <2>1, <3>1
  <2>3. p \div UnitSize \in Live'
    BY <2>1, <2>2
  <2> QED BY <1>7, <2>1, <2>3
<1>10. /\ pool' \in [Class -> SUBSET Run] /\ pool'[c] = pool[c] \ {r}
       /\ \A d \in Class : d # c => pool'[d] = pool[d]
  BY <1>2 DEF IInv, TypeOK
<1>11. PoolExact'
  <2> SUFFICES ASSUME NEW d \in Class
               PROVE  pool'[d] = {s \in Live' : run'[s].conf_index = d /\ run'[s].used < total(d)}
    BY DEF PoolExact, total
  <2>1. pool[d] = {s \in Live : run[s].conf_index = d /\ run[s].used < total(d)}
    BY DEF IInv, PoolExact
  <2>2. CASE d # c
    BY <1>7, <1>10, <2>1, <2>2
  <2>3. CASE d = c
    BY <1>7, <1>10, <2>1, <2>3
  <2> QED BY <2>2, <2>3
<1>12. OneEmpty'
  BY <1>7 DEF IInv, OneEmpty
<1>13. \A s \in Run : /\ run'[s].conf_index \in Class \cup {0} /\ run'[s].used \in Nat
                      /\ run'[s].free \in Seq(1 .. UnitSize)
  BY <1>6 DEF Header
<1>14. TypeOK' /\ NoFailure'
  BY <1>5, <1>10, <1>13 DEF IInv, TypeOK, NoFailure
<1> QED BY <1>6, <1>8, <1>9, <1>11, <1>12, <1>14 DEF IInv, Headers

\* A caller gives back a slot.
LEMMA FreeStep ==
    ASSUME IInv, NEW p \in Pos, held[p] # 0, free_chunk_small(p, PoolSize(p))
    PROVE  IInv'
<1> DEFINE r     == p \div UnitSize
           o     == p % UnitSize
           k     == r \div RunSize
           c     == run[r].conf_index
           P     == pool[c] \cup {r}
           pools == Pushed(r)
           drop  == GivenUp(run[r].used - 1, PoolSize(p))
           g     == free_run(run[r], o)
<1>1. r \in Live /\ r \in Run /\ p = r * UnitSize + o /\ o \in Given(r)
  BY HeldIs
<1>2. run[r] \in Header /\ Sound(run[r], Given(r)) /\ c \in Class
  BY <1>1 DEF IInv, Headers, Runs, Sound
<1>3. run[r].used \in Nat /\ run[r].used >= 1 /\ run[r].used <= total(c) /\ total(c) \in Nat
  BY <1>1, <1>2, SoundRoom, SoundGive
<1>4. /\ run' = [run EXCEPT ![r] = g]
      /\ pool' = IF drop THEN [pools EXCEPT ![c] = @ \ {r}] ELSE pools
      /\ maxsize' = IF drop /\ used[k] = RunSize THEN [maxsize EXCEPT ![k] = 1] ELSE maxsize
      /\ used' = IF drop THEN [used EXCEPT ![k] = @ - 1] ELSE used
      /\ bitmap' = IF drop THEN [bitmap EXCEPT ![k] = @ \ {r % RunSize}] ELSE bitmap
      /\ type' = IF drop /\ used'[k] = 1 THEN [type EXCEPT ![k] = "EMPTY"] ELSE type
      /\ held' = [held EXCEPT ![p] = 0]
      /\ torn' = (torn \/ (run_full(run[r]) /\ r \in linked))
      /\ UNCHANGED <<linked, failed>>
  <2>1. run[r].used > 0
    BY <1>3
  <2> QED BY <2>1 DEF free_chunk_small
<1>5. pool \in [Class -> SUBSET Run]
  BY DEF IInv, TypeOK
<1>6. pools = [pool EXCEPT ![c] = @ \cup {r}]
  <2>1. CASE run_full(run[r])
    BY <2>1 DEF Pushed
  <2>2. CASE ~run_full(run[r])
    <3>1. run[r].used < total(c)
      BY <1>3, <2>2 DEF run_full
    <3>2. r \in pool[c]
      BY <1>1, <1>2, <3>1 DEF IInv, PoolExact
    <3> QED BY <1>2, <1>5, <2>2, <3>2 DEF Pushed
  <2> QED BY <2>1, <2>2
<1>7. pools[c] = P /\ PoolSize(p) = Cardinality(P)
  BY <1>2, <1>5, <1>6 DEF PoolSize
<1>8. linked' \subseteq Run /\ torn' \in BOOLEAN
  BY <1>4 DEF IInv, TypeOK
<1>9. g \in Header
  BY <1>1, <1>2, SoundGive
<1> HIDE DEF pools, g
<1>10. drop <=> run[r].used = 1 /\ Cardinality(P) > 1
  BY <1>3, <1>7 DEF GivenUp
<1> HIDE DEF drop
<1>11. CASE drop
  <2>1. /\ run' = [run EXCEPT ![r] = g]
        /\ maxsize' = IF used[k] = RunSize THEN [maxsize EXCEPT ![k] = 1] ELSE maxsize
        /\ used' = [used EXCEPT ![k] = @ - 1]
        /\ bitmap' = [bitmap EXCEPT ![k] = @ \ {r % RunSize}]
        /\ type' = IF used'[k] = 1 THEN [type EXCEPT ![k] = "EMPTY"] ELSE type
        /\ held' = [held EXCEPT ![r * UnitSize + o] = 0] /\ UNCHANGED failed
    BY <1>1, <1>4, <1>11
  <2>2. pool' = [pool EXCEPT ![c] = @ \ {r}]
    BY <1>2, <1>4, <1>5, <1>6, <1>11
  <2>3. run[r].used = 1
    BY <1>10, <1>11
  <2> HIDE DEF r, o, k, c
  <2>4. /\ Counts' /\ Live' = Live \ {r}
        /\ type' \in [Chunk -> {"EMPTY", "SMALL"}] /\ maxsize' \in [Chunk -> 0 .. 1]
        /\ used' \in [Chunk -> 0 .. RunSize] /\ bitmap' \in [Chunk -> SUBSET Index]
    BY <1>1, <2>1, DropCounts DEF k
  <2> QED BY <1>1, <1>8, <1>9, <2>1, <2>2, <2>3, <2>4, DropStep DEF c
<1>12. CASE ~drop
  <2>1. /\ run' = [run EXCEPT ![r] = free_run(run[r], o)]
        /\ held' = [held EXCEPT ![r * UnitSize + o] = 0]
        /\ UNCHANGED <<type, maxsize, used, bitmap, failed>>
        /\ pool' = [pool EXCEPT ![c] = @ \cup {r}]
    BY <1>1, <1>4, <1>6, <1>12 DEF g
  <2>2. run[r].used = 1 => P = {r}
    <3> HAVE run[r].used = 1
    <3>1. Run = 0 .. (Chunks * RunSize - 1) /\ 0 \in Int /\ Chunks * RunSize - 1 \in Int
      BY RunAssumption DEF Run
    <3>2. IsFiniteSet(Run)
      BY <3>1, FS_Interval
    <3>3. P \in SUBSET Run /\ r \in P
      BY <1>1, <1>2, <1>5
    <3> HIDE DEF P, r
    <3>4. IsFiniteSet(P) /\ Cardinality(P) \in Nat
      BY <3>2, <3>3, FS_Subset, FS_CardinalityType
    <3>5. ~(Cardinality(P) > 1)
      BY <1>10, <1>12
    <3>6. IsFiniteSet(P \ {r}) /\ Cardinality(P \ {r}) = Cardinality(P) - 1
      BY <3>3, <3>4, FS_RemoveElement
    <3>7. Cardinality(P \ {r}) \in Nat
      BY <3>6, FS_CardinalityType
    <3>8. Cardinality(P \ {r}) = 0
      BY <3>4, <3>5, <3>6, <3>7
    <3>9. P \ {r} = {}
      BY <3>6, <3>8, FS_EmptySet
    <3> QED BY <3>3, <3>9
  <2> HIDE DEF r, o
  <2> QED BY <1>1, <1>8, <2>1, <2>2, KeepStep
<1> QED BY <1>11, <1>12

-----------------------------------------------------------------------------
(* The invariant *)

\* The invariant holds when all chunks are empty.
LEMMA InitIInv == Init => IInv
<1> SUFFICES ASSUME Init PROVE IInv
  OBVIOUS
<1>1. Blank \in Header
  BY RunAssumption DEF Blank, Header
<1>2. Headers
  BY <1>1 DEF Init, Headers
<1>3. \A r \in Run : /\ run[r].conf_index \in Class \cup {0} /\ run[r].used \in Nat
                     /\ run[r].free \in Seq(1 .. UnitSize)
  BY <1>2 DEF Headers, Header
<1>4. RunSize \in Nat
  BY RunAssumption
<1>5. TypeOK
  <2>1. /\ type \in [Chunk -> {"EMPTY", "SMALL"}] /\ maxsize \in [Chunk -> 0 .. 1]
        /\ used \in [Chunk -> 0 .. RunSize] /\ bitmap \in [Chunk -> SUBSET Index]
    BY <1>4 DEF Init
  <2>2. /\ pool \in [Class -> SUBSET Run] /\ held \in [Pos -> Nat] /\ linked \subseteq Run
        /\ torn \in BOOLEAN /\ failed \in {"no", "run", "new run", "free run", "tree"}
    BY DEF Init
  <2> QED BY <1>3, <2>1, <2>2 DEF TypeOK
<1>6. Live = {}
  <2>1. \A r \in Run : r \div RunSize \in Chunk
    BY RunIs
  <2> QED BY <2>1 DEF Init, Live
<1>7. Runs /\ PoolExact /\ OneEmpty
  BY <1>6 DEF Init, Runs, PoolExact, OneEmpty
<1>8. HeldIsLive /\ Counts /\ NoFailure
  BY DEF Init, HeldIsLive, Counts, NoFailure
<1> QED BY <1>2, <1>5, <1>7, <1>8 DEF IInv

\* It survives a step that changes nothing.
LEMMA StutterIInv == IInv /\ UNCHANGED vars => IInv'
<1> SUFFICES ASSUME IInv, UNCHANGED vars PROVE IInv'
  OBVIOUS
<1>1. TypeOK' /\ Headers' /\ Counts' /\ NoFailure'
  BY DEF IInv, vars, TypeOK, Headers, Counts, NoFailure
<1>2. Live' = Live
  BY DEF vars, Live
<1>3. \A r \in Live : run'[r] = run[r] /\ Given(r)' = Given(r)
  BY DEF vars, Given
<1>4. Runs'
  <2> SUFFICES ASSUME NEW r \in Live' PROVE Sound(run'[r], Given(r)')
    BY DEF Runs, Sound, Slots, Lists, total
  <2> QED BY <1>2, <1>3 DEF IInv, Runs
<1>5. HeldIsLive' /\ PoolExact' /\ OneEmpty'
  BY <1>2 DEF IInv, vars, HeldIsLive, PoolExact, OneEmpty, total
<1> QED BY <1>1, <1>4, <1>5 DEF IInv

\* Every operation preserves it.
LEMMA NextIInv == IInv /\ [Next]_vars => IInv'
<1> SUFFICES ASSUME IInv, [Next]_vars PROVE IInv'
  OBVIOUS
<1>1. CASE UNCHANGED vars
  BY <1>1, StutterIInv
<1>2. ASSUME NEW c \in Class, NEW r \in pool[c], try_run_pool(r) PROVE IInv'
  BY <1>2, PoolStep
<1>3. ASSUME NEW c \in Class, NEW k \in Candidates, new_chunk_run(c, k) PROVE IInv'
  BY <1>3, NewStep
<1>4. CASE malloc_full
  BY <1>4, StutterIInv DEF malloc_full
<1>5. ASSUME NEW p \in Pos, held[p] # 0, free_chunk_small(p, PoolSize(p)) PROVE IInv'
  BY <1>5, FreeStep
<1>6. ASSUME NEW r \in Run, free_out_of_range(r * UnitSize + HeaderSize) PROVE IInv'
  BY <1>6, StutterIInv DEF free_out_of_range
<1> QED BY <1>1, <1>2, <1>3, <1>4, <1>5, <1>6 DEF Next

\* The invariant holds up to and including the step in which free_chunk_small pushes a run
\* that was popped with links: until then the runs of a class with a free slot are its pool,
\* and what chunk_small.c keeps about runs, pages and chunks is exact.
THEOREM Invariance == Spec => []IInv
BY InitIInv, NextIInv, PTL DEF Spec

\* Every field of the chunk and run headers keeps its type, the counters of chunk_small.c
\* within their bounds.
THEOREM TypeCorrect == Spec => []TypeOK
<1>1. IInv => TypeOK
  BY DEF IInv
<1> QED BY <1>1, Invariance, PTL

\* As long as no run has been pushed with old links, malloc_run and free_run keep the free
\* list of every run exact: it holds each slot that nobody holds once and no other offset,
\* and used counts the rest.
THEOREM FreeListExactHolds == Spec => []FreeListExact
<1>1. IInv => FreeListExact
  <2> SUFFICES ASSUME IInv, NEW r \in Live
               PROVE  LET h     == run[r]
                          slots == Slots(h.conf_index)
                          given == Given(r)
                      IN  /\ \A i, j \in 1 .. Len(h.free) : i # j => h.free[i] # h.free[j]
                          /\ {h.free[i] : i \in 1 .. Len(h.free)} = slots \ given
                          /\ given \subseteq slots /\ h.used = Cardinality(given)
    BY DEF FreeListExact, Slots, Given
  <2>1. Sound(run[r], Given(r))
    BY DEF IInv, Runs
  <2> QED BY <2>1 DEF Sound, Lists
<1> QED BY <1>1, Invariance, PTL

\* As long as no run has been pushed with old links, a run is in the pool of its class
\* exactly while it has a free slot, through try_run_pool, new_chunk_run and
\* free_chunk_small, and free_chunk_small never leaves two empty runs of a class.
THEOREM PoolHasRoomHolds == Spec => []PoolHasRoom
<1>1. IInv => PoolHasRoom
  <2> SUFFICES ASSUME IInv, NEW c \in Class
               PROVE  /\ pool[c] = {r \in Live : run[r].conf_index = c /\ run[r].used < total(c)}
                      /\ Cardinality({r \in Live : run[r].conf_index = c /\ run[r].used = 0}) <= 1
    BY DEF PoolHasRoom
  <2> DEFINE E == {r \in Live : run[r].conf_index = c /\ run[r].used = 0}
  <2>1. \A r, s \in E : r = s
    BY DEF IInv, OneEmpty
  <2>2. pool[c] = {r \in Live : run[r].conf_index = c /\ run[r].used < total(c)}
    BY DEF IInv, PoolExact
  <2> HIDE DEF E
  <2>3. CASE E = {}
    <3>1. Cardinality(E) = 0
      BY <2>3, FS_EmptySet
    <3> QED BY <2>2, <3>1 DEF E
  <2>4. CASE E # {}
    <3>1. PICK r : E = {r}
      BY <2>1, <2>4
    <3>2. Cardinality(E) = 1
      BY <3>1, FS_Singleton
    <3> QED BY <2>2, <3>2 DEF E
  <2> QED BY <2>3, <2>4
<1> QED BY <1>1, Invariance, PTL

\* As long as no run has been pushed with old links, a small chunk counts its pages,
\* advertises a free page exactly when it has one, and is deleted by free_chunk_small only
\* when nobody holds anything in it.
THEOREM ChunkCountsHolds == Spec => []ChunkCounts
<1>1. IInv => ChunkCounts
  <2> SUFFICES ASSUME IInv, NEW k \in Chunk
               PROVE  /\ type[k] = "SMALL" =>
                           /\ used[k] = Cardinality(bitmap[k]) /\ 0 \in bitmap[k] /\ used[k] > 1
                           /\ maxsize[k] = 0 <=> used[k] = RunSize
                      /\ type[k] # "SMALL" =>
                           \A p \in Pos : held[p] # 0 => (p \div UnitSize) \div RunSize # k
    BY DEF ChunkCounts
  <2>1. ASSUME NEW p \in Pos, held[p] # 0 PROVE type[(p \div UnitSize) \div RunSize] = "SMALL"
    BY <2>1 DEF IInv, HeldIsLive, Live
  <2> QED BY <2>1 DEF IInv, Counts
<1> QED BY <1>1, Invariance, PTL

\* As long as no run has been pushed with old links, no assertion of malloc_run, free_run or
\* new_chunk_run fails.
THEOREM AssertsNeverFail == Spec => []AssertsHold
<1>1. IInv => AssertsHold
  BY DEF IInv, NoFailure, AssertsHold
<1> QED BY <1>1, Invariance, PTL

-----------------------------------------------------------------------------
(* The promise of PageHeap *)

\* A slot lies within its page, and two slots of a run apart.
LEMMA SlotsApart ==
    ASSUME NEW c \in Class, NEW o \in Slots(c)
    PROVE  /\ o \in Nat /\ o >= 1 /\ ElemSize[c] \in Nat /\ ElemSize[c] >= 1
           /\ o + ElemSize[c] <= UnitSize
           /\ \A e \in Slots(c) : o # e => o + ElemSize[c] <= e \/ e + ElemSize[c] <= o
<1> DEFINE at(i) == HeaderSize + i * ElemSize[c]
<1>1. PICK i \in 0 .. (total(c) - 1) : o = at(i)
  BY DEF Slots
<1>2. /\ at(i) \in Nat /\ at(i) >= 1 /\ ElemSize[c] \in Nat /\ ElemSize[c] >= 1
      /\ at(i) + ElemSize[c] <= UnitSize
  BY SlotIs
<1>3. ASSUME NEW e \in Slots(c), o # e PROVE o + ElemSize[c] <= e \/ e + ElemSize[c] <= o
  <2>1. PICK j \in 0 .. (total(c) - 1) : e = at(j)
    BY DEF Slots
  <2>2. total(c) \in Nat /\ (i < j => at(i) + ElemSize[c] <= at(j)) /\ (j < i => at(j) + ElemSize[c] <= at(i))
    BY SlotIs
  <2> HIDE DEF at
  <2>3. i # j
    BY <1>1, <1>3, <2>1
  <2>4. i < j \/ j < i
    BY <2>2, <2>3
  <2> QED BY <1>1, <2>1, <2>2, <2>4
<1> HIDE DEF at
<1> QED BY <1>1, <1>2, <1>3

\* A page is within the bytes of the heap, and two pages apart.
LEMMA PagesApart ==
    ASSUME NEW r \in Run, r # 0, UnitSize >= 1
    PROVE  /\ r * UnitSize \in Nat /\ Chunks * RunSize * UnitSize \in Nat
           /\ r * UnitSize >= 1 /\ r * UnitSize + UnitSize <= Chunks * RunSize * UnitSize
           /\ \A s \in Run : s # r =>
                /\ s * UnitSize \in Nat
                /\ \/ r * UnitSize + UnitSize <= s * UnitSize
                   \/ s * UnitSize + UnitSize <= r * UnitSize
<1> DEFINE R == Chunks * RunSize
<1>1. UnitSize \in Nat /\ R \in Nat /\ r \in Nat /\ 0 < r /\ r < R
  BY RunAssumption DEF Run
<1>2. \A s \in Run : s \in Nat
  BY RunAssumption DEF Run
<1> HIDE DEF R
<1>3. r * UnitSize \in Nat /\ R * UnitSize \in Nat /\ r * UnitSize + UnitSize <= R * UnitSize
  BY <1>1, Multiples
<1>4. r * UnitSize >= 1
  <2>1. 0 * UnitSize + UnitSize <= r * UnitSize /\ 0 * UnitSize = 0
    BY <1>1, Multiples
  <2> QED BY <1>1, <1>3, <2>1
<1>5. ASSUME NEW s \in Run, s # r
      PROVE  /\ s * UnitSize \in Nat
             /\ \/ r * UnitSize + UnitSize <= s * UnitSize
                \/ s * UnitSize + UnitSize <= r * UnitSize
  <2>1. s \in Nat /\ (s < r \/ r < s)
    BY <1>1, <1>2, <1>5
  <2> QED BY <1>1, <2>1, Multiples
<1> QED BY <1>1, <1>3, <1>4, <1>5 DEF R

\* Taking a slot that nobody holds is a Malloc of PageHeap.
LEMMA TakeHeap ==
    ASSUME IInv, NEW c \in Class, NEW r \in Run, r # 0, NEW o \in Slots(c) \ Given(r),
           r \in Live => run[r].conf_index = c,
           held' = [held EXCEPT ![r * UnitSize + o] = ElemSize[c]]
    PROVE  Heap!Next
<1> DEFINE x == r * UnitSize + o
           v == ElemSize[c]
           b == r * UnitSize
           N == Chunks * RunSize * UnitSize
<1>1. o \in Nat /\ o >= 1 /\ v \in Nat /\ v >= 1 /\ o + v <= UnitSize
  BY SlotsApart
<1>2. UnitSize \in Nat /\ UnitSize >= 1 /\ b \in Nat /\ N \in Nat /\ b >= 1 /\ b + UnitSize <= N
  <2>1. UnitSize \in Nat /\ UnitSize >= 1
    <3> HIDE DEF v
    <3> QED BY <1>1, RunAssumption
  <2> QED BY <2>1, PagesApart
<1>3. Heap!Page = 1 .. N /\ Pos = 1 .. N
  BY DEF Heap!Page, Pos
<1>4. x = b + o /\ held' = [held EXCEPT ![x] = v]
  OBVIOUS
<1>5. held[x] = 0
  <2>1. o \in 0 .. (UnitSize - 1)
    BY <1>1, <1>2
  <2> QED BY <2>1 DEF Given
<1> HIDE DEF x, v, N
<1>6. x \in Heap!Page /\ v \in Heap!Page /\ Heap!Extent(x, v) \subseteq Heap!Page
  <2> HIDE DEF b
  <2>1. x \in Nat /\ x >= 1 /\ x + v <= N /\ v <= N
    BY <1>1, <1>2, <1>4
  <2> QED BY <1>1, <1>2, <1>3, <2>1 DEF Heap!Extent
<1>7. ASSUME NEW q \in Heap!Page PROVE Heap!Extent(x, v) \cap Heap!Extent(q, held[q]) = {}
  <2> SUFFICES ASSUME NEW y \in Heap!Extent(x, v), y \in Heap!Extent(q, held[q])
               PROVE  FALSE
    OBVIOUS
  <2> DEFINE s == q \div UnitSize
             e == q % UnitSize
             w == held[q]
             a == s * UnitSize
  <2>1. q \in Pos /\ held[q] # 0
    <3>1. q \in Pos /\ q \in Int
      BY <1>2, <1>3
    <3>2. held[q] = 0 => FALSE
      BY <3>1 DEF Heap!Extent
    <3> QED BY <3>1, <3>2
  <2>2. s \in Live /\ s \in Run /\ s # 0 /\ q = a + e /\ e \in Given(s)
    BY <2>1, HeldIs
  <2>3. run[s].conf_index \in Class /\ e \in Slots(run[s].conf_index) /\ w = ElemSize[run[s].conf_index]
    BY <2>1, <2>2 DEF IInv, Runs, Sound, HeldIsLive
  <2>4. e \in Nat /\ e >= 1 /\ w \in Nat /\ w >= 1 /\ e + w <= UnitSize
    BY <2>3, SlotsApart
  <2>5. a \in Nat /\ (s # r => b + UnitSize <= a \/ a + UnitSize <= b)
    BY <1>2, <2>2, PagesApart
  <2>6. s = r => o + v <= e \/ e + v <= o
    BY <2>2, <2>3, SlotsApart DEF v
  <2>7. s = r => w = v /\ a = b
    BY <2>2, <2>3 DEF v
  <2> HIDE DEF s, e, w, a, b
  <2>8. y \in Int /\ b + o <= y /\ y < b + o + v /\ a + e <= y /\ y < a + e + w
    BY <1>1, <1>2, <1>4, <2>2, <2>4, <2>5 DEF Heap!Extent, w
  <2>9. CASE s # r
    BY <1>1, <1>2, <2>4, <2>5, <2>8, <2>9
  <2>10. CASE s = r
    BY <1>1, <1>2, <2>4, <2>5, <2>6, <2>7, <2>8, <2>10
  <2> QED BY <2>9, <2>10
<1>8. held'[x] = v /\ held'[x] # held[x]
  <2>1. held \in [Pos -> Nat]
    BY DEF IInv, TypeOK
  <2> QED BY <1>1, <1>3, <1>4, <1>5, <1>6, <2>1
<1>9. Heap!Malloc(x, v)
  BY <1>4, <1>5, <1>6, <1>7 DEF Heap!Malloc
<1> QED BY <1>6, <1>8, <1>9 DEF Heap!Next

\* As long as free_chunk_small has pushed no run with old links, the small chunks implement
\* PageHeap over bytes: no byte is given to a second caller while the first holds it,
\* whatever happens to its run, page and chunk in between.
THEOREM ImplementsPageHeap == Spec => HeapSpec
<1>1. Init => Heap!Init
  BY DEF Init, Heap!Init, Heap!Page, Pos
<1>2. IInv /\ [Next]_vars => [torn \/ Heap!Next]_held
  <2> SUFFICES ASSUME IInv, [Next]_vars PROVE Heap!Next \/ UNCHANGED held
    OBVIOUS
  <2>1. CASE UNCHANGED vars
    BY <2>1 DEF vars
  <2>2. ASSUME NEW c \in Class, NEW r \in pool[c], try_run_pool(r)
        PROVE  Heap!Next \/ UNCHANGED held
    <3>1. r \in Live /\ run[r].conf_index = c /\ r \in Run /\ r # 0
      BY LiveIs DEF IInv, PoolExact
    <3>2. CASE HasSlot(run[r])
      <4>1. run[r] \in Header /\ Sound(run[r], Given(r))
        BY <3>1 DEF IInv, Headers, Runs
      <4>2. Head(run[r].free) \in Slots(c) \ Given(r)
        BY <3>1, <3>2, <4>1, SoundTake
      <4>3. held' = [held EXCEPT ![r * UnitSize + Head(run[r].free)] = ElemSize[c]]
        BY <2>2, <3>1, <3>2 DEF try_run_pool, malloc_chunk_run
      <4> QED BY <3>1, <4>2, <4>3, TakeHeap
    <3>3. CASE ~HasSlot(run[r])
      BY <2>2, <3>3 DEF try_run_pool, abort
    <3> QED BY <3>2, <3>3
  <2>3. ASSUME NEW c \in Class, NEW k \in Candidates, new_chunk_run(c, k)
        PROVE  Heap!Next \/ UNCHANGED held
    <3> DEFINE r == FirstRun(k)
               h == [conf_index |-> c, used |-> 0, free |-> InitialFree(c)]
    <3>1. r \in Run /\ r # 0 /\ r \notin Live
      BY FirstRunIs
    <3>2. \/ malloc_chunk_run(r, [run EXCEPT ![r] = h], [pool EXCEPT ![c] = @ \cup {r}])
          \/ UNCHANGED held
      BY <2>3 DEF new_chunk_run, abort
    <3>3. h \in Header /\ Sound(h, {}) /\ HasSlot(h) /\ h.conf_index = c
      BY SoundNew
    <3>4. Given(r) = {}
      BY <3>1, DeadHoldsNothing
    <3> HIDE DEF r, h
    <3>5. [run EXCEPT ![r] = h][r] = h
      BY <3>1 DEF IInv, Headers
    <3>6. Head(h.free) \in Slots(c) \ Given(r)
      BY <3>3, <3>4, SoundTake
    <3>7. \/ held' = [held EXCEPT ![r * UnitSize + Head(h.free)] = ElemSize[c]]
          \/ UNCHANGED held
      BY <3>2, <3>3, <3>5 DEF malloc_chunk_run
    <3> QED BY <3>1, <3>6, <3>7, TakeHeap
  <2>4. CASE malloc_full
    BY <2>4 DEF malloc_full, vars
  <2>5. ASSUME NEW p \in Pos, held[p] # 0, free_chunk_small(p, PoolSize(p))
        PROVE  Heap!Next \/ UNCHANGED held
    <3>1. CASE held' = [held EXCEPT ![p] = 0]
      <4>1. p \in Heap!Page /\ held'[p] = 0
        BY <3>1 DEF IInv, TypeOK, Heap!Page, Pos
      <4> QED BY <2>5, <3>1, <4>1 DEF Heap!Next, Heap!Free
    <3>2. CASE UNCHANGED held
      BY <3>2
    <3> QED BY <2>5, <3>1, <3>2 DEF free_chunk_small, abort
  <2>6. ASSUME NEW r \in Run, free_out_of_range(r * UnitSize + HeaderSize)
        PROVE  UNCHANGED held
    BY <2>6 DEF free_out_of_range, vars
  <2> QED BY <2>1, <2>2, <2>3, <2>4, <2>5, <2>6 DEF Next
<1> QED BY <1>1, <1>2, Invariance, PTL DEF Spec, HeapSpec
===============================================================================
