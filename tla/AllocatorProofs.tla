---------------------------- MODULE AllocatorProofs ----------------------------
(***************************************************************************)
(* Proofs about Allocator, for any number of arenas, chunks, pages, slots  *)
(* and sizes.                                                              *)
(*                                                                         *)
(* The inductive invariant Good says that the table, the headers of the    *)
(* chunks and the pools agree, and that the blocks callers hold are what   *)
(* they say (Share): nothing in the model looks at held, so this is what   *)
(* ties the promise of BlockHeap to the state of the allocator.  In the    *)
(* middle of a call a new chunk is in its pool and not in use yet; Good    *)
(* has a set of such exceptions.  All of it holds until a run is pushed    *)
(* with old links (torn): from then on the run pool of the code is not the *)
(* set of the model, and no theorem says anything.                         *)
(*                                                                         *)
(* ChunkStep, ChunkGone, ChunkMade and LargeStep say which changes of one  *)
(* header or one entry keep a heap good.  Every outcome of a call is shown *)
(* to be such a change (Malloced, BlockFreed, Realloced), and the theorems *)
(* follow from what the call does to held and mem (Steps).                 *)
(***************************************************************************)
EXTENDS Allocator, Sequences, NumberFacts, FiniteSetTheorems, TLAPS
Header == [type : {"EMPTY", "SMALL", "MEDIUM"}, max : 0 .. (Units - 1), pages : SUBSET Page,
           free : [Page -> SUBSET Cell], unit : [Page -> 0 .. (Units - 1)]]
Entry  == [type : {"EMPTY", "CHUNK", "LARGE", "CONTEXT"}, size : Nat, chunks : SUBSET Slot]
Heap   == [arena : [Index -> Entry], chunk : [Chunk -> Header],
           small : SUBSET Chunk, medium : SUBSET Chunk, runs : SUBSET (Chunk \X Page),
           linked : SUBSET (Chunk \X Page), torn : BOOLEAN,
           held : [Memory -> Nat], mem : [Memory -> {Other, Tag}], failed : BOOLEAN]

\* The units of a medium chunk end within it and do not overlap.
Apart(c) ==
    \A p \in Page : /\ p + c.unit[p] <= Units
                    /\ \A q \in Page : p < q /\ c.unit[q] # 0 => p + c.unit[p] <= q

IsSmall(c) ==
    /\ c.type = "SMALL" /\ c.max = IF c.pages = Page THEN 0 ELSE 1
    /\ \A p \in Page : c.unit[p] = 0 /\ (p \notin c.pages => c.free[p] = {})

IsMedium(c) ==
    /\ c.type = "MEDIUM" /\ c.max \in Advertised(c)
    /\ c.pages = {} /\ (\A p \in Page : c.free[p] = {}) /\ Apart(c)

\* Something in the chunk is a run or handed out.
Used(c) == c.pages # {} \/ \E p \in Page : c.unit[p] # 0

\* Slot k[2] of arena k[1] has a chunk.
There(h, k) == k # <<0, 0>> /\ k[2] \in h.arena[k[1]].chunks

\* A chunk in a slot is in the pool of its type and in use, unless it is in E.
Chunks(h, E) ==
    \A k \in Chunk :
        IF There(h, k)
        THEN /\ \/ k \in h.small /\ k \notin h.medium /\ IsSmall(h.chunk[k])
                \/ k \notin h.small /\ k \in h.medium /\ IsMedium(h.chunk[k])
             /\ k \in E \/ Used(h.chunk[k])
        ELSE k \notin h.small /\ k \notin h.medium /\ h.chunk[k] = Blank

Arenas(h) ==
    /\ h.arena[0].type = "CONTEXT" /\ 0 \in h.arena[0].chunks
    /\ \A i \in Index : i # 0 =>
         \/ h.arena[i] = EMPTY
         \/ h.arena[i].type = "CHUNK" /\ h.arena[i].chunks # {}
         \/ h.arena[i].type = "LARGE" /\ h.arena[i].chunks = {} /\ h.arena[i].size \in 1 .. ArenaSpan

\* The run pool has the runs with a free slot, and one at most without a slot given.
Runs(h) ==
    /\ \A k \in Chunk, p \in Page :
         <<k, p>> \in h.runs <=> p \in h.chunk[k].pages /\ h.chunk[k].free[p] # {}
    /\ \A k, l \in Chunk, p, q \in Page :
         /\ p \in h.chunk[k].pages /\ q \in h.chunk[l].pages
         /\ h.chunk[k].free[p] = Cell /\ h.chunk[l].free[q] = Cell
         => k = l /\ p = q

\* What the headers say is handed out at cell s of page p of a chunk, and at x.
ChunkShare(c, p, s) ==
    IF p \in c.pages THEN IF s \in c.free[p] THEN 0 ELSE 1
    ELSE IF p \in Page /\ s = 0 THEN c.unit[p] * PageSlots ELSE 0

Share(h, x) ==
    IF h.arena[pos2index(x)].type = "LARGE"
    THEN IF x = Pos(<<pos2index(x), 0>>, 0, 0) THEN h.arena[pos2index(x)].size ELSE 0
    ELSE IF ChunkOf(x) \in Chunk THEN ChunkShare(h.chunk[ChunkOf(x)], PageOf(x), CellOf(x)) ELSE 0

Helds(h) == \A x \in Memory : h.held[x] = Share(h, x)

Good(h, E) == h \in Heap /\ Arenas(h) /\ Chunks(h, E) /\ Runs(h) /\ Helds(h)

IInv == Good(heap, {})
-----------------------------------------------------------------------------
(* Positions *)

\* The sizes are numbers, and the places of the first chunk are there.
LEMMA Sizes ==
    /\ ArenaMax \in Nat \ {0} /\ ArenaChunks \in Nat \ {0, 1} /\ Units \in Nat \ {0, 1}
    /\ PageSlots \in Nat \ {0} /\ ChunkSize \in Nat \ {0} /\ ArenaSpan \in Nat \ {0}
    /\ ChunkSize = Units * PageSlots /\ MediumLimit = (Units - 1) * PageSlots
    /\ 0 \in Index /\ 0 \in Slot /\ 0 \in Cell /\ 1 \in Page /\ <<0, 0>> \in Chunk
<1>1. /\ ArenaMax \in Nat \ {0} /\ ArenaChunks \in Nat \ {0, 1} /\ Units \in Nat \ {0, 1}
      /\ PageSlots \in Nat \ {0} /\ ArenaSpan \in Nat /\ ArenaChunks * ChunkSize <= ArenaSpan
  BY AllocatorAssumption
<1>2. ChunkSize = Units * PageSlots /\ ChunkSize \in Nat /\ ChunkSize >= 1
  BY <1>1 DEF ChunkSize
<1>3. ArenaSpan >= 1
  BY <1>1, <1>2
<1>4. MediumLimit = (Units - 1) * PageSlots
  BY <1>1, <1>2 DEF MediumLimit
<1>5. 0 \in Index /\ 0 \in Slot /\ 0 \in Cell /\ 1 \in Page
  BY <1>1 DEF Index, Slot, Cell, Page
<1>6. <<0, 0>> \in Chunk
  BY <1>5 DEF Chunk
<1> QED BY <1>1, <1>2, <1>3, <1>4, <1>5, <1>6

\* A chunk is its index and its slot.
LEMMA ChunkIs ==
    /\ \A k \in Chunk : k[1] \in Index /\ k[2] \in Slot /\ k = <<k[1], k[2]>>
    /\ \A i \in Index, c \in Slot : <<i, c>> \in Chunk /\ <<i, c>>[1] = i /\ <<i, c>>[2] = c
BY DEF Chunk

\* The offset of a cell is within reach of its index.
LEMMA OffsetIs ==
    ASSUME NEW c \in Slot, NEW p \in 0 .. (Units - 1), NEW s \in Cell
    PROVE  LET o == (c * Units + p) * PageSlots + s
           IN  /\ o \in 0 .. (ArenaSpan - 1) /\ o \div ChunkSize = c
               /\ (o % ChunkSize) \div PageSlots = p /\ o % PageSlots = s
<1> DEFINE o == (c * Units + p) * PageSlots + s
           r == p * PageSlots + s
           q == c * Units + p
<1> USE Sizes DEF Slot, Cell
<1>1. p \in Nat /\ c \in Nat /\ s \in Nat /\ q \in Nat /\ s \in 0 .. (PageSlots - 1)
  OBVIOUS
<1>2. r \in 0 .. (ChunkSize - 1)
  <2>1. p * PageSlots \in Nat /\ p * PageSlots + PageSlots <= Units * PageSlots
    BY Multiples
  <2> QED BY <1>1, <2>1
<1>3. o = q * PageSlots + s
  OBVIOUS
<1>4. q * PageSlots = c * ChunkSize + p * PageSlots
  BY <1>1
<1>5. o = c * ChunkSize + r
  BY <1>1, <1>3, <1>4
<1> HIDE DEF q, r, o
<1>6. o \div ChunkSize = c /\ o % ChunkSize = r
  BY <1>1, <1>2, <1>5, DivModIs
<1>7. r \div PageSlots = p
  BY <1>1, DivModIs DEF r
<1>8. o % PageSlots = s
  BY <1>1, <1>3, DivModIs
<1>9. o \in 0 .. (ArenaSpan - 1)
  <2>1. c * ChunkSize \in Nat /\ c * ChunkSize + ChunkSize <= ArenaChunks * ChunkSize
    BY Multiples
  <2>2. ArenaChunks * ChunkSize <= ArenaSpan
    BY AllocatorAssumption
  <2>3. ArenaChunks * ChunkSize \in Nat
    OBVIOUS
  <2> QED BY <1>2, <1>5, <2>1, <2>2, <2>3
<1> QED BY <1>6, <1>7, <1>8, <1>9 DEF o

\* Index i and an offset are a position, and the position tells both.
LEMMA IndexIs ==
    ASSUME NEW i \in Index, NEW o \in 0 .. (ArenaSpan - 1)
    PROVE  LET x == i * ArenaSpan + o + 1
           IN  x \in Memory /\ pos2index(x) = i /\ pos2offset(x) = o
<1> DEFINE x == i * ArenaSpan + o + 1
<1> USE Sizes
<1>1. i \in Nat /\ i < ArenaMax /\ o \in Nat
  BY DEF Index
<1>2. i * ArenaSpan \in Nat /\ i * ArenaSpan + ArenaSpan <= ArenaMax * ArenaSpan
  BY <1>1, Multiples
<1>3. x \in Memory
  <2>1. ArenaMax * ArenaSpan \in Nat
    OBVIOUS
  <2> QED BY <1>1, <1>2, <2>1 DEF Memory
<1>4. x - 1 = i * ArenaSpan + o
  BY <1>1, <1>2
<1>5. (i * ArenaSpan + o) \div ArenaSpan = i /\ (i * ArenaSpan + o) % ArenaSpan = o
  BY <1>1, DivModIs
<1> QED BY <1>3, <1>4, <1>5 DEF pos2index, pos2offset

\* The chunk, the page and the cell of a position are those it was made of.
LEMMA PosIs ==
    ASSUME NEW k \in Chunk, NEW p \in 0 .. (Units - 1), NEW s \in Cell
    PROVE  /\ Pos(k, p, s) \in Memory /\ pos2index(Pos(k, p, s)) = k[1]
           /\ ChunkOf(Pos(k, p, s)) = k /\ PageOf(Pos(k, p, s)) = p /\ CellOf(Pos(k, p, s)) = s
<1> DEFINE o == (k[2] * Units + p) * PageSlots + s
           x == Pos(k, p, s)
<1>1. k[1] \in Index /\ k[2] \in Slot /\ k = <<k[1], k[2]>>
  BY ChunkIs
<1>2. /\ o \in 0 .. (ArenaSpan - 1) /\ o \div ChunkSize = k[2]
      /\ (o % ChunkSize) \div PageSlots = p /\ o % PageSlots = s
  BY <1>1, OffsetIs
<1>3. x = k[1] * ArenaSpan + o + 1
  BY <1>1, Sizes DEF Pos, Slot, Cell, Index
<1> HIDE DEF o, x
<1>4. x \in Memory /\ pos2index(x) = k[1] /\ pos2offset(x) = o
  BY <1>1, <1>2, <1>3, IndexIs
<1>5. ChunkOf(x) = k /\ PageOf(x) = p /\ CellOf(x) = s
  BY <1>1, <1>2, <1>4 DEF ChunkOf, PageOf, CellOf
<1> QED BY <1>4, <1>5 DEF x

\* Every position is that of a cell in a page.
LEMMA PosOnto ==
    ASSUME NEW x \in Memory
    PROVE  /\ pos2index(x) \in Index /\ PageOf(x) \in 0 .. (Units - 1) /\ CellOf(x) \in Cell
           /\ ChunkOf(x) = <<pos2index(x), ChunkOf(x)[2]>> /\ ChunkOf(x)[1] = pos2index(x)
           /\ ChunkOf(x)[2] \in Nat
           /\ x = Pos(ChunkOf(x), PageOf(x), CellOf(x))
<1> DEFINE i == pos2index(x)
           o == pos2offset(x)
           c == o \div ChunkSize
           r == o % ChunkSize
           p == r \div PageSlots
           s == r % PageSlots
<1> USE Sizes
<1>1. x \in Nat /\ x - 1 \in Nat /\ x <= ArenaMax * ArenaSpan
  BY DEF Memory
<1>2. i \in Nat /\ o \in 0 .. (ArenaSpan - 1) /\ x - 1 = i * ArenaSpan + o
  BY <1>1, DivModSum DEF pos2index, pos2offset
<1> HIDE DEF i, o
<1>3. i \in Index
  <2>1. ASSUME i >= ArenaMax PROVE FALSE
    <3>1. i * ArenaSpan >= ArenaMax * ArenaSpan
      BY <1>2, <2>1
    <3> QED BY <1>1, <1>2, <3>1
  <2> QED BY <1>2, <2>1 DEF Index
<1>4. c \in Nat /\ r \in 0 .. (ChunkSize - 1) /\ o = c * ChunkSize + r
  <2>1. o \in Nat /\ ChunkSize \in Nat \ {0}
    BY <1>2
  <2> QED BY <2>1, DivModSum
<1> HIDE DEF c, r
<1>5. p \in Nat /\ s \in 0 .. (PageSlots - 1) /\ r = p * PageSlots + s
  <2>1. r \in Nat /\ PageSlots \in Nat \ {0}
    BY <1>4
  <2> QED BY <2>1, DivModSum
<1> HIDE DEF p, s
<1>6. p \in 0 .. (Units - 1)
  <2>1. ASSUME p >= Units PROVE FALSE
    <3>1. p * PageSlots >= Units * PageSlots
      BY <1>5, <2>1
    <3> QED BY <1>4, <1>5, <3>1
  <2> QED BY <1>5, <2>1
<1>7. o = (c * Units + p) * PageSlots + s
  <2>1. (c * Units + p) * PageSlots = c * ChunkSize + p * PageSlots
    BY <1>4, <1>5
  <2> QED BY <1>4, <1>5, <2>1
<1>8. o % PageSlots = s
  <2>1. c * Units + p \in Int
    BY <1>4, <1>5
  <2> QED BY <1>5, <1>7, <2>1, DivModIs
<1>9. ChunkOf(x) = <<i, c>> /\ PageOf(x) = p /\ CellOf(x) = s
  BY <1>8 DEF ChunkOf, PageOf, CellOf, i, o, c, r, p
<1>10. x = Pos(<<i, c>>, p, s)
  BY <1>1, <1>2, <1>4, <1>5, <1>7 DEF Pos
<1> QED BY <1>3, <1>4, <1>5, <1>6, <1>9, <1>10 DEF Cell, i

\* A range of cells that starts with page p and has n pages stays in these pages.
LEMMA PosWalk ==
    ASSUME NEW k \in Chunk, NEW p \in 0 .. (Units - 1), NEW n \in Nat, p + n <= Units,
           NEW y \in Extent(Pos(k, p, 0), n * PageSlots)
    PROVE  y \in Memory /\ pos2index(y) = k[1] /\ ChunkOf(y) = k /\ PageOf(y) \in p .. (p + n - 1)
<1> DEFINE d == y - Pos(k, p, 0)
           e == d \div PageSlots
           s == d % PageSlots
           q == p + e
<1> USE Sizes
<1>1. k[1] \in Nat /\ k[2] \in Nat
  BY ChunkIs DEF Index, Slot
<1>2. n * PageSlots \in Nat /\ k[1] * ArenaSpan \in Nat /\ k[2] * Units \in Nat
  BY <1>1
<1>3. \A u \in Nat : (k[2] * Units + u) * PageSlots = k[2] * Units * PageSlots + u * PageSlots
  BY <1>1
<1>4. Pos(k, p, 0) \in Nat
  <2>1. (k[2] * Units + p) * PageSlots \in Nat
    BY <1>2
  <2> QED BY <1>2, <2>1 DEF Pos
<1>5. d \in Nat /\ d < n * PageSlots /\ y = Pos(k, p, 0) + d
  BY <1>2, <1>4 DEF Extent
<1> HIDE DEF d
<1>6. e \in Nat /\ s \in 0 .. (PageSlots - 1) /\ d = e * PageSlots + s
  BY <1>5, DivModSum
<1> HIDE DEF e, s
<1>7. e < n
  <2>1. ASSUME e >= n PROVE FALSE
    <3>1. e * PageSlots >= n * PageSlots
      BY <1>6, <2>1
    <3>2. e * PageSlots \in Nat
      BY <1>6
    <3> QED BY <1>2, <1>5, <1>6, <3>1, <3>2
  <2> QED BY <1>6, <2>1
<1>8. q \in 0 .. (Units - 1) /\ q \in p .. (p + n - 1)
  BY <1>6, <1>7
<1>9. y = Pos(k, q, s)
  <2>1. (p + e) * PageSlots = p * PageSlots + e * PageSlots
    BY <1>6
  <2>2. Pos(k, q, s) = k[1] * ArenaSpan + (k[2] * Units + q) * PageSlots + s + 1
    BY DEF Pos
  <2>3. Pos(k, p, 0) = k[1] * ArenaSpan + (k[2] * Units + p) * PageSlots + 0 + 1
    BY DEF Pos
  <2>4. (k[2] * Units + q) * PageSlots = k[2] * Units * PageSlots + q * PageSlots
    BY <1>3, <1>8
  <2>5. (k[2] * Units + p) * PageSlots = k[2] * Units * PageSlots + p * PageSlots
    BY <1>3
  <2>6. k[2] * Units * PageSlots \in Nat /\ p * PageSlots \in Nat /\ e * PageSlots \in Nat
    BY <1>2, <1>6
  <2> HIDE DEF q
  <2>7. q * PageSlots = p * PageSlots + e * PageSlots
    BY <2>1 DEF q
  <2> QED BY <1>2, <1>5, <1>6, <2>2, <2>3, <2>4, <2>5, <2>6, <2>7
<1>10. s \in Cell
  BY <1>6 DEF Cell
<1> QED BY <1>8, <1>9, <1>10, PosIs

\* A range of positions from the start of arena i that is no longer than the arena.
LEMMA LargeWalk ==
    ASSUME NEW i \in Index, NEW n \in 0 .. ArenaSpan, NEW y \in Extent(Pos(<<i, 0>>, 0, 0), n)
    PROVE  y \in Memory /\ pos2index(y) = i
<1> DEFINE o == y - (i * ArenaSpan + 1)
<1> USE Sizes
<1>1. i \in Nat /\ i * ArenaSpan \in Nat
  BY DEF Index
<1>2. Pos(<<i, 0>>, 0, 0) = i * ArenaSpan + 1
  <2>1. <<i, 0>>[1] = i /\ <<i, 0>>[2] = 0
    OBVIOUS
  <2>2. (0 * Units + 0) * PageSlots = 0
    OBVIOUS
  <2> QED BY <1>1, <2>1, <2>2 DEF Pos
<1>3. o \in 0 .. (ArenaSpan - 1) /\ y = i * ArenaSpan + o + 1
  BY <1>1, <1>2 DEF Extent
<1> HIDE DEF o
<1> QED BY <1>3, IndexIs

-----------------------------------------------------------------------------
(* The units of a medium chunk *)

\* The fields of a header.
LEMMA HeaderIs ==
    ASSUME NEW c \in Header
    PROVE  /\ c.type \in {"EMPTY", "SMALL", "MEDIUM"} /\ c.max \in 0 .. (Units - 1)
           /\ c.pages \in SUBSET Page /\ c.free \in [Page -> SUBSET Cell]
           /\ c.unit \in [Page -> 0 .. (Units - 1)]
BY DEF Header

\* Two headers that have handed out the same units.
LEMMA SameUnits ==
    ASSUME NEW c, NEW d, c.unit = d.unit
    PROVE  /\ Taken(c) = Taken(d) /\ FreeUnits(c) = FreeUnits(d) /\ Advertised(c) = Advertised(d)
           /\ \A p : FreeSize(c, p) = FreeSize(d, p)
           /\ Apart(c) <=> Apart(d)
<1>1. Taken(c) = Taken(d)
  BY DEF Taken
<1>2. FreeUnits(c) = FreeUnits(d) /\ \A p : FreeSize(c, p) = FreeSize(d, p)
  BY <1>1 DEF FreeUnits, FreeSize
<1>3. Advertised(c) = Advertised(d)
  BY <1>2 DEF Advertised
<1> QED BY <1>1, <1>2, <1>3 DEF Apart

\* The pages taken are pages of units, and pages of the chunk.
LEMMA TakenIs ==
    ASSUME NEW c \in Header, Apart(c)
    PROVE  /\ Taken(c) \in SUBSET Page
           /\ \A y \in Page : y \in Taken(c) <=>
                \E p \in Page : p <= y /\ y < p + c.unit[p]
<1>1. c.unit \in [Page -> 0 .. (Units - 1)]
  BY HeaderIs
<1>2. ASSUME NEW y, y \in Taken(c)
      PROVE  y \in Page /\ \E p \in Page : p <= y /\ y < p + c.unit[p]
  <2>1. PICK p \in Page : y \in Extent(p, c.unit[p])
    BY <1>2 DEF Taken
  <2>2. p + c.unit[p] <= Units /\ c.unit[p] \in Nat /\ p \in Nat /\ p >= 1
    BY <1>1, Sizes DEF Apart, Page
  <2>3. y \in Nat /\ p <= y /\ y < p + c.unit[p]
    BY <2>1, <2>2 DEF Extent
  <2>4. y \in Page
    BY <2>2, <2>3, Sizes DEF Page
  <2> QED BY <2>3, <2>4
<1>3. ASSUME NEW y \in Page, NEW p \in Page, p <= y, y < p + c.unit[p]
      PROVE  y \in Taken(c)
  <2>1. c.unit[p] \in Nat /\ p \in Nat /\ y \in Nat
    BY <1>1, Sizes DEF Page
  <2>2. y \in Extent(p, c.unit[p])
    BY <1>3, <2>1 DEF Extent
  <2> QED BY <2>2 DEF Taken
<1> QED BY <1>2, <1>3

\* From page p on, FreeSize pages are free, and then comes one that is taken or the
\* end of the chunk.
LEMMA Gap ==
    ASSUME NEW c, Taken(c) \in SUBSET Page, NEW p \in Page
    PROVE  /\ FreeSize(c, p) \in Nat /\ p + FreeSize(c, p) <= Units
           /\ p + FreeSize(c, p) \in Taken(c) \cup {Units}
           /\ \A w \in Taken(c) \cup {Units} : p <= w => p + FreeSize(c, p) <= w
<1> DEFINE S == {q \in Taken(c) \cup {Units} : q >= p}
           z == Min(S)
<1>1. p \in Nat /\ Units \in Nat /\ p <= Units /\ \A q \in Taken(c) : q \in Nat
  BY Sizes DEF Page
<1>2. S \in SUBSET Nat /\ Units \in S
  BY <1>1
<1>3. z \in S /\ \A y \in S : z <= y
  BY <1>2, MinIs
<1>4. FreeSize(c, p) = z - p
  BY DEF FreeSize
<1> HIDE DEF z
<1>5. z \in Nat /\ z >= p /\ z <= Units /\ z \in Taken(c) \cup {Units}
  BY <1>1, <1>2, <1>3
<1>6. p + FreeSize(c, p) = z /\ FreeSize(c, p) \in Nat
  BY <1>1, <1>4, <1>5
<1>7. \A w \in Taken(c) \cup {Units} : p <= w => w \in S
  BY <1>1
<1> QED BY <1>3, <1>5, <1>6, <1>7

\* Nothing else is so.
LEMMA GapIs ==
    ASSUME NEW c, Taken(c) \in SUBSET Page, NEW p \in Page, NEW f \in Nat,
           p + f \in Taken(c) \cup {Units},
           \A w \in Taken(c) \cup {Units} : p <= w => p + f <= w
    PROVE  FreeSize(c, p) = f
<1> DEFINE g == FreeSize(c, p)
<1>1. p \in Nat
  BY DEF Page
<1>2. /\ g \in Nat /\ p + g \in Taken(c) \cup {Units}
      /\ \A w \in Taken(c) \cup {Units} : p <= w => p + g <= w
  BY Gap
<1> HIDE DEF g
<1>3. p + g <= p + f /\ p + f <= p + g
  <2>1. p <= p + f /\ p <= p + g
    BY <1>1, <1>2
  <2> QED BY <1>2, <2>1
<1>4. g = f
  BY <1>1, <1>2, <1>3
<1> QED BY <1>4 DEF g

\* A chunk that has handed out nothing has one free unit.
LEMMA FreshUnits ==
    ASSUME NEW c \in Header, \A p \in Page : c.unit[p] = 0
    PROVE  Apart(c) /\ Taken(c) = {} /\ FreeUnits(c) = {1} /\ FreeSize(c, 1) = Units - 1
<1> USE Sizes
<1>1. Apart(c)
  BY DEF Apart, Page
<1>2. Taken(c) = {}
  <2>1. ASSUME NEW y \in Taken(c) PROVE FALSE
    <3>1. y \in Page /\ \E p \in Page : p <= y /\ y < p + c.unit[p]
      BY <1>1, TakenIs
    <3> QED BY <3>1 DEF Page
  <2> QED BY <2>1
<1>3. FreeUnits(c) = {1}
  BY <1>2 DEF FreeUnits, Page
<1>4. FreeSize(c, 1) = Units - 1
  <2>1. Units - 1 \in Nat /\ 1 + (Units - 1) = Units
    OBVIOUS
  <2> QED BY <1>2, <2>1, GapIs
<1> QED BY <1>1, <1>2, <1>3, <1>4

\* What a chunk advertises is the size of a free unit, a number of pages.
LEMMA AdvertisedIs ==
    ASSUME NEW c, Taken(c) \in SUBSET Page
    PROVE  /\ Advertised(c) \in SUBSET (0 .. (Units - 1)) /\ Advertised(c) # {}
           /\ \A m \in Advertised(c) : (FreeUnits(c) = {} /\ m = 0)
                \/ \E p \in FreeUnits(c) : m = FreeSize(c, p)
           /\ \A p \in FreeUnits(c) : FreeSize(c, p) \in Advertised(c)
<1>1. FreeUnits(c) \in SUBSET Page
  BY DEF FreeUnits
<1>2. ASSUME NEW p \in FreeUnits(c) PROVE FreeSize(c, p) \in 0 .. (Units - 1)
  <2>1. p \in Nat /\ p >= 1
    BY <1>1 DEF Page
  <2>2. FreeSize(c, p) \in Nat /\ p + FreeSize(c, p) <= Units
    BY <1>1, Gap
  <2> QED BY <2>1, <2>2, Sizes
<1>3. 0 \in 0 .. (Units - 1)
  BY Sizes
<1> QED BY <1>2, <1>3 DEF Advertised

\* A free unit has a page.
LEMMA FreeUnitIs ==
    ASSUME NEW c, Taken(c) \in SUBSET Page, NEW p \in FreeUnits(c)
    PROVE  /\ p \in Page /\ p \notin Taken(c) /\ (p = 1 \/ p - 1 \in Taken(c))
           /\ FreeSize(c, p) >= 1
<1>1. p \in Page /\ p \notin Taken(c) /\ (p = 1 \/ p - 1 \in Taken(c))
  BY DEF FreeUnits
<1>2. FreeSize(c, p) \in Nat /\ p + FreeSize(c, p) \in Taken(c) \cup {Units}
  BY <1>1, Gap
<1>3. p \in Nat /\ p # Units
  BY <1>1, Sizes DEF Page
<1>4. FreeSize(c, p) # 0
  <2>1. SUFFICES ASSUME FreeSize(c, p) = 0 PROVE FALSE
    OBVIOUS
  <2>2. p + FreeSize(c, p) = p
    BY <1>3, <2>1
  <2> QED BY <1>1, <1>2, <1>3, <2>2
<1> QED BY <1>1, <1>2, <1>4

\* Handing out the first pages of free unit n leaves the other free units as they are.
LEMMA TakeUnit ==
    ASSUME NEW c \in Header, Apart(c), NEW n \in FreeUnits(c), NEW need \in Nat \ {0},
           need <= FreeSize(c, n),
           NEW d \in Header, d.unit = [c.unit EXCEPT ![n] = need]
    PROVE  /\ Apart(d) /\ n \in Page /\ n + need <= Units /\ c.unit[n] = 0
           /\ \A y \in Extent(n, need) : y \in Page /\ y \notin Taken(c)
           /\ \A q \in FreeUnits(c) : q # n => q \in FreeUnits(d) /\ FreeSize(d, q) = FreeSize(c, q)
<1> USE Sizes
<1>1. c.unit \in [Page -> 0 .. (Units - 1)] /\ d.unit \in [Page -> 0 .. (Units - 1)]
  BY HeaderIs
<1>2. /\ Taken(c) \in SUBSET Page
      /\ \A y \in Page : y \in Taken(c) <=> \E p \in Page : p <= y /\ y < p + c.unit[p]
  BY TakenIs
<1>3. n \in Page /\ n \notin Taken(c) /\ (n = 1 \/ n - 1 \in Taken(c))
  BY <1>2, FreeUnitIs
<1>4. d.unit[n] = need /\ \A p \in Page : p # n => d.unit[p] = c.unit[p]
  BY <1>1, <1>3
<1>5. /\ FreeSize(c, n) \in Nat /\ n + FreeSize(c, n) <= Units
      /\ \A w \in Taken(c) \cup {Units} : n <= w => n + FreeSize(c, n) <= w
  BY <1>2, <1>3, Gap
<1>6. n \in Nat /\ n >= 1 /\ n + need <= Units /\ need \in Nat /\ need >= 1
  BY <1>3, <1>5 DEF Page
<1>7. \A w \in Taken(c) : w \in Nat /\ (n <= w => n + need <= w)
  BY <1>2, <1>5, <1>6 DEF Page
<1>8. \A p \in Page : p \in Nat /\ p >= 1 /\ p < Units /\ c.unit[p] \in Nat
  BY <1>1 DEF Page
<1>9. \A p \in Page : c.unit[p] # 0 => p \in Taken(c)
  BY <1>2, <1>8
<1>10. c.unit[n] = 0
  BY <1>3, <1>9
<1>11. Apart(d)
  <2>1. ASSUME NEW p \in Page PROVE p + d.unit[p] <= Units
    <3>1. p + c.unit[p] <= Units
      BY DEF Apart
    <3> QED BY <1>4, <1>6, <3>1
  <2>2. ASSUME NEW p \in Page, NEW q \in Page, p < q, d.unit[q] # 0 PROVE p + d.unit[p] <= q
    <3>1. CASE p = n
      <4>1. q # n
        BY <1>8, <2>2, <3>1
      <4>2. q \in Taken(c)
        BY <1>4, <1>9, <2>2, <4>1
      <4>3. n <= q
        BY <1>8, <2>2, <3>1
      <4> QED BY <1>4, <1>7, <3>1, <4>2, <4>3
    <3>2. CASE p # n /\ q = n
      <4>1. ~ (n < p + c.unit[p])
        BY <1>2, <1>3, <1>8, <2>2, <3>2
      <4>2. d.unit[p] = c.unit[p]
        BY <1>4, <3>2
      <4> QED BY <1>6, <1>8, <3>2, <4>1, <4>2
    <3>3. CASE p # n /\ q # n
      <4>1. d.unit[p] = c.unit[p] /\ d.unit[q] = c.unit[q]
        BY <1>4, <3>3
      <4> QED BY <2>2, <4>1 DEF Apart
    <3> QED BY <3>1, <3>2, <3>3
  <2> QED BY <2>1, <2>2 DEF Apart
<1>12. ASSUME NEW y \in Extent(n, need) PROVE y \in Page /\ y \notin Taken(c)
  <2>1. y \in Nat /\ n <= y /\ y < n + need
    BY <1>6 DEF Extent
  <2>2. y \in Page
    BY <1>6, <2>1 DEF Page
  <2>3. ~ (n + need <= y)
    BY <1>6, <2>1
  <2> QED BY <1>7, <2>1, <2>2, <2>3
<1>13. /\ Taken(d) \in SUBSET Page
       /\ \A y \in Page : y \in Taken(d) <=> \E p \in Page : p <= y /\ y < p + d.unit[p]
  BY <1>11, TakenIs
<1>14. \A y \in Page : y \in Taken(d) <=> y \in Taken(c) \/ (n <= y /\ y < n + need)
  <2>1. ASSUME NEW y \in Page, y \in Taken(d) PROVE y \in Taken(c) \/ (n <= y /\ y < n + need)
    <3>1. PICK p \in Page : p <= y /\ y < p + d.unit[p]
      BY <1>13, <2>1
    <3> QED BY <1>2, <1>4, <3>1
  <2>2. ASSUME NEW y \in Page, y \in Taken(c) PROVE y \in Taken(d)
    <3>1. PICK p \in Page : p <= y /\ y < p + c.unit[p]
      BY <1>2, <2>2
    <3>2. p # n
      BY <1>8, <1>10, <3>1
    <3> QED BY <1>4, <1>13, <3>1, <3>2
  <2>3. ASSUME NEW y \in Page, n <= y, y < n + need PROVE y \in Taken(d)
    BY <1>3, <1>4, <1>13, <2>3
  <2> QED BY <2>1, <2>2, <2>3
<1>15. ASSUME NEW q \in FreeUnits(c), q # n
       PROVE  q \in FreeUnits(d) /\ FreeSize(d, q) = FreeSize(c, q)
  <2>1. q \in Page /\ q \notin Taken(c) /\ (q = 1 \/ q - 1 \in Taken(c))
    BY <1>2, FreeUnitIs
  <2>2. q \in Nat /\ q >= 1
    BY <1>8, <2>1
  <2>3. ~ (n < q /\ q <= n + need)
    <3>1. SUFFICES ASSUME n < q, q <= n + need PROVE FALSE
      OBVIOUS
    <3>2. q # 1 /\ n <= q - 1 /\ q - 1 < n + need
      BY <1>6, <2>2, <3>1
    <3>3. q - 1 \in Taken(c)
      BY <2>1, <3>2
    <3>4. n + need <= q - 1
      BY <1>7, <3>2, <3>3
    <3> QED BY <1>6, <2>2, <3>2, <3>4
  <2>4. q \notin Taken(d)
    BY <1>6, <1>14, <1>15, <2>1, <2>2, <2>3
  <2>5. q = 1 \/ q - 1 \in Taken(d)
    <3>1. CASE q = 1
      BY <3>1
    <3>2. CASE q - 1 \in Taken(c)
      BY <1>2, <1>14, <3>2
    <3> QED BY <2>1, <3>1, <3>2
  <2>6. q \in FreeUnits(d)
    BY <2>1, <2>4, <2>5 DEF FreeUnits
  <2> DEFINE f == FreeSize(c, q)
  <2>7. /\ f \in Nat /\ q + f <= Units /\ q + f \in Taken(c) \cup {Units}
        /\ \A w \in Taken(c) \cup {Units} : q <= w => q + f <= w
    BY <1>2, <2>1, Gap
  <2> HIDE DEF f
  <2>8. q + f \in Taken(d) \cup {Units}
    BY <1>2, <1>14, <2>7
  <2>9. ASSUME NEW w \in Taken(d) \cup {Units}, q <= w PROVE q + f <= w
    <3>1. CASE w \in Taken(c) \cup {Units}
      BY <2>7, <2>9, <3>1
    <3>2. CASE w \notin Taken(c) \cup {Units}
      <4>1. w \in Page /\ w \in Nat /\ n <= w /\ w < n + need
        BY <1>8, <1>13, <1>14, <2>9, <3>2
      <4>2. q < n
        BY <1>6, <1>15, <2>2, <2>3, <2>9, <4>1
      <4>3. n - 1 \in Taken(c) /\ q <= n - 1
        BY <1>3, <1>6, <2>2, <4>2
      <4>4. q + f <= n - 1
        BY <2>7, <4>3
      <4> QED BY <1>6, <2>2, <2>7, <4>1, <4>4
    <3> QED BY <3>1, <3>2
  <2>10. FreeSize(d, q) = f
    BY <1>13, <2>1, <2>7, <2>8, <2>9, GapIs
  <2> QED BY <2>6, <2>10 DEF f
<1> QED BY <1>3, <1>6, <1>10, <1>11, <1>12, <1>15

\* Giving back the unit at p: the other units stay, and what the chunk advertises is
\* the size of a free unit again, that of the merged one or the one it was.
LEMMA GiveUnit ==
    ASSUME NEW c \in Header, Apart(c), c.max \in Advertised(c), NEW p \in Page, c.unit[p] # 0,
           NEW d \in Header, d.unit = [c.unit EXCEPT ![p] = 0]
    PROVE  LET start == Max({q \in FreeUnits(d) : q <= p})
               size  == FreeSize(d, start)
           IN  Apart(d) /\ (IF size >= c.max THEN size ELSE c.max) \in Advertised(d)
<1> DEFINE start == Max({q \in FreeUnits(d) : q <= p})
           u     == c.unit[p]
<1> USE Sizes
<1>1. c.unit \in [Page -> 0 .. (Units - 1)] /\ d.unit \in [Page -> 0 .. (Units - 1)]
  BY HeaderIs
<1>2. /\ Taken(c) \in SUBSET Page
      /\ \A y \in Page : y \in Taken(c) <=> \E q \in Page : q <= y /\ y < q + c.unit[q]
  BY TakenIs
<1>3. d.unit[p] = 0 /\ \A q \in Page : q # p => d.unit[q] = c.unit[q]
  BY <1>1
<1>4. \A q \in Page : q \in Nat /\ q >= 1 /\ q < Units /\ c.unit[q] \in Nat /\ d.unit[q] \in Nat
  BY <1>1 DEF Page
<1>5. u \in Nat /\ u >= 1 /\ p \in Nat /\ p >= 1 /\ p + u <= Units
  BY <1>4 DEF Apart
<1> HIDE DEF u
<1>6. Apart(d)
  <2>1. \A q \in Page : q + c.unit[q] <= Units
    BY DEF Apart
  <2>2. \A q, r \in Page : q < r /\ c.unit[r] # 0 => q + c.unit[q] <= r
    BY DEF Apart
  <2>3. ASSUME NEW q \in Page PROVE q + d.unit[q] <= Units
    BY <1>3, <1>4, <2>1
  <2>4. ASSUME NEW q \in Page, NEW r \in Page, q < r, d.unit[r] # 0 PROVE q + d.unit[q] <= r
    <3>1. c.unit[r] # 0
      BY <1>3, <2>4
    <3>2. q + c.unit[q] <= r
      BY <2>2, <2>4, <3>1
    <3> QED BY <1>3, <1>4, <2>4, <3>2
  <2> QED BY <2>3, <2>4 DEF Apart
<1>7. /\ Taken(d) \in SUBSET Page
      /\ \A y \in Page : y \in Taken(d) <=> \E q \in Page : q <= y /\ y < q + d.unit[q]
  BY <1>6, TakenIs
<1>8. \A y \in Page : y \in Taken(c) <=> y \in Taken(d) \/ (p <= y /\ y < p + u)
  <2>1. ASSUME NEW y \in Page, y \in Taken(c) PROVE y \in Taken(d) \/ (p <= y /\ y < p + u)
    <3>1. PICK q \in Page : q <= y /\ y < q + c.unit[q]
      BY <1>2, <2>1
    <3> QED BY <1>3, <1>7, <3>1 DEF u
  <2>2. ASSUME NEW y \in Page, y \in Taken(d) PROVE y \in Taken(c)
    <3>1. PICK q \in Page : q <= y /\ y < q + d.unit[q]
      BY <1>7, <2>2
    <3>2. q # p
      BY <1>3, <1>4, <3>1
    <3> QED BY <1>2, <1>3, <3>1, <3>2
  <2>3. ASSUME NEW y \in Page, p <= y, y < p + u PROVE y \in Taken(c)
    BY <1>2, <2>3 DEF u
  <2> QED BY <2>1, <2>2, <2>3
<1>9. \A y \in Page : p <= y /\ y < p + u => y \notin Taken(d)
  <2>1. SUFFICES ASSUME NEW y \in Page, p <= y, y < p + u, NEW q \in Page, q <= y, y < q + d.unit[q]
                 PROVE  FALSE
    BY <1>7
  <2>2. q # p /\ d.unit[q] = c.unit[q] /\ c.unit[q] # 0
    BY <1>3, <1>4, <2>1
  <2>3. \A r, s \in Page : r < s /\ c.unit[s] # 0 => r + c.unit[r] <= s
    BY DEF Apart
  <2>4. CASE q < p
    <3>1. q + c.unit[q] <= p
      BY <2>3, <2>4
    <3> QED BY <1>4, <2>1, <2>2, <3>1
  <2>5. CASE p < q
    <3>1. p + u <= q
      BY <2>2, <2>3, <2>5 DEF u
    <3> QED BY <1>4, <1>5, <2>1, <3>1
  <2> QED BY <1>4, <2>2, <2>4, <2>5
<1> DEFINE D == {t \in 1 .. p : \A y \in t .. p : y \notin Taken(d)}
           t == Min(D)
<1>10. t \in D /\ \A y \in D : t <= y
  <2>1. D \in SUBSET Nat
    OBVIOUS
  <2>2. p \in D
    <3>1. p \notin Taken(d)
      BY <1>5, <1>9
    <3> QED BY <1>5, <3>1
  <2> HIDE DEF D
  <2> QED BY <2>1, <2>2, MinIs
<1>11. t \in Nat /\ t >= 1 /\ t <= p /\ \A y \in t .. p : y \notin Taken(d)
  BY <1>5, <1>10
<1>12. t = 1 \/ t - 1 \in Taken(d)
  <2>1. SUFFICES ASSUME t # 1, t - 1 \notin Taken(d) PROVE FALSE
    OBVIOUS
  <2> HIDE DEF t
  <2>2. t - 1 \in 1 .. p /\ ~ (t <= t - 1)
    BY <1>5, <1>11, <2>1
  <2>3. \A y \in (t - 1) .. p : y = t - 1 \/ y \in t .. p
    BY <1>5, <1>11
  <2>4. t - 1 \in D
    BY <1>11, <2>1, <2>2, <2>3
  <2> QED BY <1>10, <2>2, <2>4
<1> HIDE DEF t, D
<1>13. t \in Page /\ t \notin Taken(d)
  <2>1. t \in t .. p
    BY <1>5, <1>11
  <2>2. t \in Page
    BY <1>4, <1>5, <1>11 DEF Page
  <2> QED BY <1>11, <2>1, <2>2
<1>14. t \in FreeUnits(d)
  BY <1>12, <1>13 DEF FreeUnits
<1>15. ASSUME NEW q \in FreeUnits(d), q <= p PROVE q <= t
  <2>1. SUFFICES ASSUME ~ (q <= t) PROVE FALSE
    OBVIOUS
  <2>2. q \in Page /\ (q = 1 \/ q - 1 \in Taken(d))
    BY <1>7, FreeUnitIs
  <2>3. q \in Nat /\ t < q
    BY <1>4, <1>11, <2>1, <2>2
  <2>4. q # 1 /\ q - 1 \in t .. p
    BY <1>5, <1>11, <1>15, <2>3
  <2> QED BY <1>11, <2>2, <2>4
<1>16. start = t
  <2> DEFINE S == {q \in FreeUnits(d) : q <= p}
  <2>1. t \in S /\ \A q \in S : q \in Nat /\ q <= t
    <3>1. \A q \in S : q \in Page
      BY <1>7, FreeUnitIs
    <3> QED BY <1>4, <1>11, <1>14, <1>15, <3>1
  <2> HIDE DEF S
  <2>2. PICK m \in S : m = Max(S) /\ \A y \in S : m >= y
    <3>1. \E x \in S : \A y \in S : x >= y
      BY <1>11, <2>1
    <3> QED BY <3>1 DEF Max
  <2>3. m = t
    <3>1. m \in Nat /\ m <= t /\ m >= t
      BY <2>1, <2>2
    <3> QED BY <1>11, <3>1
  <2> QED BY <2>2, <2>3 DEF S
<1> HIDE DEF start
<1> DEFINE size == FreeSize(d, t)
<1>17. /\ size \in Nat /\ t + size <= Units /\ t + size \in Taken(d) \cup {Units}
       /\ \A w \in Taken(d) \cup {Units} : t <= w => t + size <= w
  BY <1>7, <1>13, Gap
<1>18. size \in Advertised(d)
  BY <1>7, <1>14, AdvertisedIs
<1> HIDE DEF size
<1>19. ASSUME ~ (size >= c.max) PROVE c.max \in Advertised(d)
  <2>1. c.max \in Nat /\ size < c.max
    BY <1>17, <1>19, HeaderIs
  <2>2. PICK q \in FreeUnits(c) : c.max = FreeSize(c, q)
    BY <1>2, <1>17, <2>1, AdvertisedIs
  <2>3. q \in Page /\ q \notin Taken(c) /\ (q = 1 \/ q - 1 \in Taken(c))
    BY <1>2, FreeUnitIs
  <2> DEFINE f == c.max
             z == q + f
  <2>4. /\ f \in Nat /\ f >= 1 /\ z <= Units /\ z \in Taken(c) \cup {Units}
        /\ \A w \in Taken(c) \cup {Units} : q <= w => z <= w
    BY <1>2, <1>17, <2>1, <2>2, <2>3, Gap
  <2>5. q \in Nat /\ q >= 1 /\ q < Units
    BY <1>4, <2>3
  <2>6. z \in Nat /\ f = z - q
    BY <2>4, <2>5
  <2> HIDE DEF f, z
  <2>7. q \notin Taken(d) /\ ~ (p <= q /\ q < p + u)
    BY <1>8, <2>3
  <2>8. ~ (q - 1 >= p /\ q - 1 < p + u)
    \* The unit behind the one given back would be merged.
    <3>1. SUFFICES ASSUME q - 1 >= p, q - 1 < p + u PROVE FALSE
      OBVIOUS
    <3>2. q = p + u
      BY <1>5, <2>5, <2>7, <3>1
    <3>3. CASE t + size = Units
      BY <1>5, <1>11, <1>17, <2>1, <2>4, <2>5, <2>6, <3>2, <3>3 DEF f
    <3>4. CASE t + size \in Taken(d)
      <4> DEFINE w == t + size
      <4>1. w \in Page /\ w \in Nat /\ w \in Taken(d)
        BY <1>4, <1>7, <3>4
      <4>2. w \in Taken(c)
        BY <1>8, <4>1
      <4>3. ~ (p <= w /\ w < p + u)
        BY <1>9, <4>1
      <4>4. ~ (w \in t .. p)
        BY <1>11, <4>1
      <4>5. t <= w
        BY <1>11, <1>17
      <4> HIDE DEF w
      <4>6. p + u <= w
        BY <1>5, <1>11, <4>1, <4>3, <4>4, <4>5
      <4>7. z <= w
        BY <2>4, <3>2, <4>2, <4>6
      <4>8. size = w - t
        BY <1>11, <1>17 DEF w
      <4>9. z - q <= w - t
        BY <1>5, <1>11, <2>5, <2>6, <3>2, <4>1, <4>7
      <4> QED BY <1>17, <2>1, <2>6, <4>8, <4>9 DEF f
    <3> QED BY <1>17, <3>3, <3>4
  <2>9. q = 1 \/ q - 1 \in Taken(d)
    <3>1. SUFFICES ASSUME q # 1 PROVE q - 1 \in Taken(d)
      OBVIOUS
    <3>2. q - 1 \in Page /\ q - 1 \in Taken(c)
      BY <1>2, <2>3, <3>1
    <3> QED BY <1>8, <2>8, <3>2
  <2>10. q \in FreeUnits(d)
    BY <2>3, <2>7, <2>9 DEF FreeUnits
  <2>11. z \in Taken(d) \cup {Units}
    \* The free unit before the one given back would be merged.
    <3>1. SUFFICES ASSUME z \notin Taken(d), z # Units PROVE FALSE
      OBVIOUS
    <3>2. z \in Page /\ p <= z /\ z < p + u
      BY <1>2, <1>8, <2>4, <3>1
    <3>3. p \in Taken(c)
      BY <1>5, <1>8
    <3>4. q < p
      BY <1>5, <2>4, <2>5, <2>6, <2>7, <3>2
    <3>5. z = p
      <4>1. q <= p /\ p \in Taken(c) \cup {Units}
        BY <1>5, <2>5, <3>3, <3>4
      <4>2. z <= p
        BY <2>4, <4>1
      <4>3. z \in Nat /\ p \in Nat
        BY <1>5, <2>6
      <4>4. p <= z
        BY <3>2
      <4> QED BY <4>2, <4>3, <4>4
    <3>6. \A y \in q .. p : y \notin Taken(d)
      <4>1. SUFFICES ASSUME NEW y \in q .. p, y \in Taken(d) PROVE FALSE
        OBVIOUS
      <4>2. y \in Page /\ y \in Taken(c) /\ y \in Nat /\ q <= y /\ y <= p
        BY <1>4, <1>5, <1>7, <1>8, <2>5, <4>1
      <4>3. z <= y
        BY <2>4, <4>2
      <4>4. y = p
        BY <1>5, <3>5, <4>2, <4>3
      <4>5. p \notin Taken(d)
        BY <1>5, <1>9
      <4> QED BY <4>1, <4>4, <4>5
    <3>7. q = t
      <4>1. q \in D
        BY <1>5, <2>5, <3>4, <3>6 DEF D
      <4>2. t <= q
        BY <1>10, <4>1
      <4>3. q <= t
        BY <1>5, <1>15, <2>5, <2>10, <3>4
      <4> QED BY <1>11, <2>5, <4>2, <4>3
    <3>8. p <= t + size
      <4>1. CASE t + size = Units
        BY <1>5, <4>1
      <4>2. CASE t + size \in Taken(d)
        <5>1. t + size \in Nat /\ t <= t + size
          BY <1>11, <1>17
        <5>2. ~ (t + size \in t .. p)
          BY <1>11, <4>2
        <5> QED BY <1>5, <1>11, <5>1, <5>2
      <4> QED BY <1>17, <4>1, <4>2
    <3> QED BY <1>5, <1>11, <1>17, <2>1, <2>5, <2>6, <3>5, <3>7, <3>8 DEF f
  <2>12. \A w \in Taken(d) \cup {Units} : q <= w => q + f <= w
    BY <1>7, <1>8, <2>4 DEF z
  <2>13. q + f \in Taken(d) \cup {Units}
    BY <2>11 DEF z
  <2>14. FreeSize(d, q) = f
    BY <1>7, <2>3, <2>4, <2>12, <2>13, GapIs
  <2> QED BY <1>7, <2>10, <2>14, AdvertisedIs DEF f
<1>20. (IF size >= c.max THEN size ELSE c.max) \in Advertised(d)
  BY <1>18, <1>19
<1> QED BY <1>6, <1>16, <1>20 DEF start, size

-----------------------------------------------------------------------------
(* The heap *)

\* The fields of a heap.
LEMMA HeapIs ==
    ASSUME NEW h \in Heap
    PROVE  /\ h.arena \in [Index -> Entry] /\ h.chunk \in [Chunk -> Header]
           /\ h.small \in SUBSET Chunk /\ h.medium \in SUBSET Chunk
           /\ h.runs \in SUBSET (Chunk \X Page) /\ h.held \in [Memory -> Nat]
           /\ h.mem \in [Memory -> {Other, Tag}] /\ h.failed \in BOOLEAN
           /\ h.linked \in SUBSET (Chunk \X Page) /\ h.torn \in BOOLEAN
BY DEF Heap

\* The header of no chunk, and the entry of no arena.
LEMMA BlankIs ==
    /\ Blank \in Header /\ EMPTY \in Entry /\ EMPTY.type = "EMPTY" /\ EMPTY.chunks = {}
    /\ Blank.type = "EMPTY" /\ Blank.pages = {}
    /\ \A p \in Page : Blank.unit[p] = 0 /\ Blank.free[p] = {}
    /\ \A p, s : ChunkShare(Blank, p, s) = 0
<1> USE Sizes
<1>1. 0 \in 0 .. (Units - 1)
  OBVIOUS
<1>2. Blank \in Header /\ EMPTY \in Entry
  BY <1>1 DEF Blank, EMPTY, Header, Entry
<1>3. /\ EMPTY.type = "EMPTY" /\ EMPTY.chunks = {} /\ Blank.type = "EMPTY" /\ Blank.pages = {}
      /\ \A p \in Page : Blank.unit[p] = 0 /\ Blank.free[p] = {}
  BY DEF Blank, EMPTY
<1>4. ASSUME NEW p, NEW s PROVE ChunkShare(Blank, p, s) = 0
  <2>1. 0 * PageSlots = 0
    OBVIOUS
  <2> QED BY <1>3, <2>1 DEF ChunkShare
<1> QED BY <1>2, <1>3, <1>4

\* A slot with a chunk is in an arena of chunks.
LEMMA NotLarge ==
    ASSUME NEW h, NEW E, Good(h, E), NEW k \in Chunk, There(h, k)
    PROVE  h.arena[k[1]].type # "LARGE" /\ (k[1] = 0 => k[2] # 0)
           /\ (k[1] # 0 => h.arena[k[1]].type = "CHUNK")
<1>1. k[1] \in Index /\ k[2] \in h.arena[k[1]].chunks /\ k = <<k[1], k[2]>> /\ k # <<0, 0>>
  BY ChunkIs DEF There
<1>2. k[1] = 0 => k[2] # 0
  BY <1>1
<1>3. CASE k[1] = 0
  BY <1>2, <1>3 DEF Good, Arenas
<1>4. CASE k[1] # 0
  BY <1>1, <1>4, BlankIs DEF Good, Arenas
<1> QED BY <1>2, <1>3, <1>4

\* From h to g, chunk k changes to d, at cell s of page p, and stays what it is.
ChunkChange(h, g, k, d, p, s) ==
    /\ k \in Chunk /\ There(h, k) /\ d \in Header /\ Used(d)
    /\ (IsSmall(h.chunk[k]) /\ IsSmall(d)) \/ (IsMedium(h.chunk[k]) /\ IsMedium(d))
    /\ p \in 0 .. (Units - 1) /\ s \in Cell
    /\ \A q \in 0 .. (Units - 1), t \in Cell :
         q # p \/ t # s => ChunkShare(d, q, t) = ChunkShare(h.chunk[k], q, t)
    /\ g \in Heap /\ g.arena = h.arena /\ g.chunk = [h.chunk EXCEPT ![k] = d]
    /\ g.small = h.small /\ g.medium = h.medium /\ Runs(g)
    /\ g.held = [h.held EXCEPT ![Pos(k, p, s)] = ChunkShare(d, p, s)]

\* Such a change keeps the heap good, and the chunk is in use.
LEMMA ChunkStep ==
    ASSUME NEW h, NEW E, Good(h, E), NEW g, NEW k, NEW d, NEW p, NEW s,
           ChunkChange(h, g, k, d, p, s)
    PROVE  Good(g, E \ {k})
<1> USE DEF ChunkChange
<1>1. h \in Heap /\ Arenas(h) /\ Chunks(h, E) /\ Helds(h)
  BY DEF Good
<1>2. h.chunk \in [Chunk -> Header] /\ h.held \in [Memory -> Nat]
  BY <1>1, HeapIs
<1>3. g.chunk[k] = d /\ \A l \in Chunk : l # k => g.chunk[l] = h.chunk[l]
  BY <1>2
<1>4. Arenas(g)
  BY <1>1 DEF Arenas
<1>5. Chunks(g, E \ {k})
  <2>1. SUFFICES ASSUME NEW l \in Chunk
                 PROVE  IF There(g, l)
                        THEN /\ \/ l \in g.small /\ l \notin g.medium /\ IsSmall(g.chunk[l])
                                \/ l \notin g.small /\ l \in g.medium /\ IsMedium(g.chunk[l])
                             /\ l \in E \ {k} \/ Used(g.chunk[l])
                        ELSE l \notin g.small /\ l \notin g.medium /\ g.chunk[l] = Blank
    BY DEF Chunks
  <2>2. There(g, l) <=> There(h, l)
    BY DEF There
  <2>3. CASE l = k
    <3>1. \/ k \in h.small /\ k \notin h.medium /\ IsSmall(h.chunk[k])
          \/ k \notin h.small /\ k \in h.medium /\ IsMedium(h.chunk[k])
      BY <1>1 DEF Chunks
    <3>2. ~ (IsSmall(h.chunk[k]) /\ IsMedium(h.chunk[k]))
      BY DEF IsSmall, IsMedium
    <3> QED BY <1>3, <2>2, <2>3, <3>1, <3>2
  <2>4. CASE l # k
    BY <1>1, <1>3, <2>2, <2>4 DEF Chunks
  <2> QED BY <2>3, <2>4
<1>6. Helds(g)
  <2>1. SUFFICES ASSUME NEW x \in Memory PROVE g.held[x] = Share(g, x)
    BY DEF Helds
  <2>2. h.held[x] = Share(h, x)
    BY <1>1 DEF Helds
  <2>3. /\ ChunkOf(x)[1] = pos2index(x) /\ PageOf(x) \in 0 .. (Units - 1) /\ CellOf(x) \in Cell
        /\ x = Pos(ChunkOf(x), PageOf(x), CellOf(x))
    BY PosOnto
  <2>4. /\ Pos(k, p, s) \in Memory /\ ChunkOf(Pos(k, p, s)) = k
        /\ PageOf(Pos(k, p, s)) = p /\ CellOf(Pos(k, p, s)) = s
    BY PosIs
  <2>5. CASE ChunkOf(x) = k
    <3>1. h.arena[pos2index(x)].type # "LARGE"
      BY <2>3, <2>5, NotLarge
    <3>2. Share(h, x) = ChunkShare(h.chunk[k], PageOf(x), CellOf(x))
      BY <2>5, <3>1 DEF Share
    <3>3. Share(g, x) = ChunkShare(d, PageOf(x), CellOf(x))
      BY <1>3, <2>5, <3>1 DEF Share
    <3>4. CASE x = Pos(k, p, s)
      <4>1. g.held[x] = ChunkShare(d, p, s)
        BY <1>2, <3>4
      <4> QED BY <2>4, <3>3, <3>4, <4>1
    <3>5. CASE x # Pos(k, p, s)
      <4>1. g.held[x] = h.held[x]
        BY <1>2, <3>5
      <4>2. PageOf(x) # p \/ CellOf(x) # s
        BY <2>3, <2>5, <3>5
      <4> QED BY <2>2, <2>3, <3>2, <3>3, <4>1, <4>2
    <3> QED BY <3>4, <3>5
  <2>6. CASE ChunkOf(x) # k
    <3>1. g.held[x] = h.held[x]
      BY <1>2, <2>4, <2>6
    <3>2. ChunkOf(x) \in Chunk => g.chunk[ChunkOf(x)] = h.chunk[ChunkOf(x)]
      BY <1>3, <2>6
    <3>3. Share(g, x) = Share(h, x)
      BY <3>2 DEF Share
    <3> QED BY <2>2, <3>1, <3>3
  <2> QED BY <2>5, <2>6
<1> QED BY <1>4, <1>5, <1>6 DEF Good

\* From h to g, chunk k goes, and perhaps its arena with it; it held one block at
\* most, at cell s of page p.
ChunkLeaves(h, g, k, p, s) ==
    /\ k \in Chunk /\ There(h, k) /\ p \in 0 .. (Units - 1) /\ s \in Cell
    /\ \A q \in 0 .. (Units - 1), t \in Cell : q # p \/ t # s => ChunkShare(h.chunk[k], q, t) = 0
    /\ g \in Heap /\ g.chunk = [h.chunk EXCEPT ![k] = Blank]
    /\ g.small = h.small \ {k} /\ g.medium = h.medium \ {k} /\ Runs(g)
    /\ \A i \in Index : i # k[1] => g.arena[i] = h.arena[i]
    /\ IF h.arena[k[1]].chunks = {k[2]} /\ h.arena[k[1]].type # "CONTEXT"
       THEN g.arena[k[1]] = EMPTY
       ELSE g.arena[k[1]].type = h.arena[k[1]].type /\ g.arena[k[1]].chunks = h.arena[k[1]].chunks \ {k[2]}
    /\ g.held = [h.held EXCEPT ![Pos(k, p, s)] = 0]

\* The heap is good without it.
LEMMA ChunkGone ==
    ASSUME NEW h, Good(h, {}), NEW g, NEW k, NEW p, NEW s, ChunkLeaves(h, g, k, p, s)
    PROVE  Good(g, {})
<1> USE DEF ChunkLeaves
<1> DEFINE i == k[1]
<1>1. h \in Heap /\ Arenas(h) /\ Chunks(h, {}) /\ Helds(h)
  BY DEF Good
<1>2. h.chunk \in [Chunk -> Header] /\ h.held \in [Memory -> Nat]
  BY <1>1, HeapIs
<1>3. g.chunk[k] = Blank /\ \A l \in Chunk : l # k => g.chunk[l] = h.chunk[l]
  BY <1>2
<1>4. /\ h.arena[i].type # "LARGE" /\ (i = 0 => k[2] # 0) /\ (i # 0 => h.arena[i].type = "CHUNK")
  BY NotLarge
<1>5. i \in Index /\ k = <<i, k[2]>> /\ k[2] \in h.arena[i].chunks
  BY ChunkIs DEF There
<1>6. h.arena[0].type = "CONTEXT" /\ 0 \in h.arena[0].chunks
  BY <1>1 DEF Arenas
<1>7. g.arena[i].chunks = h.arena[i].chunks \ {k[2]} /\ g.arena[i].type # "LARGE"
  BY <1>4, BlankIs
<1>8. Arenas(g)
  <2>1. g.arena[0].type = "CONTEXT" /\ 0 \in g.arena[0].chunks
    <3>1. CASE i = 0
      BY <1>4, <1>6, <1>7, <3>1
    <3>2. CASE i # 0
      BY <1>6, <3>2, Sizes
    <3> QED BY <3>1, <3>2
  <2>2. ASSUME NEW j \in Index, j # 0
        PROVE  \/ g.arena[j] = EMPTY
               \/ g.arena[j].type = "CHUNK" /\ g.arena[j].chunks # {}
               \/ g.arena[j].type = "LARGE" /\ g.arena[j].chunks = {} /\ g.arena[j].size \in 1 .. ArenaSpan
    <3>1. CASE i = j
      BY <1>4, <1>5, <1>7, <2>2, <3>1
    <3>2. CASE i # j
      BY <1>1, <2>2, <3>2 DEF Arenas
    <3> QED BY <3>1, <3>2
  <2> QED BY <2>1, <2>2 DEF Arenas
<1>9. Chunks(g, {})
  <2>1. SUFFICES ASSUME NEW l \in Chunk
                 PROVE  IF There(g, l)
                        THEN /\ \/ l \in g.small /\ l \notin g.medium /\ IsSmall(g.chunk[l])
                                \/ l \notin g.small /\ l \in g.medium /\ IsMedium(g.chunk[l])
                             /\ l \in {} \/ Used(g.chunk[l])
                        ELSE l \notin g.small /\ l \notin g.medium /\ g.chunk[l] = Blank
    BY DEF Chunks
  <2>2. CASE l = k
    <3>1. ~ There(g, k)
      BY <1>7 DEF There
    <3> QED BY <1>3, <2>2, <3>1
  <2>3. CASE l # k
    <3>1. l[1] \in Index /\ l = <<l[1], l[2]>>
      BY ChunkIs
    <3>2. There(g, l) <=> There(h, l)
      <4>1. CASE l[1] = i
        <5>1. l[2] # k[2]
          BY <1>5, <2>3, <3>1, <4>1
        <5> QED BY <1>7, <4>1, <5>1 DEF There
      <4>2. CASE l[1] # i
        BY <3>1, <4>2 DEF There
      <4> QED BY <4>1, <4>2
    <3>3. IF There(h, l)
          THEN /\ \/ l \in h.small /\ l \notin h.medium /\ IsSmall(h.chunk[l])
                  \/ l \notin h.small /\ l \in h.medium /\ IsMedium(h.chunk[l])
               /\ l \in {} \/ Used(h.chunk[l])
          ELSE l \notin h.small /\ l \notin h.medium /\ h.chunk[l] = Blank
      BY <1>1 DEF Chunks
    <3>4. g.chunk[l] = h.chunk[l] /\ (l \in g.small <=> l \in h.small) /\ (l \in g.medium <=> l \in h.medium)
      BY <1>3, <2>3
    <3> QED BY <3>2, <3>3, <3>4
  <2> QED BY <2>2, <2>3
<1>10. Helds(g)
  <2>1. SUFFICES ASSUME NEW x \in Memory PROVE g.held[x] = Share(g, x)
    BY DEF Helds
  <2>2. h.held[x] = Share(h, x)
    BY <1>1 DEF Helds
  <2>3. /\ ChunkOf(x)[1] = pos2index(x) /\ PageOf(x) \in 0 .. (Units - 1) /\ CellOf(x) \in Cell
        /\ x = Pos(ChunkOf(x), PageOf(x), CellOf(x)) /\ pos2index(x) \in Index
    BY PosOnto
  <2>4. Pos(k, p, s) \in Memory /\ ChunkOf(Pos(k, p, s)) = k
    BY PosIs
  <2>5. CASE ChunkOf(x) = k
    <3>1. pos2index(x) = i
      BY <2>3, <2>5
    <3>2. Share(h, x) = ChunkShare(h.chunk[k], PageOf(x), CellOf(x))
      BY <1>4, <2>5, <3>1 DEF Share
    <3>3. Share(g, x) = 0
      BY <1>3, <1>7, <2>5, <3>1, BlankIs DEF Share
    <3>4. CASE x = Pos(k, p, s)
      BY <1>2, <3>3, <3>4
    <3>5. CASE x # Pos(k, p, s)
      <4>1. g.held[x] = h.held[x]
        BY <1>2, <3>5
      <4>2. PageOf(x) # p \/ CellOf(x) # s
        BY <2>3, <2>5, <3>5
      <4> QED BY <2>2, <2>3, <3>2, <3>3, <4>1, <4>2
    <3> QED BY <3>4, <3>5
  <2>6. CASE ChunkOf(x) # k
    <3>1. g.held[x] = h.held[x]
      BY <1>2, <2>4, <2>6
    <3>2. ChunkOf(x) \in Chunk => g.chunk[ChunkOf(x)] = h.chunk[ChunkOf(x)]
      BY <1>3, <2>6
    <3>3. CASE pos2index(x) = i
      BY <1>4, <1>7, <2>2, <3>1, <3>2, <3>3 DEF Share
    <3>4. CASE pos2index(x) # i
      BY <2>2, <2>3, <3>1, <3>2, <3>4 DEF Share
    <3> QED BY <3>3, <3>4
  <2> QED BY <2>5, <2>6
<1> QED BY <1>8, <1>9, <1>10 DEF Good

\* Position y is in a block, by what the table and the headers say.
Busy(h, y) ==
    \/ h.arena[pos2index(y)].type = "LARGE"
    \/ /\ ChunkOf(y) \in Chunk
       /\ \/ PageOf(y) \in h.chunk[ChunkOf(y)].pages /\ CellOf(y) \notin h.chunk[ChunkOf(y)].free[PageOf(y)]
          \/ PageOf(y) \in Taken(h.chunk[ChunkOf(y)])

\* A chunk without a run and without a unit handed out has no block.
LEMMA NoShare ==
    ASSUME NEW d \in Header, d.pages = {}, \A p \in Page : d.unit[p] = 0
    PROVE  (\A p, s : ChunkShare(d, p, s) = 0) /\ Taken(d) = {}
<1>1. 0 * PageSlots = 0
  BY Sizes
<1>2. \A p, s : ChunkShare(d, p, s) = 0
  BY <1>1 DEF ChunkShare
<1>3. Taken(d) = {}
  BY FreshUnits
<1> QED BY <1>2, <1>3

\* From h to g, a chunk with header d is made in slot c of arena i, which may be new.
ChunkEnters(h, g, i, c, d) ==
    /\ i \in Index /\ c \in Slot /\ c \notin h.arena[i].chunks /\ h.arena[i].type # "LARGE"
    /\ d \in Header /\ d.pages = {} /\ \A p \in Page : d.unit[p] = 0 /\ d.free[p] = {}
    /\ g \in Heap /\ g.chunk = [h.chunk EXCEPT ![<<i, c>>] = d]
    /\ \/ IsSmall(d) /\ g.small = h.small \cup {<<i, c>>} /\ g.medium = h.medium
       \/ IsMedium(d) /\ g.small = h.small /\ g.medium = h.medium \cup {<<i, c>>}
    /\ g.runs = h.runs /\ g.held = h.held
    /\ \A j \in Index : j # i => g.arena[j] = h.arena[j]
    /\ g.arena[i].chunks = h.arena[i].chunks \cup {c}
    /\ g.arena[i].type = IF i = 0 THEN "CONTEXT" ELSE "CHUNK"

\* The heap is good but for the chunk, which is not in use yet; no block comes or goes.
LEMMA ChunkMade ==
    ASSUME NEW h, Good(h, {}), NEW g, NEW i, NEW c, NEW d, ChunkEnters(h, g, i, c, d)
    PROVE  Good(g, {<<i, c>>}) /\ \A y \in Memory : Busy(g, y) <=> Busy(h, y)
<1> USE DEF ChunkEnters
<1> DEFINE k == <<i, c>>
<1>1. h \in Heap /\ Arenas(h) /\ Chunks(h, {}) /\ Helds(h) /\ Runs(h)
  BY DEF Good
<1>2. h.chunk \in [Chunk -> Header] /\ h.held \in [Memory -> Nat]
  BY <1>1, HeapIs
<1>3. k \in Chunk /\ k[1] = i /\ k[2] = c
  BY ChunkIs
<1> HIDE DEF k
<1>4. g.chunk[k] = d /\ \A l \in Chunk : l # k => g.chunk[l] = h.chunk[l]
  BY <1>2, <1>3 DEF k
<1>5. h.arena[0].type = "CONTEXT" /\ 0 \in h.arena[0].chunks
  BY <1>1 DEF Arenas
<1>6. k # <<0, 0>>
  BY <1>3, <1>5 DEF k
<1>7. ~ There(h, k)
  BY <1>3 DEF There
<1>8. k \notin h.small /\ k \notin h.medium /\ h.chunk[k] = Blank
  BY <1>1, <1>3, <1>7 DEF Chunks
<1>9. g.arena[i].type # "LARGE"
  OBVIOUS
<1>10. Arenas(g)
  <2>1. g.arena[0].type = "CONTEXT" /\ 0 \in g.arena[0].chunks
    BY <1>5, Sizes
  <2>2. ASSUME NEW j \in Index, j # 0
        PROVE  \/ g.arena[j] = EMPTY
               \/ g.arena[j].type = "CHUNK" /\ g.arena[j].chunks # {}
               \/ g.arena[j].type = "LARGE" /\ g.arena[j].chunks = {} /\ g.arena[j].size \in 1 .. ArenaSpan
    <3>1. CASE i = j
      BY <2>2, <3>1
    <3>2. CASE i # j
      BY <1>1, <2>2, <3>2 DEF Arenas
    <3> QED BY <3>1, <3>2
  <2> QED BY <2>1, <2>2 DEF Arenas
<1>11. Chunks(g, {k})
  <2>1. SUFFICES ASSUME NEW l \in Chunk
                 PROVE  IF There(g, l)
                        THEN /\ \/ l \in g.small /\ l \notin g.medium /\ IsSmall(g.chunk[l])
                                \/ l \notin g.small /\ l \in g.medium /\ IsMedium(g.chunk[l])
                             /\ l \in {k} \/ Used(g.chunk[l])
                        ELSE l \notin g.small /\ l \notin g.medium /\ g.chunk[l] = Blank
    BY DEF Chunks
  <2>2. CASE l = k
    <3>1. There(g, k)
      BY <1>3, <1>6 DEF There
    <3>2. \/ k \in g.small /\ k \notin g.medium /\ IsSmall(g.chunk[k])
          \/ k \notin g.small /\ k \in g.medium /\ IsMedium(g.chunk[k])
      BY <1>4, <1>8 DEF k
    <3> QED BY <2>2, <3>1, <3>2
  <2>3. CASE l # k
    <3>1. l[1] \in Index /\ l = <<l[1], l[2]>>
      BY ChunkIs
    <3>2. There(g, l) <=> There(h, l)
      <4>1. CASE l[1] = i
        <5>1. l[2] # c
          BY <2>3, <3>1, <4>1 DEF k
        <5> QED BY <4>1, <5>1 DEF There
      <4>2. CASE l[1] # i
        BY <3>1, <4>2 DEF There
      <4> QED BY <4>1, <4>2
    <3>3. IF There(h, l)
          THEN /\ \/ l \in h.small /\ l \notin h.medium /\ IsSmall(h.chunk[l])
                  \/ l \notin h.small /\ l \in h.medium /\ IsMedium(h.chunk[l])
               /\ l \in {} \/ Used(h.chunk[l])
          ELSE l \notin h.small /\ l \notin h.medium /\ h.chunk[l] = Blank
      BY <1>1 DEF Chunks
    <3>4. g.chunk[l] = h.chunk[l] /\ (l \in g.small <=> l \in h.small) /\ (l \in g.medium <=> l \in h.medium)
      BY <1>4, <2>3 DEF k
    <3> QED BY <3>2, <3>3, <3>4
  <2> QED BY <2>2, <2>3
<1>12. Runs(g)
  <2>1. \A p \in Page : p \notin h.chunk[k].pages /\ p \notin g.chunk[k].pages
    BY <1>4, <1>8, BlankIs
  <2>2. ASSUME NEW l \in Chunk, NEW p \in Page
        PROVE  <<l, p>> \in g.runs <=> p \in g.chunk[l].pages /\ g.chunk[l].free[p] # {}
    <3>1. <<l, p>> \in h.runs <=> p \in h.chunk[l].pages /\ h.chunk[l].free[p] # {}
      BY <1>1 DEF Runs
    <3> QED BY <1>4, <2>1, <3>1
  <2>3. ASSUME NEW l \in Chunk, NEW m \in Chunk, NEW p \in Page, NEW q \in Page,
               p \in g.chunk[l].pages, q \in g.chunk[m].pages,
               g.chunk[l].free[p] = Cell, g.chunk[m].free[q] = Cell
        PROVE  l = m /\ p = q
    <3>1. l # k /\ m # k
      BY <2>1, <2>3
    <3>2. g.chunk[l] = h.chunk[l] /\ g.chunk[m] = h.chunk[m]
      BY <1>4, <3>1
    <3> QED BY <1>1, <2>3, <3>2 DEF Runs
  <2> QED BY <2>2, <2>3 DEF Runs
<1>13. (\A p, s : ChunkShare(d, p, s) = 0) /\ Taken(d) = {}
  BY NoShare
<1>14. (\A p, s : ChunkShare(Blank, p, s) = 0) /\ Taken(Blank) = {} /\ Blank.pages = {}
  BY NoShare, BlankIs
<1>15. ASSUME NEW x \in Memory PROVE g.held[x] = Share(g, x) /\ (Busy(g, x) <=> Busy(h, x))
  <2>1. h.held[x] = Share(h, x)
    BY <1>1 DEF Helds
  <2>2. ChunkOf(x)[1] = pos2index(x) /\ pos2index(x) \in Index
    BY PosOnto
  <2>3. CASE ChunkOf(x) = k
    <3>1. pos2index(x) = i
      BY <1>3, <2>2, <2>3
    <3>2. Share(h, x) = 0
      BY <1>8, <1>14, <2>3, <3>1 DEF Share
    <3>3. Share(g, x) = 0
      BY <1>4, <1>9, <1>13, <2>3, <3>1 DEF Share
    <3>4. ~ Busy(h, x)
      BY <1>8, <1>14, <2>3, <3>1 DEF Busy
    <3>5. ~ Busy(g, x)
      BY <1>4, <1>9, <1>13, <2>3, <3>1 DEF Busy
    <3> QED BY <2>1, <3>2, <3>3, <3>4, <3>5
  <2>4. CASE ChunkOf(x) # k
    <3>1. ChunkOf(x) \in Chunk => g.chunk[ChunkOf(x)] = h.chunk[ChunkOf(x)]
      BY <1>4, <2>4
    <3>2. CASE pos2index(x) = i
      BY <1>9, <2>1, <3>1, <3>2 DEF Share, Busy
    <3>3. CASE pos2index(x) # i
      BY <2>1, <2>2, <3>1, <3>3 DEF Share, Busy
    <3> QED BY <3>2, <3>3
  <2> QED BY <2>3, <2>4
<1> QED BY <1>10, <1>11, <1>12, <1>15 DEF Good, Helds, k

\* From h to g, the entry of arena i, which has no chunk, changes to e, for a large
\* block or for none.
LargeChange(h, g, i, e) ==
    /\ i \in Index /\ i # 0 /\ e \in Entry /\ e.chunks = {} /\ h.arena[i].chunks = {}
    /\ \/ h.arena[i].type # "LARGE" /\ e.type = "LARGE" /\ e.size \in 1 .. ArenaSpan
       \/ h.arena[i].type = "LARGE" /\ e = EMPTY
    /\ g \in Heap /\ g.arena = [h.arena EXCEPT ![i] = e] /\ g.chunk = h.chunk
    /\ g.small = h.small /\ g.medium = h.medium /\ g.runs = h.runs
    /\ g.held = [h.held EXCEPT ![Pos(<<i, 0>>, 0, 0)] = IF e = EMPTY THEN 0 ELSE e.size]

\* Such a change keeps the heap good.
LEMMA LargeStep ==
    ASSUME NEW h, Good(h, {}), NEW g, NEW i, NEW e, LargeChange(h, g, i, e)
    PROVE  Good(g, {})
<1> USE DEF LargeChange
<1>1. h \in Heap /\ Arenas(h) /\ Chunks(h, {}) /\ Helds(h) /\ Runs(h)
  BY DEF Good
<1>2. h.arena \in [Index -> Entry] /\ h.held \in [Memory -> Nat]
  BY <1>1, HeapIs
<1>3. g.arena[i] = e /\ \A j \in Index : j # i => g.arena[j] = h.arena[j]
  BY <1>2
<1>4. Arenas(g)
  <2>1. g.arena[0].type = "CONTEXT" /\ 0 \in g.arena[0].chunks
    BY <1>1, <1>3, Sizes DEF Arenas
  <2>2. ASSUME NEW j \in Index, j # 0
        PROVE  \/ g.arena[j] = EMPTY
               \/ g.arena[j].type = "CHUNK" /\ g.arena[j].chunks # {}
               \/ g.arena[j].type = "LARGE" /\ g.arena[j].chunks = {} /\ g.arena[j].size \in 1 .. ArenaSpan
    <3>1. CASE i = j
      BY <1>3, <3>1
    <3>2. CASE i # j
      BY <1>1, <1>3, <2>2, <3>2 DEF Arenas
    <3> QED BY <3>1, <3>2
  <2> QED BY <2>1, <2>2 DEF Arenas
<1>5. \A l \in Chunk : There(g, l) <=> There(h, l)
  BY <1>3, ChunkIs DEF There
<1>6. Chunks(g, {})
  <2>1. SUFFICES ASSUME NEW l \in Chunk
                 PROVE  IF There(g, l)
                        THEN /\ \/ l \in g.small /\ l \notin g.medium /\ IsSmall(g.chunk[l])
                                \/ l \notin g.small /\ l \in g.medium /\ IsMedium(g.chunk[l])
                             /\ l \in {} \/ Used(g.chunk[l])
                        ELSE l \notin g.small /\ l \notin g.medium /\ g.chunk[l] = Blank
    BY DEF Chunks
  <2> QED BY <1>1, <1>5 DEF Chunks
<1>7. Runs(g)
  BY <1>1 DEF Runs
<1>8. ASSUME NEW x \in Memory PROVE g.held[x] = Share(g, x)
  <2>1. h.held[x] = Share(h, x)
    BY <1>1 DEF Helds
  <2>2. ChunkOf(x)[1] = pos2index(x) /\ pos2index(x) \in Index
    BY PosOnto
  <2>3. <<i, 0>> \in Chunk /\ <<i, 0>>[1] = i /\ 0 \in 0 .. (Units - 1)
    BY ChunkIs, Sizes
  <2>4. Pos(<<i, 0>>, 0, 0) \in Memory /\ pos2index(Pos(<<i, 0>>, 0, 0)) = i
    BY <2>3, PosIs, Sizes
  <2>5. CASE pos2index(x) = i
    <3>1. ChunkOf(x) \in Chunk => ChunkShare(h.chunk[ChunkOf(x)], PageOf(x), CellOf(x)) = 0
      <4>1. SUFFICES ASSUME ChunkOf(x) \in Chunk
                     PROVE  ChunkShare(h.chunk[ChunkOf(x)], PageOf(x), CellOf(x)) = 0
        OBVIOUS
      <4>2. ~ There(h, ChunkOf(x))
        BY <2>2, <2>5 DEF There
      <4>3. h.chunk[ChunkOf(x)] = Blank
        BY <1>1, <4>1, <4>2 DEF Chunks
      <4> QED BY <4>3, BlankIs
    <3>2. CASE e.type = "LARGE" /\ h.arena[i].type # "LARGE"
      <4>1. h.held[x] = 0
        BY <2>1, <2>5, <3>1, <3>2 DEF Share
      <4>2. e # EMPTY
        BY <3>2, BlankIs
      <4>3. Share(g, x) = IF x = Pos(<<i, 0>>, 0, 0) THEN e.size ELSE 0
        BY <1>3, <2>5, <3>2 DEF Share
      <4> QED BY <1>2, <2>4, <4>1, <4>2, <4>3
    <3>3. CASE e = EMPTY /\ h.arena[i].type = "LARGE"
      <4>1. h.held[x] = IF x = Pos(<<i, 0>>, 0, 0) THEN h.arena[i].size ELSE 0
        BY <2>1, <2>5, <3>3 DEF Share
      <4>2. Share(g, x) = 0
        BY <1>3, <2>5, <3>1, <3>3, BlankIs DEF Share
      <4> QED BY <1>2, <2>4, <3>3, <4>1, <4>2
    <3> QED BY <3>2, <3>3
  <2>6. CASE pos2index(x) # i
    <3>1. g.held[x] = h.held[x]
      BY <1>2, <2>4, <2>6
    <3>2. Share(g, x) = Share(h, x)
      BY <1>3, <2>2, <2>6 DEF Share
    <3> QED BY <2>1, <3>1, <3>2
  <2> QED BY <2>5, <2>6
<1> QED BY <1>4, <1>6, <1>7, <1>8 DEF Good, Helds

\* Every position of a block is busy, and a large block has its arena for itself.
LEMMA Covers ==
    ASSUME NEW h, NEW E, Good(h, E), NEW x \in Memory, h.held[x] # 0, NEW y \in Extent(x, h.held[x])
    PROVE  y \in Memory /\ Busy(h, y)
<1> DEFINE i == pos2index(x)
           k == ChunkOf(x)
           p == PageOf(x)
           s == CellOf(x)
           c == h.chunk[k]
<1>1. h \in Heap /\ Arenas(h) /\ Chunks(h, E) /\ Helds(h)
  BY DEF Good
<1>2. h.held[x] = Share(h, x)
  BY <1>1 DEF Helds
<1>3. /\ i \in Index /\ k[1] = i /\ p \in 0 .. (Units - 1) /\ s \in Cell /\ x = Pos(k, p, s)
  BY PosOnto
<1>4. x \in Nat
  BY DEF Memory
<1>5. CASE h.arena[i].type = "LARGE"
  <2>1. x = Pos(<<i, 0>>, 0, 0) /\ h.held[x] = h.arena[i].size
    BY <1>2, <1>5 DEF Share
  <2>2. h.arena[i].size \in 0 .. ArenaSpan
    <3>1. i # 0 /\ h.arena[i] # EMPTY
      BY <1>1, <1>5, BlankIs DEF Arenas
    <3>2. h.arena[i].size \in 1 .. ArenaSpan
      BY <1>1, <1>3, <1>5, <3>1 DEF Arenas
    <3> QED BY <3>2, Sizes
  <2>3. y \in Memory /\ pos2index(y) = i
    BY <1>3, <2>1, <2>2, LargeWalk
  <2> QED BY <1>5, <2>3 DEF Busy
<1>6. CASE h.arena[i].type # "LARGE"
  <2>1. k \in Chunk /\ h.held[x] = ChunkShare(c, p, s)
    BY <1>2, <1>6 DEF Share
  <2>2. c \in Header
    BY <1>1, <2>1, HeapIs
  <2>3. CASE p \in c.pages
    <3>1. s \notin c.free[p] /\ h.held[x] = 1
      BY <2>1, <2>3 DEF ChunkShare
    <3>2. y = x
      BY <1>4, <3>1 DEF Extent
    <3> QED BY <2>1, <2>3, <3>1, <3>2 DEF Busy
  <2>4. CASE p \notin c.pages
    <3>1. p \in Page /\ s = 0 /\ h.held[x] = c.unit[p] * PageSlots
      BY <2>1, <2>4 DEF ChunkShare
    <3>2. c.unit[p] \in Nat
      BY <2>2, <3>1, HeaderIs, Sizes
    <3>3. c.unit[p] # 0
      <4>1. 0 * PageSlots = 0
        BY Sizes
      <4> QED BY <3>1, <4>1
    <3>4. Apart(c)
      <4>1. IsSmall(c) \/ IsMedium(c) \/ c = Blank
        BY <1>1, <2>1 DEF Chunks
      <4> QED BY <3>1, <3>3, <4>1, BlankIs DEF IsSmall, IsMedium
    <3>5. p + c.unit[p] <= Units
      BY <3>1, <3>4 DEF Apart
    <3>6. y \in Extent(Pos(k, p, 0), c.unit[p] * PageSlots)
      BY <1>3, <3>1
    <3>7. y \in Memory /\ ChunkOf(y) = k /\ PageOf(y) \in p .. (p + c.unit[p] - 1)
      BY <1>3, <2>1, <3>2, <3>5, <3>6, PosWalk
    <3>8. PageOf(y) \in Page /\ p <= PageOf(y) /\ PageOf(y) < p + c.unit[p]
      BY <3>1, <3>2, <3>5, <3>7, Sizes DEF Page
    <3>9. PageOf(y) \in Taken(c)
      BY <2>2, <3>1, <3>4, <3>8, TakenIs
    <3> QED BY <2>1, <3>7, <3>9 DEF Busy
  <2> QED BY <2>3, <2>4
<1> QED BY <1>5, <1>6

-----------------------------------------------------------------------------
(* Allocation *)

\* Nothing that callers see differs between h and g.
Same(h, g) ==
    /\ g.held = h.held
    /\ \A y \in Memory : (Busy(g, y) <=> Busy(h, y)) /\ (Busy(h, y) => g.mem[y] = h.mem[y])

\* From h to g, the caller is given len free positions from x on, and what is busy
\* keeps its contents.
Handed(h, g, x, len) ==
    /\ Good(g, {}) /\ x \in Memory /\ g.held = [h.held EXCEPT ![x] = len]
    /\ len \in Nat \ {0} /\ \A y \in Extent(x, len) : y \in Memory /\ ~ Busy(h, y)
    /\ \A y \in Memory : Busy(h, y) => g.mem[y] = h.mem[y]

\* What is handed out after a step that callers do not see is handed out.
LEMMA SameHanded ==
    ASSUME NEW h, NEW m, NEW g, NEW x, NEW len, Same(h, m), Handed(m, g, x, len)
    PROVE  Handed(h, g, x, len)
BY DEF Same, Handed

\* Wiping memory changes no more than contents.
LEMMA WipedIs ==
    ASSUME NEW h \in Heap, NEW W
    PROVE  LET g == Wiped(h, W)
           IN  /\ g \in Heap /\ g.arena = h.arena /\ g.chunk = h.chunk /\ g.small = h.small
               /\ g.medium = h.medium /\ g.runs = h.runs /\ g.held = h.held /\ g.failed = h.failed
               /\ \A x \in Memory : x \notin W => g.mem[x] = h.mem[x]
<1> DEFINE m == [x \in Memory |-> IF x \in W THEN Other ELSE h.mem[x]]
<1>1. m \in [Memory -> {Other, Tag}]
  BY HeapIs
<1>2. Wiped(h, W) = [h EXCEPT !.mem = m]
  BY DEF Wiped
<1> HIDE DEF m
<1> QED BY <1>1, <1>2 DEF Heap, m

\* A chunk with a run is a small one, and there.
LEMMA RunIs ==
    ASSUME NEW h, NEW E, Good(h, E), NEW k \in Chunk, h.chunk[k].pages # {} \/ k \in h.small
    PROVE  There(h, k) /\ k \in h.small /\ IsSmall(h.chunk[k])
<1>1. Chunks(h, E)
  BY DEF Good
<1> QED BY <1>1, BlankIs DEF Chunks, IsMedium

\* malloc_chunk_run gives out a slot of a run in the pool; it does not fail.
LEMMA RunGiven ==
    ASSUME NEW h, Good(h, {}), NEW r \in h.runs, NEW o \in malloc_chunk_run(h, r)
    PROVE  o.pos # SHM_NULL /\ Handed(h, o.heap, o.pos, 1)
<1> DEFINE k == r[1]
           p == r[2]
           c == h.chunk[k]
           F == c.free[p]
<1>1. h \in Heap /\ Runs(h) /\ Chunks(h, {})
  BY DEF Good
<1>2. k \in Chunk /\ p \in Page /\ r = <<k, p>>
  BY <1>1, HeapIs
<1>3. p \in c.pages /\ F # {}
  BY <1>1, <1>2 DEF Runs
<1>4. There(h, k) /\ IsSmall(c)
  BY <1>2, <1>3, RunIs
<1>5. /\ h.chunk \in [Chunk -> Header] /\ h.runs \in SUBSET (Chunk \X Page) /\ h.held \in [Memory -> Nat]
  BY <1>1, HeapIs
<1>6. c \in Header /\ c.free \in [Page -> SUBSET Cell] /\ F \in SUBSET Cell
  BY <1>2, <1>5, HeaderIs
<1> DEFINE R(s) == IF F = {s} THEN h.runs \ {r} ELSE h.runs
           L(s) == IF F = {s} /\ h.runs # {r} THEN h.linked \cup {r} ELSE h.linked
           G(s) == [h EXCEPT !.chunk[k].free[p] = @ \ {s}, !.runs = IF F = {s} THEN @ \ {r} ELSE @,
                             !.linked = IF F = {s} /\ h.runs # {r} THEN @ \cup {r} ELSE @]
<1>7. PICK s \in F : o = Give(G(s), Pos(k, p, s), 1)
  <2>1. malloc_chunk_run(h, r) = {Give(G(s), Pos(k, p, s), 1) : s \in F}
    BY <1>3 DEF malloc_chunk_run
  <2> QED BY <2>1
<1> DEFINE f == [c.free EXCEPT ![p] = F \ {s}]
           d == [c EXCEPT !.free = f]
           a == [h.chunk EXCEPT ![k] = d]
           R1 == R(s)
           L1 == L(s)
           x == Pos(k, p, s)
           b == [h.held EXCEPT ![x] = 1]
           g == [h EXCEPT !.chunk = a, !.runs = R1, !.linked = L1, !.held = b]
<1>8. o.heap = g /\ o.pos = x
  BY <1>7 DEF Give
<1> HIDE DEF k, p, c, F
<1>9. f \in [Page -> SUBSET Cell]
  BY <1>2, <1>6
<1>10. f[p] = F \ {s} /\ \A q \in Page : q # p => f[q] = c.free[q]
  BY <1>2, <1>6
<1> HIDE DEF f
<1>11. /\ d \in Header /\ d.free = f /\ d.type = c.type /\ d.max = c.max /\ d.pages = c.pages /\ d.unit = c.unit
  BY <1>6, <1>9 DEF Header
<1> HIDE DEF d
<1>12. s \in Cell /\ p \in 0 .. (Units - 1) /\ p \in Nat
  BY <1>2, <1>6, Sizes DEF Page
<1>13. /\ x \in Memory /\ ChunkOf(x) = k /\ PageOf(x) = p /\ CellOf(x) = s /\ pos2index(x) = k[1]
  BY <1>2, <1>12, PosIs
<1> HIDE DEF x
<1>14. /\ a \in [Chunk -> Header] /\ R1 \in SUBSET (Chunk \X Page) /\ b \in [Memory -> Nat]
       /\ L1 \in SUBSET (Chunk \X Page)
  <2>1. h.linked \in SUBSET (Chunk \X Page)
    BY <1>1, HeapIs
  <2> QED BY <1>5, <1>11, <2>1
<1>15. a[k] = d /\ \A l \in Chunk : l # k => a[l] = h.chunk[l]
  BY <1>2, <1>5
<1> HIDE DEF a, b, R1, L1
<1>16. /\ g \in Heap /\ g.arena = h.arena /\ g.chunk = a /\ g.small = h.small
       /\ g.medium = h.medium /\ g.runs = R1 /\ g.held = b /\ g.mem = h.mem
  BY <1>1, <1>14 DEF Heap
<1> HIDE DEF g
<1>17. IsSmall(d) /\ Used(d)
  <2>1. Used(d)
    BY <1>3, <1>11 DEF Used
  <2>2. \A q \in Page : q \notin c.pages => f[q] = {}
    BY <1>3, <1>4, <1>10 DEF IsSmall
  <2> QED BY <1>4, <1>11, <2>1, <2>2 DEF IsSmall
<1>18. Runs(g)
  <2>1. ASSUME NEW l \in Chunk, NEW q \in Page
        PROVE  <<l, q>> \in g.runs <=> q \in g.chunk[l].pages /\ g.chunk[l].free[q] # {}
    <3>1. <<l, q>> \in h.runs <=> q \in h.chunk[l].pages /\ h.chunk[l].free[q] # {}
      BY <1>1 DEF Runs
    <3>2. CASE l = k /\ q = p
      <4>1. <<l, q>> \in R1 <=> F # {s}
        BY <1>2, <3>2 DEF R1
      <4>2. F \ {s} # {} <=> F # {s}
        BY <1>7
      <4> QED BY <1>3, <1>10, <1>11, <1>15, <1>16, <3>2, <4>1, <4>2
    <3>3. CASE ~ (l = k /\ q = p)
      <4>1. <<l, q>> \in R1 <=> <<l, q>> \in h.runs
        BY <1>2, <3>3 DEF R1
      <4>2. g.chunk[l].pages = h.chunk[l].pages /\ g.chunk[l].free[q] = h.chunk[l].free[q]
        BY <1>10, <1>11, <1>15, <1>16, <3>3 DEF c
      <4> QED BY <1>16, <3>1, <4>1, <4>2
    <3> QED BY <3>2, <3>3
  <2>2. ASSUME NEW l \in Chunk, NEW q \in Page, q \in g.chunk[l].pages, g.chunk[l].free[q] = Cell
        PROVE  q \in h.chunk[l].pages /\ h.chunk[l].free[q] = Cell
    <3>1. ~ (l = k /\ q = p)
      BY <1>10, <1>11, <1>12, <1>15, <1>16, <2>2
    <3> QED BY <1>10, <1>11, <1>15, <1>16, <2>2, <3>1 DEF c
  <2>3. ASSUME NEW l \in Chunk, NEW m \in Chunk, NEW q \in Page, NEW t \in Page,
               q \in g.chunk[l].pages, t \in g.chunk[m].pages,
               g.chunk[l].free[q] = Cell, g.chunk[m].free[t] = Cell
        PROVE  l = m /\ q = t
    BY <1>1, <2>2, <2>3 DEF Runs
  <2> QED BY <2>1, <2>3 DEF Runs
<1>19. ChunkShare(d, p, s) = 1
  BY <1>3, <1>10, <1>11 DEF ChunkShare
<1>20. ASSUME NEW q \in 0 .. (Units - 1), NEW t \in Cell, q # p \/ t # s
       PROVE  ChunkShare(d, q, t) = ChunkShare(c, q, t)
  <2>1. CASE q = p
    BY <1>3, <1>10, <1>11, <1>20, <2>1 DEF ChunkShare, F
  <2>2. CASE q # p
    BY <1>6, <1>10, <1>11, <2>2, HeaderIs DEF ChunkShare
  <2> QED BY <2>1, <2>2
<1>21. Good(g, {})
  <2>1. g.chunk = [h.chunk EXCEPT ![k] = d] /\ g.held = [h.held EXCEPT ![Pos(k, p, s)] = ChunkShare(d, p, s)]
    BY <1>16, <1>19 DEF a, b, x
  <2>2. (IsSmall(h.chunk[k]) /\ IsSmall(d)) \/ (IsMedium(h.chunk[k]) /\ IsMedium(d))
    BY <1>4, <1>17 DEF c
  <2>3. \A q \in 0 .. (Units - 1), t \in Cell :
          q # p \/ t # s => ChunkShare(d, q, t) = ChunkShare(h.chunk[k], q, t)
    BY <1>20 DEF c
  <2>4. /\ k \in Chunk /\ There(h, k) /\ d \in Header /\ Used(d) /\ p \in 0 .. (Units - 1) /\ s \in Cell
        /\ g \in Heap /\ g.arena = h.arena /\ g.small = h.small /\ g.medium = h.medium
    BY <1>2, <1>4, <1>11, <1>12, <1>16, <1>17
  <2>5. ChunkChange(h, g, k, d, p, s)
    BY <1>18, <2>1, <2>2, <2>3, <2>4 DEF ChunkChange
  <2>6. {} \ {k} = {}
    OBVIOUS
  <2>7. Good(g, {} \ {k})
    BY <2>5, ChunkStep
  <2> QED BY <2>6, <2>7
<1>22. ~ Busy(h, x)
  <2>1. h.arena[k[1]].type # "LARGE"
    BY <1>2, <1>4, NotLarge
  <2>2. Taken(c) = {}
    BY <1>4, <1>6, FreshUnits DEF IsSmall
  <2> QED BY <1>7, <1>13, <2>1, <2>2 DEF Busy, c, F
<1>23. \A y \in Extent(x, 1) : y = x
  BY <1>13 DEF Extent, Memory
<1>24. x # SHM_NULL
  BY <1>13 DEF Memory, SHM_NULL
<1> QED BY <1>8, <1>13, <1>16, <1>21, <1>22, <1>23, <1>24 DEF Handed, b

\* new_chunk_run makes a run of a page and gives out a slot of it; callers see no more
\* of the run than the slot.
LEMMA NewRunGiven ==
    ASSUME NEW h, NEW k, Good(h, {k}), k \in h.small, h.chunk[k].pages # Page, h.runs = {},
           NEW o \in new_chunk_run(h, k)
    PROVE  o.pos # SHM_NULL /\ Handed(h, o.heap, o.pos, 1)
<1> DEFINE c == h.chunk[k]
           P == c.pages
           p == Min(Page \ P)
<1>1. h \in Heap /\ Runs(h) /\ Helds(h)
  BY DEF Good
<1>2. k \in Chunk
  BY <1>1, HeapIs
<1>3. /\ h.chunk \in [Chunk -> Header] /\ h.held \in [Memory -> Nat] /\ h.arena \in [Index -> Entry]
  BY <1>1, HeapIs
<1>4. /\ c \in Header /\ c.free \in [Page -> SUBSET Cell] /\ P \in SUBSET Page
      /\ c.unit \in [Page -> 0 .. (Units - 1)]
  BY <1>2, <1>3, HeaderIs
<1>5. p \in Page /\ p \notin P
  <2>1. Page \ P \in SUBSET Nat
    BY DEF Page
  <2>2. Page \ P # {}
    BY <1>4
  <2> QED BY <2>1, <2>2, MinIs
<1>6. There(h, k) /\ IsSmall(c)
  BY <1>2, RunIs
<1> DEFINE W == Extent(Pos(k, p, 0), PageSlots)
           w == Wiped(h, W)
           made == [w EXCEPT !.chunk[k] = [@ EXCEPT !.pages = P \cup {p}, !.free[p] = Cell,
                                                    !.max = IF P \cup {p} = Page THEN 0 ELSE c.max],
                             !.runs = @ \cup {<<k, p>>}]
<1>7. new_chunk_run(h, k) = malloc_chunk_run(made, <<k, p>>)
  <2>1. ~ (Page \subseteq P)
    BY <1>4
  <2> QED BY <2>1 DEF new_chunk_run
<1>8. /\ w \in Heap /\ w.arena = h.arena /\ w.chunk = h.chunk /\ w.small = h.small
      /\ w.medium = h.medium /\ w.runs = h.runs /\ w.held = h.held
      /\ \A x \in Memory : x \notin W => w.mem[x] = h.mem[x]
  BY <1>1, WipedIs
<1> HIDE DEF w, p
<1> DEFINE f == [c.free EXCEPT ![p] = Cell]
           Q == P \cup {p}
           m == IF Q = Page THEN 0 ELSE c.max
           d == [c EXCEPT !.pages = Q, !.free = f, !.max = m]
           a == [h.chunk EXCEPT ![k] = d]
           R == {<<k, p>>}
           g == [w EXCEPT !.chunk = a, !.runs = R]
<1>9. made = g
  <2>1. w.runs \cup {<<k, p>>} = R
    BY <1>8
  <2>2. w.chunk[k] = c
    BY <1>8
  <2> DEFINE D(e) == [e EXCEPT !.pages = P \cup {p}, !.free[p] = Cell,
                               !.max = IF P \cup {p} = Page THEN 0 ELSE c.max]
  <2>3. D(c) = d
    OBVIOUS
  <2>4. made = [w EXCEPT !.chunk = [w.chunk EXCEPT ![k] = D(w.chunk[k])], !.runs = w.runs \cup {<<k, p>>}]
    OBVIOUS
  <2> HIDE DEF D, d, made
  <2> QED BY <1>8, <2>1, <2>2, <2>3, <2>4
<1> HIDE DEF c, P, made
<1>10. f \in [Page -> SUBSET Cell] /\ f[p] = Cell /\ \A q \in Page : q # p => f[q] = c.free[q]
  BY <1>4, <1>5
<1>11. Q \in SUBSET Page /\ m \in 0 .. (Units - 1)
  <2>1. 0 \in 0 .. (Units - 1)
    BY Sizes
  <2> QED BY <1>4, <1>5, <2>1, HeaderIs
<1>12. m = IF Q = Page THEN 0 ELSE 1
  BY <1>6 DEF IsSmall, c, P
<1> HIDE DEF f, m, Q
<1>13. d \in Header /\ d.type = c.type /\ d.max = m /\ d.pages = Q /\ d.free = f /\ d.unit = c.unit
  BY <1>4, <1>10, <1>11 DEF Header
<1> HIDE DEF d
<1>14. a \in [Chunk -> Header] /\ a[k] = d /\ \A l \in Chunk : l # k => a[l] = h.chunk[l]
  BY <1>2, <1>3, <1>13
<1>15. R \in SUBSET (Chunk \X Page)
  BY <1>2, <1>5
<1> HIDE DEF a, R
<1>16. /\ g \in Heap /\ g.arena = w.arena /\ g.chunk = a /\ g.small = w.small
       /\ g.medium = w.medium /\ g.runs = R /\ g.held = w.held /\ g.mem = w.mem
  BY <1>8, <1>14, <1>15 DEF Heap
<1> HIDE DEF g
<1>17. p \in 0 .. (Units - 1) /\ p \in Nat /\ 0 \in Cell /\ Cell # {}
  BY <1>5, Sizes DEF Page
<1>18. IsSmall(d) /\ Used(d)
  <2>1. p \in d.pages
    BY <1>13 DEF Q
  <2>2. ASSUME NEW q \in Page PROVE d.unit[q] = 0 /\ (q \notin d.pages => d.free[q] = {})
    BY <1>6, <1>10, <1>13 DEF IsSmall, Q, P
  <2> QED BY <1>6, <1>12, <1>13, <2>1, <2>2 DEF IsSmall, Used
<1>19. Runs(g)
  <2>1. ASSUME NEW l \in Chunk, NEW q \in Page
        PROVE  q \in g.chunk[l].pages /\ g.chunk[l].free[q] # {} <=> l = k /\ q = p
    <3>1. ~ (q \in h.chunk[l].pages /\ h.chunk[l].free[q] # {})
      BY <1>1 DEF Runs
    <3>2. CASE l = k /\ q = p
      BY <1>10, <1>13, <1>14, <1>16, <1>17, <3>2 DEF Q
    <3>3. CASE l = k /\ q # p
      BY <1>10, <1>13, <1>14, <1>16, <3>1, <3>3 DEF Q, c, P
    <3>4. CASE l # k
      BY <1>14, <1>16, <3>1, <3>4
    <3> QED BY <3>2, <3>3, <3>4
  <2>2. \A l \in Chunk, q \in Page : <<l, q>> \in g.runs <=> l = k /\ q = p
    BY <1>16 DEF R
  <2>3. ASSUME NEW l \in Chunk, NEW n \in Chunk, NEW q \in Page, NEW t \in Page,
               q \in g.chunk[l].pages, t \in g.chunk[n].pages,
               g.chunk[l].free[q] = Cell, g.chunk[n].free[t] = Cell
        PROVE  l = n /\ q = t
    BY <1>17, <2>1, <2>3
  <2> QED BY <2>1, <2>2, <2>3 DEF Runs
<1>20. 0 * PageSlots = 0
  BY Sizes
<1>21. ASSUME NEW t \in Cell PROVE ChunkShare(d, p, t) = 0 /\ ChunkShare(c, p, t) = 0
  <2>1. p \in d.pages /\ t \in d.free[p]
    BY <1>10, <1>13 DEF Q
  <2>2. p \notin c.pages /\ c.unit[p] = 0
    BY <1>5, <1>6 DEF IsSmall, P
  <2> QED BY <1>20, <2>1, <2>2 DEF ChunkShare
<1>22. ASSUME NEW q \in 0 .. (Units - 1), NEW t \in Cell
       PROVE  ChunkShare(d, q, t) = ChunkShare(c, q, t)
  <2>1. CASE q = p
    BY <1>21, <2>1
  <2>2. CASE q # p
    <3>1. (q \in d.pages <=> q \in c.pages) /\ (q \in Page => d.free[q] = c.free[q])
      BY <1>10, <1>13, <2>2 DEF Q, P
    <3>2. c.pages \in SUBSET Page
      BY <1>4 DEF P
    <3> QED BY <1>13, <3>1, <3>2 DEF ChunkShare
  <2> QED BY <2>1, <2>2
<1> DEFINE x == Pos(k, p, 0)
<1>23. /\ x \in Memory /\ ChunkOf(x) = k /\ PageOf(x) = p /\ CellOf(x) = 0 /\ pos2index(x) = k[1]
  BY <1>2, <1>17, PosIs
<1>24. h.arena[k[1]].type # "LARGE"
  BY <1>2, <1>6, NotLarge
<1>25. h.held[x] = 0
  <2>1. Share(h, x) = ChunkShare(c, p, 0)
    BY <1>2, <1>23, <1>24 DEF Share, c
  <2> QED BY <1>1, <1>17, <1>21, <1>23, <2>1 DEF Helds
<1>26. g.held = [h.held EXCEPT ![x] = ChunkShare(d, p, 0)]
  <2>1. ChunkShare(d, p, 0) = h.held[x]
    BY <1>17, <1>21, <1>25
  <2> QED BY <1>3, <1>8, <1>16, <1>23, <2>1
<1>27. Good(g, {})
  <2>1. \A q \in 0 .. (Units - 1), t \in Cell :
          q # p \/ t # 0 => ChunkShare(d, q, t) = ChunkShare(h.chunk[k], q, t)
    BY <1>22 DEF c
  <2>2. (IsSmall(h.chunk[k]) /\ IsSmall(d)) \/ (IsMedium(h.chunk[k]) /\ IsMedium(d))
    BY <1>6, <1>18 DEF c
  <2>3. g.chunk = [h.chunk EXCEPT ![k] = d]
    BY <1>16 DEF a
  <2>4. ChunkChange(h, g, k, d, p, 0)
    BY <1>2, <1>6, <1>8, <1>13, <1>16, <1>17, <1>18, <1>19, <1>26, <2>1, <2>2, <2>3 DEF ChunkChange
  <2>5. Good(g, {k} \ {k})
    BY <2>4, ChunkStep
  <2>6. {k} \ {k} = {}
    OBVIOUS
  <2> QED BY <2>5, <2>6
<1>28. Taken(c) = {} /\ Taken(d) = {}
  BY <1>4, <1>6, <1>13, <1>18, FreshUnits DEF IsSmall
<1>29. Same(h, g)
  <2>1. ASSUME NEW y \in Memory PROVE Busy(g, y) <=> Busy(h, y)
    <3>1. ChunkOf(y)[1] = pos2index(y) /\ CellOf(y) \in Cell
      BY PosOnto
    <3>2. CASE ChunkOf(y) # k
      BY <1>8, <1>14, <1>16, <3>2 DEF Busy
    <3>3. CASE ChunkOf(y) = k /\ PageOf(y) = p
      <4>1. ~ Busy(h, y)
        BY <1>5, <1>24, <1>28, <3>1, <3>3 DEF Busy, c, P
      <4>2. ~ Busy(g, y)
        BY <1>8, <1>10, <1>13, <1>14, <1>16, <1>24, <1>28, <3>1, <3>3 DEF Busy
      <4> QED BY <4>1, <4>2
    <3>4. CASE ChunkOf(y) = k /\ PageOf(y) # p
      <4>1. PageOf(y) \in d.pages <=> PageOf(y) \in c.pages
        BY <1>13, <3>4 DEF Q, P
      <4>2. PageOf(y) \in c.pages => d.free[PageOf(y)] = c.free[PageOf(y)]
        BY <1>4, <1>10, <1>13, <3>4 DEF P
      <4>3. g.chunk[k] = d /\ h.chunk[k] = c /\ g.arena = h.arena
        BY <1>8, <1>14, <1>16 DEF c
      <4> QED BY <1>28, <3>4, <4>1, <4>2, <4>3 DEF Busy
    <3> QED BY <3>2, <3>3, <3>4
  <2>2. ASSUME NEW y \in Memory, Busy(h, y) PROVE g.mem[y] = h.mem[y]
    <3>1. y \notin W
      <4>1. SUFFICES ASSUME y \in W PROVE FALSE
        OBVIOUS
      <4>2. 1 * PageSlots = PageSlots /\ 1 \in Nat /\ p + 1 <= Units
        BY <1>17, Sizes
      <4>3. y \in Extent(Pos(k, p, 0), 1 * PageSlots)
        BY <4>1, <4>2
      <4>4. ChunkOf(y) = k /\ PageOf(y) \in p .. (p + 1 - 1) /\ pos2index(y) = k[1]
        BY <1>2, <1>17, <4>2, <4>3, PosWalk
      <4>5. PageOf(y) = p
        BY <1>17, <4>4
      <4> QED BY <1>5, <1>24, <1>28, <2>2, <4>4, <4>5 DEF Busy, c, P
    <3> QED BY <1>8, <1>16, <3>1
  <2> QED BY <1>8, <1>16, <2>1, <2>2 DEF Same
<1>30. <<k, p>> \in g.runs
  BY <1>16 DEF R
<1>31. o \in malloc_chunk_run(g, <<k, p>>)
  BY <1>7, <1>9
<1>32. o.pos # SHM_NULL /\ Handed(g, o.heap, o.pos, 1)
  BY <1>27, <1>30, <1>31, RunGiven
<1> QED BY <1>29, <1>32, SameHanded

\* align_size returns a multiple of the alignment that is long enough, and no longer
\* than it has to be.
LEMMA AlignIs ==
    ASSUME NEW n \in Nat \ {0}, NEW a \in Nat \ {0}
    PROVE  LET q == align_size(n, a) \div a
           IN  /\ q \in Nat \ {0} /\ align_size(n, a) = q * a /\ q * a \in Nat /\ n <= q * a
               /\ \A u \in Nat : n <= u * a => q <= u
<1> DEFINE m == n + a - 1
           q == m \div a
           r == m % a
<1>1. m \in Nat /\ m - n = a - 1
  OBVIOUS
<1>2. align_size(n, a) = a * q
  BY DEF align_size
<1> HIDE DEF m
<1>3. q \in Nat /\ r \in 0 .. (a - 1) /\ m = q * a + r
  BY <1>1, DivModSum
<1> HIDE DEF q, r
<1>4. a * q = q * a + 0 /\ a * q = q * a /\ q * a \in Nat /\ 0 \in 0 .. (a - 1)
  BY <1>3
<1>5. (q * a + 0) \div a = q
  <2>1. q \in Int /\ 0 \in 0 .. (a - 1)
    BY <1>3
  <2> QED BY <2>1, DivModIs
<1>6. align_size(n, a) \div a = q
  BY <1>2, <1>4, <1>5
<1>7. n <= q * a
  BY <1>1, <1>3, <1>4
<1>8. q # 0
  <2>1. 0 * a = 0
    OBVIOUS
  <2> QED BY <1>7, <2>1
<1>9. ASSUME NEW u \in Nat, n <= u * a PROVE q <= u
  <2>1. SUFFICES ASSUME u < q PROVE FALSE
    BY <1>3
  <2>2. u * a + a <= q * a
    BY <1>3, <2>1, Multiples
  <2>3. u * a \in Nat
    OBVIOUS
  <2> QED BY <1>1, <1>3, <1>4, <1>9, <2>2, <2>3
<1> QED BY <1>2, <1>3, <1>4, <1>6, <1>7, <1>8, <1>9

\* A chunk of the pool of medium ones is there, and medium.
LEMMA UnitsAre ==
    ASSUME NEW h, NEW E, Good(h, E), NEW k \in h.medium
    PROVE  k \in Chunk /\ There(h, k) /\ IsMedium(h.chunk[k]) /\ h.chunk[k] \in Header
           /\ k \notin h.small
<1>1. h \in Heap /\ Chunks(h, E)
  BY DEF Good
<1>2. k \in Chunk
  BY <1>1, HeapIs
<1>3. h.chunk[k] \in Header
  BY <1>1, <1>2, HeapIs
<1> QED BY <1>1, <1>2, <1>3 DEF Chunks

\* malloc_chunk_medium gives out pages that were free, or an assertion fails, when the
\* free unit the search found is too small or there is none.
LEMMA UnitGiven ==
    ASSUME NEW h, NEW k, Good(h, {k}), k \in h.medium, NEW len \in Nat \ {0}, len <= MediumLimit,
           NEW o \in malloc_chunk_medium(h, k, len)
    PROVE  LET need == align_size(len, PageSlots) \div PageSlots
           IN  \/ /\ o.pos # SHM_NULL /\ Handed(h, o.heap, o.pos, need * PageSlots)
               \/ /\ o.pos = SHM_NULL /\ o.heap = [h EXCEPT !.failed = TRUE]
                  /\ \/ FreeUnits(h.chunk[k]) = {}
                     \/ \E n \in FreeUnits(h.chunk[k]) : FreeSize(h.chunk[k], n) < need
<1> DEFINE need == align_size(len, PageSlots) \div PageSlots
           c == h.chunk[k]
           Took(n) == [c EXCEPT !.unit[n] = need]
           New(n)  == IF FreeSize(c, n) >= c.max THEN Advertised(Took(n)) ELSE {c.max}
           G(n, m) == Give([h EXCEPT !.chunk[k] = [Took(n) EXCEPT !.max = m]], Pos(k, n, 0), need * PageSlots)
<1>1. h \in Heap /\ Runs(h)
  BY DEF Good
<1>2. k \in Chunk /\ There(h, k) /\ IsMedium(c) /\ c \in Header
  BY UnitsAre
<1>3. h.chunk \in [Chunk -> Header] /\ h.held \in [Memory -> Nat]
  BY <1>1, HeapIs
<1>4. need \in Nat /\ need >= 1 /\ need <= Units - 1 /\ need * PageSlots \in Nat
  <2>1. Units - 1 \in Nat /\ len <= (Units - 1) * PageSlots
    BY Sizes
  <2>2. PageSlots \in Nat \ {0}
    BY Sizes
  <2>3. /\ need \in Nat \ {0} /\ need * PageSlots \in Nat
        /\ \A u \in Nat : len <= u * PageSlots => need <= u
    BY <2>2, AlignIs
  <2> HIDE DEF need
  <2> QED BY <2>1, <2>3
<1>5. \/ \E n \in FreeUnits(c) : FreeSize(c, n) >= need /\ \E m \in New(n) : o = G(n, m)
      \/ /\ o \in Abort(h)
         /\ FreeUnits(c) = {} \/ \E n \in FreeUnits(c) : FreeSize(c, n) < need
  <2>1. CASE FreeUnits(c) = {}
    BY <2>1 DEF malloc_chunk_medium
  <2>2. CASE FreeUnits(c) # {}
    <3>1. malloc_chunk_medium(h, k, len) =
            UNION {IF FreeSize(c, n) < need THEN Abort(h) ELSE {G(n, m) : m \in New(n)} : n \in FreeUnits(c)}
      BY <2>2 DEF malloc_chunk_medium
    <3>2. PICK n \in FreeUnits(c) : o \in IF FreeSize(c, n) < need THEN Abort(h) ELSE {G(n, m) : m \in New(n)}
      BY <3>1
    <3>3. CASE FreeSize(c, n) < need
      BY <3>2, <3>3
    <3>4. CASE ~ (FreeSize(c, n) < need)
      <4>1. \E m \in New(n) : o = G(n, m)
        BY <3>2, <3>4
      <4>2. FreeSize(c, n) >= need
        <5>1. n \in Page
          BY DEF FreeUnits
        <5>2. Taken(c) \in SUBSET Page
          BY <1>2, TakenIs DEF IsMedium
        <5>3. FreeSize(c, n) \in Nat
          BY <5>1, <5>2, Gap
        <5> QED BY <1>4, <3>4, <5>3
      <4> QED BY <4>1, <4>2
    <3> QED BY <3>3, <3>4
  <2> QED BY <2>1, <2>2
<1>6. CASE o \in Abort(h) /\ (FreeUnits(c) = {} \/ \E n \in FreeUnits(c) : FreeSize(c, n) < need)
  BY <1>6 DEF Abort, Nothing
<1>7. ASSUME NEW n \in FreeUnits(c), FreeSize(c, n) >= need, NEW m \in New(n), o = G(n, m)
      PROVE  o.pos # SHM_NULL /\ Handed(h, o.heap, o.pos, need * PageSlots)
  <2>1. n \in Page
    BY DEF FreeUnits
  <2>2. c.unit \in [Page -> 0 .. (Units - 1)] /\ c.max \in 0 .. (Units - 1)
    BY <1>2, HeaderIs
  <2>3. need \in 0 .. (Units - 1)
    BY <1>4, Sizes
  <2> DEFINE u == [c.unit EXCEPT ![n] = need]
             t == [c EXCEPT !.unit = u]
             d == [c EXCEPT !.unit = u, !.max = m]
             a == [h.chunk EXCEPT ![k] = d]
             x == Pos(k, n, 0)
             b == [h.held EXCEPT ![x] = need * PageSlots]
             g == [h EXCEPT !.chunk = a, !.held = b]
  <2>4. Took(n) = t /\ [Took(n) EXCEPT !.max = m] = d
    OBVIOUS
  <2>5. o.heap = g /\ o.pos = x
    <3>1. o = Give([h EXCEPT !.chunk[k] = d], x, need * PageSlots)
      BY <1>7, <2>4
    <3> HIDE DEF d
    <3> QED BY <3>1 DEF Give
  <2> HIDE DEF need, c
  <2>6. u \in [Page -> 0 .. (Units - 1)] /\ u[n] = need /\ \A q \in Page : q # n => u[q] = c.unit[q]
    BY <2>1, <2>2, <2>3
  <2>7. t \in Header /\ t.unit = u
    <3> HIDE DEF u
    <3> QED BY <1>2, <2>6 DEF Header
  <2>8. Apart(c) /\ c.max \in Advertised(c) /\ c.pages = {} /\ c.type = "MEDIUM" /\ \A p \in Page : c.free[p] = {}
    BY <1>2 DEF IsMedium
  <2>9. Taken(c) \in SUBSET Page
    BY <1>2, <2>8, TakenIs
  <2>10. /\ Apart(t) /\ n + need <= Units /\ c.unit[n] = 0
         /\ \A y \in Extent(n, need) : y \in Page /\ y \notin Taken(c)
         /\ \A q \in FreeUnits(c) : q # n => q \in FreeUnits(t) /\ FreeSize(t, q) = FreeSize(c, q)
    <3>1. need \in Nat \ {0} /\ need <= FreeSize(c, n) /\ t.unit = [c.unit EXCEPT ![n] = need]
      <4>1. FreeSize(c, n) \in Nat
        BY <2>1, <2>9, Gap
      <4> QED BY <1>4, <1>7, <2>7, <4>1
    <3>2. c \in Header /\ Apart(c) /\ t \in Header
      BY <1>2, <2>7, <2>8 DEF c
    <3> HIDE DEF t
    <3> QED BY <3>1, <3>2, TakeUnit
  <2>11. Taken(t) \in SUBSET Page
    BY <2>7, <2>10, TakenIs
  <2>12. m \in Advertised(t)
    <3>1. CASE FreeSize(c, n) >= c.max
      BY <1>7, <2>4, <3>1
    <3>2. CASE ~ (FreeSize(c, n) >= c.max)
      <4>1. m = c.max
        BY <1>7, <3>2
      <4>2. FreeSize(c, n) \in Nat /\ c.max \in Nat
        BY <2>1, <2>2, <2>9, Gap, Sizes
      <4>3. PICK q \in FreeUnits(c) : c.max = FreeSize(c, q)
        BY <1>7, <2>8, <2>9, AdvertisedIs
      <4>4. q # n
        BY <3>2, <4>2, <4>3
      <4>5. q \in FreeUnits(t) /\ FreeSize(t, q) = c.max
        BY <2>10, <4>3, <4>4
      <4> QED BY <2>11, <4>1, <4>5, AdvertisedIs
    <3> QED BY <3>1, <3>2
  <2>13. m \in 0 .. (Units - 1)
    BY <2>11, <2>12, AdvertisedIs
  <2> HIDE DEF t
  <2>14. d \in Header /\ d.unit = u /\ d.max = m /\ d.type = c.type /\ d.pages = c.pages /\ d.free = c.free
    <3> HIDE DEF u
    <3> QED BY <1>2, <2>6, <2>13 DEF Header
  <2> HIDE DEF d, u
  <2>15. IsMedium(d)
    <3>1. d.unit = t.unit
      BY <2>7, <2>14
    <3>2. Apart(d) /\ Advertised(d) = Advertised(t)
      BY <2>10, <3>1, SameUnits
    <3> QED BY <2>8, <2>12, <2>14, <3>2 DEF IsMedium
  <2>16. Used(d)
    BY <1>4, <2>1, <2>6, <2>14 DEF Used
  <2>17. a \in [Chunk -> Header] /\ a[k] = d /\ \A l \in Chunk : l # k => a[l] = h.chunk[l]
    BY <1>2, <1>3, <2>14
  <2>18. n \in 0 .. (Units - 1) /\ 0 \in Cell
    BY <2>1, Sizes DEF Page
  <2>19. x \in Memory /\ ChunkOf(x) = k
    BY <1>2, <2>18, PosIs
  <2> HIDE DEF x, a
  <2>20. b \in [Memory -> Nat]
    BY <1>3, <1>4
  <2> HIDE DEF b
  <2>21. /\ g \in Heap /\ g.arena = h.arena /\ g.chunk = a /\ g.small = h.small
         /\ g.medium = h.medium /\ g.runs = h.runs /\ g.held = b /\ g.mem = h.mem
    BY <1>1, <2>17, <2>20 DEF Heap
  <2> HIDE DEF g
  <2>22. Runs(g)
    <3>1. \A l \in Chunk : g.chunk[l].pages = h.chunk[l].pages /\ g.chunk[l].free = h.chunk[l].free
      BY <2>14, <2>17, <2>21 DEF c
    <3> QED BY <1>1, <2>21, <3>1 DEF Runs
  <2>23. ChunkShare(d, n, 0) = need * PageSlots
    BY <2>1, <2>6, <2>8, <2>14 DEF ChunkShare
  <2>24. ASSUME NEW q \in 0 .. (Units - 1), NEW e \in Cell, q # n \/ e # 0
         PROVE  ChunkShare(d, q, e) = ChunkShare(c, q, e)
    BY <2>6, <2>8, <2>14, <2>24 DEF ChunkShare
  <2>25. Good(g, {})
    <3>1. g.chunk = [h.chunk EXCEPT ![k] = d] /\ g.held = [h.held EXCEPT ![Pos(k, n, 0)] = ChunkShare(d, n, 0)]
      BY <2>21, <2>23 DEF a, b, x
    <3>2. (IsSmall(h.chunk[k]) /\ IsSmall(d)) \/ (IsMedium(h.chunk[k]) /\ IsMedium(d))
      BY <1>2, <2>15 DEF c
    <3>3. \A q \in 0 .. (Units - 1), e \in Cell :
            q # n \/ e # 0 => ChunkShare(d, q, e) = ChunkShare(h.chunk[k], q, e)
      BY <2>24 DEF c
    <3>4. ChunkChange(h, g, k, d, n, 0)
      BY <1>2, <2>14, <2>16, <2>18, <2>21, <2>22, <3>1, <3>2, <3>3 DEF ChunkChange
    <3>5. Good(g, {k} \ {k})
      BY <3>4, ChunkStep
    <3>6. {k} \ {k} = {}
      OBVIOUS
    <3> QED BY <3>5, <3>6
  <2>26. ASSUME NEW y \in Extent(x, need * PageSlots) PROVE y \in Memory /\ ~ Busy(h, y)
    <3>1. y \in Memory /\ pos2index(y) = k[1] /\ ChunkOf(y) = k /\ PageOf(y) \in n .. (n + need - 1)
      BY <1>2, <1>4, <2>10, <2>18, PosWalk DEF x
    <3>2. PageOf(y) \notin Taken(c)
      BY <2>10, <3>1 DEF Extent
    <3>3. h.arena[k[1]].type # "LARGE"
      BY <1>2, NotLarge
    <3> QED BY <2>8, <3>1, <3>2, <3>3 DEF Busy, c
  <2>27. need * PageSlots \in Nat \ {0}
    BY <1>4, Sizes
  <2>28. x # SHM_NULL
    BY <2>19 DEF Memory, SHM_NULL
  <2>29. Handed(h, g, x, need * PageSlots)
    BY <2>19, <2>21, <2>25, <2>26, <2>27 DEF Handed, b
  <2> QED BY <2>5, <2>28, <2>29
<1> QED BY <1>5, <1>6, <1>7

\* A chunk is not the empty tuple that stands for none.
LEMMA SomeChunk ==
    ASSUME NEW k \in Chunk
    PROVE  k # <<>>
<1>1. PICK i \in Index, c \in Slot : k = <<i, c>>
  BY DEF Chunk
<1>2. Len(<<i, c>>) = 2 /\ Len(<<>>) = 0
  OBVIOUS
<1> QED BY <1>1, <1>2

\* The header that init_chunk writes.
Fresh(type) == [Blank EXCEPT !.type = type, !.max = IF type = "SMALL" THEN 1 ELSE Units - 1]

\* It is the header of a small or a medium chunk with nothing in it.
LEMMA FreshIs ==
    ASSUME NEW type \in {"SMALL", "MEDIUM"}
    PROVE  /\ Fresh(type) \in Header /\ Fresh(type).pages = {}
           /\ \A p \in Page : Fresh(type).unit[p] = 0 /\ Fresh(type).free[p] = {}
           /\ type = "SMALL" => IsSmall(Fresh(type))
           /\ type = "MEDIUM" => IsMedium(Fresh(type))
<1> DEFINE d == Fresh(type)
           m == IF type = "SMALL" THEN 1 ELSE Units - 1
<1>1. m \in 0 .. (Units - 1)
  BY Sizes
<1>2. Blank \in Header
  BY BlankIs
<1>3. d = [Blank EXCEPT !.type = type, !.max = m]
  BY DEF Fresh
<1> HIDE DEF m, d
<1>4. d \in Header /\ d.type = type /\ d.max = m /\ d.pages = Blank.pages /\ d.unit = Blank.unit /\ d.free = Blank.free
  BY <1>1, <1>2, <1>3 DEF Header
<1>5. d.pages = {} /\ \A p \in Page : d.unit[p] = 0 /\ d.free[p] = {}
  BY <1>4, BlankIs
<1>6. ASSUME type = "SMALL" PROVE IsSmall(d)
  <2>1. d.pages # Page
    BY <1>5, Sizes
  <2> QED BY <1>4, <1>5, <1>6, <2>1 DEF IsSmall, m
<1>7. ASSUME type = "MEDIUM" PROVE IsMedium(d)
  <2>1. Apart(d) /\ Taken(d) = {} /\ FreeUnits(d) = {1} /\ FreeSize(d, 1) = Units - 1
    BY <1>4, <1>5, FreshUnits
  <2>2. FreeSize(d, 1) \in Advertised(d)
    BY <2>1, AdvertisedIs
  <2> QED BY <1>4, <1>5, <1>7, <2>1, <2>2 DEF IsMedium, m
<1> QED BY <1>4, <1>5, <1>6, <1>7 DEF d

\* The heap g of outcome o has a new chunk of this type, which callers do not see.
HasFresh(h, o, type) ==
    /\ o.chunk \in Chunk /\ Good(o.heap, {o.chunk}) /\ Same(h, o.heap) /\ o.heap.runs = h.runs
    /\ o.heap.chunk[o.chunk] = Fresh(type)
    /\ type = "SMALL" => o.chunk \in o.heap.small
    /\ type = "MEDIUM" => o.chunk \in o.heap.medium

\* Heap m is heap h but for the entry of arena i, to which no block belongs.
ArenaReady(h, m, i) ==
    /\ i \in Index /\ m \in Heap /\ h.arena[i].type # "LARGE"
    /\ m.chunk = h.chunk /\ m.small = h.small /\ m.medium = h.medium /\ m.runs = h.runs /\ m.held = h.held
    /\ \A j \in Index : j # i => m.arena[j] = h.arena[j]
    /\ m.arena[i].chunks = h.arena[i].chunks
    /\ m.arena[i].type = IF i = 0 THEN "CONTEXT" ELSE "CHUNK"
    /\ \A y \in Memory : Busy(h, y) => m.mem[y] = h.mem[y]

\* init_chunk in slot c.
LEMMA WithChunkIs ==
    ASSUME NEW h, Good(h, {}), NEW m, NEW i, ArenaReady(h, m, i),
           NEW c \in Slot, c \notin h.arena[i].chunks, NEW type \in {"SMALL", "MEDIUM"}
    PROVE  HasFresh(h, WithChunk(m, i, c, type), type)
<1> DEFINE k == <<i, c>>
           e == [m.arena[i] EXCEPT !.chunks = m.arena[i].chunks \cup {c}]
           A == [m.arena EXCEPT ![i] = e]
           m1 == [m EXCEPT !.arena = A]
           W == Extent(Pos(k, 0, 0), PageSlots)
           w == Wiped(m1, W)
           S == IF type = "SMALL" THEN h.small \cup {k} ELSE h.small
           M == IF type = "MEDIUM" THEN h.medium \cup {k} ELSE h.medium
           a == [h.chunk EXCEPT ![k] = Fresh(type)]
           g == [w EXCEPT !.chunk = a, !.small = S, !.medium = M]
           o == WithChunk(m, i, c, type)
<1>1. i \in Index /\ m \in Heap /\ h.arena[i].type # "LARGE"
  BY DEF ArenaReady
<1>2. h \in Heap /\ Chunks(h, {})
  BY DEF Good
<1>3. k \in Chunk /\ k[1] = i /\ k[2] = c
  BY <1>1, ChunkIs
<1>4. e \in Entry /\ e.type = m.arena[i].type /\ e.chunks = m.arena[i].chunks \cup {c}
  <2>1. m.arena[i] \in Entry
    BY <1>1, HeapIs
  <2>2. m.arena[i].chunks \cup {c} \in SUBSET Slot
    BY <2>1 DEF Entry
  <2> QED BY <2>1, <2>2 DEF Entry
<1>5. A \in [Index -> Entry] /\ A[i] = e /\ \A j \in Index : j # i => A[j] = m.arena[j]
  <2>1. m.arena \in [Index -> Entry]
    BY <1>1, HeapIs
  <2> HIDE DEF e
  <2> QED BY <1>1, <1>4, <2>1
<1>6. [m EXCEPT !.arena[i].chunks = @ \cup {c}] = m1
  OBVIOUS
<1> HIDE DEF e, A
<1>7. /\ m1 \in Heap /\ m1.arena = A /\ m1.chunk = m.chunk /\ m1.small = m.small
      /\ m1.medium = m.medium /\ m1.runs = m.runs /\ m1.held = m.held /\ m1.mem = m.mem
  BY <1>1, <1>5 DEF Heap
<1> HIDE DEF m1
<1>8. /\ w \in Heap /\ w.arena = m1.arena /\ w.chunk = m1.chunk /\ w.small = m1.small
      /\ w.medium = m1.medium /\ w.runs = m1.runs /\ w.held = m1.held
      /\ \A x \in Memory : x \notin W => w.mem[x] = m1.mem[x]
  BY <1>7, WipedIs
<1>9. o.chunk = k /\ o.heap = g
  <2>1. o = [heap |-> init_chunk(m1, k, type), chunk |-> k]
    BY <1>6 DEF WithChunk
  <2>2. w.chunk = h.chunk /\ w.small = h.small /\ w.medium = h.medium
    BY <1>7, <1>8 DEF ArenaReady
  <2>3. init_chunk(m1, k, type) = [w EXCEPT !.chunk = [w.chunk EXCEPT ![k] = Fresh(type)],
                                    !.small = IF type = "SMALL" THEN w.small \cup {k} ELSE w.small,
                                    !.medium = IF type = "MEDIUM" THEN w.medium \cup {k} ELSE w.medium]
    <3> HIDE DEF k
    <3> QED BY DEF init_chunk, Fresh, w, W
  <2> HIDE DEF w
  <2> QED BY <2>1, <2>2, <2>3
<1> HIDE DEF w, o
<1>10. /\ Fresh(type) \in Header /\ Fresh(type).pages = {}
       /\ \A p \in Page : Fresh(type).unit[p] = 0 /\ Fresh(type).free[p] = {}
       /\ type = "SMALL" => IsSmall(Fresh(type))
       /\ type = "MEDIUM" => IsMedium(Fresh(type))
  BY FreshIs
<1>11. /\ h.chunk \in [Chunk -> Header] /\ h.small \in SUBSET Chunk /\ h.medium \in SUBSET Chunk
  BY <1>2, HeapIs
<1>12. a \in [Chunk -> Header] /\ a[k] = Fresh(type)
  BY <1>3, <1>10, <1>11
<1>13. S \in SUBSET Chunk /\ M \in SUBSET Chunk
  BY <1>3, <1>11
<1> HIDE DEF a, S, M
<1>14. /\ g \in Heap /\ g.arena = w.arena /\ g.chunk = a /\ g.small = S
       /\ g.medium = M /\ g.runs = w.runs /\ g.held = w.held /\ g.mem = w.mem
  BY <1>8, <1>12, <1>13 DEF Heap
<1> HIDE DEF g
<1>15. g.arena = A /\ g.runs = h.runs /\ g.held = h.held
  BY <1>7, <1>8, <1>14 DEF ArenaReady
<1>16. ChunkEnters(h, g, i, c, Fresh(type))
  <2>1. \/ IsSmall(Fresh(type)) /\ g.small = h.small \cup {k} /\ g.medium = h.medium
        \/ IsMedium(Fresh(type)) /\ g.small = h.small /\ g.medium = h.medium \cup {k}
    BY <1>10, <1>14 DEF S, M
  <2>2. \A j \in Index : j # i => g.arena[j] = h.arena[j]
    BY <1>5, <1>15 DEF ArenaReady
  <2>3. g.arena[i].chunks = h.arena[i].chunks \cup {c} /\ g.arena[i].type = IF i = 0 THEN "CONTEXT" ELSE "CHUNK"
    BY <1>4, <1>5, <1>15 DEF ArenaReady
  <2> QED BY <1>1, <1>10, <1>14, <1>15, <2>1, <2>2, <2>3 DEF ChunkEnters, a
<1>17. Good(g, {k}) /\ \A y \in Memory : Busy(g, y) <=> Busy(h, y)
  BY <1>16, ChunkMade
<1>18. Same(h, g)
  <2>1. ASSUME NEW y \in Memory, Busy(h, y) PROVE g.mem[y] = h.mem[y]
    <3>1. y \notin W
      <4>1. SUFFICES ASSUME y \in W PROVE FALSE
        OBVIOUS
      <4>2. 1 * PageSlots = PageSlots /\ 1 \in Nat /\ 0 + 1 <= Units /\ 0 \in 0 .. (Units - 1)
        BY Sizes
      <4>3. y \in Extent(Pos(k, 0, 0), 1 * PageSlots)
        BY <4>1, <4>2
      <4> HIDE DEF k
      <4>4. ChunkOf(y) = k /\ pos2index(y) = i
        BY <1>3, <4>2, <4>3, PosWalk
      <4>5. ~ There(h, k)
        BY <1>3 DEF There
      <4>6. h.chunk[k] = Blank
        BY <1>2, <1>3, <4>5 DEF Chunks
      <4>7. Taken(Blank) = {} /\ Blank.pages = {}
        BY NoShare, BlankIs
      <4> QED BY <1>1, <2>1, <4>4, <4>6, <4>7 DEF Busy
    <3> QED BY <1>7, <1>8, <1>14, <2>1, <3>1 DEF ArenaReady
  <2> QED BY <1>15, <1>17, <2>1 DEF Same
<1>19. (type = "SMALL" => k \in g.small) /\ (type = "MEDIUM" => k \in g.medium)
  BY <1>14 DEF S, M
<1>20. HasFresh(h, o, type)
  <2> HIDE DEF k
  <2> QED BY <1>3, <1>9, <1>12, <1>14, <1>15, <1>17, <1>18, <1>19 DEF HasFresh
<1> QED BY <1>20 DEF o

\* No block is in an arena that is not there.
LEMMA ArenaFree ==
    ASSUME NEW h, Good(h, {}), NEW y \in Memory, h.arena[pos2index(y)] = EMPTY
    PROVE  ~ Busy(h, y)
<1>1. h.arena[pos2index(y)].type # "LARGE" /\ h.arena[pos2index(y)].chunks = {}
  BY BlankIs
<1>2. ChunkOf(y) \in Chunk => h.chunk[ChunkOf(y)] = Blank
  <2>1. ChunkOf(y)[1] = pos2index(y)
    BY PosOnto
  <2>2. ~ There(h, ChunkOf(y))
    BY <1>1, <2>1 DEF There
  <2> QED BY <2>2 DEF Good, Chunks
<1>3. Taken(Blank) = {} /\ Blank.pages = {}
  BY NoShare, BlankIs
<1> QED BY <1>1, <1>2, <1>3 DEF Busy

\* new_arena: nothing, or the entry of an arena that was not there, and its memory.
LEMMA NewArenaIs ==
    ASSUME NEW h, Good(h, {}), NEW type \in {"CHUNK", "LARGE"}, NEW size \in 1 .. ArenaSpan,
           NEW o \in new_arena(h, type, size)
    PROVE  \/ o.index = SHM_NULL /\ o.heap = h
           \/ LET e == [type |-> type, size |-> size, chunks |-> {}]
                  m == o.heap
              IN  /\ o.index \in Index /\ o.index # 0 /\ o.index # SHM_NULL /\ h.arena[o.index] = EMPTY
                  /\ m \in Heap /\ m.arena = [h.arena EXCEPT ![o.index] = e] /\ e \in Entry
                  /\ m.chunk = h.chunk /\ m.small = h.small /\ m.medium = h.medium
                  /\ m.runs = h.runs /\ m.held = h.held
                  /\ \A y \in Memory : Busy(h, y) => m.mem[y] = h.mem[y]
<1> DEFINE i == Min(EmptyIndex(h))
           e == [type |-> type, size |-> size, chunks |-> {}]
           A == [h.arena EXCEPT ![i] = e]
           m1 == [h EXCEPT !.arena = A]
           W == Extent(Pos(<<i, 0>>, 0, 0), size)
           w == Wiped(m1, W)
<1>1. h \in Heap /\ Arenas(h)
  BY DEF Good
<1>2. CASE EmptyIndex(h) = {}
  BY <1>2 DEF new_arena
<1>3. CASE EmptyIndex(h) # {}
  <2>1. EmptyIndex(h) \in SUBSET Nat
    BY DEF EmptyIndex, Index
  <2>2. i \in EmptyIndex(h)
    BY <1>3, <2>1, MinIs
  <2>3. new_arena(h, type, size) = {[heap |-> h, index |-> SHM_NULL], [heap |-> w, index |-> i]}
    BY <1>3 DEF new_arena
  <2> HIDE DEF i
  <2>4. i \in Index /\ i # 0 /\ h.arena[i].type = "EMPTY"
    BY <2>2 DEF EmptyIndex
  <2>5. h.arena[i] = EMPTY
    BY <1>1, <2>4 DEF Arenas
  <2>6. e \in Entry
    BY Sizes DEF Entry
  <2> HIDE DEF e
  <2>7. A \in [Index -> Entry]
    BY <1>1, <2>4, <2>6, HeapIs
  <2> HIDE DEF A
  <2>8. /\ m1 \in Heap /\ m1.arena = A /\ m1.chunk = h.chunk /\ m1.small = h.small
        /\ m1.medium = h.medium /\ m1.runs = h.runs /\ m1.held = h.held /\ m1.mem = h.mem
    BY <1>1, <2>7 DEF Heap
  <2> HIDE DEF m1
  <2>9. /\ w \in Heap /\ w.arena = m1.arena /\ w.chunk = m1.chunk /\ w.small = m1.small
        /\ w.medium = m1.medium /\ w.runs = m1.runs /\ w.held = m1.held
        /\ \A x \in Memory : x \notin W => w.mem[x] = m1.mem[x]
    BY <2>8, WipedIs
  <2>10. ASSUME NEW y \in Memory, Busy(h, y) PROVE w.mem[y] = h.mem[y]
    <3>1. y \notin W
      <4>1. SUFFICES ASSUME y \in W PROVE FALSE
        OBVIOUS
      <4>2. size \in 0 .. ArenaSpan
        BY Sizes
      <4>3. pos2index(y) = i
        BY <2>4, <4>1, <4>2, LargeWalk
      <4> QED BY <2>5, <2>10, <4>3, ArenaFree
    <3> QED BY <2>8, <2>9, <3>1
  <2> HIDE DEF w
  <2>11. CASE o = [heap |-> h, index |-> SHM_NULL]
    BY <2>11
  <2>12. CASE o = [heap |-> w, index |-> i]
    <3>1. o.heap = w /\ o.index = i
      BY <2>12
    <3>2. i # SHM_NULL
      BY <2>4 DEF SHM_NULL
    <3> QED BY <2>4, <2>5, <2>6, <2>8, <2>9, <2>10, <3>1, <3>2 DEF A, e
  <2> QED BY <2>3, <2>11, <2>12
<1> QED BY <1>2, <1>3

\* new_chunk: a new chunk, or nothing.
LEMMA NewChunkIs ==
    ASSUME NEW h, Good(h, {}), NEW type \in {"SMALL", "MEDIUM"}, NEW o \in new_chunk(h, type)
    PROVE  (o.chunk = <<>> /\ o.heap = h) \/ HasFresh(h, o, type)
<1> DEFINE slots == new_arena_chunk(h, 0)
           size  == ArenaChunks * ChunkSize
<1>1. h \in Heap /\ Arenas(h)
  BY DEF Good
<1>2. ASSUME NEW m, NEW i, NEW c \in new_arena_chunk(m, i)
      PROVE  c \in Slot /\ c \notin m.arena[i].chunks
  <2> DEFINE free == {s \in Slot : s \notin m.arena[i].chunks /\ (i = 0 => s # 0)}
  <2>1. free # {} /\ c = Min(free)
    BY DEF new_arena_chunk
  <2>2. free \in SUBSET Nat
    BY DEF Slot
  <2>3. c \in free
    BY <2>1, <2>2, MinIs
  <2> QED BY <2>3
<1>3. CASE slots # {}
  <2>1. PICK c \in slots : o = WithChunk(h, 0, c, type)
    BY <1>3 DEF new_chunk
  <2>2. c \in Slot /\ c \notin h.arena[0].chunks
    BY <1>2, <2>1
  <2>3. ArenaReady(h, h, 0)
    BY <1>1, Sizes DEF ArenaReady, Arenas
  <2> QED BY <2>1, <2>2, <2>3, WithChunkIs
<1>4. CASE slots = {}
  <2>1. PICK n \in new_arena(h, "CHUNK", size) :
          o \in IF n.index = SHM_NULL THEN {[heap |-> n.heap, chunk |-> <<>>]}
                ELSE {WithChunk(n.heap, n.index, c, type) : c \in new_arena_chunk(n.heap, n.index)}
    BY <1>4 DEF new_chunk
  <2>2. size \in 1 .. ArenaSpan
    <3>1. size <= ArenaSpan
      BY AllocatorAssumption
    <3>2. size \in Nat /\ size >= 1
      BY Sizes
    <3> QED BY <3>1, <3>2, Sizes
  <2> HIDE DEF size
  <2> DEFINE e == [type |-> "CHUNK", size |-> size, chunks |-> {}]
             i == n.index
             m == n.heap
  <2>3. \/ i = SHM_NULL /\ m = h
        \/ /\ i \in Index /\ i # 0 /\ i # SHM_NULL /\ h.arena[i] = EMPTY
           /\ m \in Heap /\ m.arena = [h.arena EXCEPT ![i] = e] /\ e \in Entry
           /\ m.chunk = h.chunk /\ m.small = h.small /\ m.medium = h.medium
           /\ m.runs = h.runs /\ m.held = h.held
           /\ \A y \in Memory : Busy(h, y) => m.mem[y] = h.mem[y]
    BY <2>1, <2>2, NewArenaIs
  <2> HIDE DEF i, m
  <2>4. CASE i = SHM_NULL
    <3>1. m = h
      BY <2>3, <2>4
    <3>2. o = [heap |-> h, chunk |-> <<>>]
      BY <2>1, <2>4, <3>1 DEF i, m
    <3> QED BY <3>2
  <2>5. CASE i # SHM_NULL
    <3>1. PICK c \in new_arena_chunk(m, i) : o = WithChunk(m, i, c, type)
      BY <2>1, <2>5 DEF i, m
    <3>2. c \in Slot
      BY <1>2, <3>1
    <3>3. h.arena \in [Index -> Entry]
      BY <1>1, HeapIs
    <3>4. m.arena[i] = e /\ \A j \in Index : j # i => m.arena[j] = h.arena[j]
      BY <2>3, <2>5, <3>3
    <3>5. h.arena[i].chunks = {} /\ h.arena[i].type # "LARGE"
      BY <2>3, <2>5, BlankIs
    <3>6. ArenaReady(h, m, i)
      BY <2>3, <2>5, <3>4, <3>5 DEF ArenaReady
    <3>7. c \notin h.arena[i].chunks
      BY <3>5
    <3> QED BY <3>1, <3>2, <3>6, <3>7, WithChunkIs
  <2> QED BY <2>4, <2>5
<1> QED BY <1>3, <1>4

\* An exception for a chunk asks for less.
LEMMA GoodMore ==
    ASSUME NEW h, NEW k, Good(h, {})
    PROVE  Good(h, {k})
BY DEF Good, Chunks

\* The outcome of a request for size: nothing, and nothing has changed, or an assertion
\* has failed; or a block at least as long.
Answered(h, o, size) ==
    \/ o.pos = SHM_NULL /\ (o.heap = h \/ o.heap = [h EXCEPT !.failed = TRUE])
    \/ o.pos # SHM_NULL /\ \E len \in Nat : size <= len /\ Handed(h, o.heap, o.pos, len)

\* A small request.
LEMMA SmallGiven ==
    ASSUME NEW h, Good(h, {}), NEW size \in Requests, size <= SmallLimit, NEW o \in malloc_arena(h, size)
    PROVE  Answered(h, o, size)
<1>1. h \in Heap /\ Runs(h)
  BY DEF Good
<1>2. size <= 1 /\ 1 \in Nat
  BY DEF SmallLimit
<1>3. CASE h.runs # {}
  <2>1. PICK r \in h.runs : o \in malloc_chunk_run(h, r)
    BY <1>3 DEF malloc_arena
  <2>2. o.pos # SHM_NULL /\ Handed(h, o.heap, o.pos, 1)
    BY <2>1, RunGiven
  <2> QED BY <1>2, <2>2 DEF Answered
<1>4. CASE h.runs = {}
  <2>1. PICK n \in get_or_new_chunk(h, "SMALL", 1) :
          o \in IF n.chunk = <<>> THEN Nothing(n.heap) ELSE new_chunk_run(n.heap, n.chunk)
    BY <1>4 DEF malloc_arena
  <2> DEFINE there == get_avaliable_chunk(h, "SMALL", 1)
  <2>2. CASE there # {}
    <3>1. PICK k \in there : n = [heap |-> h, chunk |-> k]
      BY <2>1, <2>2 DEF get_or_new_chunk
    <3>2. k \in h.small /\ h.chunk[k].max >= 1
      BY <3>1 DEF get_avaliable_chunk
    <3>3. k \in Chunk
      BY <1>1, <3>2, HeapIs
    <3>4. IsSmall(h.chunk[k])
      BY <3>2, <3>3, RunIs
    <3>5. h.chunk[k].pages # Page
      BY <3>2, <3>4 DEF IsSmall
    <3>6. o \in new_chunk_run(h, k)
      BY <2>1, <3>1, <3>3, SomeChunk
    <3>7. Good(h, {k})
      BY GoodMore
    <3>8. o.pos # SHM_NULL /\ Handed(h, o.heap, o.pos, 1)
      BY <1>4, <3>2, <3>5, <3>6, <3>7, NewRunGiven
    <3> QED BY <1>2, <3>8 DEF Answered
  <2>3. CASE there = {}
    <3>1. n \in new_chunk(h, "SMALL")
      BY <2>1, <2>3 DEF get_or_new_chunk
    <3>2. (n.chunk = <<>> /\ n.heap = h) \/ HasFresh(h, n, "SMALL")
      BY <3>1, NewChunkIs
    <3>3. CASE n.chunk = <<>> /\ n.heap = h
      BY <2>1, <3>3 DEF Nothing, Answered
    <3>4. CASE HasFresh(h, n, "SMALL")
      <4> DEFINE k == n.chunk
                 m == n.heap
      <4>1. /\ k \in Chunk /\ Good(m, {k}) /\ Same(h, m) /\ m.runs = h.runs
            /\ m.chunk[k] = Fresh("SMALL") /\ k \in m.small
        BY <3>4 DEF HasFresh
      <4>2. o \in new_chunk_run(m, k)
        BY <2>1, <4>1, SomeChunk
      <4> HIDE DEF k, m
      <4>3. m.chunk[k].pages # Page
        <5>1. m.chunk[k].pages = {}
          BY <4>1, FreshIs
        <5> QED BY <5>1, Sizes
      <4>4. m.runs = {}
        BY <1>4, <4>1
      <4>5. o.pos # SHM_NULL /\ Handed(m, o.heap, o.pos, 1)
        BY <4>1, <4>2, <4>3, <4>4, NewRunGiven
      <4>6. Handed(h, o.heap, o.pos, 1)
        BY <4>1, <4>5, SameHanded
      <4> QED BY <1>2, <4>5, <4>6 DEF Answered
    <3> QED BY <3>2, <3>3, <3>4
  <2> QED BY <2>2, <2>3
<1> QED BY <1>3, <1>4

\* A medium request.
LEMMA MediumGiven ==
    ASSUME NEW h, Good(h, {}), NEW size \in Requests, ~ (size <= SmallLimit), size <= MediumLimit,
           NEW o \in malloc_arena(h, size)
    PROVE  Answered(h, o, size)
<1> DEFINE need == align_size(size, PageSlots) \div PageSlots
<1>1. h \in Heap
  BY DEF Good
<1>2. size \in Nat \ {0}
  BY AllocatorAssumption
<1>3. need \in Nat \ {0} /\ need * PageSlots \in Nat /\ size <= need * PageSlots /\ need <= Units - 1
  <2>1. Units - 1 \in Nat /\ size <= (Units - 1) * PageSlots /\ PageSlots \in Nat \ {0}
    BY Sizes
  <2>2. /\ need \in Nat \ {0} /\ need * PageSlots \in Nat /\ size <= need * PageSlots
        /\ \A u \in Nat : size <= u * PageSlots => need <= u
    BY <1>2, <2>1, AlignIs
  <2> HIDE DEF need
  <2> QED BY <2>1, <2>2
<1>4. PICK n \in get_or_new_chunk(h, "MEDIUM", need) :
        o \in IF n.chunk = <<>> THEN Nothing(n.heap) ELSE malloc_chunk_medium(n.heap, n.chunk, size)
  BY DEF malloc_arena
<1> DEFINE there == get_avaliable_chunk(h, "MEDIUM", need)
<1>5. ASSUME NEW m, NEW k, Good(m, {k}), k \in m.medium, o \in malloc_chunk_medium(m, k, size)
      PROVE  \/ /\ o.pos # SHM_NULL /\ Handed(m, o.heap, o.pos, need * PageSlots)
             \/ /\ o.pos = SHM_NULL /\ o.heap = [m EXCEPT !.failed = TRUE]
                /\ \/ FreeUnits(m.chunk[k]) = {}
                   \/ \E p \in FreeUnits(m.chunk[k]) : FreeSize(m.chunk[k], p) < need
  BY <1>2, <1>5, UnitGiven
<1>6. CASE there # {}
  <2>1. PICK k \in there : n = [heap |-> h, chunk |-> k]
    BY <1>4, <1>6 DEF get_or_new_chunk
  <2>2. k \in h.medium
    BY <2>1 DEF get_avaliable_chunk
  <2>3. k \in Chunk
    BY <1>1, <2>2, HeapIs
  <2>4. o \in malloc_chunk_medium(h, k, size)
    BY <1>4, <2>1, <2>3, SomeChunk
  <2>5. Good(h, {k})
    BY GoodMore
  <2> HIDE DEF need
  <2>6. \/ o.pos # SHM_NULL /\ Handed(h, o.heap, o.pos, need * PageSlots)
        \/ o.pos = SHM_NULL /\ o.heap = [h EXCEPT !.failed = TRUE]
    BY <1>5, <2>2, <2>4, <2>5
  <2> QED BY <1>3, <2>6 DEF Answered
<1>7. CASE there = {}
  <2>1. n \in new_chunk(h, "MEDIUM")
    BY <1>4, <1>7 DEF get_or_new_chunk
  <2>2. (n.chunk = <<>> /\ n.heap = h) \/ HasFresh(h, n, "MEDIUM")
    BY <2>1, NewChunkIs
  <2>3. CASE n.chunk = <<>> /\ n.heap = h
    BY <1>4, <2>3 DEF Nothing, Answered
  <2>4. CASE HasFresh(h, n, "MEDIUM")
    <3> DEFINE k == n.chunk
               m == n.heap
               c == Fresh("MEDIUM")
    <3>1. /\ k \in Chunk /\ Good(m, {k}) /\ Same(h, m)
          /\ m.chunk[k] = c /\ k \in m.medium
      BY <2>4 DEF HasFresh
    <3>2. o \in malloc_chunk_medium(m, k, size)
      BY <1>4, <3>1, SomeChunk
    <3> HIDE DEF k, m, need
    <3>3. c \in Header /\ \A p \in Page : c.unit[p] = 0
      BY FreshIs
    <3>4. FreeUnits(c) = {1} /\ FreeSize(c, 1) = Units - 1
      BY <3>3, FreshUnits
    <3>5. ~ (FreeSize(c, 1) < need)
      BY <1>3, <3>4, Sizes
    <3>6. o.pos # SHM_NULL /\ Handed(m, o.heap, o.pos, need * PageSlots)
      <4> HIDE DEF c
      <4>1. \/ /\ o.pos # SHM_NULL /\ Handed(m, o.heap, o.pos, need * PageSlots)
            \/ /\ o.pos = SHM_NULL /\ o.heap = [m EXCEPT !.failed = TRUE]
               /\ \/ FreeUnits(m.chunk[k]) = {}
                  \/ \E p \in FreeUnits(m.chunk[k]) : FreeSize(m.chunk[k], p) < need
        BY <1>5, <3>1, <3>2
      <4>2. FreeUnits(m.chunk[k]) = {1} /\ ~ (FreeSize(m.chunk[k], 1) < need)
        BY <3>1, <3>4, <3>5
      <4> QED BY <4>1, <4>2
    <3>7. Handed(h, o.heap, o.pos, need * PageSlots)
      BY <3>1, <3>6, SameHanded
    <3> QED BY <1>3, <3>6, <3>7 DEF Answered
  <2> QED BY <2>2, <2>3, <2>4
<1> QED BY <1>6, <1>7

\* A large request.
LEMMA LargeGiven ==
    ASSUME NEW h, Good(h, {}), NEW size \in Requests, ~ (size <= SmallLimit), ~ (size <= MediumLimit),
           NEW o \in malloc_arena(h, size)
    PROVE  Answered(h, o, size)
<1> DEFINE len == align_size(size, ChunkSize)
<1>1. h \in Heap
  BY DEF Good
<1>2. len \in Nat /\ len >= 1 /\ size <= len /\ len <= ArenaSpan
  <2>1. size \in Nat \ {0} /\ ChunkSize \in Nat \ {0} /\ len <= ArenaSpan
    BY AllocatorAssumption, Sizes
  <2>2. len = (len \div ChunkSize) * ChunkSize /\ (len \div ChunkSize) * ChunkSize \in Nat
        /\ size <= (len \div ChunkSize) * ChunkSize
    BY <2>1, AlignIs
  <2> QED BY <2>1, <2>2
<1>3. PICK n \in new_arena(h, "LARGE", len) :
        o = IF n.index = SHM_NULL THEN [heap |-> n.heap, pos |-> SHM_NULL]
            ELSE Give(n.heap, Pos(<<n.index, 0>>, 0, 0), len)
  BY DEF malloc_arena
<1> HIDE DEF len
<1>4. len \in 1 .. ArenaSpan
  BY <1>2, Sizes
<1> DEFINE e == [type |-> "LARGE", size |-> len, chunks |-> {}]
           i == n.index
           m == n.heap
           x == Pos(<<i, 0>>, 0, 0)
<1>5. \/ i = SHM_NULL /\ m = h
      \/ /\ i \in Index /\ i # 0 /\ i # SHM_NULL /\ h.arena[i] = EMPTY
         /\ m \in Heap /\ m.arena = [h.arena EXCEPT ![i] = e] /\ e \in Entry
         /\ m.chunk = h.chunk /\ m.small = h.small /\ m.medium = h.medium
         /\ m.runs = h.runs /\ m.held = h.held
         /\ \A y \in Memory : Busy(h, y) => m.mem[y] = h.mem[y]
  BY <1>3, <1>4, NewArenaIs
<1>6. o = IF i = SHM_NULL THEN [heap |-> m, pos |-> SHM_NULL] ELSE Give(m, x, len)
  BY <1>3
<1> HIDE DEF i, m
<1>7. CASE i = SHM_NULL
  <2>1. m = h
    BY <1>5, <1>7
  <2> QED BY <1>6, <1>7, <2>1 DEF Answered
<1>8. CASE i # SHM_NULL
  <2> DEFINE b == [h.held EXCEPT ![x] = len]
             g == [m EXCEPT !.held = b]
  <2>1. /\ i \in Index /\ i # 0 /\ h.arena[i] = EMPTY
        /\ m \in Heap /\ m.arena = [h.arena EXCEPT ![i] = e] /\ e \in Entry
        /\ m.chunk = h.chunk /\ m.small = h.small /\ m.medium = h.medium
        /\ m.runs = h.runs /\ m.held = h.held
        /\ \A y \in Memory : Busy(h, y) => m.mem[y] = h.mem[y]
    BY <1>5, <1>8
  <2>2. o.heap = g /\ o.pos = x
    BY <1>6, <1>8, <2>1 DEF Give
  <2>3. b \in [Memory -> Nat]
    BY <1>1, <1>2, HeapIs
  <2> HIDE DEF b
  <2>4. /\ g \in Heap /\ g.arena = m.arena /\ g.chunk = m.chunk /\ g.small = m.small
        /\ g.medium = m.medium /\ g.runs = m.runs /\ g.held = b /\ g.mem = m.mem
    BY <2>1, <2>3 DEF Heap
  <2> HIDE DEF g
  <2>5. e.type = "LARGE" /\ e.size = len /\ e.chunks = {} /\ e # EMPTY
    BY BlankIs
  <2> HIDE DEF e
  <2>6. h.arena[i].chunks = {} /\ h.arena[i].type # "LARGE"
    BY <2>1, BlankIs
  <2>7. LargeChange(h, g, i, e)
    BY <1>4, <2>1, <2>4, <2>5, <2>6 DEF LargeChange, b
  <2>8. Good(g, {})
    BY <2>7, LargeStep
  <2>9. ASSUME NEW y \in Extent(x, len) PROVE y \in Memory /\ ~ Busy(h, y)
    <3>1. len \in 0 .. ArenaSpan
      BY <1>2, Sizes
    <3>2. y \in Memory /\ pos2index(y) = i
      BY <2>1, <3>1, LargeWalk
    <3> QED BY <2>1, <3>2, ArenaFree
  <2>10. x \in Memory /\ x # SHM_NULL
    <3>1. <<i, 0>> \in Chunk /\ 0 \in 0 .. (Units - 1) /\ 0 \in Cell
      BY <2>1, ChunkIs, Sizes
    <3>2. x \in Memory
      BY <3>1, PosIs
    <3> QED BY <3>2 DEF Memory, SHM_NULL
  <2>11. len \in Nat \ {0}
    BY <1>2
  <2>12. Handed(h, g, x, len)
    BY <2>1, <2>4, <2>8, <2>9, <2>10, <2>11 DEF Handed, b
  <2> QED BY <1>2, <2>2, <2>10, <2>12 DEF Answered
<1> QED BY <1>7, <1>8

\* Every request is answered.
LEMMA Malloced ==
    ASSUME NEW h, Good(h, {}), NEW size \in Requests, NEW o \in malloc_arena(h, size)
    PROVE  Answered(h, o, size)
BY SmallGiven, MediumGiven, LargeGiven

-----------------------------------------------------------------------------
(* Release *)

\* Position x is that of a large block, of a slot of a run, or of a medium unit.
OfLarge(h, x) ==
    /\ h.arena[pos2index(x)].type = "LARGE" /\ h.arena[pos2index(x)].chunks = {}
    /\ pos2index(x) # 0 /\ x = Pos(<<pos2index(x), 0>>, 0, 0)
    /\ h.held[x] = h.arena[pos2index(x)].size

InUse(h, x) ==
    /\ h.arena[pos2index(x)].type # "LARGE" /\ InChunk(h, x)
    /\ ChunkOf(x) \in Chunk /\ There(h, ChunkOf(x)) /\ PageOf(x) \in Page

OfSmall(h, x) ==
    /\ InUse(h, x) /\ IsSmall(h.chunk[ChunkOf(x)]) /\ PageOf(x) \in h.chunk[ChunkOf(x)].pages
    /\ CellOf(x) \notin h.chunk[ChunkOf(x)].free[PageOf(x)] /\ h.held[x] = 1

OfMedium(h, x) ==
    /\ InUse(h, x) /\ IsMedium(h.chunk[ChunkOf(x)]) /\ CellOf(x) = 0
    /\ h.chunk[ChunkOf(x)].unit[PageOf(x)] # 0
    /\ h.held[x] = h.chunk[ChunkOf(x)].unit[PageOf(x)] * PageSlots

\* A block is one of the three.
LEMMA HolderIs ==
    ASSUME NEW h, Good(h, {}), NEW x \in Memory, h.held[x] # 0
    PROVE  OfLarge(h, x) \/ OfSmall(h, x) \/ OfMedium(h, x)
<1> DEFINE i == pos2index(x)
           k == ChunkOf(x)
           p == PageOf(x)
           s == CellOf(x)
           c == h.chunk[k]
<1>1. h \in Heap /\ Arenas(h) /\ Chunks(h, {}) /\ Helds(h)
  BY DEF Good
<1>2. h.held[x] = Share(h, x)
  BY <1>1 DEF Helds
<1>3. i \in Index /\ k[1] = i /\ p \in 0 .. (Units - 1) /\ s \in Cell
  BY PosOnto
<1>4. CASE h.arena[i].type = "LARGE"
  <2>1. x = Pos(<<i, 0>>, 0, 0) /\ h.held[x] = h.arena[i].size
    BY <1>2, <1>4 DEF Share
  <2>2. i # 0
    BY <1>1, <1>4 DEF Arenas
  <2>3. h.arena[i].chunks = {}
    BY <1>1, <1>3, <1>4, <2>2, BlankIs DEF Arenas
  <2> QED BY <1>4, <2>1, <2>2, <2>3 DEF OfLarge
<1>5. CASE h.arena[i].type # "LARGE"
  <2>1. k \in Chunk /\ h.held[x] = ChunkShare(c, p, s)
    BY <1>2, <1>5 DEF Share
  <2>2. There(h, k)
    <3>1. c # Blank
      BY <2>1, BlankIs
    <3> QED BY <1>1, <2>1, <3>1 DEF Chunks
  <2>3. InChunk(h, x)
    BY <1>3, <2>2 DEF InChunk, There
  <2>4. IsSmall(c) \/ IsMedium(c)
    BY <1>1, <2>1, <2>2 DEF Chunks
  <2>5. c \in Header
    BY <1>1, <2>1, HeapIs
  <2>6. CASE p \in c.pages
    <3>1. s \notin c.free[p] /\ h.held[x] = 1
      BY <2>1, <2>6 DEF ChunkShare
    <3>2. p \in Page
      BY <2>5, <2>6, HeaderIs
    <3>3. IsSmall(c)
      BY <2>4, <2>6 DEF IsMedium
    <3> QED BY <1>5, <2>1, <2>2, <2>3, <2>6, <3>1, <3>2, <3>3 DEF OfSmall, InUse
  <2>7. CASE p \notin c.pages
    <3>1. p \in Page /\ s = 0 /\ h.held[x] = c.unit[p] * PageSlots
      BY <2>1, <2>7 DEF ChunkShare
    <3>2. c.unit[p] # 0
      BY <3>1, Sizes
    <3>3. IsMedium(c)
      BY <2>4, <3>1, <3>2 DEF IsSmall
    <3> QED BY <1>5, <2>1, <2>2, <2>3, <3>1, <3>2, <3>3 DEF OfMedium, InUse
  <2> QED BY <2>6, <2>7
<1> QED BY <1>4, <1>5

\* From h to m, the block at x is the caller's no more.
Emptied(h, m, x) ==
    /\ m \in Heap /\ m.arena = h.arena /\ m.chunk = h.chunk /\ m.small = h.small
    /\ m.medium = h.medium /\ m.runs = h.runs /\ m.held = [h.held EXCEPT ![x] = 0]
    /\ \A y \in Memory : y \notin Extent(x, h.held[x]) => m.mem[y] = h.mem[y]

\* From h to g, the block at x is free, and other blocks keep their contents.
Freed(h, g, x) ==
    /\ Good(g, {}) /\ g.held = [h.held EXCEPT ![x] = 0]
    /\ \A y \in Memory : y \notin Extent(x, h.held[x]) => g.mem[y] = h.mem[y]

\* What free_arena does to the memory.
LEMMA GoneIs ==
    ASSUME NEW h \in Heap, NEW x \in Memory
    PROVE  Emptied(h, Wiped([h EXCEPT !.held[x] = 0], Extent(x, h.held[x])), x)
<1> DEFINE b == [h.held EXCEPT ![x] = 0]
           e == [h EXCEPT !.held = b]
           W == Extent(x, h.held[x])
<1>1. b \in [Memory -> Nat]
  BY HeapIs
<1>2. [h EXCEPT !.held[x] = 0] = e
  OBVIOUS
<1> HIDE DEF b, W
<1>3. /\ e \in Heap /\ e.arena = h.arena /\ e.chunk = h.chunk /\ e.small = h.small
      /\ e.medium = h.medium /\ e.runs = h.runs /\ e.held = b /\ e.mem = h.mem
  BY <1>1 DEF Heap
<1> HIDE DEF e
<1> DEFINE m == Wiped(e, W)
<1>4. /\ m \in Heap /\ m.arena = e.arena /\ m.chunk = e.chunk /\ m.small = e.small
      /\ m.medium = e.medium /\ m.runs = e.runs /\ m.held = e.held
      /\ \A y \in Memory : y \notin W => m.mem[y] = e.mem[y]
  BY <1>3, WipedIs
<1> HIDE DEF m
<1>5. Emptied(h, m, x)
  BY <1>3, <1>4 DEF Emptied, b, W
<1> QED BY <1>2, <1>5 DEF m, W

\* A large block goes with its arena.
LEMMA LargeFreed ==
    ASSUME NEW h, Good(h, {}), NEW x \in Memory, OfLarge(h, x), NEW m, Emptied(h, m, x)
    PROVE  Freed(h, delete_arena(m, pos2index(x)), x)
<1> DEFINE i == pos2index(x)
           a == [m.arena EXCEPT ![i] = EMPTY]
           g == [m EXCEPT !.arena = a]
<1>1. h \in Heap /\ m \in Heap
  BY DEF Good, Emptied
<1>2. i \in Index
  BY PosOnto
<1>3. a \in [Index -> Entry]
  BY <1>1, HeapIs, BlankIs
<1>4. delete_arena(m, i) = g
  BY DEF delete_arena
<1> HIDE DEF a
<1>5. /\ g \in Heap /\ g.arena = a /\ g.chunk = m.chunk /\ g.small = m.small /\ g.medium = m.medium
      /\ g.runs = m.runs /\ g.held = m.held /\ g.mem = m.mem
  BY <1>1, <1>3 DEF Heap
<1> HIDE DEF g
<1>6. /\ g.arena = [h.arena EXCEPT ![i] = EMPTY] /\ g.chunk = h.chunk /\ g.small = h.small /\ g.medium = h.medium
      /\ g.runs = h.runs /\ g.held = [h.held EXCEPT ![x] = 0]
      /\ \A y \in Memory : y \notin Extent(x, h.held[x]) => g.mem[y] = h.mem[y]
  BY <1>5 DEF Emptied, a
<1>7. h.arena[i].type = "LARGE" /\ h.arena[i].chunks = {} /\ i # 0 /\ x = Pos(<<i, 0>>, 0, 0)
  BY DEF OfLarge
<1>8. LargeChange(h, g, i, EMPTY)
  <2> HIDE DEF i
  <2> QED BY <1>2, <1>5, <1>6, <1>7, BlankIs DEF LargeChange
<1>9. Good(g, {})
  BY <1>8, LargeStep
<1> QED BY <1>4, <1>6, <1>9 DEF Freed

\* delete_chunk and check_delete_chunk: the chunk leaves its pool and its slot, and its
\* arena goes with the last chunk.
LEMMA ChunkLeft ==
    ASSUME NEW m \in Heap, NEW k \in Chunk, k[2] \in m.arena[k[1]].chunks
    PROVE  LET g == check_delete_chunk(delete_chunk(m, k), k)
           IN  /\ g \in Heap /\ g.chunk = [m.chunk EXCEPT ![k] = Blank]
               /\ g.small = m.small \ {k} /\ g.medium = m.medium \ {k} /\ g.runs = m.runs
               /\ g.held = m.held /\ g.mem = m.mem
               /\ \A i \in Index : i # k[1] => g.arena[i] = m.arena[i]
               /\ IF m.arena[k[1]].chunks = {k[2]} /\ m.arena[k[1]].type # "CONTEXT"
                  THEN g.arena[k[1]] = EMPTY
                  ELSE g.arena[k[1]].type = m.arena[k[1]].type
                       /\ g.arena[k[1]].chunks = m.arena[k[1]].chunks \ {k[2]}
<1> DEFINE j == k[1]
           a == [m.chunk EXCEPT ![k] = Blank]
           d == [m EXCEPT !.chunk = a, !.small = m.small \ {k}, !.medium = m.medium \ {k}]
           e == [m.arena[j] EXCEPT !.chunks = m.arena[j].chunks \ {k[2]}]
           A == [m.arena EXCEPT ![j] = e]
           f == [d EXCEPT !.arena = A]
           B == [m.arena EXCEPT ![j] = EMPTY]
           n == [d EXCEPT !.arena = B]
           g == check_delete_chunk(delete_chunk(m, k), k)
<1>1. /\ m.arena \in [Index -> Entry] /\ m.chunk \in [Chunk -> Header]
      /\ m.small \in SUBSET Chunk /\ m.medium \in SUBSET Chunk
  BY HeapIs
<1>2. j \in Index /\ k[2] \in Slot
  BY ChunkIs
<1>3. a \in [Chunk -> Header]
  BY <1>1, BlankIs
<1>4. delete_chunk(m, k) = d
  BY DEF delete_chunk
<1> HIDE DEF a
<1>5. /\ d \in Heap /\ d.arena = m.arena /\ d.chunk = a /\ d.small = m.small \ {k} /\ d.medium = m.medium \ {k}
      /\ d.runs = m.runs /\ d.held = m.held /\ d.mem = m.mem
  BY <1>1, <1>3 DEF Heap
<1> HIDE DEF d
<1>6. e \in Entry /\ e.type = m.arena[j].type /\ e.chunks = m.arena[j].chunks \ {k[2]}
  <2>1. m.arena[j] \in Entry
    BY <1>1, <1>2
  <2> QED BY <2>1 DEF Entry
<1>7. delete_arena_chunk(d, k) = f
  BY <1>5 DEF delete_arena_chunk
<1> HIDE DEF e
<1>8. A \in [Index -> Entry] /\ A[j] = e /\ \A i \in Index : i # j => A[i] = m.arena[i]
  BY <1>1, <1>2, <1>6
<1>9. B \in [Index -> Entry] /\ B[j] = EMPTY /\ \A i \in Index : i # j => B[i] = m.arena[i]
  BY <1>1, <1>2, BlankIs
<1>10. [A EXCEPT ![j] = EMPTY] = B
  BY <1>1, <1>2, <1>6
<1> HIDE DEF A, B
<1>11. /\ f \in Heap /\ f.arena = A /\ f.chunk = d.chunk /\ f.small = d.small /\ f.medium = d.medium
       /\ f.runs = d.runs /\ f.held = d.held /\ f.mem = d.mem
  BY <1>5, <1>8 DEF Heap
<1>12. /\ n \in Heap /\ n.arena = B /\ n.chunk = d.chunk /\ n.small = d.small /\ n.medium = d.medium
       /\ n.runs = d.runs /\ n.held = d.held /\ n.mem = d.mem
  BY <1>5, <1>9 DEF Heap
<1>13. delete_arena(f, j) = n
  <2>1. delete_arena(f, j) = [f EXCEPT !.arena = [f.arena EXCEPT ![j] = EMPTY]]
    BY DEF delete_arena
  <2>2. [f EXCEPT !.arena = B] = n
    BY <1>5 DEF Heap
  <2> QED BY <1>10, <1>11, <2>1, <2>2
<1>14. g = IF f.arena[j].chunks = {} /\ f.arena[j].type # "CONTEXT" THEN n ELSE f
  BY <1>4, <1>7, <1>13 DEF check_delete_chunk
<1> HIDE DEF g, f, n
<1>15. f.arena[j].type = m.arena[j].type /\ f.arena[j].chunks = m.arena[j].chunks \ {k[2]}
  BY <1>6, <1>8, <1>11
<1>16. f.arena[j].chunks = {} <=> m.arena[j].chunks = {k[2]}
  BY <1>15
<1>17. CASE m.arena[j].chunks = {k[2]} /\ m.arena[j].type # "CONTEXT"
  <2>1. g = n
    BY <1>14, <1>15, <1>16, <1>17
  <2> QED BY <1>5, <1>9, <1>12, <1>17, <2>1 DEF g, a
<1>18. CASE ~ (m.arena[j].chunks = {k[2]} /\ m.arena[j].type # "CONTEXT")
  <2>1. g = f
    BY <1>14, <1>15, <1>16, <1>18
  <2> QED BY <1>5, <1>8, <1>11, <1>15, <1>18, <2>1 DEF g, a
<1> QED BY <1>17, <1>18

\* The only run of the pool.
LEMMA OnlyRun ==
    ASSUME NEW R \in SUBSET (Chunk \X Page), NEW r \in R, Cardinality(R) = 1
    PROVE  R = {r}
<1>1. IsFiniteSet(Index) /\ IsFiniteSet(Slot) /\ IsFiniteSet(Page)
  <2>1. 0 \in Int /\ 1 \in Int /\ ArenaMax - 1 \in Int /\ ArenaChunks - 1 \in Int /\ Units - 1 \in Int
    BY Sizes
  <2>2. IsFiniteSet(0 .. (ArenaMax - 1)) /\ IsFiniteSet(0 .. (ArenaChunks - 1)) /\ IsFiniteSet(1 .. (Units - 1))
    BY <2>1, FS_Interval
  <2> QED BY <2>2 DEF Index, Slot, Page
<1>2. IsFiniteSet(Chunk)
  BY <1>1, FS_Product DEF Chunk
<1>3. IsFiniteSet(Chunk \X Page)
  BY <1>1, <1>2, FS_Product
<1>4. IsFiniteSet(R)
  BY <1>3, FS_Subset
<1>5. \E y : R = {y}
  BY <1>4, FS_Singleton
<1> QED BY <1>5

\* free_chunk_small: the slot is free; the run may go, and the chunk with it.
LEMMA SmallFreed ==
    ASSUME NEW h, Good(h, {}), NEW x \in Memory, OfSmall(h, x), NEW m, Emptied(h, m, x)
    PROVE  Freed(h, free_chunk_small(m, x), x)
<1> DEFINE k == ChunkOf(x)
           p == PageOf(x)
           s == CellOf(x)
           c == h.chunk[k]
           free == c.free[p] \cup {s}
           runs == h.runs \cup {<<k, p>>}
           torn == m.torn \/ (c.free[p] = {} /\ <<k, p>> \in m.linked)
           pages == c.pages \ {p}
           max  == IF c.pages = Page THEN 1 ELSE c.max
           less == [m EXCEPT !.chunk[k] = [@ EXCEPT !.pages = pages, !.free[p] = {},
                                                    !.max = IF m.chunk[k].pages = Page THEN 1
                                                            ELSE m.chunk[k].max],
                             !.runs = runs \ {<<k, p>>}, !.torn = torn]
<1>1. h \in Heap /\ Runs(h)
  BY DEF Good
<1>2. /\ m \in Heap /\ m.arena = h.arena /\ m.chunk = h.chunk /\ m.small = h.small
      /\ m.medium = h.medium /\ m.runs = h.runs /\ m.held = [h.held EXCEPT ![x] = 0]
      /\ \A y \in Memory : y \notin Extent(x, h.held[x]) => m.mem[y] = h.mem[y]
  BY DEF Emptied
<1>3. /\ k \in Chunk /\ There(h, k) /\ p \in Page /\ IsSmall(c) /\ p \in c.pages /\ s \notin c.free[p]
  BY DEF OfSmall, InUse
<1>4. h.chunk \in [Chunk -> Header] /\ h.runs \in SUBSET (Chunk \X Page)
  BY <1>1, HeapIs
<1>5. /\ c \in Header /\ c.free \in [Page -> SUBSET Cell] /\ c.pages \in SUBSET Page /\ c.max \in 0 .. (Units - 1)
      /\ c.unit \in [Page -> 0 .. (Units - 1)]
  BY <1>3, <1>4, HeaderIs
<1>6. p \in 0 .. (Units - 1) /\ s \in Cell /\ x = Pos(k, p, s)
  BY PosOnto
<1>7. free_chunk_small(m, x) =
        IF free # Cell \/ Cardinality(runs) = 1
        THEN [m EXCEPT !.chunk[k].free[p] = free, !.runs = runs, !.torn = torn]
        ELSE IF pages = {} THEN check_delete_chunk(delete_chunk(less, k), k) ELSE less
  <2> DEFINE pool    == IF m.chunk[k].free[p] = {} THEN m.runs \cup {<<k, p>>} ELSE m.runs
             Result(R) ==
               LET gone == [m EXCEPT !.chunk[k] = [@ EXCEPT !.pages = m.chunk[k].pages \ {p}, !.free[p] = {},
                                                     !.max = IF m.chunk[k].pages = Page THEN 1
                                                             ELSE m.chunk[k].max],
                                     !.runs = R \ {<<k, p>>},
                                     !.torn = m.torn \/ (m.chunk[k].free[p] = {} /\ <<k, p>> \in m.linked)]
               IN  IF m.chunk[k].free[p] \cup {s} # Cell \/ Cardinality(R) = 1
                   THEN [m EXCEPT !.chunk[k].free[p] = m.chunk[k].free[p] \cup {s}, !.runs = R,
                                  !.torn = m.torn \/ (m.chunk[k].free[p] = {} /\ <<k, p>> \in m.linked)]
                   ELSE IF m.chunk[k].pages \ {p} = {} THEN check_delete_chunk(delete_chunk(gone, k), k)
                   ELSE gone
  <2>1. pool = runs
    <3>1. c.free[p] # {} => <<k, p>> \in h.runs
      BY <1>1, <1>3 DEF Runs
    <3> QED BY <1>2, <3>1
  <2>2. free_chunk_small(m, x) = Result(pool)
    BY <1>2, <1>3 DEF free_chunk_small
  <2>3. free_chunk_small(m, x) = Result(runs)
    <3> HIDE DEF Result, pool, runs
    <3> QED BY <2>1, <2>2
  <2> QED BY <1>2, <2>3
<1>8. free \in SUBSET Cell /\ free # {} /\ c.free[p] # Cell
  BY <1>3, <1>5, <1>6
<1>9. runs \in SUBSET (Chunk \X Page)
  BY <1>3, <1>4
<1>10. \A l \in Chunk, q \in Page : <<l, q>> \in h.runs <=> q \in h.chunk[l].pages /\ h.chunk[l].free[q] # {}
  BY <1>1 DEF Runs
<1>11. \A q \in Page : c.unit[q] = 0 /\ (q \notin c.pages => c.free[q] = {})
  BY <1>3 DEF IsSmall
<1> DEFINE Still(g) == \A y \in Memory : y \notin Extent(x, h.held[x]) => g.mem[y] = h.mem[y]
<1>14. torn \in BOOLEAN
  BY <1>2, HeapIs
<1> HIDE DEF k, p, s, c, less, torn
<1>12. CASE free # Cell \/ Cardinality(runs) = 1
  <2> DEFINE f == [c.free EXCEPT ![p] = free]
             d == [c EXCEPT !.free = f]
             a == [h.chunk EXCEPT ![k] = d]
             g == [m EXCEPT !.chunk = a, !.runs = runs, !.torn = torn]
  <2>1. free_chunk_small(m, x) = g
    <3>1. free_chunk_small(m, x) = [m EXCEPT !.chunk[k].free[p] = free, !.runs = runs, !.torn = torn]
      BY <1>7, <1>12
    <3> HIDE DEF free, runs
    <3> QED BY <1>2, <3>1 DEF c
  <2>2. f \in [Page -> SUBSET Cell] /\ f[p] = free /\ \A q \in Page : q # p => f[q] = c.free[q]
    BY <1>3, <1>5, <1>8
  <2> HIDE DEF f
  <2>3. d \in Header /\ d.type = c.type /\ d.max = c.max /\ d.pages = c.pages /\ d.free = f /\ d.unit = c.unit
    BY <1>5, <2>2 DEF Header
  <2> HIDE DEF d
  <2>4. a \in [Chunk -> Header] /\ a[k] = d /\ \A l \in Chunk : l # k => a[l] = h.chunk[l]
    BY <1>3, <1>4, <2>3
  <2> HIDE DEF a, runs
  <2>5. /\ g \in Heap /\ g.arena = m.arena /\ g.chunk = a /\ g.small = m.small
        /\ g.medium = m.medium /\ g.runs = runs /\ g.held = m.held /\ g.mem = m.mem
    BY <1>2, <1>9, <1>14, <2>4 DEF Heap
  <2> HIDE DEF g
  <2>6. IsSmall(d) /\ Used(d)
    <3>1. Used(d)
      BY <1>3, <2>3 DEF Used
    <3>2. \A q \in Page : d.unit[q] = 0 /\ (q \notin d.pages => d.free[q] = {})
      BY <1>3, <1>11, <2>2, <2>3
    <3> QED BY <1>3, <2>3, <3>1, <3>2 DEF IsSmall
  <2>7. ASSUME NEW l \in Chunk, NEW q \in Page
        PROVE  <<l, q>> \in g.runs <=> q \in g.chunk[l].pages /\ g.chunk[l].free[q] # {}
    <3>1. CASE l = k /\ q = p
      BY <1>3, <1>8, <2>2, <2>3, <2>4, <2>5, <3>1 DEF runs
    <3>2. CASE ~ (l = k /\ q = p)
      <4>1. <<l, q>> \in runs <=> <<l, q>> \in h.runs
        BY <3>2 DEF runs
      <4>2. g.chunk[l].pages = h.chunk[l].pages /\ g.chunk[l].free[q] = h.chunk[l].free[q]
        BY <2>2, <2>3, <2>4, <2>5, <3>2 DEF c
      <4> QED BY <1>10, <2>5, <4>1, <4>2
    <3> QED BY <3>1, <3>2
  <2>8. ASSUME NEW l \in Chunk, NEW n \in Chunk, NEW q \in Page, NEW t \in Page,
               q \in g.chunk[l].pages, t \in g.chunk[n].pages,
               g.chunk[l].free[q] = Cell, g.chunk[n].free[t] = Cell
        PROVE  l = n /\ q = t
    <3>1. CASE Cardinality(runs) = 1
      <4>1. runs = {<<k, p>>}
        BY <1>9, <3>1, OnlyRun DEF runs
      <4>2. <<l, q>> \in runs /\ <<n, t>> \in runs
        BY <1>6, <2>5, <2>7, <2>8
      <4> QED BY <4>1, <4>2
    <3>2. CASE free # Cell
      <4>1. ASSUME NEW l1 \in Chunk, NEW q1 \in Page, q1 \in g.chunk[l1].pages, g.chunk[l1].free[q1] = Cell
            PROVE  q1 \in h.chunk[l1].pages /\ h.chunk[l1].free[q1] = Cell
        <5>1. ~ (l1 = k /\ q1 = p)
          BY <2>2, <2>3, <2>4, <2>5, <3>2, <4>1
        <5> QED BY <2>2, <2>3, <2>4, <2>5, <4>1, <5>1 DEF c
      <4> QED BY <1>1, <2>8, <4>1 DEF Runs
    <3> QED BY <1>12, <3>1, <3>2
  <2>9. Runs(g)
    BY <2>7, <2>8 DEF Runs
  <2>10. ChunkShare(d, p, s) = 0
    BY <1>3, <2>2, <2>3 DEF ChunkShare
  <2>11. ASSUME NEW q \in 0 .. (Units - 1), NEW t \in Cell, q # p \/ t # s
         PROVE  ChunkShare(d, q, t) = ChunkShare(c, q, t)
    <3>1. q \in c.pages => q \in Page
      BY <1>5
    <3> QED BY <1>3, <2>2, <2>3, <2>11, <3>1 DEF ChunkShare
  <2>12. g.held = [h.held EXCEPT ![Pos(k, p, s)] = ChunkShare(d, p, s)]
    BY <1>2, <1>6, <2>5, <2>10
  <2>13. ChunkChange(h, g, k, d, p, s)
    <3>1. k \in Chunk /\ There(h, k) /\ d \in Header /\ Used(d) /\ IsSmall(h.chunk[k]) /\ IsSmall(d)
      BY <1>3, <2>3, <2>6 DEF c
    <3>2. \A q \in 0 .. (Units - 1), t \in Cell :
            q # p \/ t # s => ChunkShare(d, q, t) = ChunkShare(h.chunk[k], q, t)
      BY <2>11 DEF c
    <3>3. g \in Heap /\ g.arena = h.arena /\ g.chunk = [h.chunk EXCEPT ![k] = d]
          /\ g.small = h.small /\ g.medium = h.medium
      BY <1>2, <2>5 DEF a
    <3> QED BY <1>6, <2>9, <2>12, <3>1, <3>2, <3>3 DEF ChunkChange
  <2>14. Good(g, {} \ {k})
    BY <2>13, ChunkStep
  <2>15. Good(g, {})
    <3>1. {} \ {k} = {}
      OBVIOUS
    <3> QED BY <2>14, <3>1
  <2> QED BY <1>2, <2>1, <2>5, <2>15 DEF Freed
<1>13. CASE ~ (free # Cell \/ Cardinality(runs) = 1)
  <2> DEFINE f == [c.free EXCEPT ![p] = {}]
             d == [c EXCEPT !.pages = pages, !.free = f, !.max = max]
             a == [h.chunk EXCEPT ![k] = d]
             R == runs \ {<<k, p>>}
             g == [m EXCEPT !.chunk = a, !.runs = R, !.torn = torn]
  <2>1. less = g
    BY <1>2 DEF less, c
  <2>2. f \in [Page -> SUBSET Cell] /\ f[p] = {} /\ \A q \in Page : q # p => f[q] = c.free[q]
    BY <1>3, <1>5
  <2> HIDE DEF f
  <2>3. pages \in SUBSET Page /\ max \in 0 .. (Units - 1) /\ max = 1 /\ pages # Page
    <3>1. 1 \in 0 .. (Units - 1)
      BY Sizes
    <3>2. c.pages # Page => c.max = 1
      BY <1>3 DEF IsSmall
    <3> QED BY <1>3, <1>5, <3>1, <3>2
  <2> HIDE DEF max
  <2>4. d \in Header /\ d.type = c.type /\ d.max = 1 /\ d.pages = pages /\ d.free = f /\ d.unit = c.unit
    <3> HIDE DEF pages
    <3> QED BY <1>5, <2>2, <2>3 DEF Header
  <2> HIDE DEF d
  <2>5. a \in [Chunk -> Header] /\ a[k] = d /\ \A l \in Chunk : l # k => a[l] = h.chunk[l]
    BY <1>3, <1>4, <2>4
  <2>6. R \in SUBSET (Chunk \X Page)
    BY <1>9
  <2> HIDE DEF a, R
  <2>7. /\ g \in Heap /\ g.arena = m.arena /\ g.chunk = a /\ g.small = m.small
        /\ g.medium = m.medium /\ g.runs = R /\ g.held = m.held /\ g.mem = m.mem
    BY <1>2, <1>14, <2>5, <2>6 DEF Heap
  <2> HIDE DEF g
  <2>8. ASSUME NEW l \in Chunk, NEW q \in Page
        PROVE  <<l, q>> \in R <=> q \in a[l].pages /\ a[l].free[q] # {}
    <3>1. CASE l = k /\ q = p
      BY <2>2, <2>4, <2>5, <3>1 DEF R
    <3>2. CASE ~ (l = k /\ q = p)
      <4>1. <<l, q>> \in R <=> <<l, q>> \in h.runs
        BY <3>2 DEF R
      <4>2. q \in a[l].pages <=> q \in h.chunk[l].pages
        BY <2>4, <2>5, <3>2 DEF c
      <4>3. a[l].free[q] = h.chunk[l].free[q]
        BY <2>2, <2>4, <2>5, <3>2 DEF c
      <4> QED BY <1>10, <4>1, <4>2, <4>3
    <3> QED BY <3>1, <3>2
  <2>9. ASSUME NEW l \in Chunk, NEW q \in Page, q \in a[l].pages, a[l].free[q] = Cell
        PROVE  q \in h.chunk[l].pages /\ h.chunk[l].free[q] = Cell
    <3>1. CASE l = k
      <4>1. q # p /\ q \in c.pages
        BY <2>4, <2>5, <2>9, <3>1
      <4>2. f[q] = Cell
        BY <2>4, <2>5, <2>9, <3>1
      <4> QED BY <2>2, <3>1, <4>1, <4>2 DEF c
    <3>2. CASE l # k
      BY <2>5, <2>9, <3>2
    <3> QED BY <3>1, <3>2
  <2>10. \A q \in 0 .. (Units - 1), t \in Cell : ChunkShare(d, q, t) =
            IF q = p /\ t = s THEN 0 ELSE ChunkShare(c, q, t)
    <3> SUFFICES ASSUME NEW q \in 0 .. (Units - 1), NEW t \in Cell
                 PROVE  ChunkShare(d, q, t) = IF q = p /\ t = s THEN 0 ELSE ChunkShare(c, q, t)
      OBVIOUS
    <3>1. 0 * PageSlots = 0
      BY Sizes
    <3>2. CASE q = p
      <4>1. ChunkShare(d, q, t) = 0
        BY <1>3, <1>11, <2>4, <3>1, <3>2 DEF ChunkShare
      <4>2. t # s => ChunkShare(c, q, t) = 0
        <5>1. t # s => t \in c.free[p]
          BY <1>13
        <5> QED BY <1>3, <3>2, <5>1 DEF ChunkShare
      <4> QED BY <3>2, <4>1, <4>2
    <3>3. CASE q # p
      <4>1. (q \in d.pages <=> q \in c.pages) /\ d.unit = c.unit
        BY <2>4, <3>3
      <4>2. q \in c.pages => d.free[q] = c.free[q]
        BY <1>5, <2>2, <2>4, <3>3
      <4> QED BY <3>3, <4>1, <4>2 DEF ChunkShare
    <3> QED BY <3>2, <3>3
  <2>11. CASE pages # {}
    <3>1. free_chunk_small(m, x) = g
      BY <1>7, <1>13, <2>1, <2>11
    <3>2. IsSmall(d) /\ Used(d)
      <4>1. Used(d)
        BY <2>4, <2>11 DEF Used
      <4>2. \A q \in Page : d.unit[q] = 0 /\ (q \notin d.pages => d.free[q] = {})
        BY <1>11, <2>2, <2>4
      <4>3. d.type = "SMALL"
        BY <1>3, <2>4 DEF IsSmall
      <4>4. d.pages # Page /\ d.max = 1
        BY <2>3, <2>4
      <4> QED BY <4>1, <4>2, <4>3, <4>4 DEF IsSmall
    <3>3. Runs(g)
      <4>1. ASSUME NEW l \in Chunk, NEW n \in Chunk, NEW q \in Page, NEW t \in Page,
                   q \in a[l].pages, t \in a[n].pages, a[l].free[q] = Cell, a[n].free[t] = Cell
            PROVE  l = n /\ q = t
        BY <1>1, <2>9, <4>1 DEF Runs
      <4> QED BY <2>7, <2>8, <4>1 DEF Runs
    <3>4. g.held = [h.held EXCEPT ![Pos(k, p, s)] = ChunkShare(d, p, s)]
      BY <1>2, <1>6, <2>7, <2>10
    <3>5. ChunkChange(h, g, k, d, p, s)
      <4>1. k \in Chunk /\ There(h, k) /\ d \in Header /\ Used(d) /\ IsSmall(h.chunk[k]) /\ IsSmall(d)
        BY <1>3, <2>4, <3>2 DEF c
      <4>2. \A q \in 0 .. (Units - 1), t \in Cell :
              q # p \/ t # s => ChunkShare(d, q, t) = ChunkShare(h.chunk[k], q, t)
        BY <2>10 DEF c
      <4>3. g \in Heap /\ g.arena = h.arena /\ g.chunk = [h.chunk EXCEPT ![k] = d]
            /\ g.small = h.small /\ g.medium = h.medium
        BY <1>2, <2>7 DEF a
      <4> QED BY <1>6, <3>3, <3>4, <4>1, <4>2, <4>3 DEF ChunkChange
    <3>6. Good(g, {} \ {k})
      BY <3>5, ChunkStep
    <3>7. Good(g, {})
      <4>1. {} \ {k} = {}
        OBVIOUS
      <4> QED BY <3>6, <4>1
    <3> QED BY <1>2, <2>7, <3>1, <3>7 DEF Freed
  <2>12. CASE pages = {}
    <3> DEFINE e == check_delete_chunk(delete_chunk(g, k), k)
    <3>1. free_chunk_small(m, x) = e
      BY <1>7, <1>13, <2>1, <2>12
    <3>2. k[2] \in g.arena[k[1]].chunks
      BY <1>2, <1>3, <2>7 DEF There
    <3>3. /\ e \in Heap /\ e.chunk = [g.chunk EXCEPT ![k] = Blank]
          /\ e.small = g.small \ {k} /\ e.medium = g.medium \ {k} /\ e.runs = g.runs
          /\ e.held = g.held /\ e.mem = g.mem
          /\ \A i \in Index : i # k[1] => e.arena[i] = g.arena[i]
          /\ IF g.arena[k[1]].chunks = {k[2]} /\ g.arena[k[1]].type # "CONTEXT"
             THEN e.arena[k[1]] = EMPTY
             ELSE e.arena[k[1]].type = g.arena[k[1]].type
                  /\ e.arena[k[1]].chunks = g.arena[k[1]].chunks \ {k[2]}
      BY <1>3, <2>7, <3>2, ChunkLeft
    <3> HIDE DEF e
    <3>4. e.chunk = [h.chunk EXCEPT ![k] = Blank]
      <4>1. [a EXCEPT ![k] = Blank] = [h.chunk EXCEPT ![k] = Blank]
        BY <1>3, <1>4, <2>5
      <4> QED BY <2>7, <3>3, <4>1
    <3>5. e.chunk[k] = Blank /\ \A l \in Chunk : l # k => e.chunk[l] = a[l]
      BY <1>3, <1>4, <2>5, <3>4
    <3>6. Runs(e)
      <4>1. ASSUME NEW l \in Chunk, NEW q \in Page
            PROVE  <<l, q>> \in e.runs <=> q \in e.chunk[l].pages /\ e.chunk[l].free[q] # {}
        <5>1. CASE l = k
          BY <2>4, <2>5, <2>7, <2>8, <2>12, <3>3, <3>5, <5>1, BlankIs
        <5>2. CASE l # k
          BY <2>7, <2>8, <3>3, <3>5, <5>2
        <5> QED BY <5>1, <5>2
      <4>2. ASSUME NEW l \in Chunk, NEW n \in Chunk, NEW q \in Page, NEW t \in Page,
                   q \in e.chunk[l].pages, t \in e.chunk[n].pages,
                   e.chunk[l].free[q] = Cell, e.chunk[n].free[t] = Cell
            PROVE  l = n /\ q = t
        <5>1. l # k /\ n # k
          BY <3>5, <4>2, BlankIs
        <5>2. /\ q \in a[l].pages /\ t \in a[n].pages /\ a[l].free[q] = Cell /\ a[n].free[t] = Cell
          BY <3>5, <4>2, <5>1
        <5> QED BY <1>1, <2>9, <5>2 DEF Runs
      <4> QED BY <4>1, <4>2 DEF Runs
    <3>7. \A q \in 0 .. (Units - 1), t \in Cell : q # p \/ t # s => ChunkShare(h.chunk[k], q, t) = 0
      <4>1. 0 * PageSlots = 0
        BY Sizes
      <4>2. ASSUME NEW q \in 0 .. (Units - 1), NEW t \in Cell, q # p \/ t # s
            PROVE  ChunkShare(c, q, t) = 0
        <5>1. CASE q = p
          BY <1>3, <1>13, <4>2, <5>1 DEF ChunkShare
        <5>2. CASE q # p
          BY <1>11, <2>12, <4>1, <5>2 DEF ChunkShare
        <5> QED BY <5>1, <5>2
      <4> QED BY <4>2 DEF c
    <3>8. ChunkLeaves(h, e, k, p, s)
      <4>1. /\ \A i \in Index : i # k[1] => e.arena[i] = h.arena[i]
            /\ IF h.arena[k[1]].chunks = {k[2]} /\ h.arena[k[1]].type # "CONTEXT"
               THEN e.arena[k[1]] = EMPTY
               ELSE e.arena[k[1]].type = h.arena[k[1]].type
                    /\ e.arena[k[1]].chunks = h.arena[k[1]].chunks \ {k[2]}
        BY <1>2, <2>7, <3>3
      <4>2. e.small = h.small \ {k} /\ e.medium = h.medium \ {k} /\ e.held = [h.held EXCEPT ![Pos(k, p, s)] = 0]
        BY <1>2, <1>6, <2>7, <3>3
      <4>3. e \in Heap
        BY <3>3
      <4> QED BY <1>3, <1>6, <3>4, <3>6, <3>7, <4>1, <4>2, <4>3 DEF ChunkLeaves
    <3>9. Good(e, {})
      BY <3>8, ChunkGone
    <3> QED BY <1>2, <2>7, <3>1, <3>3, <3>9 DEF Freed
  <2> QED BY <2>11, <2>12
<1> QED BY <1>12, <1>13

\* free_chunk_medium: the unit joins the free ones; with the last one the chunk goes.
LEMMA MediumFreed ==
    ASSUME NEW h, Good(h, {}), NEW x \in Memory, OfMedium(h, x), NEW m, Emptied(h, m, x)
    PROVE  Freed(h, free_chunk_medium(m, x), x)
<1> DEFINE k == ChunkOf(x)
           p == PageOf(x)
           c == h.chunk[k]
           u == [c.unit EXCEPT ![p] = 0]
           left == [c EXCEPT !.unit = u]
           start == Max({q \in FreeUnits(left) : q <= p})
           size  == FreeSize(left, start)
           max   == IF size >= c.max THEN size ELSE c.max
           d == [c EXCEPT !.unit = u, !.max = max]
           a == [h.chunk EXCEPT ![k] = d]
           g == [m EXCEPT !.chunk = a]
           e == check_delete_chunk(delete_chunk(m, k), k)
<1>1. h \in Heap /\ Runs(h)
  BY DEF Good
<1>2. /\ m \in Heap /\ m.arena = h.arena /\ m.chunk = h.chunk /\ m.small = h.small
      /\ m.medium = h.medium /\ m.runs = h.runs /\ m.held = [h.held EXCEPT ![x] = 0]
      /\ \A y \in Memory : y \notin Extent(x, h.held[x]) => m.mem[y] = h.mem[y]
  BY DEF Emptied
<1>3. /\ k \in Chunk /\ There(h, k) /\ p \in Page /\ IsMedium(c) /\ CellOf(x) = 0 /\ c.unit[p] # 0
  BY DEF OfMedium, InUse
<1>4. h.chunk \in [Chunk -> Header]
  BY <1>1, HeapIs
<1>5. /\ c \in Header /\ c.max \in 0 .. (Units - 1) /\ c.unit \in [Page -> 0 .. (Units - 1)]
  BY <1>3, <1>4, HeaderIs
<1>6. p \in 0 .. (Units - 1) /\ 0 \in Cell /\ x = Pos(k, p, 0)
  BY <1>3, PosOnto
<1>7. free_chunk_medium(m, x) = IF Taken(left) = {} THEN e ELSE g
  BY <1>2, <1>3 DEF free_chunk_medium
<1>8. u \in [Page -> 0 .. (Units - 1)] /\ u[p] = 0 /\ \A q \in Page : q # p => u[q] = c.unit[q]
  BY <1>3, <1>5, Sizes
<1>9. left \in Header /\ left.unit = [c.unit EXCEPT ![p] = 0]
  <2> HIDE DEF u, c
  <2>1. left \in Header /\ left.unit = u
    BY <1>5, <1>8 DEF Header
  <2> QED BY <2>1 DEF u
<1>10. /\ c.type = "MEDIUM" /\ c.max \in Advertised(c) /\ c.pages = {}
       /\ (\A q \in Page : c.free[q] = {}) /\ Apart(c)
  BY <1>3 DEF IsMedium
<1> HIDE DEF k, p, c, left, e
<1>11. Apart(left) /\ max \in Advertised(left)
  BY <1>3, <1>5, <1>9, <1>10, GiveUnit
<1> HIDE DEF max
<1>12. Taken(left) \in SUBSET Page
  BY <1>9, <1>11, TakenIs
<1>13. max \in 0 .. (Units - 1)
  BY <1>11, <1>12, AdvertisedIs
<1>14. left.unit = u
  BY <1>9
<1> HIDE DEF u
<1>15. d \in Header /\ d.unit = u /\ d.max = max /\ d.type = c.type /\ d.pages = c.pages /\ d.free = c.free
  BY <1>5, <1>8, <1>13 DEF Header
<1> HIDE DEF d
<1>16. IsMedium(d)
  <2>1. Apart(d) /\ Advertised(d) = Advertised(left)
    <3>1. d.unit = left.unit
      BY <1>14, <1>15
    <3> QED BY <1>11, <3>1, SameUnits
  <2> QED BY <1>10, <1>11, <1>15, <2>1 DEF IsMedium
<1>17. a \in [Chunk -> Header] /\ a[k] = d /\ \A l \in Chunk : l # k => a[l] = h.chunk[l]
  BY <1>3, <1>4, <1>15
<1>18. ASSUME NEW f, NEW b, f.runs = h.runs, f.chunk = [h.chunk EXCEPT ![k] = b], b \in Header, b.pages = {}
       PROVE  Runs(f)
  <2>1. f.chunk[k] = b /\ \A l \in Chunk : l # k => f.chunk[l] = h.chunk[l]
    BY <1>3, <1>4, <1>18
  <2>2. \A l \in Chunk, q \in Page :
          /\ q \in f.chunk[l].pages <=> q \in h.chunk[l].pages
          /\ q \in f.chunk[l].pages => f.chunk[l].free[q] = h.chunk[l].free[q]
    BY <1>10, <1>18, <2>1 DEF c
  <2>3. \A l \in Chunk, q \in Page : <<l, q>> \in h.runs <=> q \in h.chunk[l].pages /\ h.chunk[l].free[q] # {}
    BY <1>1 DEF Runs
  <2>4. ASSUME NEW l \in Chunk, NEW q \in Page
        PROVE  <<l, q>> \in f.runs <=> q \in f.chunk[l].pages /\ f.chunk[l].free[q] # {}
    <3>1. <<l, q>> \in f.runs <=> <<l, q>> \in h.runs
      BY <1>18
    <3>2. q \in f.chunk[l].pages <=> q \in h.chunk[l].pages
      BY <2>2
    <3>3. q \in f.chunk[l].pages => f.chunk[l].free[q] = h.chunk[l].free[q]
      BY <2>2
    <3>4. <<l, q>> \in h.runs <=> q \in h.chunk[l].pages /\ h.chunk[l].free[q] # {}
      BY <2>3
    <3> QED BY <3>1, <3>2, <3>3, <3>4
  <2>5. ASSUME NEW l \in Chunk, NEW n \in Chunk, NEW q \in Page, NEW t \in Page,
               q \in f.chunk[l].pages, t \in f.chunk[n].pages,
               f.chunk[l].free[q] = Cell, f.chunk[n].free[t] = Cell
        PROVE  l = n /\ q = t
    BY <1>1, <2>2, <2>5 DEF Runs
  <2> QED BY <2>4, <2>5 DEF Runs
<1>19. 0 * PageSlots = 0
  BY Sizes
<1>20. \A q \in 0 .. (Units - 1), t \in Cell :
         q # p \/ t # 0 => ChunkShare(d, q, t) = ChunkShare(c, q, t)
  BY <1>8, <1>10, <1>15 DEF ChunkShare
<1>21. ChunkShare(d, p, 0) = 0
  BY <1>3, <1>8, <1>10, <1>15, <1>19 DEF ChunkShare
<1>22. CASE Taken(left) # {}
  <2>1. free_chunk_medium(m, x) = g
    BY <1>7, <1>22
  <2> HIDE DEF a
  <2>2. /\ g \in Heap /\ g.arena = m.arena /\ g.chunk = a /\ g.small = m.small
        /\ g.medium = m.medium /\ g.runs = m.runs /\ g.held = m.held /\ g.mem = m.mem
    BY <1>2, <1>17 DEF Heap
  <2> HIDE DEF g
  <2>3. Used(d)
    <3>1. PICK y \in Taken(left) : TRUE
      BY <1>22
    <3>2. y \in Page
      BY <1>12, <3>1
    <3>3. PICK q \in Page : q <= y /\ y < q + left.unit[q]
      BY <1>9, <1>11, <3>1, <3>2, TakenIs
    <3>4. left.unit[q] # 0
      BY <3>2, <3>3 DEF Page
    <3> QED BY <1>14, <1>15, <3>4 DEF Used
  <2>4. Runs(g)
    BY <1>2, <1>10, <1>15, <1>18, <2>2 DEF a
  <2>5. ChunkChange(h, g, k, d, p, 0)
    <3>1. k \in Chunk /\ There(h, k) /\ d \in Header /\ Used(d) /\ IsMedium(h.chunk[k]) /\ IsMedium(d)
      BY <1>3, <1>15, <1>16, <2>3 DEF c
    <3>2. \A q \in 0 .. (Units - 1), t \in Cell :
            q # p \/ t # 0 => ChunkShare(d, q, t) = ChunkShare(h.chunk[k], q, t)
      BY <1>20 DEF c
    <3>3. g \in Heap /\ g.arena = h.arena /\ g.chunk = [h.chunk EXCEPT ![k] = d]
          /\ g.small = h.small /\ g.medium = h.medium
      BY <1>2, <2>2 DEF a
    <3>4. g.held = [h.held EXCEPT ![Pos(k, p, 0)] = ChunkShare(d, p, 0)]
      BY <1>2, <1>6, <1>21, <2>2
    <3> QED BY <1>6, <2>4, <3>1, <3>2, <3>3, <3>4 DEF ChunkChange
  <2>6. Good(g, {} \ {k})
    BY <2>5, ChunkStep
  <2>7. Good(g, {})
    <3>1. {} \ {k} = {}
      OBVIOUS
    <3> QED BY <2>6, <3>1
  <2> QED BY <1>2, <2>1, <2>2, <2>7 DEF Freed
<1>23. CASE Taken(left) = {}
  <2>1. free_chunk_medium(m, x) = e
    BY <1>7, <1>23
  <2>2. k[2] \in m.arena[k[1]].chunks
    BY <1>2, <1>3 DEF There
  <2>3. /\ e \in Heap /\ e.chunk = [m.chunk EXCEPT ![k] = Blank]
        /\ e.small = m.small \ {k} /\ e.medium = m.medium \ {k} /\ e.runs = m.runs
        /\ e.held = m.held /\ e.mem = m.mem
        /\ \A i \in Index : i # k[1] => e.arena[i] = m.arena[i]
        /\ IF m.arena[k[1]].chunks = {k[2]} /\ m.arena[k[1]].type # "CONTEXT"
           THEN e.arena[k[1]] = EMPTY
           ELSE e.arena[k[1]].type = m.arena[k[1]].type
                /\ e.arena[k[1]].chunks = m.arena[k[1]].chunks \ {k[2]}
    <3>1. m \in Heap /\ k \in Chunk
      BY <1>2, <1>3
    <3> USE DEF e
    <3> QED BY <2>2, <3>1, ChunkLeft
  <2>4. Runs(e)
    BY <1>2, <1>18, <2>3, BlankIs
  <2>5. \A q \in Page : u[q] = 0
    <3>1. ASSUME NEW q \in Page, u[q] # 0 PROVE FALSE
      <4>1. q \in Nat /\ u[q] \in Nat
        BY <1>8, Sizes DEF Page
      <4>2. q <= q /\ q < q + left.unit[q]
        BY <1>14, <3>1, <4>1
      <4>3. q \in Taken(left)
        BY <1>9, <1>11, <4>2, TakenIs
      <4> QED BY <1>23, <4>3
    <3> QED BY <3>1
  <2>6. \A q \in 0 .. (Units - 1), t \in Cell : q # p \/ t # 0 => ChunkShare(h.chunk[k], q, t) = 0
    <3>1. \A q \in Page : q # p => c.unit[q] = 0
      BY <1>8, <2>5
    <3>2. \A q \in 0 .. (Units - 1), t \in Cell : q # p \/ t # 0 => ChunkShare(c, q, t) = 0
      BY <1>10, <1>19, <3>1 DEF ChunkShare
    <3> QED BY <3>2 DEF c
  <2>7. ChunkLeaves(h, e, k, p, 0)
    <3>1. /\ \A i \in Index : i # k[1] => e.arena[i] = h.arena[i]
          /\ IF h.arena[k[1]].chunks = {k[2]} /\ h.arena[k[1]].type # "CONTEXT"
             THEN e.arena[k[1]] = EMPTY
             ELSE e.arena[k[1]].type = h.arena[k[1]].type
                  /\ e.arena[k[1]].chunks = h.arena[k[1]].chunks \ {k[2]}
      BY <1>2, <2>3
    <3>2. /\ e.small = h.small \ {k} /\ e.medium = h.medium \ {k}
          /\ e.held = [h.held EXCEPT ![Pos(k, p, 0)] = 0] /\ e \in Heap
          /\ e.chunk = [h.chunk EXCEPT ![k] = Blank]
      BY <1>2, <1>6, <2>3
    <3> QED BY <1>3, <1>6, <2>4, <2>6, <3>1, <3>2 DEF ChunkLeaves
  <2>8. Good(e, {})
    BY <2>7, ChunkGone
  <2> QED BY <1>2, <2>1, <2>3, <2>8 DEF Freed
<1> QED BY <1>22, <1>23

\* free_arena gives back a block.
LEMMA BlockFreed ==
    ASSUME NEW h, Good(h, {}), NEW x \in Memory, h.held[x] # 0
    PROVE  Freed(h, free_arena(h, x), x)
<1> DEFINE m == Wiped([h EXCEPT !.held[x] = 0], Extent(x, h.held[x]))
<1>1. h \in Heap
  BY DEF Good
<1>2. Emptied(h, m, x)
  BY <1>1, GoneIs
<1>3. free_arena(h, x) = IF h.arena[pos2index(x)].type = "LARGE" THEN delete_arena(m, pos2index(x))
                         ELSE IF ~InChunk(h, x) THEN h ELSE free_chunk(m, x)
  BY DEF free_arena
<1> HIDE DEF m
<1>4. CASE OfLarge(h, x)
  <2>1. free_arena(h, x) = delete_arena(m, pos2index(x))
    BY <1>3, <1>4 DEF OfLarge
  <2> QED BY <1>2, <1>4, <2>1, LargeFreed
<1>5. CASE OfSmall(h, x)
  <2>1. m.chunk[ChunkOf(x)].type = "SMALL"
    BY <1>2, <1>5 DEF Emptied, OfSmall, IsSmall
  <2>2. free_arena(h, x) = free_chunk_small(m, x)
    BY <1>3, <1>5, <2>1 DEF OfSmall, InUse, free_chunk
  <2> QED BY <1>2, <1>5, <2>2, SmallFreed
<1>6. CASE OfMedium(h, x)
  <2>1. m.chunk[ChunkOf(x)].type = "MEDIUM"
    BY <1>2, <1>6 DEF Emptied, OfMedium, IsMedium
  <2>2. free_arena(h, x) = free_chunk_medium(m, x)
    BY <1>3, <1>6, <2>1 DEF OfMedium, InUse, free_chunk
  <2> QED BY <1>2, <1>6, <2>2, MediumFreed
<1> QED BY <1>4, <1>5, <1>6, HolderIs

\* free_arena refuses a position in a slot without a chunk.
LEMMA Refused ==
    ASSUME NEW h, NEW k \in Chunk, k[2] \notin h.arena[k[1]].chunks, h.arena[k[1]].type # "LARGE"
    PROVE  free_arena(h, Pos(k, 1, 0)) = h
<1>1. 1 \in 0 .. (Units - 1) /\ 0 \in Cell
  BY Sizes
<1> DEFINE x == Pos(k, 1, 0)
<1>2. pos2index(x) = k[1] /\ ChunkOf(x) = k
  BY <1>1, PosIs
<1> HIDE DEF x
<1>3. free_arena(h, x) = h
  BY <1>2 DEF free_arena, InChunk
<1> QED BY <1>3 DEF x
-----------------------------------------------------------------------------
(* The size of a block, and shm_realloc *)

\* check_chunk_medium returns the distance of a unit from itself.
LEMMA NoSize ==
    ASSUME NEW c \in Header, NEW offset
    PROVE  check_chunk_medium(c, offset) = 0
<1> DEFINE p == offset \div PageSlots
           S == {q \in Page : q >= p /\ (c.unit[q] # 0 \/ q \in FreeUnits(c))}
<1>1. check_chunk_medium(c, offset) = IF p \notin Page \/ offset % PageSlots # 0 THEN 0
                                      ELSE IF c.unit[p] = 0 THEN 0 ELSE (Min(S) - p) * PageSlots
  BY DEF check_chunk_medium
<1> HIDE DEF p
<1>2. CASE p \in Page /\ c.unit[p] # 0
  <2>1. p \in Nat /\ p \in S
    BY <1>2 DEF Page
  <2>2. S \in SUBSET Nat
    BY DEF Page
  <2>3. Min(S) \in S /\ Min(S) <= p
    BY <2>1, <2>2, MinIs
  <2>4. Min(S) >= p /\ Min(S) \in Nat
    BY <2>2, <2>3
  <2> HIDE DEF S
  <2>5. Min(S) = p
    BY <2>1, <2>3, <2>4
  <2>6. (p - p) * PageSlots = 0
    BY <2>1, Sizes
  <2> QED BY <1>1, <2>5, <2>6
<1>3. CASE ~ (p \in Page /\ c.unit[p] # 0)
  BY <1>1, <1>3
<1> QED BY <1>2, <1>3

\* check_arena of a block returns its size or nothing.
LEMMA Checked ==
    ASSUME NEW h, Good(h, {}), NEW x \in Memory, h.held[x] # 0
    PROVE  check_arena(h, x) \in {0, h.held[x]}
<1>1. h \in Heap
  BY DEF Good
<1>2. CASE OfLarge(h, x)
  BY <1>2 DEF OfLarge, check_arena
<1>3. CASE OfSmall(h, x)
  <2>1. check_arena(h, x) = check_chunk_small(h.chunk[ChunkOf(x)], pos2offset(x))
    BY <1>3 DEF OfSmall, InUse, IsSmall, check_arena, check_chunk
  <2> QED BY <1>3, <2>1 DEF OfSmall, check_chunk_small
<1>4. CASE OfMedium(h, x)
  <2>1. check_arena(h, x) = check_chunk_medium(h.chunk[ChunkOf(x)], pos2offset(x))
    BY <1>4 DEF OfMedium, InUse, IsMedium, check_arena, check_chunk
  <2>2. h.chunk[ChunkOf(x)] \in Header
    BY <1>1, <1>4, HeapIs DEF OfMedium, InUse
  <2> QED BY <2>1, <2>2, NoSize
<1> QED BY <1>2, <1>3, <1>4, HolderIs

\* Heap g is heap h but for contents or the failure.
Like(h, g) ==
    /\ g \in Heap /\ g.arena = h.arena /\ g.chunk = h.chunk /\ g.small = h.small
    /\ g.medium = h.medium /\ g.runs = h.runs /\ g.held = h.held

\* Neither is of consequence for the heap.
LEMMA LikeGood ==
    ASSUME NEW h, Good(h, {}), NEW g, Like(h, g)
    PROVE  Good(g, {})
<1> USE DEF Like
<1>1. Arenas(h) /\ Chunks(h, {}) /\ Runs(h) /\ Helds(h)
  BY DEF Good
<1>2. Arenas(g)
  BY <1>1 DEF Arenas
<1>3. Chunks(g, {})
  BY <1>1 DEF Chunks, There
<1>4. Runs(g)
  BY <1>1 DEF Runs
<1>5. Helds(g)
  BY <1>1 DEF Helds, Share
<1> QED BY <1>2, <1>3, <1>4, <1>5 DEF Good

\* A heap with other contents at one position.
LEMMA Stored ==
    ASSUME NEW h \in Heap, NEW x \in Memory, NEW v \in {Other, Tag}
    PROVE  LET g == [h EXCEPT !.mem[x] = v]
           IN  Like(h, g) /\ g.mem = [h.mem EXCEPT ![x] = v]
<1> DEFINE m == [h.mem EXCEPT ![x] = v]
           g == [h EXCEPT !.mem = m]
<1>1. m \in [Memory -> {Other, Tag}]
  BY HeapIs
<1> HIDE DEF m
<1>2. Like(h, g) /\ g.mem = m
  BY <1>1 DEF Heap, Like
<1> QED BY <1>2 DEF m

\* A heap after a failed assertion.
LEMMA Failed ==
    ASSUME NEW h \in Heap
    PROVE  LET g == [h EXCEPT !.failed = TRUE]
           IN  Like(h, g) /\ g.mem = h.mem
BY DEF Heap, Like

\* From h to g, the block at x is moved to q and has len positions there, which were
\* free; other blocks keep their contents.
Relocated(h, g, x, q, len) ==
    /\ Good(g, {}) /\ h.held[x] < len /\ len \in Nat /\ q \in Memory
    /\ \A y \in Extent(q, len) : y \in Memory /\ ~ Busy(h, y)
    /\ g.held = [h.held EXCEPT ![x] = 0, ![q] = len] /\ g.mem[q] = h.mem[x]
    /\ \A y \in Memory : Busy(h, y) /\ y \notin Extent(x, h.held[x]) => g.mem[y] = h.mem[y]

\* The contents are copied to the block handed out, and the old block is freed.
LEMMA BlockMoved ==
    ASSUME NEW h, Good(h, {}), NEW x \in Memory, h.held[x] # 0, NEW m, NEW q, NEW len,
           Handed(h, m, q, len), h.held[x] < len
    PROVE  Relocated(h, moved(m, x, q), x, q, len)
<1> DEFINE n == [m EXCEPT !.mem[q] = m.mem[x]]
           g == free_arena(n, x)
<1>1. /\ Good(m, {}) /\ q \in Memory /\ m.held = [h.held EXCEPT ![q] = len] /\ len \in Nat \ {0}
      /\ \A y \in Extent(q, len) : y \in Memory /\ ~ Busy(h, y)
      /\ \A y \in Memory : Busy(h, y) => m.mem[y] = h.mem[y]
  BY DEF Handed
<1>2. m \in Heap /\ h \in Heap
  BY <1>1 DEF Good
<1>3. h.held \in [Memory -> Nat] /\ m.mem \in [Memory -> {Other, Tag}]
  BY <1>2, HeapIs
<1>4. \A y \in Extent(x, h.held[x]) : y \in Memory /\ Busy(h, y)
  BY Covers
<1>5. x \in Extent(x, h.held[x])
  <2>1. x \in Nat
    BY DEF Memory
  <2>2. h.held[x] \in Nat /\ h.held[x] # 0
    BY <1>3
  <2> QED BY <2>1, <2>2 DEF Extent
<1>6. q \in Memory /\ ~ Busy(h, q)
  <2>1. q \in Nat
    BY <1>1 DEF Memory
  <2>2. q \in Extent(q, len)
    BY <1>1, <2>1 DEF Extent
  <2> QED BY <1>1, <2>2
<1>7. q # x /\ q \notin Extent(x, h.held[x])
  BY <1>4, <1>5, <1>6
<1>8. Like(m, n) /\ n.mem = [m.mem EXCEPT ![q] = m.mem[x]]
  BY <1>2, <1>3, <1>6, Stored
<1> HIDE DEF n
<1>9. Good(n, {})
  BY <1>1, <1>8, LikeGood
<1>10. n.held = [h.held EXCEPT ![q] = len] /\ n.held[x] = h.held[x]
  BY <1>1, <1>3, <1>6, <1>7, <1>8 DEF Like
<1>11. Freed(n, g, x)
  BY <1>9, <1>10, BlockFreed
<1>12. moved(m, x, q) = g
  BY DEF moved, n
<1> HIDE DEF g
<1>13. /\ Good(g, {}) /\ g.held = [n.held EXCEPT ![x] = 0]
       /\ \A y \in Memory : y \notin Extent(x, h.held[x]) => g.mem[y] = n.mem[y]
  BY <1>10, <1>11 DEF Freed
<1>14. g.held = [h.held EXCEPT ![x] = 0, ![q] = len]
  BY <1>3, <1>6, <1>7, <1>10, <1>13
<1>15. g.mem[q] = h.mem[x]
  <2>1. g.mem[q] = n.mem[q]
    BY <1>6, <1>7, <1>13
  <2>2. n.mem[q] = m.mem[x]
    BY <1>3, <1>6, <1>8
  <2>3. m.mem[x] = h.mem[x]
    BY <1>1, <1>4, <1>5
  <2> QED BY <2>1, <2>2, <2>3
<1>16. ASSUME NEW y \in Memory, Busy(h, y), y \notin Extent(x, h.held[x])
       PROVE  g.mem[y] = h.mem[y]
  <2>1. y # q
    BY <1>6, <1>16
  <2>2. g.mem[y] = n.mem[y]
    BY <1>13, <1>16
  <2>3. n.mem[y] = m.mem[y]
    BY <1>3, <1>8, <2>1
  <2>4. m.mem[y] = h.mem[y]
    BY <1>1, <1>16
  <2> QED BY <2>2, <2>3, <2>4
<1> QED BY <1>1, <1>12, <1>13, <1>14, <1>15, <1>16 DEF Relocated

\* shm_realloc of a block: nothing changes, an assertion fails, or the block is moved
\* to one as long as was asked for.
LEMMA Realloced ==
    ASSUME NEW h, Good(h, {}), NEW x \in Memory, h.held[x] # 0, NEW size \in Requests,
           NEW o \in realloc(h, x, size)
    PROVE  \/ o.heap = h \/ o.heap = [h EXCEPT !.failed = TRUE]
           \/ \E q, len : size <= len /\ Relocated(h, o.heap, x, q, len)
<1> DEFINE checksize == check_arena(h, x)
<1>1. checksize \in {0, h.held[x]}
  BY Checked
<1>2. h.held[x] \in Nat /\ size \in Nat
  BY AllocatorAssumption, HeapIs DEF Good
<1>3. CASE size <= checksize \/ checksize = 0
  BY <1>3 DEF realloc
<1>4. CASE ~ (size <= checksize \/ checksize = 0)
  <2>1. PICK n \in malloc_arena(h, size) :
          o = IF n.pos = SHM_NULL THEN n ELSE [n EXCEPT !.heap = moved(n.heap, x, n.pos)]
    BY <1>4 DEF realloc
  <2>2. Answered(h, n, size)
    BY <2>1, Malloced
  <2>3. CASE n.pos = SHM_NULL
    BY <2>1, <2>2, <2>3 DEF Answered
  <2>4. CASE n.pos # SHM_NULL
    <3>1. PICK len \in Nat : size <= len /\ Handed(h, n.heap, n.pos, len)
      BY <2>2, <2>4 DEF Answered
    <3>2. h.held[x] < len
      BY <1>1, <1>2, <1>4, <3>1
    <3>3. Relocated(h, moved(n.heap, x, n.pos), x, n.pos, len)
      BY <3>1, <3>2, BlockMoved
    <3>4. o.heap = moved(n.heap, x, n.pos)
      BY <2>1, <2>4
    <3> QED BY <3>1, <3>3, <3>4
  <2> QED BY <2>3, <2>4
<1> QED BY <1>3, <1>4
-----------------------------------------------------------------------------
(* What a good heap shows *)

\* PoolsTrue.
LEMMA GoodPools ==
    ASSUME IInv
    PROVE  PoolsTrue
<1> DEFINE S == {r \in Chunk \X Page : /\ r[1] \in heap.small /\ r[2] \in heap.chunk[r[1]].pages
                                      /\ heap.chunk[r[1]].free[r[2]] # {}}
<1>1. Good(heap, {})
  BY DEF IInv
<1>2. heap \in Heap /\ Runs(heap) /\ Chunks(heap, {})
  BY <1>1 DEF Good
<1>3. heap.runs \in SUBSET (Chunk \X Page) /\ heap.small \in SUBSET Chunk /\ heap.medium \in SUBSET Chunk
  BY <1>2, HeapIs
<1>4. ASSUME NEW r \in Chunk \X Page PROVE r \in heap.runs <=> r \in S
  <2>1. r[1] \in Chunk /\ r[2] \in Page /\ r = <<r[1], r[2]>>
    OBVIOUS
  <2>2. <<r[1], r[2]>> \in heap.runs <=> r[2] \in heap.chunk[r[1]].pages /\ heap.chunk[r[1]].free[r[2]] # {}
    BY <1>2, <2>1 DEF Runs
  <2>3. r[2] \in heap.chunk[r[1]].pages => r[1] \in heap.small
    BY <1>1, <2>1, RunIs
  <2> QED BY <2>1, <2>2, <2>3
<1>5. heap.runs = S
  <2>1. S \in SUBSET (Chunk \X Page)
    OBVIOUS
  <2> HIDE DEF S
  <2> QED BY <1>3, <1>4, <2>1
<1>6. \A k \in heap.small : heap.chunk[k].max = IF heap.chunk[k].pages = Page THEN 0 ELSE 1
  BY <1>1, <1>3, RunIs DEF IsSmall
<1>7. \A k \in heap.medium : heap.chunk[k].max \in Advertised(heap.chunk[k])
  BY <1>1, <1>3, UnitsAre DEF IsMedium
<1> QED BY <1>5, <1>6, <1>7 DEF PoolsTrue

\* CopyFits.
LEMMA GoodCopies ==
    ASSUME IInv
    PROVE  CopyFits
BY Checked DEF IInv, CopyFits, Live

\* What the header of a chunk says is held is held.
LEMMA ShareHeld ==
    ASSUME NEW h, Good(h, {}), NEW k \in Chunk, There(h, k), NEW p \in 0 .. (Units - 1), NEW s \in Cell
    PROVE  LET x == Pos(k, p, s)
           IN  x \in Memory /\ ChunkOf(x) = k /\ h.held[x] = ChunkShare(h.chunk[k], p, s)
<1> DEFINE x == Pos(k, p, s)
<1>1. /\ x \in Memory /\ ChunkOf(x) = k /\ PageOf(x) = p /\ CellOf(x) = s /\ pos2index(x) = k[1]
  BY PosIs
<1>2. h.arena[k[1]].type # "LARGE"
  BY NotLarge
<1> HIDE DEF x
<1>3. h.held[x] = Share(h, x)
  BY <1>1 DEF Good, Helds
<1>4. h.held[x] = ChunkShare(h.chunk[k], p, s)
  BY <1>1, <1>2, <1>3 DEF Share
<1> QED BY <1>1, <1>4 DEF x

\* A chunk is there for a block in it or for the empty run of the pool.
LEMMA ThereFor ==
    ASSUME NEW h, Good(h, {}), NEW k \in Chunk, There(h, k)
    PROVE  \/ \E x \in Live(h) : ChunkOf(x) = k
           \/ \E p \in Page : /\ h.chunk[k].pages = {p}
                              /\ {r \in h.runs : h.chunk[r[1]].free[r[2]] = Cell} = {<<k, p>>}
<1> DEFINE c == h.chunk[k]
           Empty == {r \in h.runs : h.chunk[r[1]].free[r[2]] = Cell}
<1>1. h \in Heap /\ Chunks(h, {}) /\ Runs(h)
  BY DEF Good
<1>2. Used(c)
  BY <1>1 DEF Chunks
<1>3. /\ c \in Header /\ c.pages \in SUBSET Page /\ c.free \in [Page -> SUBSET Cell]
      /\ c.unit \in [Page -> 0 .. (Units - 1)]
  <2>1. c \in Header
    BY <1>1, HeapIs
  <2> QED BY <2>1, HeaderIs
<1>4. ASSUME NEW p \in 0 .. (Units - 1), NEW s \in Cell, ChunkShare(c, p, s) # 0
      PROVE  \E x \in Live(h) : ChunkOf(x) = k
  <2> DEFINE x == Pos(k, p, s)
  <2>1. x \in Memory /\ ChunkOf(x) = k /\ h.held[x] = ChunkShare(c, p, s)
    BY ShareHeld
  <2> HIDE DEF x
  <2>2. x \in Live(h)
    BY <1>4, <2>1 DEF Live
  <2> QED BY <2>1, <2>2
<1>5. \A p \in Page : p \in 0 .. (Units - 1)
  BY Sizes DEF Page
<1>6. CASE c.pages = {}
  <2>1. PICK p \in Page : c.unit[p] # 0
    BY <1>2, <1>6 DEF Used
  <2>2. c.unit[p] \in Nat
    BY <1>3, <2>1, Sizes
  <2>3. c.unit[p] * PageSlots # 0
    BY <2>1, <2>2, Sizes
  <2>4. ChunkShare(c, p, 0) # 0
    BY <1>6, <2>3 DEF ChunkShare
  <2> QED BY <1>4, <1>5, <2>4, Sizes
<1>7. CASE \E p \in c.pages : c.free[p] # Cell
  <2>1. PICK p \in c.pages : c.free[p] # Cell
    BY <1>7
  <2>2. PICK s \in Cell : s \notin c.free[p]
    BY <1>3, <2>1
  <2>3. ChunkShare(c, p, s) # 0
    BY <2>1, <2>2 DEF ChunkShare
  <2> QED BY <1>3, <1>4, <1>5, <2>3
<1>8. CASE c.pages # {} /\ \A p \in c.pages : c.free[p] = Cell
  <2>1. PICK p \in c.pages : TRUE
    BY <1>8
  <2>2. p \in Page /\ c.free[p] = Cell
    BY <1>3, <1>8, <2>1
  <2>3. ASSUME NEW l \in Chunk, NEW q \in Page, q \in h.chunk[l].pages, h.chunk[l].free[q] = Cell
        PROVE  l = k /\ q = p
    BY <1>1, <2>1, <2>2, <2>3 DEF Runs
  <2>4. c.pages = {p}
    BY <1>3, <1>8, <2>1, <2>3
  <2>5. Cell # {}
    BY Sizes
  <2>6. <<k, p>> \in h.runs
    BY <1>1, <2>1, <2>2, <2>5 DEF Runs
  <2>7. <<k, p>> \in Empty
    BY <2>2, <2>6
  <2>8. ASSUME NEW r \in Empty PROVE r = <<k, p>>
    <3>1. r \in h.runs /\ h.chunk[r[1]].free[r[2]] = Cell
      OBVIOUS
    <3>2. r[1] \in Chunk /\ r[2] \in Page /\ r = <<r[1], r[2]>>
      BY <1>1, <3>1, HeapIs
    <3>3. r[2] \in h.chunk[r[1]].pages
      BY <1>1, <3>1, <3>2 DEF Runs
    <3>4. r[1] = k /\ r[2] = p
      BY <2>3, <3>1, <3>2, <3>3
    <3> QED BY <3>2, <3>4
  <2>9. Empty = {<<k, p>>}
    <3> HIDE DEF Empty
    <3> QED BY <2>7, <2>8
  <2> QED BY <2>2, <2>4, <2>9
<1> QED BY <1>6, <1>7, <1>8

\* ChunksInUse.
LEMMA GoodChunks ==
    ASSUME IInv
    PROVE  ChunksInUse
<1> DEFINE Empty == {r \in heap.runs : heap.chunk[r[1]].free[r[2]] = Cell}
           Mine(k) == {x \in Live(heap) : ChunkOf(x) = k}
<1>1. Good(heap, {})
  BY DEF IInv
<1>2. heap \in Heap /\ Arenas(heap) /\ Chunks(heap, {})
  BY <1>1 DEF Good
<1>3. ASSUME NEW x \in Live(heap)
      PROVE  x \in Memory /\ heap.held[x] # 0 /\ (OfLarge(heap, x) \/ InUse(heap, x))
             /\ ChunkOf(x)[1] = pos2index(x)
  <2>1. x \in Memory /\ heap.held[x] # 0
    BY DEF Live
  <2>2. OfLarge(heap, x) \/ OfSmall(heap, x) \/ OfMedium(heap, x)
    BY <1>1, <2>1, HolderIs
  <2>3. ChunkOf(x)[1] = pos2index(x)
    BY <2>1, PosOnto
  <2> QED BY <2>1, <2>2, <2>3 DEF OfSmall, OfMedium
<1>4. ASSUME NEW k \in Chunk, k # <<0, 0>>, k[2] \in heap.arena[k[1]].chunks
      PROVE  /\ heap.chunk[k].type = "SMALL"  <=> k \in heap.small
             /\ heap.chunk[k].type = "MEDIUM" <=> k \in heap.medium
             /\ Mine(k) # {} \/ \E p \in Page : heap.chunk[k].pages = {p} /\ Empty = {<<k, p>>}
  <2>1. There(heap, k)
    BY <1>4 DEF There
  <2>2. \/ k \in heap.small /\ k \notin heap.medium /\ IsSmall(heap.chunk[k])
        \/ k \notin heap.small /\ k \in heap.medium /\ IsMedium(heap.chunk[k])
    BY <1>2, <2>1 DEF Chunks
  <2>3. \/ \E x \in Live(heap) : ChunkOf(x) = k
        \/ \E p \in Page : heap.chunk[k].pages = {p} /\ Empty = {<<k, p>>}
    BY <1>1, <2>1, ThereFor
  <2>4. /\ heap.chunk[k].type = "SMALL"  <=> k \in heap.small
        /\ heap.chunk[k].type = "MEDIUM" <=> k \in heap.medium
    BY <2>2 DEF IsSmall, IsMedium
  <2> HIDE DEF Empty
  <2> QED BY <2>3, <2>4
<1>5. ASSUME NEW k \in Chunk, k # <<0, 0>>, k[2] \notin heap.arena[k[1]].chunks
      PROVE  /\ heap.chunk[k].type = "EMPTY" /\ k \notin heap.small \cup heap.medium
             /\ Mine(k) # {} => heap.arena[k[1]].type = "LARGE"
  <2>1. ~ There(heap, k)
    BY <1>5 DEF There
  <2>2. k \notin heap.small /\ k \notin heap.medium /\ heap.chunk[k] = Blank
    BY <1>2, <2>1 DEF Chunks
  <2>3. ASSUME NEW x \in Live(heap), ChunkOf(x) = k PROVE heap.arena[k[1]].type = "LARGE"
    <3>1. OfLarge(heap, x) /\ pos2index(x) = k[1]
      BY <1>3, <2>1, <2>3 DEF InUse
    <3> QED BY <3>1 DEF OfLarge
  <2> QED BY <2>2, <2>3, BlankIs
<1>6. ASSUME NEW i \in Index, i # 0
      PROVE  /\ heap.arena[i].type = "EMPTY" => \A x \in Live(heap) : pos2index(x) # i
             /\ heap.arena[i].type = "CHUNK" => heap.arena[i].chunks # {}
             /\ heap.arena[i].type # "EMPTY" /\ heap.arena[i].type # "CHUNK"
                  => {x \in Live(heap) : pos2index(x) = i} = {Pos(<<i, 0>>, 0, 0)}
  <2>1. \/ heap.arena[i] = EMPTY
        \/ heap.arena[i].type = "CHUNK" /\ heap.arena[i].chunks # {}
        \/ heap.arena[i].type = "LARGE" /\ heap.arena[i].chunks = {} /\ heap.arena[i].size \in 1 .. ArenaSpan
    BY <1>2, <1>6 DEF Arenas
  <2>2. CASE heap.arena[i] = EMPTY
    <3>1. heap.arena[i].type = "EMPTY" /\ heap.arena[i].chunks = {}
      BY <2>2, BlankIs
    <3>2. ASSUME NEW x \in Live(heap), pos2index(x) = i PROVE FALSE
      <4>1. ~ OfLarge(heap, x)
        BY <3>1, <3>2 DEF OfLarge
      <4>2. InChunk(heap, x)
        BY <1>3, <4>1 DEF InUse
      <4> QED BY <3>1, <3>2, <4>2 DEF InChunk
    <3> QED BY <3>1, <3>2
  <2>3. CASE heap.arena[i].type = "CHUNK" /\ heap.arena[i].chunks # {}
    BY <2>3
  <2>4. CASE heap.arena[i].type = "LARGE" /\ heap.arena[i].chunks = {} /\ heap.arena[i].size \in 1 .. ArenaSpan
    <3> DEFINE z == Pos(<<i, 0>>, 0, 0)
               L == {x \in Live(heap) : pos2index(x) = i}
    <3>1. <<i, 0>> \in Chunk /\ <<i, 0>>[1] = i /\ 0 \in 0 .. (Units - 1) /\ 0 \in Cell
      BY <1>6, ChunkIs, Sizes
    <3>2. z \in Memory /\ pos2index(z) = i
      BY <3>1, PosIs
    <3>3. heap.held[z] = Share(heap, z)
      BY <1>1, <3>2 DEF Good, Helds
    <3>4. Share(heap, z) = heap.arena[i].size
      BY <2>4, <3>2 DEF Share
    <3>5. heap.arena[i].size # 0
      BY <2>4, Sizes
    <3>6. z \in L
      BY <3>2, <3>3, <3>4, <3>5 DEF Live
    <3>7. ASSUME NEW x \in L PROVE x = z
      <4>1. x \in Live(heap) /\ pos2index(x) = i
        OBVIOUS
      <4>2. OfLarge(heap, x)
        BY <1>3, <2>4, <4>1 DEF InUse
      <4> QED BY <4>1, <4>2 DEF OfLarge
    <3>8. L = {z}
      <4> HIDE DEF L, z
      <4> QED BY <3>6, <3>7
    <3> QED BY <2>4, <3>8
  <2> QED BY <2>1, <2>2, <2>3, <2>4
<1>7. \A i \in Index \ {0} :
        CASE heap.arena[i].type = "EMPTY" -> \A x \in Live(heap) : pos2index(x) # i
          [] heap.arena[i].type = "CHUNK" -> heap.arena[i].chunks # {}
          [] OTHER -> {x \in Live(heap) : pos2index(x) = i} = {Pos(<<i, 0>>, 0, 0)}
  BY <1>6
<1>8. \A k \in Chunk \ {<<0, 0>>} :
        IF k[2] \in heap.arena[k[1]].chunks
        THEN /\ heap.chunk[k].type = "SMALL"  <=> k \in heap.small
             /\ heap.chunk[k].type = "MEDIUM" <=> k \in heap.medium
             /\ Mine(k) # {} \/ \E p \in Page : heap.chunk[k].pages = {p} /\ Empty = {<<k, p>>}
        ELSE /\ heap.chunk[k].type = "EMPTY" /\ k \notin heap.small \cup heap.medium
             /\ Mine(k) # {} => heap.arena[k[1]].type = "LARGE"
  <2> HIDE DEF Mine, Empty
  <2> QED BY <1>4, <1>5
<1> QED BY <1>7, <1>8 DEF ChunksInUse
-----------------------------------------------------------------------------
(* Init and the steps *)

\* Init => IInv: the heap at the start.
LEMMA InitGood ==
    ASSUME Init
    PROVE  IInv
<1> DEFINE e == [type |-> "CONTEXT", size |-> ArenaChunks * ChunkSize, chunks |-> {0}]
           A == [i \in Index |-> IF i # 0 THEN EMPTY ELSE e]
           C == [k \in Chunk |-> Blank]
           b == [x \in Memory |-> 0]
           v == [x \in Memory |-> Other]
<1>1. heap = [arena |-> A, chunk |-> C, small |-> {}, medium |-> {}, runs |-> {},
              linked |-> {}, torn |-> FALSE, held |-> b, mem |-> v, failed |-> FALSE]
  BY DEF Init
<1>2. e \in Entry /\ e.type = "CONTEXT" /\ e.chunks = {0}
  <2>1. ArenaChunks * ChunkSize \in Nat
    BY Sizes
  <2> QED BY <2>1, Sizes DEF Entry
<1> HIDE DEF e
<1>3. A \in [Index -> Entry] /\ A[0] = e /\ \A i \in Index : i # 0 => A[i] = EMPTY
  BY <1>2, BlankIs, Sizes
<1>4. C \in [Chunk -> Header] /\ \A k \in Chunk : C[k] = Blank
  BY BlankIs
<1>5. b \in [Memory -> Nat] /\ v \in [Memory -> {Other, Tag}] /\ \A x \in Memory : b[x] = 0
  OBVIOUS
<1> HIDE DEF A, C, b, v
<1>6. /\ heap \in Heap /\ heap.arena = A /\ heap.chunk = C /\ heap.small = {} /\ heap.medium = {}
      /\ heap.runs = {} /\ heap.held = b
  BY <1>1, <1>3, <1>4, <1>5 DEF Heap
<1>7. Arenas(heap)
  BY <1>2, <1>3, <1>6 DEF Arenas
<1>8. \A k \in Chunk : ~ There(heap, k)
  <2> SUFFICES ASSUME NEW k \in Chunk, k # <<0, 0>>, k[2] \in A[k[1]].chunks PROVE FALSE
    BY <1>6 DEF There
  <2>1. k[1] \in Index /\ k = <<k[1], k[2]>>
    BY ChunkIs
  <2>2. CASE k[1] = 0
    <3>1. k[2] = 0
      BY <1>2, <1>3, <2>2
    <3> QED BY <2>1, <2>2, <3>1
  <2>3. CASE k[1] # 0
    BY <1>3, <2>1, <2>3, BlankIs
  <2> QED BY <2>2, <2>3
<1>9. Chunks(heap, {})
  BY <1>4, <1>6, <1>8 DEF Chunks
<1>10. Runs(heap)
  BY <1>4, <1>6, BlankIs DEF Runs
<1>11. Helds(heap)
  <2> SUFFICES ASSUME NEW x \in Memory PROVE Share(heap, x) = 0
    BY <1>5, <1>6 DEF Helds
  <2>1. pos2index(x) \in Index
    BY PosOnto
  <2>2. heap.arena[pos2index(x)].type # "LARGE"
    BY <1>2, <1>3, <1>6, <2>1, BlankIs
  <2> QED BY <1>4, <1>6, <2>2, BlankIs DEF Share
<1> QED BY <1>6, <1>7, <1>9, <1>10, <1>11 DEF Good, IInv

\* What a step does: nothing that callers see, a store to a block, or a block that is
\* given out, given back or moved.
Steps(h, g) ==
    \/ Like(h, g) /\ g.mem = h.mem
    \/ \E x \in Live(h) : Like(h, g) /\ g.mem = [h.mem EXCEPT ![x] = Tag] /\ h.mem[x] = Other
    \/ \E x, len : Handed(h, g, x, len)
    \/ \E x \in Live(h) : Freed(h, g, x)
    \/ \E x \in Live(h) : \E q, len : Relocated(h, g, x, q, len)

\* The calls do no more.
LEMMA NextIs ==
    ASSUME IInv, Next
    PROVE  Steps(heap, heap')
<1>1. Good(heap, {}) /\ heap \in Heap
  BY DEF IInv, Good
<1>2. Like(heap, heap)
  BY <1>1 DEF Like
<1>3. \A x \in Live(heap) : x \in Memory /\ heap.held[x] # 0
  BY DEF Live
<1>4. ASSUME heap' = heap \/ heap' = [heap EXCEPT !.failed = TRUE]
      PROVE  Like(heap, heap') /\ heap'.mem = heap.mem
  BY <1>1, <1>2, <1>4, Failed
<1>5. ASSUME NEW size \in Requests, shm_malloc(size)
      PROVE  Steps(heap, heap')
  <2>1. PICK o \in malloc_arena(heap, size) : heap' = o.heap
    BY <1>5 DEF shm_malloc
  <2>2. Answered(heap, o, size)
    BY <1>1, <2>1, Malloced
  <2>3. CASE heap' = heap \/ heap' = [heap EXCEPT !.failed = TRUE]
    BY <1>4, <2>3 DEF Steps
  <2>4. CASE \E len \in Nat : Handed(heap, o.heap, o.pos, len)
    BY <2>1, <2>4 DEF Steps
  <2> QED BY <2>1, <2>2, <2>3, <2>4 DEF Answered
<1>6. ASSUME NEW x \in Live(heap), shm_free(x)
      PROVE  Steps(heap, heap')
  <2>1. Freed(heap, heap', x)
    BY <1>1, <1>3, <1>6, BlockFreed DEF shm_free
  <2> QED BY <2>1 DEF Steps
<1>7. ASSUME NEW x \in Live(heap), Write(x)
      PROVE  Steps(heap, heap')
  <2>1. heap.mem[x] = Other /\ heap' = [heap EXCEPT !.mem[x] = Tag]
    BY <1>3, <1>7 DEF Write
  <2>2. Like(heap, heap') /\ heap'.mem = [heap.mem EXCEPT ![x] = Tag]
    BY <1>1, <1>3, <2>1, Stored
  <2> QED BY <2>1, <2>2 DEF Steps
<1>8. ASSUME NEW x \in Live(heap), NEW size \in Requests, shm_realloc(x, size)
      PROVE  Steps(heap, heap')
  <2>1. PICK o \in realloc(heap, x, size) : heap' = o.heap
    BY <1>8 DEF shm_realloc
  <2>2. \/ o.heap = heap \/ o.heap = [heap EXCEPT !.failed = TRUE]
        \/ \E q, len : size <= len /\ Relocated(heap, o.heap, x, q, len)
    BY <1>1, <1>3, <2>1, Realloced
  <2>3. CASE heap' = heap \/ heap' = [heap EXCEPT !.failed = TRUE]
    BY <1>4, <2>3 DEF Steps
  <2>4. CASE \E q, len : Relocated(heap, heap', x, q, len)
    BY <2>4 DEF Steps
  <2> QED BY <2>1, <2>2, <2>3, <2>4
<1>9. ASSUME NEW k \in Chunk, k[2] \notin heap.arena[k[1]].chunks,
             heap.arena[k[1]].type # "LARGE", shm_free(Pos(k, 1, 0))
      PROVE  Steps(heap, heap')
  <2>1. heap' = heap
    BY <1>9, Refused DEF shm_free
  <2> QED BY <1>4, <2>1 DEF Steps
<1> QED BY <1>5, <1>6, <1>7, <1>8, <1>9 DEF Next

\* The steps keep the heap good, up to the one that pushes a run with old links.
LEMMA NextGood ==
    ASSUME ~heap.torn => IInv, [Next]_heap
    PROVE  (~heap.torn => IInv)'
<1>1. CASE heap' = heap
  BY <1>1 DEF IInv
<1>2. CASE Next
  <2>1. IInv
    BY <1>2 DEF Next
  <2>2. Steps(heap, heap')
    BY <1>2, <2>1, NextIs
  <2>3. ASSUME Like(heap, heap') PROVE Good(heap', {})
    BY <2>1, <2>3, LikeGood DEF IInv
  <2>4. Good(heap', {})
    BY <2>2, <2>3 DEF Steps, Handed, Freed, Relocated
  <2> QED BY <2>4 DEF IInv
<1> QED BY <1>1, <1>2

-----------------------------------------------------------------------------
(* The theorems *)

\* Until a run is pushed with old links, the table, the headers, the pools and the
\* blocks held agree in every state.
THEOREM HeapThm == Spec => [](~heap.torn => IInv)
<1>1. Init => (~heap.torn => IInv)
  BY InitGood
<1>2. (~heap.torn => IInv) /\ [Next]_heap => (~heap.torn => IInv)'
  BY NextGood
<1> QED BY <1>1, <1>2, PTL DEF Spec

\* Until a run is pushed with old links, a slot is taken by a chunk in the pool of its
\* type, and the chunk and its arena are there for a block or for the empty run of the
\* pool.
THEOREM ChunksInUseThm == Spec => []ChunksInUse
<1>1. (~heap.torn => IInv) => ChunksInUse
  <2>1. CASE heap.torn
    BY <2>1 DEF ChunksInUse
  <2>2. CASE IInv
    BY <2>2, GoodChunks
  <2> QED BY <2>1, <2>2
<1> QED BY <1>1, HeapThm, PTL

\* What the pools offer is there, until a run is pushed with old links.
THEOREM PoolsTrueThm == Spec => []PoolsTrue
<1>1. (~heap.torn => IInv) => PoolsTrue
  <2>1. CASE heap.torn
    BY <2>1 DEF PoolsTrue
  <2>2. CASE IInv
    BY <2>2, GoodPools
  <2> QED BY <2>1, <2>2
<1> QED BY <1>1, HeapThm, PTL

\* check_arena says nothing or the truth about every block, until a run is pushed with
\* old links.
THEOREM CopyFitsThm == Spec => []CopyFits
<1>1. (~heap.torn => IInv) => CopyFits
  <2>1. CASE heap.torn
    BY <2>1 DEF CopyFits
  <2>2. CASE IInv
    BY <2>2, GoodCopies
  <2> QED BY <2>1, <2>2
<1> QED BY <1>1, HeapThm, PTL
-----------------------------------------------------------------------------
(* The refinement of BlockHeap *)

\* The positions of BlockHeap are those of the allocator.
LEMMA BlocksAre ==
    /\ Blocks!Page = Memory /\ (\A x, len : Blocks!Extent(x, len) = Extent(x, len))
    /\ Blocks!Live = Live(heap)
BY DEF Blocks!Page, Memory, Blocks!Extent, Extent, Blocks!Live, Live

\* A block is busy where it starts, and only there is a block that starts there.
LEMMA LiveBusy ==
    ASSUME NEW h, Good(h, {}), NEW x \in Live(h)
    PROVE  x \in Memory /\ h.held[x] # 0 /\ x \in Extent(x, h.held[x]) /\ Busy(h, x)
<1>1. x \in Memory /\ h.held[x] # 0
  BY DEF Live
<1>2. x \in Nat
  BY <1>1 DEF Memory
<1>3. h.held[x] \in Nat
  BY <1>1, HeapIs DEF Good
<1>4. x \in Extent(x, h.held[x])
  BY <1>1, <1>2, <1>3 DEF Extent
<1> QED BY <1>1, <1>4, Covers

\* Two blocks do not overlap.
LEMMA LiveApart ==
    ASSUME NEW h, Good(h, {}), NEW x \in Live(h), NEW y \in Live(h), y # x
    PROVE  y \notin Extent(x, h.held[x])
<1> SUFFICES ASSUME y \in Extent(x, h.held[x]) PROVE FALSE
  OBVIOUS
<1> DEFINE k == ChunkOf(x)
           p == PageOf(x)
           c == h.chunk[k]
           q == PageOf(y)
<1>1. x \in Memory /\ h.held[x] # 0 /\ y \in Memory /\ h.held[y] # 0 /\ h \in Heap /\ Arenas(h)
  BY DEF Live, Good
<1>2. OfLarge(h, y) \/ OfSmall(h, y) \/ OfMedium(h, y)
  BY <1>1, HolderIs
<1>3. x = Pos(k, p, CellOf(x)) /\ y = Pos(ChunkOf(y), q, CellOf(y)) /\ k[1] = pos2index(x)
      /\ p \in 0 .. (Units - 1) /\ q \in 0 .. (Units - 1) /\ pos2index(x) \in Index
  BY <1>1, PosOnto
<1>4. CASE OfLarge(h, x)
  <2> DEFINE i == pos2index(x)
  <2>1. x = Pos(<<i, 0>>, 0, 0) /\ h.held[x] = h.arena[i].size /\ h.arena[i].type = "LARGE" /\ i # 0
    BY <1>4 DEF OfLarge
  <2>2. h.arena[i].size \in 0 .. ArenaSpan
    <3>1. h.arena[i].size \in 1 .. ArenaSpan
      BY <1>1, <1>3, <2>1, BlankIs DEF Arenas
    <3> QED BY <3>1, Sizes
  <2>3. pos2index(y) = i
    BY <1>3, <2>1, <2>2, LargeWalk
  <2>4. OfLarge(h, y)
    BY <1>2, <2>1, <2>3 DEF OfSmall, OfMedium, InUse
  <2> QED BY <2>1, <2>3, <2>4 DEF OfLarge
<1>5. CASE OfSmall(h, x)
  <2>1. h.held[x] = 1 /\ x \in Nat
    BY <1>1, <1>5 DEF OfSmall, Memory
  <2>2. x .. (x + 1 - 1) = {x}
    BY <2>1
  <2> QED BY <2>1, <2>2 DEF Extent
<1>6. CASE OfMedium(h, x)
  <2>1. /\ k \in Chunk /\ p \in Page /\ IsMedium(c) /\ CellOf(x) = 0 /\ h.held[x] = c.unit[p] * PageSlots
        /\ h.arena[pos2index(x)].type # "LARGE"
    BY <1>6 DEF OfMedium, InUse
  <2>2. c \in Header /\ Apart(c)
    BY <1>1, <2>1, HeapIs DEF IsMedium
  <2>3. c.unit[p] \in Nat /\ p + c.unit[p] <= Units
    BY <2>1, <2>2, HeaderIs, Sizes DEF Apart
  <2>4. y \in Extent(Pos(k, p, 0), c.unit[p] * PageSlots)
    BY <1>3, <2>1
  <2>5. pos2index(y) = k[1] /\ ChunkOf(y) = k /\ q \in p .. (p + c.unit[p] - 1)
    BY <1>3, <2>1, <2>3, <2>4, PosWalk
  <2>6. OfMedium(h, y)
    BY <1>2, <1>3, <2>1, <2>5 DEF OfLarge, OfSmall, IsSmall, IsMedium
  <2>7. q \in Page /\ c.unit[q] # 0 /\ CellOf(y) = 0
    BY <2>5, <2>6 DEF OfMedium, InUse
  <2>8. p < q => p + c.unit[p] <= q
    BY <2>1, <2>2, <2>7 DEF Apart
  <2>9. p \in Nat /\ q \in Nat
    BY <2>1, <2>7 DEF Page
  <2>10. q = p
    BY <2>3, <2>5, <2>8, <2>9
  <2> QED BY <1>3, <2>1, <2>5, <2>7, <2>10
<1> QED BY <1>1, <1>4, <1>5, <1>6, HolderIs

\* Free positions are in the memory, and in no block.
LEMMA FreeSpace ==
    ASSUME NEW h, Good(h, {}), NEW q \in Memory, NEW len \in Nat \ {0},
           \A y \in Extent(q, len) : y \in Memory /\ ~ Busy(h, y)
    PROVE  /\ h.held[q] = 0 /\ len \in Memory /\ Extent(q, len) \subseteq Memory
           /\ \A r \in Memory : Extent(q, len) \cap Extent(r, h.held[r]) = {}
<1>1. q \in Nat /\ q >= 1
  BY DEF Memory
<1>2. q \in Extent(q, len) /\ q + len - 1 \in Extent(q, len)
  BY <1>1 DEF Extent
<1>3. len \in Memory
  <2>1. q + len - 1 \in Memory
    BY <1>2
  <2>2. ArenaMax * ArenaSpan \in Nat
    BY Sizes
  <2> QED BY <1>1, <2>1, <2>2 DEF Memory
<1>4. h.held[q] = 0
  <2> SUFFICES ASSUME h.held[q] # 0 PROVE FALSE
    OBVIOUS
  <2>1. q \in Live(h)
    BY DEF Live
  <2> QED BY <1>2, <2>1, LiveBusy
<1>5. ASSUME NEW r \in Memory, NEW y \in Extent(q, len), y \in Extent(r, h.held[r])
      PROVE  FALSE
  <2>1. h.held[r] # 0
    <3>1. r \in Nat
      BY DEF Memory
    <3>2. r .. (r + 0 - 1) = {}
      BY <3>1
    <3> QED BY <1>5, <3>2 DEF Extent
  <2>2. Busy(h, y)
    BY <1>5, <2>1, Covers
  <2> QED BY <2>2
<1> QED BY <1>3, <1>4, <1>5

\* A block that is given out.
LEMMA GivenStep ==
    ASSUME IInv, NEW q, NEW len, Handed(heap, heap', q, len)
    PROVE  Blocks!BlockNext
<1> DEFINE h == heap
           g == heap'
<1>1. Good(h, {}) /\ h.held \in [Memory -> Nat]
  BY HeapIs DEF IInv, Good
<1>2. /\ q \in Memory /\ g.held = [h.held EXCEPT ![q] = len] /\ len \in Nat \ {0}
      /\ \A y \in Extent(q, len) : y \in Memory /\ ~ Busy(h, y)
      /\ \A y \in Memory : Busy(h, y) => g.mem[y] = h.mem[y]
  BY DEF Handed
<1>3. /\ h.held[q] = 0 /\ len \in Memory /\ Extent(q, len) \subseteq Memory
      /\ \A r \in Memory : Extent(q, len) \cap Extent(r, h.held[r]) = {}
  BY <1>1, <1>2, FreeSpace
<1>4. g.held[q] = len /\ len # 0
  BY <1>1, <1>2
<1>5. \A p \in Live(h) : g.mem[p] = h.mem[p]
  BY <1>1, <1>2, LiveBusy
<1>6. Blocks!Malloc(q, g.held[q])
  BY <1>2, <1>3, <1>4, BlocksAre DEF Blocks!Malloc
<1>7. Blocks!Keeps(Blocks!Live)
  BY <1>5, BlocksAre DEF Blocks!Keeps
<1>8. Blocks!MallocBlock(q, g.held[q])
  BY <1>6, <1>7 DEF Blocks!MallocBlock
<1>9. g.held # h.held /\ g.held[q] # h.held[q]
  BY <1>3, <1>4
<1> DEFINE changed == {p \in Blocks!Page : g.held[p] # h.held[p]}
           left    == {p \in changed : g.held[p] = 0}
<1>10. q \in changed \ left
  BY <1>2, <1>4, <1>9, BlocksAre
<1> QED BY <1>8, <1>9, <1>10 DEF Blocks!BlockNext

\* A block that is given back.
LEMMA FreedStep ==
    ASSUME IInv, NEW x \in Live(heap), Freed(heap, heap', x)
    PROVE  Blocks!BlockNext
<1> DEFINE h == heap
           g == heap'
<1>1. Good(h, {}) /\ h.held \in [Memory -> Nat]
  BY HeapIs DEF IInv, Good
<1>2. /\ g.held = [h.held EXCEPT ![x] = 0]
      /\ \A y \in Memory : y \notin Extent(x, h.held[x]) => g.mem[y] = h.mem[y]
  BY DEF Freed
<1>3. x \in Memory /\ h.held[x] # 0
  BY <1>1, LiveBusy
<1>4. g.held[x] = 0 /\ g.held # h.held
  BY <1>1, <1>2, <1>3
<1>5. ASSUME NEW p \in Live(h), p # x PROVE g.mem[p] = h.mem[p]
  <2>1. p \in Memory /\ p \notin Extent(x, h.held[x])
    BY <1>1, <1>5, LiveApart DEF Live
  <2> QED BY <1>2, <2>1
<1>6. Blocks!Free(x)
  BY <1>2, <1>3 DEF Blocks!Free
<1>7. Blocks!Keeps(Blocks!Live \ {x})
  BY <1>5, BlocksAre DEF Blocks!Keeps
<1>8. Blocks!FreeBlock(x)
  BY <1>6, <1>7 DEF Blocks!FreeBlock
<1> DEFINE changed == {p \in Blocks!Page : g.held[p] # h.held[p]}
           left    == {p \in changed : g.held[p] = 0}
<1>9. x \in left
  BY <1>3, <1>4, BlocksAre
<1> QED BY <1>4, <1>8, <1>9 DEF Blocks!BlockNext

\* A block that is moved.
LEMMA MovedStep ==
    ASSUME IInv, NEW x \in Live(heap), NEW q, NEW len, Relocated(heap, heap', x, q, len)
    PROVE  Blocks!BlockNext
<1> DEFINE h == heap
           g == heap'
<1>1. Good(h, {}) /\ h.held \in [Memory -> Nat]
  BY HeapIs DEF IInv, Good
<1>2. /\ h.held[x] < len /\ len \in Nat /\ q \in Memory
      /\ \A y \in Extent(q, len) : y \in Memory /\ ~ Busy(h, y)
      /\ g.held = [h.held EXCEPT ![x] = 0, ![q] = len] /\ g.mem[q] = h.mem[x]
      /\ \A y \in Memory : Busy(h, y) /\ y \notin Extent(x, h.held[x]) => g.mem[y] = h.mem[y]
  BY DEF Relocated
<1>3. x \in Memory /\ h.held[x] # 0 /\ h.held[x] \in Nat
  BY <1>1, LiveBusy
<1>4. len \in Nat \ {0}
  BY <1>2, <1>3
<1>5. /\ h.held[q] = 0 /\ len \in Memory /\ Extent(q, len) \subseteq Memory
      /\ \A r \in Memory : Extent(q, len) \cap Extent(r, h.held[r]) = {}
  BY <1>1, <1>2, <1>4, FreeSpace
<1>6. q # x /\ g.held[x] = 0 /\ g.held[q] = len
  BY <1>1, <1>2, <1>3, <1>5
<1>7. ASSUME NEW p \in Live(h), p # x PROVE g.mem[p] = h.mem[p]
  <2>1. p \in Memory /\ Busy(h, p)
    BY <1>1, LiveBusy
  <2>2. p \notin Extent(x, h.held[x])
    BY <1>1, <1>7, LiveApart
  <2> QED BY <1>2, <2>1, <2>2
<1>8. Blocks!Keeps(Blocks!Live \ {x})
  BY <1>7, BlocksAre DEF Blocks!Keeps
<1>9. \A r \in Live(h) : r \in Memory
  BY DEF Live
<1>10. Blocks!Move(x, q, g.held[q])
  BY <1>2, <1>3, <1>5, <1>6, <1>8, <1>9, BlocksAre DEF Blocks!Move
<1> DEFINE changed == {p \in Blocks!Page : g.held[p] # h.held[p]}
           left    == {p \in changed : g.held[p] = 0}
<1>11. x \in left /\ q \in changed \ left
  BY <1>2, <1>3, <1>4, <1>5, <1>6, BlocksAre
<1>12. g.held # h.held
  BY <1>3, <1>6
<1> QED BY <1>10, <1>11, <1>12 DEF Blocks!BlockNext

\* A store to a block.
LEMMA StoredStep ==
    ASSUME IInv, NEW x \in Live(heap), Like(heap, heap'), heap'.mem = [heap.mem EXCEPT ![x] = Tag],
           heap.mem[x] = Other
    PROVE  Blocks!BlockNext
<1>1. heap.mem \in [Memory -> {Other, Tag}] /\ x \in Memory
  BY HeapIs DEF IInv, Good, Live
<1>2. Tag # Other
  BY DEF Tag, Other
<1>3. heap'.mem[x] # heap.mem[x] /\ heap'.mem[x] = Tag /\ \A p \in Live(heap) \ {x} : heap'.mem[p] = heap.mem[p]
  BY <1>1, <1>2 DEF Live
<1>4. heap'.held = heap.held
  BY DEF Like
<1>5. Blocks!Store(x)
  BY <1>3, <1>4, BlocksAre DEF Blocks!Store, Blocks!Keeps
<1> QED BY <1>1, <1>3, <1>4, <1>5, BlocksAre DEF Blocks!BlockNext

\* Until a run is pushed with old links, the allocator keeps the promise of BlockHeap:
\* no memory is given out twice, and a block keeps what its holder stored, also when
\* shm_realloc moves it.
THEOREM BlocksKeptThm == Spec => BlocksKept
<1>1. Init => Blocks!Init
  BY DEF Init, Blocks!Init, Blocks!Page, Memory
<1>2. (~heap.torn => IInv) /\ [Next]_heap
      => [heap.torn \/ Blocks!BlockNext]_<<heap.held, heap.mem>>
  <2> SUFFICES ASSUME ~heap.torn => IInv, [Next]_heap
               PROVE  Blocks!BlockNext \/ UNCHANGED <<heap.held, heap.mem>>
    OBVIOUS
  <2>1. CASE heap' = heap
    BY <2>1
  <2>2. CASE Next
    <3>0. IInv
      BY <2>2 DEF Next
    <3>1. Steps(heap, heap')
      BY <2>2, <3>0, NextIs
    <3>2. CASE Like(heap, heap') /\ heap'.mem = heap.mem
      BY <3>2 DEF Like
    <3>3. ASSUME NEW x \in Live(heap), Like(heap, heap'), heap'.mem = [heap.mem EXCEPT ![x] = Tag],
                 heap.mem[x] = Other
          PROVE  Blocks!BlockNext
      BY <3>0, <3>3, StoredStep
    <3>4. ASSUME NEW x, NEW len, Handed(heap, heap', x, len)
          PROVE  Blocks!BlockNext
      BY <3>0, <3>4, GivenStep
    <3>5. ASSUME NEW x \in Live(heap), Freed(heap, heap', x)
          PROVE  Blocks!BlockNext
      BY <3>0, <3>5, FreedStep
    <3>6. ASSUME NEW x \in Live(heap), NEW q, NEW len, Relocated(heap, heap', x, q, len)
          PROVE  Blocks!BlockNext
      BY <3>0, <3>6, MovedStep
    <3> QED BY <3>1, <3>2, <3>3, <3>4, <3>5, <3>6 DEF Steps
  <2> QED BY <2>1, <2>2
<1> QED BY <1>1, <1>2, HeapThm, PTL DEF Spec, BlocksKept
===============================================================================
