--------------------------- MODULE MediumChunkProofs ---------------------------
(***************************************************************************)
(* Proofs about MediumChunk, for every number of pages and whatever node   *)
(* the searches in the free tree return.                                   *)
(***************************************************************************)
EXTENDS MediumChunk, FiniteSetTheorems, TLAPS

-----------------------------------------------------------------------------
(* The scans *)

\* The bit bitmap_ffsp returns is the least one at n or above.
LEMMA FfspFound ==
    ASSUME NEW B \in SUBSET Int, NEW n \in Int, NEW b, NEW r \in B,
           n <= r, \A i \in B : n <= i => r <= i
    PROVE  bitmap_ffsp(B, n, b) = r
<1> DEFINE above == {i \in B : n <= i}
<1>1. r \in above /\ \A y \in above : r <= y
  OBVIOUS
<1>2. \A x \in above : (\A y \in above : x <= y) => x = r
  OBVIOUS
<1>3. Min(above) = r
  BY <1>1, <1>2 DEF Min
<1> QED BY <1>1, <1>3 DEF bitmap_ffsp

\* Without such a bit it returns the number of bits.
LEMMA FfspNone ==
    ASSUME NEW B \in SUBSET Int, NEW n \in Int, NEW b, \A i \in B : i < n
    PROVE  bitmap_ffsp(B, n, b) = b
<1>1. ASSUME NEW i \in B, n <= i PROVE FALSE
  <2>1. i \in Int /\ i < n
    OBVIOUS
  <2> QED BY <1>1, <2>1
<1>2. {i \in B : n <= i} = {}
  BY <1>1
<1> QED BY <1>2 DEF bitmap_ffsp

\* In a chunk in use a unit handed out is no node of the tree, and its length
\* is what its holder was given.
LEMMA HeldUnit ==
    ASSUME IInv, type = "MEDIUM", NEW curr \in bitmap_type
    PROVE  /\ curr \in Page /\ curr \in bitmap_up /\ curr \notin tree
           /\ held[curr] \in Nat /\ held[curr] >= 1
           /\ UnitLen(curr) = held[curr]
           /\ curr + held[curr] <= Units
BY UnitsAssumption
   DEF IInv, TypeOK, BitmapsAgree, Tiled, Fits, HeldIsMarked, UnitLen, Page

\* The lengths of units are integers.
LEMMA UnitLenType ==
    ASSUME IInv, NEW p \in Page
    PROVE  UnitLen(p) \in Int
BY UnitsAssumption DEF IInv, TypeOK, UnitLen, Page

\* The scan up from a unit handed out stops where the unit ends.
LEMMA NextUnitIs ==
    ASSUME IInv, type = "MEDIUM", NEW curr \in bitmap_type
    PROVE  /\ NextUnit(curr) = curr + held[curr]
           /\ NextUnit(curr) = Units \/ NextUnit(curr) \in bitmap_up
<1> DEFINE end == curr + held[curr]
<1>1. /\ curr \in Page /\ curr \in bitmap_up /\ curr \notin tree
      /\ held[curr] \in Nat /\ held[curr] >= 1 /\ UnitLen(curr) = held[curr]
      /\ end <= Units
  BY HeldUnit
<1>2. bitmap_up \subseteq Page /\ Apart /\ Covered /\ Fits
  BY DEF IInv, TypeOK, Tiled
<1>3. \A i \in bitmap_up \ {curr} : curr <= i => end <= i
  BY <1>1, <1>2, UnitsAssumption DEF Apart, Page
<1>4. CASE end = Units
  <2>1. \A i \in bitmap_up \ {curr} : i < curr
    BY <1>1, <1>2, <1>3, <1>4, UnitsAssumption DEF Page
  <2>2. bitmap_up \ {curr} \in SUBSET Int /\ curr \in Int
    BY <1>1, <1>2, UnitsAssumption DEF Page
  <2>3. bitmap_ffsp(bitmap_up \ {curr}, curr, Units) = Units
    BY <2>1, <2>2, FfspNone
  <2> QED BY <2>3, <1>4 DEF NextUnit, find_next_medium_unit
<1>5. CASE end # Units
  <2>1. end \in Page
    BY <1>1, <1>5, UnitsAssumption DEF Page
  <2>2. PICK p \in bitmap_up : p <= end /\ end < p + UnitLen(p)
    BY <1>2, <2>1 DEF Covered
  <2>3. p \in Page /\ UnitLen(p) \in Int
    BY <1>2, <2>2, UnitLenType
  <2>4. p = end
    BY <1>1, <1>2, <2>2, <2>3, UnitsAssumption DEF Apart, Page
  <2>5. bitmap_up \ {curr} \in SUBSET Int /\ curr \in Int
    BY <1>1, <1>2, UnitsAssumption DEF Page
  <2>6. end \in bitmap_up \ {curr} /\ curr <= end
    BY <1>1, <2>2, <2>4, UnitsAssumption DEF Page
  <2>7. bitmap_ffsp(bitmap_up \ {curr}, curr, Units) = end
    BY <1>3, <2>5, <2>6, FfspFound
  <2> QED BY <2>6, <2>7 DEF NextUnit, find_next_medium_unit
<1> QED BY <1>4, <1>5

\* The scan down from a unit handed out finds the unit that ends where it
\* begins, and nothing only below the first unit.
LEMMA PrevUnitIs ==
    ASSUME IInv, type = "MEDIUM", NEW curr \in bitmap_type
    PROVE  \/ curr = 1 /\ PrevUnit(curr) = Units
           \/ /\ PrevUnit(curr) \in bitmap_up
              /\ PrevUnit(curr) + UnitLen(PrevUnit(curr)) = curr
<1> DEFINE next == NextUnit(curr)
           merged == {p \in {next} : FreeUnit(p)}
           down == bitmap_down \ {Mirror(p) : p \in merged \cup {curr}}
<1>1. /\ curr \in Page /\ curr \in bitmap_up
      /\ held[curr] \in Nat /\ held[curr] >= 1 /\ UnitLen(curr) = held[curr]
  BY HeldUnit
<1>2. next = curr + held[curr]
  BY NextUnitIs
<1>3. /\ bitmap_up \subseteq Page /\ Apart /\ Covered /\ Fits
      /\ bitmap_down = {Mirror(p) : p \in bitmap_up}
  BY DEF IInv, TypeOK, Tiled, BitmapsAgree
<1>4. /\ down \in SUBSET Int /\ Mirror(curr) \in Int /\ curr \in Int
      /\ \A i \in down : Mirror(curr) <= i =>
            \E q \in bitmap_up : q < curr /\ i = Mirror(q)
  <2>1. bitmap_up \subseteq Int /\ curr \in Int
    BY <1>1, <1>3, UnitsAssumption DEF Page
  <2>2. Mirror(curr) \in Int /\ down \in SUBSET Int
    BY <1>3, <2>1, UnitsAssumption DEF Mirror
  <2>3. ASSUME NEW i \in down, Mirror(curr) <= i
        PROVE  \E q \in bitmap_up : q < curr /\ i = Mirror(q)
    <3>1. i # Mirror(curr)
      OBVIOUS
    <3>2. PICK q \in bitmap_up : i = Mirror(q)
      BY <1>3
    <3>3. q < curr
      BY <2>1, <2>3, <3>1, <3>2, UnitsAssumption DEF Mirror
    <3> QED BY <3>2, <3>3
  <2> QED BY <2>1, <2>2, <2>3
<1>5. \A q \in bitmap_up : q < curr => Mirror(q) \in down
  <2> SUFFICES ASSUME NEW q \in bitmap_up, q < curr
               PROVE  Mirror(q) \in down
    OBVIOUS
  <2>1. q \in Int /\ curr \in Int /\ next \in Int /\ q < next
    BY <1>1, <1>2, <1>3, UnitsAssumption DEF Page
  <2>2. \A p \in merged \cup {curr} : p = next \/ p = curr
    OBVIOUS
  <2> HIDE DEF next, merged
  <2> QED BY <1>3, <2>1, <2>2, UnitsAssumption DEF Mirror
<1>6. PrevUnit(curr) = find_prev_medium_unit(down, curr)
  BY DEF PrevUnit
<1> HIDE DEF next, merged, down
<1>7. CASE curr = 1
  <2>1. \A i \in down : i < Mirror(curr)
    BY <1>3, <1>4, <1>7, UnitsAssumption DEF Page
  <2>2. bitmap_ffsp(down, Mirror(curr), Units) = Units
    BY <1>4, <2>1, FfspNone
  <2> QED BY <1>6, <1>7, <2>2 DEF find_prev_medium_unit
<1>8. CASE curr # 1
  <2>1. curr - 1 \in Page
    BY <1>1, <1>8, UnitsAssumption DEF Page
  <2>2. PICK q \in bitmap_up : q <= curr - 1 /\ curr - 1 < q + UnitLen(q)
    BY <1>3, <2>1 DEF Covered
  <2>3. q \in Page /\ q \in Int /\ UnitLen(q) \in Int
    BY <1>3, <2>2, UnitLenType, UnitsAssumption DEF Page
  <2>4. q < curr /\ q + UnitLen(q) = curr
    BY <1>1, <1>3, <1>4, <2>2, <2>3, UnitsAssumption DEF Apart
  <2>5. \A o \in bitmap_up : o < curr => o <= q
    <3> SUFFICES ASSUME NEW o \in bitmap_up, o < curr, q < o
                 PROVE  FALSE
      BY <1>3, <1>4, <2>3, UnitsAssumption DEF Page
    <3> QED BY <1>3, <1>4, <2>3, <2>4 DEF Apart
  <2>6. Mirror(q) \in down /\ Mirror(curr) <= Mirror(q)
    BY <1>4, <1>5, <2>3, <2>4, UnitsAssumption DEF Mirror
  <2>7. \A i \in down : Mirror(curr) <= i => Mirror(q) <= i
    <3> SUFFICES ASSUME NEW i \in down, Mirror(curr) <= i
                 PROVE  Mirror(q) <= i
      OBVIOUS
    <3>1. PICK o \in bitmap_up : o < curr /\ i = Mirror(o)
      BY <1>4
    <3>2. o \in Int /\ o <= q
      BY <1>3, <2>5, <3>1, UnitsAssumption DEF Page
    <3> QED BY <2>3, <3>1, <3>2, UnitsAssumption DEF Mirror
  <2>8. bitmap_ffsp(down, Mirror(curr), Units) = Mirror(q)
    <3> DEFINE from == Mirror(curr)
               r == Mirror(q)
    <3>1. /\ down \in SUBSET Int /\ from \in Int /\ r \in down /\ from <= r
          /\ \A i \in down : from <= i => r <= i
      BY <1>4, <2>6, <2>7
    <3> HIDE DEF from, r
    <3>2. bitmap_ffsp(down, from, Units) = r
      BY <3>1, FfspFound
    <3> QED BY <3>2 DEF from, r
  <2>9. Mirror(q) # Units /\ Mirror(Mirror(q)) = q
    BY <2>3, UnitsAssumption DEF Mirror, Page
  <2>10. PrevUnit(curr) = q
    BY <1>6, <2>8, <2>9 DEF find_prev_medium_unit
  <2> QED BY <2>2, <2>4, <2>10
<1> QED BY <1>7, <1>8

-----------------------------------------------------------------------------
(* Counting the pages that callers hold *)

\* The pages of the runs a function from first pages to lengths describes.
PagesOf(f) == {x \in Page : \E p \in Page : x \in p .. (p + f[p] - 1)}

\* g adds a run of len pages at p to f, which has none of those pages.
AddsRun(f, g, p, len) ==
    /\ f \in [Page -> 0 .. (Units - 1)] /\ f[p] = 0 /\ p + len <= Units
    /\ g = [f EXCEPT ![p] = len]
    /\ \A q \in Page : q # p => (p .. (p + len - 1)) \cap (q .. (q + f[q] - 1)) = {}

\* A run of len pages, none of them held before, uses up len pages.
LEMMA RunCount ==
    ASSUME NEW f, NEW g, NEW p \in Page, NEW len \in Nat, AddsRun(f, g, p, len)
    PROVE  /\ Cardinality(Page \ PagesOf(f)) \in Nat
           /\ Cardinality(Page \ PagesOf(g)) \in Nat
           /\ Cardinality(Page \ PagesOf(f)) = Cardinality(Page \ PagesOf(g)) + len
<1> DEFINE run == p .. (p + len - 1)
           F == Page \ PagesOf(f)
           G == Page \ PagesOf(g)
<1> USE DEF AddsRun
<1>1. p \in Int /\ p >= 1 /\ Units \in Nat /\ run \subseteq Page
  BY UnitsAssumption DEF Page
<1>2. p .. (p + f[p] - 1) = {}
  BY <1>1
<1>3. \A q \in Page : q # p => g[q] = f[q]
  OBVIOUS
<1>4. g[p] = len
  OBVIOUS
<1>5. run \cap PagesOf(f) = {}
  BY <1>2 DEF PagesOf
<1>6. PagesOf(g) = PagesOf(f) \cup run
  <2>1. ASSUME NEW x \in PagesOf(g) PROVE x \in PagesOf(f) \cup run
    BY <1>3, <1>4 DEF PagesOf
  <2>2. ASSUME NEW x \in PagesOf(f) PROVE x \in PagesOf(g)
    BY <1>2, <1>3 DEF PagesOf
  <2>3. ASSUME NEW x \in run PROVE x \in PagesOf(g)
    BY <1>1, <1>4 DEF PagesOf
  <2> QED BY <2>1, <2>2, <2>3
<1>7. F = G \cup run /\ G \cap run = {}
  BY <1>1, <1>5, <1>6
<1>8. IsFiniteSet(Page)
  BY <1>1, FS_Interval DEF Page
<1>9. /\ IsFiniteSet(G) /\ IsFiniteSet(F) /\ IsFiniteSet(run)
      /\ Cardinality(G) \in Nat /\ Cardinality(F) \in Nat
  <2>1. IsFiniteSet(G) /\ IsFiniteSet(F)
    BY <1>8, FS_Subset
  <2>2. IsFiniteSet(run)
    BY <1>1, FS_Interval
  <2> QED BY <2>1, <2>2, FS_CardinalityType
<1>10. Cardinality(run) = len
  BY <1>1, FS_Interval
<1>11. Cardinality(G \cap run) = 0
  BY <1>7, FS_EmptySet
<1>12. Cardinality(G \cup run) = Cardinality(G) + Cardinality(run) - Cardinality(G \cap run)
  BY <1>9, FS_Union
<1> HIDE DEF F, G, run
<1>13. Cardinality(F) = Cardinality(G) + len
  BY <1>7, <1>9, <1>10, <1>11, <1>12
<1> QED BY <1>9, <1>13 DEF F, G

\* Nothing held: all pages are counted.
LEMMA NoRuns ==
    ASSUME NEW f, \A p \in Page : f[p] = 0
    PROVE  Cardinality(Page \ PagesOf(f)) = Units - 1
<1>1. Units \in Nat /\ Units >= 2 /\ Page = 1 .. (Units - 1)
  BY UnitsAssumption DEF Page
<1>2. PagesOf(f) = {}
  BY <1>1 DEF PagesOf
<1>3. Cardinality(1 .. (Units - 1)) = Units - 1
  BY <1>1, FS_Interval
<1>4. Page \ PagesOf(f) = Page
  BY <1>2
<1> QED BY <1>1, <1>3, <1>4

\* All pages counted: nothing is held.
LEMMA AllFree ==
    ASSUME NEW f \in [Page -> 0 .. (Units - 1)],
           Cardinality(Page \ PagesOf(f)) = Units - 1
    PROVE  \A p \in Page : f[p] = 0
<1>1. Units \in Nat /\ Units >= 2 /\ Page = 1 .. (Units - 1)
  BY UnitsAssumption DEF Page
<1>2. IsFiniteSet(Page) /\ Cardinality(Page) = Units - 1
  <2>1. 1 \in Int /\ Units - 1 \in Int /\ ~(1 > Units - 1)
    BY <1>1
  <2> QED BY <1>1, <2>1, FS_Interval
<1>3. Page = Page \ PagesOf(f)
  BY <1>2, FS_Subset
<1>4. ASSUME NEW p \in Page, f[p] # 0 PROVE FALSE
  <2>1. p \in p .. (p + f[p] - 1)
    BY <1>1, <1>4
  <2>2. p \in PagesOf(f)
    BY <2>1 DEF PagesOf
  <2> QED BY <1>3, <2>2
<1> QED BY <1>4

\* PagesOf(held) is what FreeSizeExact counts.
LEMMA HeldPagesIs == HeldPages = PagesOf(held)
BY DEF HeldPages, PagesOf, Heap!Extent

-----------------------------------------------------------------------------
(* Every operation preserves the invariant *)

\* Before init_chunk the chunk is zeroed memory that nobody holds.
LEMMA InitIInv == Init => IInv
<1> SUFFICES ASSUME Init PROVE IInv
  OBVIOUS
<1> USE UnitsAssumption DEF Init
<1>1. TypeOK
  BY DEF TypeOK, Page
<1>2. DeletedIsUnheld
  BY DEF DeletedIsUnheld
<1> QED
  BY <1>1, <1>2 DEF IInv, BitmapsAgree, Tiled, HeldIsMarked, Coalesced,
     MaxSizeIsFree, FreeSizeExact, UnitAssertsHold

\* init_chunk makes one free unit of all pages, none of which is held.
LEMMA init_chunkIInv ==
    ASSUME IInv, init_chunk
    PROVE  IInv'
<1> USE UnitsAssumption DEF init_chunk, init_chunk_medium
<1>1. /\ TypeOK /\ \A p \in Page : held[p] = 0
      /\ 1 \in Page /\ Units - 1 \in 0 .. (Units - 1) /\ Mirror(1) \in 0 .. (Units - 2)
  BY DEF IInv, DeletedIsUnheld, Page, Mirror
<1>2. TypeOK'
  BY <1>1 DEF TypeOK
<1>3. vsize'[1] = Units - 1
  BY <1>1 DEF TypeOK
<1>4. BitmapsAgree'
  BY DEF BitmapsAgree
<1>5. Tiled'
  BY <1>1, <1>3 DEF Tiled, Fits, Apart, Covered, UnitLen, Page
<1>6. HeldIsMarked'
  BY <1>1 DEF HeldIsMarked
<1>7. Coalesced'
  BY <1>3 DEF Coalesced
<1>8. MaxSizeIsFree'
  BY <1>3 DEF MaxSizeIsFree
<1>9. FreeSizeExact'
  <2>1. \A p \in Page : held'[p] = 0
    BY <1>1
  <2>2. Cardinality(Page \ PagesOf(held')) = Units - 1
    BY <2>1, NoRuns
  <2>3. HeldPages' = PagesOf(held')
    BY DEF HeldPages, PagesOf, Heap!Extent
  <2> QED BY <2>2, <2>3 DEF FreeSizeExact
<1>10. DeletedIsUnheld' /\ UnitAssertsHold'
  BY DEF DeletedIsUnheld, UnitAssertsHold
<1> QED
  BY <1>2, <1>4, <1>5, <1>6, <1>7, <1>8, <1>9, <1>10 DEF IInv

\* malloc_chunk_medium takes the front of the free unit n, and the rest of it,
\* if any, is a unit that was none before.
LEMMA malloc_chunk_mediumIInv ==
    ASSUME IInv, NEW size \in Page, NEW n \in AnyNode(tree), NEW m \in AnyNode(tree'),
           malloc_chunk_medium(size, n, m)
    PROVE  IInv'
<1> DEFINE next == n + size
           rest == vsize[n] - size
           left == IF rest > 0 THEN {next} ELSE {}
<1> USE UnitsAssumption
<1>1. /\ failed = "no" /\ type = "MEDIUM" /\ n # RB_NULL /\ vsize[n] >= size
      /\ tree' = (tree \cup left) \ {n}
      /\ vsize' = [p \in Page |-> IF p \in left THEN rest
                                  ELSE IF p = n THEN 0 ELSE vsize[p]]
      /\ bitmap_up' = bitmap_up \cup left
      /\ bitmap_down' = bitmap_down \cup {Mirror(p) : p \in left}
      /\ bitmap_type' = bitmap_type \cup {n}
      /\ free_size' = free_size - size
      /\ IF vsize[n] >= max_size
           THEN check_chunk_medium_max(IF m = RB_NULL THEN 0 ELSE vsize'[m])
           ELSE UNCHANGED <<max_size, maxsize>>
      /\ held' = [held EXCEPT ![n] = size]
      /\ failed' = IF \A p \in left : /\ p + rest <= Units
                                      /\ UnitClear(bitmap_up, bitmap_down, p)
                   THEN "no" ELSE "unit"
      /\ type' = type
  BY DEF malloc_chunk_medium, get_avaliable_chunk
<1>2. /\ TypeOK /\ Fits /\ Apart /\ Covered
      /\ bitmap_type \subseteq bitmap_up /\ tree = bitmap_up \ bitmap_type
      /\ bitmap_down = {Mirror(p) : p \in bitmap_up}
      /\ bitmap_type = {p \in Page : held[p] # 0}
      /\ \A p \in tree : p + vsize[p] \notin tree
      /\ free_size = Cardinality(Page \ HeldPages)
  BY <1>1 DEF IInv, Tiled, BitmapsAgree, HeldIsMarked, Coalesced, FreeSizeExact
<1>3. /\ n \in tree /\ n \in bitmap_up /\ n \notin bitmap_type /\ n \in Page
      /\ held[n] = 0
  BY <1>1, <1>2 DEF AnyNode, TypeOK
<1>4. /\ n \in Int /\ size \in Int /\ 1 <= n /\ 1 <= size
      /\ vsize[n] \in Int /\ rest \in Int /\ rest >= 0
      /\ UnitLen(n) = vsize[n] /\ n + vsize[n] <= Units
  <2>1. n \in Int /\ size \in Int /\ 1 <= n /\ 1 <= size
    BY <1>3 DEF Page
  <2>2. vsize[n] \in Int
    BY <1>2, <1>3 DEF TypeOK
  <2>3. UnitLen(n) = vsize[n] /\ n + vsize[n] <= Units
    BY <1>2, <1>3 DEF Fits, UnitLen
  <2> QED BY <1>1, <2>1, <2>2, <2>3
<1>5. \A p \in Page : p \in Int /\ UnitLen(p) \in Int /\ vsize[p] \in Int /\ held[p] \in Int
  BY <1>2, UnitLenType DEF TypeOK, Page
<1>6. bitmap_up \subseteq Page /\ bitmap_type \subseteq Page /\ tree \subseteq Page
  BY <1>2 DEF TypeOK
<1>7. \A p \in left : /\ p = next /\ rest > 0 /\ p \in Page /\ p \notin bitmap_up
                       /\ p \notin tree /\ p \notin bitmap_type /\ p # n
  <2> SUFFICES ASSUME rest > 0
               PROVE  /\ next \in Page /\ next \notin bitmap_up
                      /\ next \notin tree /\ next \notin bitmap_type /\ next # n
    OBVIOUS
  <2>1. next \in Page /\ next # n
    BY <1>4 DEF Page
  <2>2. next \notin bitmap_up
    BY <1>2, <1>3, <1>4 DEF Apart
  <2> QED BY <1>2, <2>1, <2>2
<1> HIDE DEF left
<1>8. /\ \A p \in Page : held'[p] = IF p = n THEN size ELSE held[p]
      /\ \A p \in Page : vsize'[p] = IF p \in left THEN rest ELSE IF p = n THEN 0 ELSE vsize[p]
  BY <1>1, <1>2 DEF TypeOK
<1>9. /\ UnitLen(n)' = size
      /\ \A p \in left : UnitLen(p)' = rest
      /\ \A p \in bitmap_up : p # n => UnitLen(p)' = UnitLen(p)
  BY <1>1, <1>3, <1>6, <1>7, <1>8 DEF UnitLen
<1>10. Tiled'
  <2>1. Fits'
    <3> SUFFICES ASSUME NEW p \in bitmap_up'
                 PROVE  UnitLen(p)' >= 1 /\ p + UnitLen(p)' <= Units
      BY DEF Fits
    <3> QED BY <1>1, <1>2, <1>4, <1>7, <1>9 DEF Fits
  <2>2. Apart'
    <3> SUFFICES ASSUME NEW p \in bitmap_up', NEW q \in bitmap_up', p < q
                 PROVE  p + UnitLen(p)' <= q
      BY DEF Apart
    <3>1. CASE p \in left
      <4>1. q \in bitmap_up /\ n < q
        BY <1>1, <1>4, <1>5, <1>6, <1>7, <3>1
      <4> QED BY <1>2, <1>3, <1>4, <1>7, <1>9, <3>1, <4>1 DEF Apart
    <3>2. CASE p = n
      <4>1. CASE q \in left
        BY <1>4, <1>7, <1>9, <3>2, <4>1
      <4>2. CASE q \in bitmap_up
        BY <1>2, <1>3, <1>4, <1>5, <1>6, <1>9, <3>2, <4>2 DEF Apart
      <4> QED BY <1>1, <4>1, <4>2
    <3>3. CASE p \in bitmap_up /\ p # n
      <4>1. CASE q \in left
        <5>1. p < n \/ n < p
          BY <1>4, <1>5, <1>6, <3>3
        <5>2. ~(n < p)
          BY <1>2, <1>3, <1>4, <1>5, <1>6, <1>7, <3>3, <4>1 DEF Apart
        <5> QED BY <1>2, <1>3, <1>4, <1>5, <1>6, <1>7, <1>9, <3>3, <4>1, <5>1, <5>2 DEF Apart
      <4>2. CASE q \in bitmap_up
        BY <1>2, <1>9, <3>3, <4>2 DEF Apart
      <4> QED BY <1>1, <4>1, <4>2
    <3> QED BY <1>1, <3>1, <3>2, <3>3
  <2>3. Covered'
    <3> SUFFICES ASSUME NEW x \in Page
                 PROVE  \E p \in bitmap_up' : p <= x /\ x < p + UnitLen(p)'
      BY DEF Covered
    <3>1. PICK p \in bitmap_up : p <= x /\ x < p + UnitLen(p)
      BY <1>2 DEF Covered
    <3>2. CASE p # n
      BY <1>1, <1>9, <3>1, <3>2
    <3>3. CASE p = n /\ x < n + size
      BY <1>1, <1>3, <1>9, <3>1, <3>3
    <3>4. CASE p = n /\ ~(x < n + size)
      <4>1. next \in left
        BY <1>4, <1>5, <3>1, <3>4 DEF left
      <4>2. next <= x /\ x < next + rest
        BY <1>4, <1>5, <3>1, <3>4
      <4> QED BY <1>1, <1>9, <4>1, <4>2
    <3> QED BY <3>2, <3>3, <3>4
  <2> QED BY <2>1, <2>2, <2>3 DEF Tiled
<1>11. BitmapsAgree'
  <2>1. bitmap_type' \subseteq bitmap_up'
    BY <1>1, <1>2, <1>3
  <2>2. tree' = bitmap_up' \ bitmap_type'
    BY <1>1, <1>2, <1>3, <1>7
  <2>3. bitmap_down' = {Mirror(p) : p \in bitmap_up'}
    BY <1>1, <1>2
  <2> QED BY <2>1, <2>2, <2>3 DEF BitmapsAgree
<1>12. HeldIsMarked'
  BY <1>1, <1>2, <1>3, <1>4, <1>8 DEF HeldIsMarked
<1>13. Coalesced'
  <2> SUFFICES ASSUME NEW p \in tree' PROVE p + vsize'[p] \notin tree'
    BY DEF Coalesced
  <2>1. CASE p \in left
    <3>1. p + vsize'[p] = n + vsize[n]
      BY <1>4, <1>7, <1>8, <2>1
    <3>2. n + vsize[n] \notin left
      BY <1>4, <1>7
    <3> QED BY <1>1, <1>2, <1>3, <3>1, <3>2
  <2>2. CASE p \notin left
    <3>1. p \in tree /\ p # n /\ p \in bitmap_up
      BY <1>1, <1>2, <2>2
    <3>2. vsize'[p] = vsize[p] /\ p + vsize[p] \notin tree /\ UnitLen(p) = vsize[p]
      BY <1>2, <1>6, <1>8, <2>2, <3>1 DEF UnitLen
    <3>3. p + vsize[p] # next \/ rest = 0
      <4>1. p \in Int /\ vsize[p] \in Int /\ vsize[p] >= 1
        BY <1>2, <1>5, <1>6, <3>1, <3>2 DEF Fits
      <4>2. CASE p < n
        BY <1>2, <1>3, <1>4, <3>1, <3>2, <4>1, <4>2 DEF Apart
      <4>3. CASE n < p
        BY <1>2, <1>3, <1>4, <3>1, <3>2, <4>1, <4>3 DEF Apart
      <4> QED BY <1>4, <3>1, <4>1, <4>2, <4>3
    <3>4. p + vsize[p] \notin left
      BY <1>4, <1>7, <3>3
    <3> QED BY <1>1, <3>2, <3>4
  <2> QED BY <2>1, <2>2
<1>14. \A p \in tree' : vsize'[p] \in 1 .. (Units - 1)
  <2> SUFFICES ASSUME NEW p \in tree' PROVE vsize'[p] \in 1 .. (Units - 1)
    OBVIOUS
  <2>1. CASE p \in left
    BY <1>4, <1>7, <1>8, <2>1
  <2>2. CASE p \notin left
    <3>1. p \in tree /\ p # n /\ p \in bitmap_up /\ p \in Page
      BY <1>1, <1>2, <1>6, <2>2
    <3> QED BY <1>2, <1>8, <2>2, <3>1 DEF TypeOK, Fits, UnitLen
  <2> QED BY <2>1, <2>2
<1>15. /\ MaxSizeIsFree'
       /\ max_size' \in 0 .. (Units - 1) /\ maxsize' \in 0 .. (Units - 1)
  <2>1. /\ maxsize = max_size /\ max_size \in 0 .. (Units - 1)
        /\ max_size # 0 => \E p \in tree : vsize[p] = max_size
    BY <1>1 DEF IInv, MaxSizeIsFree, TypeOK
  <2>2. CASE vsize[n] >= max_size
    <3> DEFINE s == IF m = RB_NULL THEN 0 ELSE vsize'[m]
    <3>1. max_size' = s /\ maxsize' = s
      BY <1>1, <2>1, <2>2 DEF check_chunk_medium_max, update_chunk_pool
    <3>2. CASE tree' = {}
      BY <3>1, <3>2 DEF AnyNode, MaxSizeIsFree, RB_NULL
    <3>3. CASE tree' # {}
      <4>1. m \in tree' /\ m # RB_NULL
        <5>1. m \in tree'
          BY <3>3 DEF AnyNode
        <5>2. m \in Page
          BY <1>1, <1>6, <1>7, <5>1
        <5> QED BY <5>1, <5>2 DEF Page, RB_NULL
      <4>2. s = vsize'[m] /\ s \in 1 .. (Units - 1)
        BY <1>14, <4>1
      <4> HIDE DEF s
      <4> QED BY <3>1, <3>3, <4>1, <4>2 DEF MaxSizeIsFree
    <3> QED BY <3>2, <3>3
  <2>3. CASE ~(vsize[n] >= max_size)
    <3>1. max_size' = max_size /\ maxsize' = maxsize
      BY <1>1, <2>3
    <3>2. max_size # 0
      BY <1>4, <2>1, <2>3, <1>1
    <3>3. PICK p \in tree : vsize[p] = max_size
      BY <2>1, <3>2
    <3>4. p # n /\ p \notin left /\ p \in Page
      BY <1>4, <1>6, <1>7, <2>1, <2>3, <3>3
    <3>5. p \in tree' /\ vsize'[p] = max_size
      BY <1>1, <1>8, <3>3, <3>4
    <3> QED BY <2>1, <3>1, <3>2, <3>5 DEF MaxSizeIsFree
  <2> QED BY <2>2, <2>3
<1>16. /\ FreeSizeExact' /\ free_size' \in 0 .. (Units - 1)
  <2>1. \A q \in Page : q # n => (n .. (n + size - 1)) \cap (q .. (q + held[q] - 1)) = {}
    <3> SUFFICES ASSUME NEW q \in Page, q # n, NEW x \in n .. (n + size - 1),
                        x \in q .. (q + held[q] - 1)
                 PROVE  FALSE
      OBVIOUS
    <3>1. q \in Int /\ held[q] \in Int /\ x \in Int /\ n <= x /\ x < n + size
          /\ q <= x /\ x < q + held[q] /\ held[q] # 0
      BY <1>4, <1>5
    <3>2. q \in bitmap_up /\ UnitLen(q) = held[q]
      BY <1>2, <3>1 DEF UnitLen
    <3>3. q < n \/ n < q
      BY <1>4, <3>1
    <3> QED BY <1>1, <1>2, <1>3, <1>4, <3>1, <3>2, <3>3 DEF Apart
  <2>2. held \in [Page -> 0 .. (Units - 1)] /\ size \in Nat /\ n + size <= Units
    BY <1>1, <1>2, <1>4 DEF TypeOK
  <2>3. /\ Cardinality(Page \ PagesOf(held)) \in Nat
        /\ Cardinality(Page \ PagesOf(held')) \in Nat
        /\ Cardinality(Page \ PagesOf(held)) = Cardinality(Page \ PagesOf(held')) + size
    <3>1. AddsRun(held, held', n, size)
      BY <1>1, <1>3, <2>1, <2>2 DEF AddsRun
    <3>2. n \in Page /\ size \in Nat
      BY <1>3, <2>2
    <3> QED BY ONLY <3>1, <3>2, RunCount, Zenon
  <2>4. HeldPages' = PagesOf(held')
    BY DEF HeldPages, PagesOf, Heap!Extent
  <2>5. free_size' = Cardinality(Page \ PagesOf(held'))
    BY <1>1, <1>2, <1>4, <2>3, HeldPagesIs
  <2> QED BY <1>1, <1>2, <1>4, <2>3, <2>4, <2>5 DEF FreeSizeExact, TypeOK
<1>17. failed' = "no"
  <2>1. ASSUME NEW p \in left
        PROVE  p + rest <= Units /\ UnitClear(bitmap_up, bitmap_down, p)
    <3>1. p \in Page /\ p \notin bitmap_up /\ p + rest <= Units
      BY <1>4, <1>7
    <3>2. Mirror(p) \notin bitmap_down
      BY <1>2, <1>5, <1>6, <3>1 DEF Mirror
    <3> QED BY <3>1, <3>2 DEF UnitClear
  <2> QED BY <1>1, <2>1
<1>18. TypeOK'
  <2>1. vsize' \in [Page -> 0 .. (Units - 1)]
    BY <1>1, <1>2, <1>4 DEF TypeOK
  <2>2. held' \in [Page -> 0 .. (Units - 1)]
    <3>1. size \in 0 .. (Units - 1)
      BY DEF Page
    <3>2. held \in [Page -> 0 .. (Units - 1)]
      BY <1>2 DEF TypeOK
    <3> QED BY <1>1, <3>1, <3>2
  <2>3. bitmap_down' \subseteq 0 .. (Units - 2)
    <3>1. \A p \in left : Mirror(p) \in 0 .. (Units - 2)
      BY <1>7 DEF Mirror, Page
    <3>2. bitmap_down \subseteq 0 .. (Units - 2)
      BY <1>2 DEF TypeOK
    <3> QED BY <1>1, <3>1, <3>2
  <2>4. tree' \subseteq Page /\ bitmap_up' \subseteq Page /\ bitmap_type' \subseteq Page
    BY <1>1, <1>3, <1>6, <1>7
  <2> QED BY <1>1, <1>15, <1>16, <1>17, <2>1, <2>2, <2>3, <2>4 DEF TypeOK
<1>19. DeletedIsUnheld' /\ UnitAssertsHold'
  BY <1>1, <1>17 DEF DeletedIsUnheld, UnitAssertsHold
<1> QED
  BY <1>10, <1>11, <1>12, <1>13, <1>15, <1>16, <1>18, <1>19 DEF IInv

\* free_chunk_medium replaces the unit at curr and the free units around it by
\* one free unit from index to end, and leaves every other unit alone.
LEMMA free_chunk_mediumIInv ==
    ASSUME IInv, NEW curr \in Page, free_chunk_medium(curr)
    PROVE  IInv'
<1> DEFINE next  == NextUnit(curr)
           prev  == PrevUnit(curr)
           gone  == {p \in {next, prev} : FreeUnit(p)}
           index == IF FreeUnit(prev) THEN prev ELSE curr
           end   == next + (IF FreeUnit(next) THEN vsize[next] ELSE 0)
           size  == (next - curr) + (IF FreeUnit(next) THEN vsize[next] ELSE 0)
                                  + (IF FreeUnit(prev) THEN vsize[prev] ELSE 0)
           up    == bitmap_up \ (gone \cup {curr})
           down  == bitmap_down \ {Mirror(p) : p \in gone \cup {curr}}
<1> USE UnitsAssumption
<1>1. /\ failed = "no" /\ type = "MEDIUM" /\ curr \in bitmap_type
      /\ bitmap_type' = bitmap_type \ {curr}
      /\ tree' = (tree \ gone) \cup {index}
      /\ vsize' = [p \in Page |-> IF p = index THEN size
                                  ELSE IF p \in gone THEN 0 ELSE vsize[p]]
      /\ bitmap_up' = up \cup {index}
      /\ bitmap_down' = down \cup {Mirror(index)}
      /\ free_size' = free_size + (next - curr)
      /\ IF size >= max_size THEN check_chunk_medium_max(size)
                             ELSE UNCHANGED <<max_size, maxsize>>
      /\ type' = IF free_size' = Units - 1 THEN "EMPTY" ELSE "MEDIUM"
      /\ held' = [held EXCEPT ![curr] = 0]
      /\ failed' = IF /\ UnitSet(bitmap_up, bitmap_down, curr)
                      /\ \A p \in gone : /\ UnitSet(bitmap_up, bitmap_down, p)
                                         /\ vsize[p] # 0
                      /\ UnitClear(up, down, index)
                   THEN "no" ELSE "unit"
  BY DEF free_chunk_medium, delete_chunk
<1>2. /\ TypeOK /\ Fits /\ Apart /\ Covered
      /\ bitmap_type \subseteq bitmap_up /\ tree = bitmap_up \ bitmap_type
      /\ bitmap_down = {Mirror(p) : p \in bitmap_up}
      /\ bitmap_type = {p \in Page : held[p] # 0}
      /\ \A p \in tree : p + vsize[p] \notin tree
      /\ free_size = Cardinality(Page \ HeldPages)
  BY <1>1 DEF IInv, Tiled, BitmapsAgree, HeldIsMarked, Coalesced, FreeSizeExact
<1>3. /\ curr \in bitmap_up /\ curr \notin tree /\ curr \in Int /\ curr >= 1 /\ curr < Units
      /\ held[curr] \in Nat /\ held[curr] >= 1 /\ UnitLen(curr) = held[curr]
      /\ curr + held[curr] <= Units
  BY <1>1, HeldUnit DEF Page
<1>4. /\ bitmap_up \subseteq Page /\ bitmap_type \subseteq Page /\ tree \subseteq Page
      /\ bitmap_up \subseteq Int
  BY <1>2 DEF TypeOK, Page
<1>5. \A p \in Page : p \in Int /\ UnitLen(p) \in Int /\ vsize[p] \in Int /\ held[p] \in Int
  BY <1>2, UnitLenType DEF TypeOK, Page
<1>6. next = curr + held[curr] /\ (next = Units \/ next \in bitmap_up)
  BY <1>1, NextUnitIs
<1>7. \/ curr = 1 /\ prev = Units
      \/ prev \in bitmap_up /\ prev + UnitLen(prev) = curr
  BY <1>1, PrevUnitIs
<1> HIDE DEF next, prev
<1>8. ~(Units \in bitmap_up)
  BY <1>4 DEF Page
<1>9. /\ FreeUnit(next) <=> next \in tree
      /\ FreeUnit(prev) <=> prev \in tree
  BY <1>2, <1>4, <1>6, <1>7, <1>8 DEF FreeUnit
<1>10. \A p \in tree : /\ p \in Int /\ vsize[p] \in Int /\ UnitLen(p) = vsize[p]
                        /\ vsize[p] >= 1 /\ p + vsize[p] <= Units /\ p >= 1
  BY <1>2, <1>4, <1>5 DEF Fits, UnitLen, Page
<1>11. /\ next \in Int /\ curr < next /\ next <= Units
       /\ prev \in tree => prev \in Int /\ prev < curr /\ prev + vsize[prev] = curr
  <2>1. next \in Int /\ curr < next /\ next <= Units
    BY <1>3, <1>6
  <2>2. ASSUME prev \in tree
        PROVE  prev \in Int /\ prev < curr /\ prev + vsize[prev] = curr
    <3>1. prev \in bitmap_up
      BY <1>2, <2>2
    <3> QED BY <1>3, <1>7, <1>8, <1>10, <2>2, <3>1
  <2> QED BY <2>1, <2>2
<1>12. /\ gone \subseteq tree
       /\ \A p \in tree : p \in gone <=> p = next \/ p = prev
       /\ index = IF prev \in tree THEN prev ELSE curr
       /\ end = IF next \in tree THEN next + vsize[next] ELSE next
  BY <1>9, <1>11
<1>13. /\ index \in Int /\ end \in Int /\ size = end - index
       /\ 1 <= index /\ index <= curr /\ next <= end /\ end <= Units
       /\ index \in Page /\ index \in gone \cup {curr}
  <2>1. size = (next - curr) + (IF next \in tree THEN vsize[next] ELSE 0)
                             + (IF prev \in tree THEN vsize[prev] ELSE 0)
    BY <1>9
  <2>2. index \in Int /\ end \in Int /\ 1 <= index /\ index <= curr /\ next <= end /\ end <= Units
    BY <1>3, <1>10, <1>11, <1>12
  <2>3. size = end - index
    BY <1>3, <1>10, <1>11, <1>12, <2>1
  <2>4. index \in Page /\ index \in gone \cup {curr}
    BY <1>4, <1>12
  <2> QED BY <2>2, <2>3, <2>4
<1>14. /\ vsize[next] \in Int /\ next \in tree => vsize[next] <= size
       /\ prev \in tree => vsize[prev] <= size
  BY <1>10, <1>11, <1>12, <1>13, <1>3
<1> HIDE DEF gone, index, end, size
<1>15. ASSUME NEW p \in bitmap_up, p \notin gone \cup {curr}
       PROVE  p + UnitLen(p) <= index \/ end <= p
  <2>1. p \in Int /\ UnitLen(p) \in Int
    BY <1>4, <1>5
  <2>2. CASE curr < p
    <3>1. next <= p
      BY <1>2, <1>3, <1>6, <2>1, <2>2 DEF Apart
    <3>2. CASE next \in tree
      <4>1. next < p /\ next \in bitmap_up /\ UnitLen(next) = vsize[next]
        BY <1>2, <1>10, <1>11, <1>12, <1>15, <2>1, <3>1, <3>2
      <4> QED BY <1>2, <1>12, <3>2, <4>1 DEF Apart
    <3> QED BY <1>12, <3>1, <3>2
  <2>3. CASE p < curr
    <3>1. p + UnitLen(p) <= curr
      BY <1>2, <1>3, <2>1, <2>3 DEF Apart
    <3>2. CASE prev \in tree
      <4>1. p # prev /\ prev \in bitmap_up /\ prev \in Int /\ UnitLen(prev) = vsize[prev]
        BY <1>2, <1>10, <1>12, <1>15, <2>1, <3>2
      <4>2. ~(prev < p)
        BY <1>2, <1>3, <1>11, <2>1, <2>3, <3>2, <4>1 DEF Apart
      <4> QED BY <1>2, <1>12, <2>1, <3>2, <4>1, <4>2 DEF Apart
    <3> QED BY <1>12, <3>1, <3>2
  <2> QED BY <1>3, <1>15, <2>1, <2>2, <2>3
<1>16. /\ \A p \in Page : held'[p] = IF p = curr THEN 0 ELSE held[p]
       /\ \A p \in Page : vsize'[p] = IF p = index THEN size ELSE IF p \in gone THEN 0 ELSE vsize[p]
  BY <1>1, <1>2 DEF TypeOK
<1>17. \A p \in bitmap_up' : p = index \/ (p \in bitmap_up /\ p \notin gone \cup {curr})
  BY <1>1
<1>18. /\ \A p \in Page : p = index => UnitLen(p)' = size
       /\ \A p \in bitmap_up : p \notin gone \cup {curr} => UnitLen(p)' = UnitLen(p)
  <2>1. \A p \in Page : p = index => UnitLen(p)' = size
    BY <1>1, <1>13, <1>16 DEF UnitLen
  <2>2. ASSUME NEW p \in bitmap_up, p \notin gone \cup {curr}
        PROVE  UnitLen(p)' = UnitLen(p)
    <3>1. p \in Page /\ p # index /\ p # curr
      BY <1>4, <1>13, <2>2
    <3>2. p \in tree' <=> p \in tree
      BY <1>1, <2>2, <3>1
    <3> QED BY <1>16, <2>2, <3>1, <3>2 DEF UnitLen
  <2> QED BY <2>1, <2>2
<1>19. Tiled'
  <2>1. Fits'
    <3> SUFFICES ASSUME NEW p \in bitmap_up'
                 PROVE  UnitLen(p)' >= 1 /\ p + UnitLen(p)' <= Units
      BY DEF Fits
    <3>1. CASE p = index
      BY <1>3, <1>11, <1>13, <1>18, <3>1
    <3>2. CASE p # index
      BY <1>2, <1>17, <1>18, <3>2 DEF Fits
    <3> QED BY <3>1, <3>2
  <2>2. Apart'
    <3> SUFFICES ASSUME NEW p \in bitmap_up', NEW q \in bitmap_up', p < q
                 PROVE  p + UnitLen(p)' <= q
      BY DEF Apart
    <3>1. p \in Int /\ q \in Int
      BY <1>4, <1>13, <1>17
    <3>2. CASE p = index
      <4>1. q \in bitmap_up /\ q \notin gone \cup {curr} /\ UnitLen(q) \in Int /\ UnitLen(q) >= 1
        BY <1>2, <1>4, <1>5, <1>17, <3>1, <3>2 DEF Fits
      <4>2. end <= q
        BY <1>13, <1>15, <3>1, <3>2, <4>1
      <4> QED BY <1>13, <1>18, <3>2, <4>2
    <3>3. CASE q = index
      <4>1. p \in bitmap_up /\ p \notin gone \cup {curr} /\ UnitLen(p)' = UnitLen(p)
        BY <1>17, <1>18, <3>1, <3>3
      <4>2. index < end
        BY <1>3, <1>11, <1>13
      <4> QED BY <1>13, <1>15, <3>1, <3>3, <4>1, <4>2
    <3>4. CASE p # index /\ q # index
      BY <1>2, <1>17, <1>18, <3>4 DEF Apart
    <3> QED BY <3>2, <3>3, <3>4
  <2>3. Covered'
    <3> SUFFICES ASSUME NEW x \in Page
                 PROVE  \E p \in bitmap_up' : p <= x /\ x < p + UnitLen(p)'
      BY DEF Covered
    <3>1. PICK p \in bitmap_up : p <= x /\ x < p + UnitLen(p)
      BY <1>2 DEF Covered
    <3>2. CASE p \notin gone \cup {curr}
      BY <1>1, <1>18, <3>1, <3>2
    <3>3. CASE p \in gone \cup {curr}
      <4>1. index <= p /\ p + UnitLen(p) <= end /\ x \in Int /\ p \in Int /\ UnitLen(p) \in Int
        <5>1. x \in Int /\ p \in Int /\ UnitLen(p) \in Int
          BY <1>4, <1>5
        <5>2. CASE p = curr
          BY <1>3, <1>6, <1>13, <5>1, <5>2
        <5>3. CASE p = next /\ p \in tree
          BY <1>3, <1>10, <1>11, <1>12, <1>13, <5>1, <5>3
        <5>4. CASE p = prev /\ p \in tree
          BY <1>3, <1>10, <1>11, <1>12, <1>13, <5>1, <5>4
        <5> QED BY <1>12, <3>3, <5>1, <5>2, <5>3, <5>4
      <4>2. index <= x /\ x < index + size
        BY <1>13, <3>1, <4>1
      <4>3. PICK k \in Page : k = index
        BY <1>13
      <4>4. k \in bitmap_up' /\ UnitLen(k)' = size
        BY <1>1, <1>18, <4>3
      <4> QED BY <4>2, <4>3, <4>4
    <3> QED BY <3>2, <3>3
  <2> QED BY <2>1, <2>2, <2>3 DEF Tiled
<1>20. BitmapsAgree'
  <2>1. bitmap_type' \subseteq bitmap_up'
    BY <1>1, <1>2, <1>12
  <2>2. tree' = bitmap_up' \ bitmap_type'
    BY <1>1, <1>2, <1>12, <1>13
  <2>3. \A p, q \in bitmap_up : Mirror(p) = Mirror(q) => p = q
    BY <1>4 DEF Mirror
  <2>4. gone \cup {curr} \subseteq bitmap_up
    BY <1>2, <1>3, <1>12
  <2>5. down = {Mirror(p) : p \in up}
    BY <1>2, <2>3, <2>4
  <2>6. bitmap_down' = {Mirror(p) : p \in bitmap_up'}
    BY <1>1, <2>5
  <2> QED BY <2>1, <2>2, <2>6 DEF BitmapsAgree
<1>21. HeldIsMarked'
  <2>1. bitmap_type' = {p \in Page : held'[p] # 0}
    BY <1>1, <1>2, <1>16
  <2> QED BY <2>1 DEF HeldIsMarked
<1>22. Coalesced'
  <2> SUFFICES ASSUME NEW p \in tree' PROVE p + vsize'[p] \notin tree'
    BY DEF Coalesced
  <2>1. CASE p = index
    <3>1. p + vsize'[p] = end
      BY <1>13, <1>16, <2>1
    <3>2. end \notin tree
      BY <1>2, <1>4, <1>6, <1>12
    <3>3. end # index
      BY <1>3, <1>11, <1>13
    <3> QED BY <1>1, <3>1, <3>2, <3>3
  <2>2. CASE p # index
    <3>1. /\ p \in tree /\ p \notin gone /\ p # curr /\ p \in Page /\ p \in bitmap_up
          /\ vsize'[p] = vsize[p] /\ UnitLen(p) = vsize[p]
          /\ p \in Int /\ vsize[p] \in Int /\ vsize[p] >= 1 /\ p >= 1
      BY <1>1, <1>2, <1>3, <1>4, <1>10, <1>16, <2>2
    <3>2. p + vsize[p] \notin tree
      BY <1>2, <3>1
    <3>3. p + vsize[p] # index
      <4> SUFFICES ASSUME p + vsize[p] = index PROVE FALSE
        OBVIOUS
      <4>1. prev \notin tree /\ index = curr
        BY <1>12, <3>2
      <4>2. prev \in bitmap_up /\ prev + UnitLen(prev) = curr
        BY <1>3, <1>7, <3>1, <4>1
      <4>3. prev \in Int /\ UnitLen(prev) \in Int /\ UnitLen(prev) >= 1 /\ p # prev
        BY <1>2, <1>4, <1>5, <3>1, <4>1, <4>2 DEF Fits
      <4>4. p < prev \/ prev < p
        BY <3>1, <4>3
      <4> QED BY <1>2, <1>3, <3>1, <4>1, <4>2, <4>3, <4>4 DEF Apart
    <3> QED BY <1>1, <3>1, <3>2, <3>3
  <2> QED BY <2>1, <2>2
<1>23. size \in 1 .. (Units - 1)
  BY <1>3, <1>11, <1>13
<1>24. /\ MaxSizeIsFree'
       /\ max_size' \in 0 .. (Units - 1) /\ maxsize' \in 0 .. (Units - 1)
  <2>1. /\ maxsize = max_size /\ max_size \in 0 .. (Units - 1)
        /\ max_size # 0 => \E p \in tree : vsize[p] = max_size
    BY <1>1 DEF IInv, MaxSizeIsFree, TypeOK
  <2>2. index \in tree' /\ vsize'[index] = size
    BY <1>1, <1>13, <1>16
  <2>3. CASE size >= max_size
    <3>1. max_size' = size /\ maxsize' = size
      BY <1>1, <2>1, <2>3 DEF check_chunk_medium_max, update_chunk_pool
    <3> QED BY <1>23, <2>2, <3>1 DEF MaxSizeIsFree
  <2>4. CASE ~(size >= max_size)
    <3>1. max_size' = max_size /\ maxsize' = maxsize /\ max_size # 0 /\ size < max_size
      BY <1>1, <1>23, <2>1, <2>4
    <3>2. PICK p \in tree : vsize[p] = max_size
      BY <2>1, <3>1
    <3>3. p \notin gone /\ p # index /\ p \in Page
      BY <1>3, <1>4, <1>10, <1>12, <1>14, <1>23, <2>1, <3>1, <3>2
    <3>4. p \in tree' /\ vsize'[p] = max_size
      BY <1>1, <1>16, <3>2, <3>3
    <3> QED BY <2>1, <2>2, <3>1, <3>4 DEF MaxSizeIsFree
  <2> QED BY <2>3, <2>4
<1>25. held' \in [Page -> 0 .. (Units - 1)]
  <2>1. held \in [Page -> 0 .. (Units - 1)] /\ 0 \in 0 .. (Units - 1)
    BY <1>2 DEF TypeOK
  <2> QED BY <1>1, <2>1
<1>26. /\ free_size' = Cardinality(Page \ PagesOf(held'))
       /\ free_size' \in 0 .. (Units - 1)
  <2>1. \A q \in Page : q # curr =>
          (curr .. (curr + held[curr] - 1)) \cap (q .. (q + held'[q] - 1)) = {}
    <3> SUFFICES ASSUME NEW q \in Page, q # curr,
                        NEW x \in curr .. (curr + held[curr] - 1),
                        x \in q .. (q + held[q] - 1)
                 PROVE  FALSE
      BY <1>16
    <3>1. q \in Int /\ held[q] \in Int /\ x \in Int /\ curr <= x /\ x < curr + held[curr]
          /\ q <= x /\ x < q + held[q] /\ held[q] # 0
      BY <1>3, <1>5
    <3>2. q \in bitmap_up /\ UnitLen(q) = held[q]
      BY <1>2, <3>1 DEF UnitLen
    <3>3. q < curr \/ curr < q
      BY <1>3, <3>1
    <3> QED BY <1>2, <1>3, <3>1, <3>2, <3>3 DEF Apart
  <2>2. held = [held' EXCEPT ![curr] = held[curr]]
    <3>1. held \in [Page -> 0 .. (Units - 1)]
      BY <1>2 DEF TypeOK
    <3> QED BY <1>1, <1>25, <3>1
  <2>3. AddsRun(held', held, curr, held[curr])
    BY <1>3, <1>16, <1>25, <2>1, <2>2 DEF AddsRun
  <2>4. /\ Cardinality(Page \ PagesOf(held')) \in Nat
        /\ Cardinality(Page \ PagesOf(held')) = Cardinality(Page \ PagesOf(held)) + held[curr]
    <3>1. curr \in Page /\ held[curr] \in Nat
      BY <1>3
    <3> QED BY ONLY <2>3, <3>1, RunCount, Zenon
  <2>5. next - curr = held[curr]
    BY <1>3, <1>6
  <2>6. free_size' = Cardinality(Page \ PagesOf(held'))
    BY <1>1, <1>2, <2>4, <2>5, HeldPagesIs
  <2>7. Cardinality(Page \ PagesOf(held')) <= Units - 1
    <3>1. IsFiniteSet(Page) /\ Cardinality(Page) = Units - 1
      <4>1. 1 \in Int /\ Units - 1 \in Int /\ ~(1 > Units - 1)
        OBVIOUS
      <4> QED BY <4>1, FS_Interval DEF Page
    <3> QED BY <3>1, FS_Subset
  <2> QED BY <2>4, <2>6, <2>7
<1>27. FreeSizeExact'
  <2>1. HeldPages' = PagesOf(held')
    BY DEF HeldPages, PagesOf, Heap!Extent
  <2> QED BY <1>26, <2>1 DEF FreeSizeExact
<1>28. DeletedIsUnheld'
  <2> SUFFICES ASSUME type' = "EMPTY" PROVE \A p \in Page : held'[p] = 0
    BY DEF DeletedIsUnheld
  <2>1. Cardinality(Page \ PagesOf(held')) = Units - 1
    BY <1>1, <1>26
  <2> QED BY ONLY <1>25, <2>1, AllFree, Zenon
<1>29. failed' = "no"
  <2>1. \A p \in bitmap_up : UnitSet(bitmap_up, bitmap_down, p)
    BY <1>2 DEF UnitSet
  <2>2. UnitClear(up, down, index)
    BY <1>13 DEF UnitClear
  <2>3. \A p \in gone : p \in bitmap_up /\ vsize[p] # 0
    BY <1>2, <1>10, <1>12
  <2> QED BY <1>1, <1>3, <2>1, <2>2, <2>3
<1>30. TypeOK'
  <2>1. vsize' \in [Page -> 0 .. (Units - 1)]
    BY <1>1, <1>2, <1>23 DEF TypeOK
  <2>2. tree' \subseteq Page /\ bitmap_up' \subseteq Page /\ bitmap_type' \subseteq Page
    BY <1>1, <1>4, <1>13
  <2>3. bitmap_down' \subseteq 0 .. (Units - 2)
    <3>1. Mirror(index) \in 0 .. (Units - 2)
      BY <1>13 DEF Mirror, Page
    <3>2. bitmap_down \subseteq 0 .. (Units - 2)
      BY <1>2 DEF TypeOK
    <3> QED BY <1>1, <3>1, <3>2
  <2>4. type' \in {"EMPTY", "MEDIUM"}
    BY <1>1
  <2> QED BY <1>24, <1>25, <1>26, <1>29, <2>1, <2>2, <2>3, <2>4 DEF TypeOK
<1> QED
  BY <1>19, <1>20, <1>21, <1>22, <1>24, <1>27, <1>28, <1>29, <1>30 DEF IInv, UnitAssertsHold

-----------------------------------------------------------------------------
(* The theorems *)

\* Every operation of the chunk, and a refused call, preserves the invariant.
LEMMA NextIInv == IInv /\ [Next]_vars => IInv'
<1> SUFFICES ASSUME IInv, [Next]_vars PROVE IInv'
  OBVIOUS
<1>1. CASE init_chunk
  BY <1>1, init_chunkIInv
<1>2. ASSUME NEW size \in Page, NEW n \in AnyNode(tree), NEW m \in AnyNode(tree'),
             malloc_chunk_medium(size, n, m)
      PROVE  IInv'
  BY <1>2, malloc_chunk_mediumIInv
<1>3. ASSUME NEW size \in Page, NEW n \in AnyNode(tree), malloc_no_fit(size, n)
      PROVE  IInv'
  <2>1. /\ UNCHANGED <<type, maxsize, max_size, free_size, tree, vsize,
                       bitmap_type, bitmap_up, bitmap_down, held>>
        /\ failed' = "fit"
    BY <1>3 DEF malloc_no_fit
  <2>2. TypeOK' /\ UnitAssertsHold'
    BY <2>1 DEF IInv, TypeOK, UnitAssertsHold
  <2>3. BitmapsAgree' /\ HeldIsMarked' /\ Coalesced' /\ MaxSizeIsFree' /\ DeletedIsUnheld'
    BY <2>1 DEF IInv, BitmapsAgree, HeldIsMarked, Coalesced, MaxSizeIsFree, DeletedIsUnheld
  <2>4. Tiled'
    BY <2>1 DEF IInv, Tiled, Fits, Apart, Covered, UnitLen
  <2>5. FreeSizeExact'
    BY <2>1 DEF IInv, FreeSizeExact, HeldPages
  <2> QED BY <2>2, <2>3, <2>4, <2>5 DEF IInv
<1>4. ASSUME NEW curr \in Page, free_chunk_medium(curr)
      PROVE  IInv'
  BY <1>4, free_chunk_mediumIInv
<1>5. CASE UNCHANGED vars
  <2> USE <1>5 DEF vars
  <2>1. TypeOK' /\ UnitAssertsHold'
    BY DEF IInv, TypeOK, UnitAssertsHold
  <2>2. BitmapsAgree' /\ HeldIsMarked' /\ Coalesced' /\ MaxSizeIsFree' /\ DeletedIsUnheld'
    BY DEF IInv, BitmapsAgree, HeldIsMarked, Coalesced, MaxSizeIsFree, DeletedIsUnheld
  <2>3. Tiled'
    BY DEF IInv, Tiled, Fits, Apart, Covered, UnitLen
  <2>4. FreeSizeExact'
    BY DEF IInv, FreeSizeExact, HeldPages
  <2> QED BY <2>1, <2>2, <2>3, <2>4 DEF IInv
<1>6. ASSUME NEW curr \in Page \cup {0}, free_not_used(curr)
      PROVE  IInv'
  BY <1>5, <1>6 DEF free_not_used
<1> QED
  BY <1>1, <1>2, <1>3, <1>4, <1>5, <1>6 DEF Next

\* The invariant holds in every reachable state.
THEOREM Invariance == Spec => []IInv
<1>1. Init => IInv
  BY InitIInv
<1>2. IInv /\ [Next]_vars => IInv'
  BY NextIInv
<1> QED BY <1>1, <1>2, PTL DEF Spec

\* Every field of the chunk header keeps its type: no size leaves 0 .. Units - 1.
THEOREM TypeCorrect == Spec => []TypeOK
<1>1. IInv => TypeOK
  BY DEF IInv
<1> QED BY <1>1, Invariance, PTL

\* However units are split by malloc_chunk_medium and merged by free_chunk_medium,
\* they cover every page of the chunk exactly once.
THEOREM UnitsTile == Spec => []Tiled
<1>1. IInv => Tiled
  BY DEF IInv
<1> QED BY <1>1, Invariance, PTL

\* bitmap_up, bitmap_down, bitmap_type and the free tree never disagree.
THEOREM MarksAgree == Spec => []BitmapsAgree
<1>1. IInv => BitmapsAgree
  BY DEF IInv
<1> QED BY <1>1, Invariance, PTL

\* bitmap_type marks what callers hold: a second free is refused.
THEOREM MarksAreHolds == Spec => []HeldIsMarked
<1>1. IInv => HeldIsMarked
  BY DEF IInv
<1> QED BY <1>1, Invariance, PTL

\* free_chunk_medium leaves no two free units side by side.
THEOREM AlwaysCoalesced == Spec => []Coalesced
<1>1. IInv => Coalesced
  BY DEF IInv
<1> QED BY <1>1, Invariance, PTL

\* The size the chunk advertises to the pool is the size of a free unit it has.
THEOREM AdvertisedIsFree == Spec => []MaxSizeIsFree
<1>1. IInv => MaxSizeIsFree
  BY DEF IInv
<1> QED BY <1>1, Invariance, PTL

\* free_size counts the pages that no caller holds.
THEOREM FreeSizeCounts == Spec => []FreeSizeExact
<1>1. IInv => FreeSizeExact
  BY DEF IInv
<1> QED BY <1>1, Invariance, PTL

\* delete_chunk never takes a chunk from under a caller.
THEOREM DeletedAreUnheld == Spec => []DeletedIsUnheld
<1>1. IInv => DeletedIsUnheld
  BY DEF IInv
<1> QED BY <1>1, Invariance, PTL

\* No assertion of set_medium_unit, get_medium_unit, clear_medium_unit or the
\* merges ever fails.
THEOREM UnitAssertsNeverFail == Spec => []UnitAssertsHold
<1>1. IInv => UnitAssertsHold
  BY DEF IInv
<1> QED BY <1>1, Invariance, PTL

\* A medium chunk implements PageHeap: whatever node the tree returns, the pages
\* malloc_chunk_medium hands out are in no other caller's hands, and they stay
\* with their caller until free_chunk_medium is called for them.
THEOREM ImplementsPageHeap == Spec => HeapSpec
<1> USE UnitsAssumption
<1>1. Init => Heap!Init
  BY DEF Init, Heap!Init, Heap!Page, Page
<1>2. IInv /\ [Next]_vars => [Heap!Next]_held
  <2> SUFFICES ASSUME IInv, [Next]_vars PROVE [Heap!Next]_held
    OBVIOUS
  <2>1. Heap!Page = Page
    BY DEF Heap!Page, Page
  <2>2. ASSUME NEW size \in Page, NEW n \in AnyNode(tree), NEW m,
               malloc_chunk_medium(size, n, m)
        PROVE  Heap!Next
    <3>1. /\ type = "MEDIUM" /\ n # RB_NULL /\ vsize[n] >= size
          /\ held' = [held EXCEPT ![n] = size]
      BY <2>2 DEF malloc_chunk_medium, get_avaliable_chunk
    <3>2. /\ TypeOK /\ Fits /\ Apart /\ tree = bitmap_up \ bitmap_type
          /\ bitmap_type \subseteq bitmap_up
          /\ bitmap_type = {p \in Page : held[p] # 0}
      BY <3>1 DEF IInv, Tiled, BitmapsAgree, HeldIsMarked
    <3>3. /\ n \in tree /\ n \in bitmap_up /\ n \in Page /\ held[n] = 0
          /\ UnitLen(n) = vsize[n]
      BY <3>1, <3>2 DEF AnyNode, TypeOK, UnitLen
    <3>4. /\ n \in Int /\ 1 <= n /\ size \in Int /\ 1 <= size
          /\ vsize[n] \in Int /\ n + vsize[n] <= Units
      BY <3>2, <3>3 DEF TypeOK, Fits, Page
    <3>5. n + size <= Units
      BY <3>1, <3>4
    <3>6. Heap!Extent(n, size) \subseteq Page
      BY <3>4, <3>5 DEF Heap!Extent, Page
    <3>7. ASSUME NEW q \in Page PROVE Heap!Extent(n, size) \cap Heap!Extent(q, held[q]) = {}
      <4> SUFFICES ASSUME NEW x \in n .. (n + size - 1), x \in q .. (q + held[q] - 1)
                   PROVE  FALSE
        BY DEF Heap!Extent
      <4>1. q \in Int /\ held[q] \in Int /\ x \in Int
        BY <3>2, <3>4 DEF TypeOK, Page
      <4>2. n <= x /\ x < n + size /\ q <= x /\ x < q + held[q] /\ held[q] # 0
        BY <3>4, <4>1
      <4>3. q \in bitmap_up /\ q # n /\ UnitLen(q) = held[q]
        BY <3>2, <3>3, <4>2 DEF UnitLen
      <4>4. q < n \/ n < q
        BY <3>4, <4>1, <4>3
      <4> QED BY <3>1, <3>2, <3>3, <3>4, <4>1, <4>2, <4>3, <4>4 DEF Apart
    <3>8. Heap!Malloc(n, size)
      BY <2>1, <3>1, <3>3, <3>6, <3>7 DEF Heap!Malloc
    <3>9. held'[n] = size /\ held'[n] # held[n]
      BY <3>1, <3>2, <3>3, <3>4 DEF TypeOK
    <3> QED BY <2>1, <3>3, <3>8, <3>9 DEF Heap!Next
  <2>3. ASSUME NEW curr \in Page, free_chunk_medium(curr)
        PROVE  Heap!Next
    <3>1. held[curr] # 0 /\ held' = [held EXCEPT ![curr] = 0]
      BY <2>3 DEF free_chunk_medium, IInv, HeldIsMarked
    <3>2. held'[curr] # held[curr]
      BY <3>1 DEF IInv, TypeOK
    <3> QED BY <2>1, <3>1, <3>2 DEF Heap!Next, Heap!Free
  <2>4. CASE UNCHANGED vars
    BY <2>4 DEF vars
  <2>5. CASE init_chunk
    BY <2>5 DEF init_chunk
  <2>6. ASSUME NEW size \in Page, NEW n \in AnyNode(tree), malloc_no_fit(size, n)
        PROVE  UNCHANGED held
    BY <2>6 DEF malloc_no_fit
  <2>7. ASSUME NEW curr \in Page \cup {0}, free_not_used(curr)
        PROVE  UNCHANGED held
    BY <2>7 DEF free_not_used, vars
  <2> QED BY <2>2, <2>3, <2>4, <2>5, <2>6, <2>7 DEF Next
<1> QED BY <1>1, <1>2, Invariance, PTL DEF Spec, HeapSpec, Heap!Spec

===============================================================================
