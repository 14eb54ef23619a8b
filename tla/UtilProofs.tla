------------------------------ MODULE UtilProofs ------------------------------
(***************************************************************************)
(* Proofs about the helpers.  Every request is served as RequestFits says, *)
(* whatever its size: TLC looks at some thousand requests and a size_t of  *)
(* 22 bits; here both are arbitrary.  And the words of Bitmap are a set of *)
(* bits, for bitmaps of any length and words of any width: the loop of the *)
(* scans is a recursive function; that there is one, and what it returns,  *)
(* is shown by naming it in closed form, and that there is no other by the *)
(* last word where two of them would differ.                               *)
(***************************************************************************)
EXTENDS SizeClass, Bitmap, NumberFacts, TLAPS

-----------------------------------------------------------------------------
(* Small requests *)

\* The entries of run_table8.
LEMMA Table8 ==
    /\ run_table8[1] = 1 /\ run_table8[2] = 2 /\ run_table8[3] = 3 /\ run_table8[4] = 3
    /\ run_table8[5] = 4 /\ run_table8[6] = 4 /\ run_table8[7] = 5 /\ run_table8[8] = 5
    /\ run_table8[9] = 6 /\ run_table8[10] = 6 /\ run_table8[11] = 6 /\ run_table8[12] = 6
BY DEF run_table8

\* The entries of run_table32.
LEMMA Table32 ==
    /\ run_table32[1] = 7 /\ run_table32[2] = 7 /\ run_table32[3] = 7 /\ run_table32[4] = 7
    /\ run_table32[5] = 8 /\ run_table32[6] = 8 /\ run_table32[7] = 9 /\ run_table32[8] = 9
    /\ run_table32[9] = 10 /\ run_table32[10] = 10 /\ run_table32[11] = 10 /\ run_table32[12] = 10
    /\ run_table32[13] = 11 /\ run_table32[14] = 11 /\ run_table32[15] = 11 /\ run_table32[16] = 11
BY DEF run_table32

\* The entries of run_table128.
LEMMA Table128 ==
    /\ run_table128[1] = 12 /\ run_table128[2] = 12 /\ run_table128[3] = 12 /\ run_table128[4] = 12
    /\ run_table128[5] = 12 /\ run_table128[6] = 12 /\ run_table128[7] = 13 /\ run_table128[8] = 13
    /\ run_table128[9] = 13 /\ run_table128[10] = 13 /\ run_table128[11] = 14 /\ run_table128[12] = 14
    /\ run_table128[13] = 14 /\ run_table128[14] = 14 /\ run_table128[15] = 14 /\ run_table128[16] = 14
BY DEF run_table128

\* The element sizes of the classes, which grow.
LEMMA Classes ==
    /\ DOMAIN run_config_list = 1 .. 14
    /\ run_config_list[1] = 8 /\ run_config_list[2] = 16 /\ run_config_list[3] = 32 /\ run_config_list[4] = 48
    /\ run_config_list[5] = 64 /\ run_config_list[6] = 96 /\ run_config_list[7] = 128 /\ run_config_list[8] = 192
    /\ run_config_list[9] = 256 /\ run_config_list[10] = 384 /\ run_config_list[11] = 512 /\ run_config_list[12] = 768
    /\ run_config_list[13] = 1280 /\ run_config_list[14] = 1920
BY DEF run_config_list, CHUNK_SMALL_LIMIT

\* Class c is the smallest that s bytes fit in.
Smallest(s, c) ==
    /\ c \in 1 .. 14 /\ s <= run_config_list[c]
    /\ c = 1 \/ run_config_list[c - 1] < s

\* run_table8 leads to the smallest class, for the requests it is used for.
LEMMA Table8Right ==
    ASSUME NEW s \in Nat, s >= 1, s <= 96
    PROVE  Smallest(s, run_table8[(s - 1) \div 8 + 1])
<1> DEFINE k == (s - 1) \div 8 + 1
<1>1. k \in 1 .. 12 /\ 8 * (k - 1) < s /\ s <= 8 * k
  OBVIOUS
<1> HIDE DEF k
<1>2. Smallest(s, run_table8[k])
  BY <1>1, Table8, Classes DEF Smallest
<1> QED BY <1>2 DEF k

\* run_table32 leads to the smallest class, for the requests it is used for.
LEMMA Table32Right ==
    ASSUME NEW s \in Nat, s >= 97, s <= 512
    PROVE  Smallest(s, run_table32[(s - 1) \div 32 + 1])
<1> DEFINE k == (s - 1) \div 32 + 1
<1>1. k \in 4 .. 16 /\ 32 * (k - 1) < s /\ s <= 32 * k
  OBVIOUS
<1> HIDE DEF k
<1>2. Smallest(s, run_table32[k])
  BY <1>1, Table32, Classes DEF Smallest
<1> QED BY <1>2 DEF k

\* run_table128 leads to the smallest class, for the requests it is used for.
LEMMA Table128Right ==
    ASSUME NEW s \in Nat, s >= 513, s <= 1920
    PROVE  Smallest(s, run_table128[(s - 1) \div 128 + 1])
<1> DEFINE k == (s - 1) \div 128 + 1
<1>1. k \in 5 .. 15 /\ 128 * (k - 1) < s /\ s <= 128 * k
  OBVIOUS
<1> HIDE DEF k
<1>2. Smallest(s, run_table128[k])
  BY <1>1, Table128, Classes DEF Smallest
<1> QED BY <1>2 DEF k

\* find_run_config returns the smallest class a small request fits in.
LEMMA FindRight ==
    ASSUME NEW s \in Nat, s >= 1, s <= 1920
    PROVE  Smallest(s, find_run_config(s))
<1>1. CASE s <= 96
  BY <1>1, Table8Right DEF find_run_config
<1>2. CASE s > 96 /\ s <= 512
  <2>1. s >= 97 /\ ~(s <= 96)
    BY <1>2
  <2>2. find_run_config(s) = run_table32[(s - 1) \div 32 + 1]
    BY <1>2, <2>1 DEF find_run_config
  <2> QED BY <1>2, <2>1, <2>2, Table32Right
<1>3. CASE s > 512
  <2>1. s >= 513 /\ ~(s <= 96) /\ ~(s <= 512)
    BY <1>3
  <2>2. find_run_config(s) = run_table128[(s - 1) \div 128 + 1]
    BY <2>1 DEF find_run_config
  <2> QED BY <2>1, <2>2, Table128Right
<1> QED BY <1>1, <1>2, <1>3

\* No smaller class would do.
LEMMA SmallestIsLeast ==
    ASSUME NEW s \in Nat, NEW c, Smallest(s, c), NEW d \in 1 .. 14, s <= run_config_list[d]
    PROVE  c <= d
<1>1. \A a, b \in 1 .. 14 : a <= b => run_config_list[a] <= run_config_list[b]
  BY Classes
<1>2. \A a \in 1 .. 14 : run_config_list[a] \in Nat
  BY Classes
<1> QED BY <1>1, <1>2 DEF Smallest

\* The slots of a run, behind its header, end within the page.
LEMMA RunInPage ==
    ASSUME NEW c \in 1 .. 14
    PROVE  RUN_HEADER_SIZE + total(c) * run_config_list[c] <= SHM_PAGE_SIZE
<1> DEFINE e == run_config_list[c]
<1>1. e \in Nat /\ e > 0
  BY SMT, Classes
<1> HIDE DEF e
<1>2. (4032 \div e) * e <= 4032 /\ (4032 \div e) * e \in Int
  BY SMT, <1>1
<1>3. total(c) * e = (4032 \div e) * e
  BY SMT DEF total, e, SHM_PAGE_SIZE, RUN_HEADER_SIZE
<1> QED BY SMT, <1>2, <1>3 DEF e, RUN_HEADER_SIZE, SHM_PAGE_SIZE

-----------------------------------------------------------------------------
(* Rounding *)

\* A sum of two sizes wraps at most once.
LEMMA Wraps ==
    ASSUME NEW x \in Nat, NEW m \in Nat, m > 0
    PROVE  /\ x < m => x % m = x
           /\ x >= m /\ x < m + m => x % m = x - m
BY SMT

\* The limit of the medium requests, in bytes.
LEMMA MediumLimit == CHUNK_MEDIUM_LIMIT = 1044480
BY SMT DEF CHUNK_MEDIUM_LIMIT, SHM_CHUNK_UNIT_SIZE, SHM_PAGE_SIZE

\* align_size to pages, of a medium request.
LEMMA AlignPage ==
    ASSUME NEW s \in Nat, s >= 1, s <= 1044480
    PROVE  LET a == align_size(s, SHM_PAGE_SIZE)
           IN  /\ a \in Nat /\ s <= a /\ a <= 1044480
               /\ \A pages \in Nat : s <= pages * SHM_PAGE_SIZE <=> a \div SHM_PAGE_SIZE <= pages
<1>1. (s + 4095) % SizeLimit = s + 4095
  BY SMT, SizeAssumption, Wraps DEF SHM_CHUNK_UNIT_SIZE
<1> DEFINE k == (s + 4095) \div 4096
<1>2. align_size(s, SHM_PAGE_SIZE) = 4096 * k
  BY SMT, <1>1 DEF align_size, SHM_PAGE_SIZE
<1>3. k \in Nat /\ s <= 4096 * k /\ 4096 * k < s + 4096 /\ k <= 255
  BY SMT
<1> HIDE DEF k
<1>4. (4096 * k) \div 4096 = k
  BY SMT, <1>3
<1>5. \A pages \in Nat : s <= pages * 4096 <=> k <= pages
  BY SMT, <1>3
<1> QED BY SMT, <1>2, <1>3, <1>4, <1>5 DEF SHM_PAGE_SIZE

\* align_size to chunks, of a large request.
LEMMA AlignChunk ==
    ASSUME NEW s \in 1 .. (SizeLimit - 1)
    PROVE  LET a == align_size(s, SHM_CHUNK_UNIT_SIZE)
           IN  IF s <= SizeLimit - SHM_CHUNK_UNIT_SIZE THEN s <= a ELSE a = 0
<1>1. /\ SizeLimit \in Nat /\ SizeLimit > 2097152 /\ SizeLimit % 1048576 = 0
      /\ s \in Nat /\ s >= 1 /\ s < SizeLimit
  BY SMT, SizeAssumption DEF SHM_CHUNK_UNIT_SIZE
<1> DEFINE x == (s + 1048575) % SizeLimit
<1>2. align_size(s, SHM_CHUNK_UNIT_SIZE) = 1048576 * (x \div 1048576)
  BY SMT DEF align_size, SHM_CHUNK_UNIT_SIZE
<1>3. CASE s <= SizeLimit - 1048576
  <2>1. x = s + 1048575
    BY SMT, <1>1, <1>3, Wraps
  <2>2. s <= 1048576 * ((s + 1048575) \div 1048576)
    BY SMT, <1>1
  <2> QED BY SMT, <1>2, <1>3, <2>1, <2>2 DEF SHM_CHUNK_UNIT_SIZE
<1>4. CASE ~(s <= SizeLimit - 1048576)
  <2>1. x = s + 1048575 - SizeLimit
    BY SMT, <1>1, <1>4, Wraps
  <2>2. x \in Nat /\ x < 1048576
    BY SMT, <1>1, <1>4, <2>1
  <2> HIDE DEF x
  <2>3. x \div 1048576 = 0
    BY SMT, <2>2
  <2> QED BY SMT, <1>2, <1>4, <2>3 DEF SHM_CHUNK_UNIT_SIZE
<1> QED BY SMT, <1>3, <1>4

-----------------------------------------------------------------------------
(* Theorem *)

\* Whatever the request and the width of size_t: malloc_arena gives a caller no less
\* than it asks for, unless the size overflows to one that shmget refuses;
\* find_run_config picks the smallest class that fits; what is given lies within its
\* page or chunk; and bytes and pages agree on whether a free unit is large enough.
THEOREM EveryRequestFits ==
    ASSUME size \in 1 .. (SizeLimit - 1)
    PROVE  RequestFits
<1>1. size \in Nat /\ size >= 1 /\ SizeLimit \in Nat /\ SizeLimit > 2097152
  BY SMT, SizeAssumption DEF SHM_CHUNK_UNIT_SIZE
<1>2. CASE Kind(size) = "small"
  <2> DEFINE c == find_run_config(size)
  <2>1. size <= 1920 /\ size <= SizeLimit - SHM_CHUNK_UNIT_SIZE
    BY SMT, <1>1, <1>2 DEF Kind, CHUNK_SMALL_LIMIT, SHM_CHUNK_UNIT_SIZE
  <2>2. Smallest(size, c)
    BY SMT, <1>1, <2>1, FindRight
  <2>3. Given(size) = run_config_list[c]
    BY SMT, <1>2 DEF Given
  <2> HIDE DEF c
  <2>4. RUN_HEADER_SIZE + total(c) * Given(size) <= SHM_PAGE_SIZE
    BY SMT, <2>2, <2>3, RunInPage DEF Smallest
  <2>5. \A d \in DOMAIN run_config_list : size <= run_config_list[d] => c <= d
    BY SMT, <1>1, <2>2, SmallestIsLeast, Classes
  <2>6. size <= Given(size)
    BY SMT, <2>2, <2>3 DEF Smallest
  <2> QED BY SMT, <1>2, <2>1, <2>4, <2>5, <2>6 DEF RequestFits, c
<1>3. CASE Kind(size) = "medium"
  <2>1. size <= 1044480 /\ size <= SizeLimit - SHM_CHUNK_UNIT_SIZE
    BY SMT, <1>1, <1>3, MediumLimit DEF Kind, CHUNK_SMALL_LIMIT, SHM_CHUNK_UNIT_SIZE
  <2>2. Given(size) = align_size(size, SHM_PAGE_SIZE)
    BY SMT, <1>3 DEF Given
  <2>3. /\ Given(size) \in Nat /\ size <= Given(size) /\ Given(size) <= 1044480
        /\ \A pages \in Nat : size <= pages * SHM_PAGE_SIZE <=> Given(size) \div SHM_PAGE_SIZE <= pages
    BY SMT, <1>1, <2>1, <2>2, AlignPage
  <2>4. 0 .. (size \div SHM_PAGE_SIZE + 1) \subseteq Nat
    BY SMT, <1>1 DEF SHM_PAGE_SIZE
  <2>5. SHM_PAGE_SIZE + Given(size) <= SHM_CHUNK_UNIT_SIZE
    BY SMT, <2>3 DEF SHM_PAGE_SIZE, SHM_CHUNK_UNIT_SIZE
  <2> QED BY SMT, <1>3, <2>1, <2>3, <2>4, <2>5 DEF RequestFits
<1>4. CASE Kind(size) = "large"
  BY SMT, <1>4, AlignChunk DEF RequestFits, Given
<1> QED BY SMT, <1>2, <1>3, <1>4 DEF Kind

-----------------------------------------------------------------------------
(* Bitmaps *)

\* The words are a whole number of words.
LEMMA GroupsAre ==
    Groups \in Nat \ {0} /\ Bits = Groups * W
<1> DEFINE q == Bits \div W
<1>1. W \in Nat \ {0} /\ Bits \in Nat \ {0} /\ Bits % W = 0
  BY BitsAssumption
<1>2. q \in Nat /\ Bits = q * W
  BY <1>1, DivModSum
<1>3. q # 0
  BY <1>1, <1>2
<1>4. (q * W + (W - 1)) \div W = q
  BY <1>1, <1>2, DivModIs
<1>5. Bits + W - 1 = q * W + (W - 1)
  BY <1>1, <1>2
<1> QED BY <1>2, <1>3, <1>4, <1>5 DEF Groups

\* A bit of the bitmap is a bit of one of its words, and the other way round.
LEMMA BitOfWord ==
    /\ \A n \in 0 .. (Bits - 1) :
         n \div W \in 0 .. (Groups - 1) /\ n % W \in Bit /\ n = (n \div W) * W + (n % W)
    /\ \A i \in 0 .. (Groups - 1), b \in Bit :
         /\ i * W + b \in 0 .. (Bits - 1)
         /\ (i * W + b) \div W = i /\ (i * W + b) % W = b
<1> USE BitsAssumption, GroupsAre DEF Bit
<1>1. ASSUME NEW n \in 0 .. (Bits - 1)
      PROVE  n \div W \in 0 .. (Groups - 1) /\ n % W \in Bit /\ n = (n \div W) * W + (n % W)
  <2>1. n \div W \in Nat /\ n % W \in Bit /\ n = (n \div W) * W + (n % W)
    <3>1. n \in Nat /\ W \in Nat \ {0}
      OBVIOUS
    <3> QED BY <3>1, DivModSum
  <2>2. CASE n \div W >= Groups
    <3> DEFINE q == n \div W
    <3>1. q * W >= Groups * W
      <4>1. q \in Nat /\ q >= Groups
        BY <2>1, <2>2
      <4> HIDE DEF q
      <4> QED BY <4>1
    <3> QED BY <2>1, <3>1
  <2> QED BY <2>1, <2>2
<1>2. ASSUME NEW i \in 0 .. (Groups - 1), NEW b \in Bit
      PROVE  /\ i * W + b \in 0 .. (Bits - 1)
             /\ (i * W + b) \div W = i /\ (i * W + b) % W = b
  <2>1. (i * W + b) \div W = i /\ (i * W + b) % W = b
    BY DivModIs
  <2>2. i * W \in Nat /\ i * W + W <= Groups * W
    BY Multiples
  <2> QED BY <2>1, <2>2
<1> QED BY <1>1, <1>2

Words == [0 .. Groups -> SUBSET Bit]

\* The words with a bit from word i on, and where the first of their bits is.
NonEmpty(w, i) == {j \in i .. (Groups - 1) : w[j] # {}}
First(w, i) ==
    IF NonEmpty(w, i) = {} THEN Bits ELSE Min(NonEmpty(w, i)) * W + Min(w[Min(NonEmpty(w, i))])

\* The first bit from word i on is the least of this word, or the first of the words
\* after it.
LEMMA FirstStep ==
    ASSUME NEW w \in Words, NEW i \in 0 .. Groups
    PROVE  First(w, i) = IF i >= Groups THEN Bits
                         ELSE IF ffs_u64(w[i]) # 0 THEN i * W + ffs_u64(w[i]) - 1
                         ELSE First(w, i + 1)
<1> USE GroupsAre, BitsAssumption
<1>1. CASE i >= Groups
  <2>1. NonEmpty(w, i) = {}
    BY <1>1 DEF NonEmpty
  <2> QED BY <1>1, <2>1 DEF First
<1>2. CASE i < Groups /\ w[i] # {}
  <2>1. NonEmpty(w, i) \in SUBSET Nat /\ i \in NonEmpty(w, i) /\ \A j \in NonEmpty(w, i) : i <= j
    BY <1>2 DEF NonEmpty
  <2>2. Min(NonEmpty(w, i)) \in NonEmpty(w, i) /\ Min(NonEmpty(w, i)) <= i
    BY <2>1, MinIs
  <2>3. Min(NonEmpty(w, i)) = i
    BY <2>1, <2>2
  <2>4. w[i] \in SUBSET Nat
    BY DEF Words, Bit
  <2>5. Min(w[i]) \in Nat
    BY <1>2, <2>4, MinIs
  <2>6. ffs_u64(w[i]) = Min(w[i]) + 1
    BY <1>2 DEF ffs_u64
  <2>7. First(w, i) = i * W + Min(w[i])
    BY <2>1, <2>3 DEF First
  <2>8. ffs_u64(w[i]) # 0 /\ i * W + ffs_u64(w[i]) - 1 = i * W + Min(w[i])
    BY <2>5, <2>6
  <2> QED BY <1>2, <2>7, <2>8
<1>3. CASE i < Groups /\ w[i] = {}
  <2>1. NonEmpty(w, i) = NonEmpty(w, i + 1)
    BY <1>3 DEF NonEmpty
  <2>2. First(w, i) = First(w, i + 1)
    BY <2>1 DEF First
  <2> QED BY <1>3, <2>2 DEF ffs_u64
<1> QED BY <1>1, <1>2, <1>3

\* The loop of the scans returns the first bit from word i on.
LEMMA ScanIs ==
    ASSUME NEW w \in Words, NEW i \in 0 .. Groups
    PROVE  Scan(w, i) = First(w, i)
<1> DEFINE Loop(f) == [j \in 0 .. Groups |->
                         IF j >= Groups THEN Bits
                         ELSE IF ffs_u64(w[j]) # 0 THEN j * W + ffs_u64(w[j]) - 1
                         ELSE f[j + 1]]
           closed == [j \in 0 .. Groups |-> First(w, j)]
           from   == CHOOSE f : f = Loop(f)
<1>1. Scan(w, i) = from[i]
  BY DEF Scan
<1>2. closed = Loop(closed)
  <2>1. ASSUME NEW j \in 0 .. Groups PROVE closed[j] = Loop(closed)[j]
    <3>1. j < Groups => closed[j + 1] = First(w, j + 1)
      BY GroupsAre
    <3> QED BY <3>1, FirstStep, GroupsAre
  <2> QED BY <2>1
<1>3. from = Loop(from)
  BY <1>2
<1> HIDE DEF from
<1>4. ASSUME NEW j \in 0 .. Groups
      PROVE  from[j] = IF j >= Groups THEN Bits
                       ELSE IF ffs_u64(w[j]) # 0 THEN j * W + ffs_u64(w[j]) - 1
                       ELSE from[j + 1]
  BY <1>3
<1> HIDE DEF Loop, closed
<1> DEFINE Differ == {d \in 0 .. Groups : from[Groups - d] # First(w, Groups - d)}
<1>5. Differ = {}
  <2>1. SUFFICES ASSUME Differ # {} PROVE FALSE
    OBVIOUS
  <2>2. Differ \in SUBSET Nat
    OBVIOUS
  <2> DEFINE d == Min(Differ)
  <2>3. d \in Differ /\ \A e \in Differ : d <= e
    BY <2>1, <2>2, MinIs
  <2> HIDE DEF d
  <2> DEFINE j == Groups - d
  <2>4. d \in 0 .. Groups /\ j \in 0 .. Groups /\ from[j] # First(w, j)
    BY <2>3, GroupsAre
  <2>5. d # 0 => from[j + 1] = First(w, j + 1)
    <3>1. SUFFICES ASSUME d # 0 PROVE from[j + 1] = First(w, j + 1)
      OBVIOUS
    <3>2. d - 1 \in 0 .. Groups /\ ~ (d <= d - 1)
      BY <2>4, <3>1, GroupsAre
    <3>4. d - 1 \notin Differ
      BY <2>3, <3>2
    <3>3. Groups - (d - 1) = j + 1
      BY <2>4, GroupsAre
    <3> QED BY <3>2, <3>3, <3>4
  <2>6. d = 0 <=> j >= Groups
    BY <2>4, GroupsAre
  <2>7. from[j] = First(w, j)
    BY <1>4, <2>4, <2>5, <2>6, FirstStep
  <2> QED BY <2>4, <2>7
<1>6. Groups - i \in 0 .. Groups /\ Groups - (Groups - i) = i
  BY GroupsAre
<1>7. from[i] = First(w, i)
  BY <1>5, <1>6
<1> QED BY <1>1, <1>7

\* The bits of the words w from word i on.
BitsFrom(w, i) == {n \in 0 .. (Bits - 1) : n \div W >= i /\ n % W \in w[n \div W]}

\* A number that is in a set of numbers and below all of them is what Min returns.
LEMMA LeastIs ==
    ASSUME NEW S \in SUBSET Nat, NEW m \in S, \A y \in S : m <= y
    PROVE  Least(S) = m
<1>1. Min(S) \in S /\ Min(S) <= m
  BY MinIs
<1>2. Min(S) = m
  <2>1. m <= Min(S) /\ m \in Nat /\ Min(S) \in Nat
    BY <1>1
  <2> QED BY <1>1, <2>1
<1> QED BY <1>2 DEF Least

\* The scan returns the least bit from word i on, and Bits if there is none.
LEMMA ScanLeast ==
    ASSUME NEW w \in Words, NEW i \in 0 .. (Groups - 1)
    PROVE  Scan(w, i) = Least(BitsFrom(w, i))
<1> USE GroupsAre, BitsAssumption
<1>1. Scan(w, i) = First(w, i)
  BY ScanIs
<1>2. CASE NonEmpty(w, i) = {}
  <2>1. ASSUME NEW n \in BitsFrom(w, i) PROVE FALSE
    <3>1. n \div W \in i .. (Groups - 1) /\ w[n \div W] # {}
      <4>1. n \in 0 .. (Bits - 1) /\ n \div W >= i /\ n % W \in w[n \div W]
        BY <2>1 DEF BitsFrom
      <4>2. n \div W \in 0 .. (Groups - 1)
        BY <4>1, BitOfWord
      <4> QED BY <4>1, <4>2
    <3> QED BY <1>2, <3>1 DEF NonEmpty
  <2> QED BY <1>1, <1>2, <2>1 DEF First, Least
<1>3. CASE NonEmpty(w, i) # {}
  <2> DEFINE j == Min(NonEmpty(w, i))
             b == Min(w[j])
  <2>1. NonEmpty(w, i) \in SUBSET Nat
    BY DEF NonEmpty
  <2>2. j \in NonEmpty(w, i) /\ \A y \in NonEmpty(w, i) : j <= y
    BY <1>3, <2>1, MinIs
  <2>3. First(w, i) = j * W + b
    BY <1>3 DEF First
  <2> HIDE DEF j
  <2>4. j \in i .. (Groups - 1) /\ j \in 0 .. (Groups - 1) /\ w[j] # {}
    BY <2>2 DEF NonEmpty
  <2>5. w[j] \in SUBSET Bit /\ w[j] \in SUBSET Nat
    BY <2>4 DEF Words, Bit
  <2>6. b \in w[j] /\ \A y \in w[j] : b <= y
    BY <2>4, <2>5, MinIs
  <2> HIDE DEF b
  <2>7. b \in Bit
    BY <2>5, <2>6
  <2> DEFINE m == j * W + b
  <2>8. m \in 0 .. (Bits - 1) /\ m \div W = j /\ m % W = b
    BY <2>4, <2>7, BitOfWord
  <2>9. m \in BitsFrom(w, i)
    BY <2>4, <2>6, <2>8 DEF BitsFrom
  <2>10. ASSUME NEW n \in BitsFrom(w, i) PROVE m <= n
    <3> DEFINE q == n \div W
               r == n % W
    <3>1. n \in Nat /\ q \in 0 .. (Groups - 1) /\ r \in Bit /\ n = q * W + r /\ q >= i /\ r \in w[q]
      <4>1. n \in 0 .. (Bits - 1) /\ q >= i /\ r \in w[q]
        BY DEF BitsFrom
      <4>2. q \in 0 .. (Groups - 1) /\ r \in Bit /\ n = q * W + r
        BY <4>1, BitOfWord
      <4> QED BY <4>1, <4>2
    <3> HIDE DEF q, r
    <3>2. j <= q
      BY <2>2, <3>1 DEF NonEmpty
    <3>3. j = q => b <= r
      BY <2>6, <3>1
    <3>4. j < q => j * W \in Nat /\ q * W \in Nat /\ j * W + W <= q * W
      BY <2>4, <3>1, Multiples
    <3>5. j \in Nat /\ q \in Nat /\ b \in 0 .. (W - 1) /\ r \in 0 .. (W - 1)
      BY <2>4, <2>7, <3>1 DEF Bit
    <3>6. j * W \in Nat /\ q * W \in Nat
      BY <3>5
    <3> QED BY <3>1, <3>2, <3>3, <3>4, <3>5, <3>6
  <2> HIDE DEF m
  <2>11. BitsFrom(w, i) \in SUBSET Nat
    BY DEF BitsFrom
  <2>12. Least(BitsFrom(w, i)) = m
    BY <2>9, <2>10, <2>11, LeastIs
  <2> QED BY <1>1, <2>3, <2>12 DEF m
<1> QED BY <1>2, <1>3

\* What the words and the set have in common at every step: the inductive invariant.
SameBits ==
    /\ bitmap \in Words /\ bitmap[Groups] = behind
    /\ set \subseteq 0 .. (Bits - 1)
    /\ \A n \in 0 .. (Bits - 1) : n % W \in bitmap[n \div W] <=> n \in set

\* The scan for a set bit, over the whole bitmap.
LEMMA FirstSet ==
    SameBits => bitmap_ffs(bitmap) = Least(set)
<1>1. SUFFICES ASSUME SameBits PROVE Scan(bitmap, 0) = Least(set)
  BY DEF bitmap_ffs
<1>2. 0 \in 0 .. (Groups - 1)
  BY GroupsAre
<1>3. Scan(bitmap, 0) = Least(BitsFrom(bitmap, 0))
  BY <1>1, <1>2, ScanLeast DEF SameBits
<1>4. ASSUME NEW n \in 0 .. (Bits - 1) PROVE n \in BitsFrom(bitmap, 0) <=> n \in set
  <2>1. n \div W >= 0
    BY BitOfWord, GroupsAre
  <2>2. n % W \in bitmap[n \div W] <=> n \in set
    BY <1>1 DEF SameBits
  <2> QED BY <2>1, <2>2 DEF BitsFrom
<1>5. BitsFrom(bitmap, 0) = set
  BY <1>1, <1>4 DEF SameBits, BitsFrom
<1> QED BY <1>3, <1>5

\* The scan for an unset bit.
LEMMA FirstUnset ==
    SameBits => bitmap_ffu(bitmap) = Least((0 .. (Bits - 1)) \ set)
<1> DEFINE v == [i \in DOMAIN bitmap |-> Bit \ bitmap[i]]
<1>1. SUFFICES ASSUME SameBits PROVE Scan(v, 0) = Least((0 .. (Bits - 1)) \ set)
  BY DEF bitmap_ffu, bitmap_ffs
<1>2. 0 \in 0 .. (Groups - 1)
  BY GroupsAre
<1>3. DOMAIN bitmap = 0 .. Groups
  BY <1>1 DEF SameBits, Words
<1>4. v \in Words /\ \A i \in 0 .. Groups : v[i] = Bit \ bitmap[i]
  BY <1>1, <1>3 DEF SameBits, Words
<1> HIDE DEF v
<1>5. Scan(v, 0) = Least(BitsFrom(v, 0))
  BY <1>2, <1>4, ScanLeast
<1>6. ASSUME NEW n \in 0 .. (Bits - 1)
      PROVE  n \in BitsFrom(v, 0) <=> n \notin set
  <2>1. n \div W \in 0 .. (Groups - 1) /\ n % W \in Bit
    BY BitOfWord
  <2>2. v[n \div W] = Bit \ bitmap[n \div W] /\ n \div W >= 0
    BY <1>4, <2>1, GroupsAre
  <2>3. n % W \in v[n \div W] <=> n \notin set
    BY <1>1, <2>1, <2>2 DEF SameBits
  <2> QED BY <2>2, <2>3 DEF BitsFrom
<1>7. BitsFrom(v, 0) = (0 .. (Bits - 1)) \ set
  BY <1>6 DEF BitsFrom
<1> QED BY <1>5, <1>7

\* The scan for a set bit from bit n on.
LEMMA FirstSetFrom ==
    ASSUME SameBits, NEW n \in 0 .. (Bits - 1)
    PROVE  bitmap_ffsp(bitmap, n) = Least({m \in set : m >= n})
<1> DEFINE q == n \div W
           r == n % W
           v == [bitmap EXCEPT ![q] = @ \ (0 .. (r - 1))]
           S == {m \in set : m >= n}
<1>1. bitmap_ffsp(bitmap, n) = Scan(v, q)
  BY DEF bitmap_ffsp
<1>2. q \in 0 .. (Groups - 1) /\ r \in Bit /\ n = q * W + r
  BY BitOfWord
<1> HIDE DEF q, r
<1>3. q \in 0 .. Groups
  BY <1>2, GroupsAre
<1>4. v \in Words /\ v[q] = bitmap[q] \ (0 .. (r - 1)) /\ \A i \in 0 .. Groups : i # q => v[i] = bitmap[i]
  BY <1>3 DEF SameBits, Words
<1> HIDE DEF v
<1>5. Scan(v, q) = Least(BitsFrom(v, q))
  BY <1>2, <1>4, ScanLeast
<1>6. ASSUME NEW m \in 0 .. (Bits - 1)
      PROVE  m \in BitsFrom(v, q) <=> m \in S
  <2> DEFINE i == m \div W
             b == m % W
  <2>1. i \in 0 .. (Groups - 1) /\ b \in Bit /\ m = i * W + b
    BY BitOfWord
  <2>2. b \in bitmap[i] <=> m \in set
    BY DEF SameBits
  <2>3. m \in BitsFrom(v, q) <=> i >= q /\ b \in v[i]
    BY DEF BitsFrom
  <2> HIDE DEF i, b
  <2>4. b \in 0 .. (W - 1) /\ r \in 0 .. (W - 1) /\ i \in 0 .. Groups /\ i \in Nat /\ q \in Nat
    BY <1>2, <2>1, GroupsAre DEF Bit
  <2>5. W \in Nat /\ i * W \in Nat /\ q * W \in Nat
    BY <2>4, BitsAssumption
  <2>6. CASE i = q
    <3>1. b \in v[i] <=> b \in bitmap[i] /\ b >= r
      BY <1>4, <2>4, <2>6
    <3>2. b >= r <=> m >= n
      BY <1>2, <2>1, <2>4, <2>5, <2>6
    <3> QED BY <2>2, <2>3, <2>4, <2>6, <3>1, <3>2
  <2>7. CASE i > q
    <3>1. q * W + W <= i * W
      BY <2>4, <2>5, <2>7, Multiples
    <3>2. m >= n
      BY <1>2, <2>1, <2>4, <2>5, <3>1
    <3>3. v[i] = bitmap[i]
      BY <1>4, <2>4, <2>7
    <3> QED BY <2>2, <2>3, <2>4, <2>7, <3>2, <3>3
  <2>8. CASE i < q
    <3>1. i * W + W <= q * W
      BY <2>4, <2>5, <2>8, Multiples
    <3>2. ~ (m >= n)
      BY <1>2, <2>1, <2>4, <2>5, <3>1
    <3> QED BY <2>3, <2>4, <2>8, <3>2
  <2> QED BY <2>4, <2>6, <2>7, <2>8
<1>7. S \subseteq 0 .. (Bits - 1)
  BY DEF SameBits
<1>8. BitsFrom(v, q) = S
  BY <1>6, <1>7 DEF BitsFrom
<1> QED BY <1>1, <1>5, <1>8

\* Setting bit n adds it, and nothing else.
LEMMA SetKeeps ==
    ASSUME SameBits, NEW n \in 0 .. (Bits - 1),
           bitmap' = bitmap_set(bitmap, n), set' = set \cup {n}, behind' = behind
    PROVE  SameBits'
<1> DEFINE q == n \div W
           r == n % W
<1>1. q \in 0 .. (Groups - 1) /\ r \in Bit /\ n = q * W + r
  BY BitOfWord
<1>2. bitmap' = [bitmap EXCEPT ![q] = @ \cup {r}]
  BY DEF bitmap_set
<1>3. \A m \in 0 .. (Bits - 1) :
        m \div W \in 0 .. (Groups - 1) /\ m % W \in Bit /\ m = (m \div W) * W + (m % W)
  BY BitOfWord
<1>4. \A m \in 0 .. (Bits - 1) : (m \div W = q /\ m % W = r) <=> m = n
  BY <1>1, <1>3
<1> HIDE DEF q, r
<1>5. q \in 0 .. Groups /\ q # Groups
  BY <1>1, GroupsAre
<1>6. bitmap' \in Words /\ bitmap'[q] = bitmap[q] \cup {r} /\ \A i \in 0 .. Groups : i # q => bitmap'[i] = bitmap[i]
  BY <1>1, <1>2, <1>5 DEF SameBits, Words
<1>7. bitmap'[Groups] = behind'
  BY <1>5, <1>6, GroupsAre DEF SameBits
<1>8. ASSUME NEW m \in 0 .. (Bits - 1)
      PROVE  m % W \in bitmap'[m \div W] <=> m \in set'
  <2>1. m % W \in bitmap[m \div W] <=> m \in set
    BY DEF SameBits
  <2>2. m \div W \in 0 .. Groups
    BY <1>3, GroupsAre
  <2>3. m % W \in bitmap'[m \div W] <=> m % W \in bitmap[m \div W] \/ (m \div W = q /\ m % W = r)
    BY <1>6, <2>2
  <2> QED BY <1>4, <2>1, <2>3
<1>9. set' \subseteq 0 .. (Bits - 1)
  BY DEF SameBits
<1> QED BY <1>6, <1>7, <1>8, <1>9 DEF SameBits, Words, Groups, Bit

\* Clearing bit n removes it, and nothing else.
LEMMA ClearKeeps ==
    ASSUME SameBits, NEW n \in 0 .. (Bits - 1),
           bitmap' = bitmap_clear(bitmap, n), set' = set \ {n}, behind' = behind
    PROVE  SameBits'
<1> DEFINE q == n \div W
           r == n % W
<1>1. q \in 0 .. (Groups - 1) /\ r \in Bit /\ n = q * W + r
  BY BitOfWord
<1>2. bitmap' = [bitmap EXCEPT ![q] = @ \ {r}]
  BY DEF bitmap_clear
<1>3. \A m \in 0 .. (Bits - 1) :
        m \div W \in 0 .. (Groups - 1) /\ m % W \in Bit /\ m = (m \div W) * W + (m % W)
  BY BitOfWord
<1>4. \A m \in 0 .. (Bits - 1) : (m \div W = q /\ m % W = r) <=> m = n
  BY <1>1, <1>3
<1> HIDE DEF q, r
<1>5. q \in 0 .. Groups /\ q # Groups
  BY <1>1, GroupsAre
<1>6. bitmap' \in Words /\ bitmap'[q] = bitmap[q] \ {r} /\ \A i \in 0 .. Groups : i # q => bitmap'[i] = bitmap[i]
  BY <1>1, <1>2, <1>5 DEF SameBits, Words
<1>7. bitmap'[Groups] = behind'
  BY <1>5, <1>6, GroupsAre DEF SameBits
<1>8. ASSUME NEW m \in 0 .. (Bits - 1)
      PROVE  m % W \in bitmap'[m \div W] <=> m \in set'
  <2>1. m % W \in bitmap[m \div W] <=> m \in set
    BY DEF SameBits
  <2>2. m \div W \in 0 .. Groups
    BY <1>3, GroupsAre
  <2>3. m % W \in bitmap'[m \div W] <=> m % W \in bitmap[m \div W] /\ ~ (m \div W = q /\ m % W = r)
    BY <1>6, <2>2
  <2> QED BY <1>4, <2>1, <2>3
<1>9. set' \subseteq 0 .. (Bits - 1)
  BY DEF SameBits
<1> QED BY <1>6, <1>7, <1>8, <1>9 DEF SameBits, Words, Groups, Bit

\* bitmap_sfu sets the first bit unset, if there is one.
LEMMA SetFirstKeeps ==
    ASSUME SameBits, SetFirst
    PROVE  SameBits'
<1> DEFINE r == bitmap_ffu(bitmap)
           U == (0 .. (Bits - 1)) \ set
<1>1. r = Least(U)
  BY FirstUnset
<1>2. bitmap' = (IF r < Bits THEN bitmap_set(bitmap, r) ELSE bitmap) /\ set' = set \cup ({r} \ {Bits})
      /\ behind' = behind
  BY DEF SetFirst
<1> HIDE DEF r
<1>3. CASE U = {}
  <2>1. r = Bits /\ ~ (r < Bits)
    BY <1>1, <1>3, BitsAssumption DEF Least
  <2>2. bitmap' = bitmap /\ set' = set /\ behind' = behind
    BY <1>2, <2>1
  <2> QED BY <2>2 DEF SameBits, Words, Groups, Bit
<1>4. CASE U # {}
  <2>1. U \in SUBSET Nat
    BY BitsAssumption
  <2>2. Min(U) \in U
    BY <1>4, <2>1, MinIs
  <2>3. r \in U
    BY <1>1, <1>4, <2>2 DEF Least
  <2>4. r \in 0 .. (Bits - 1) /\ r < Bits /\ r # Bits
    BY <2>3, BitsAssumption
  <2>5. bitmap' = bitmap_set(bitmap, r) /\ set' = set \cup {r} /\ behind' = behind
    BY <1>2, <2>4
  <2> QED BY <2>4, <2>5, SetKeeps
<1> QED BY <1>3, <1>4

\* The words are the set of bits at every moment, and the scans of shm_util.h find
\* in them what they are asked for, for every number of words and every width.
THEOREM BitmapThm == BitsSpec => []BitmapIsSet
<1>1. BitsInit => SameBits
  <2>1. SUFFICES ASSUME BitsInit PROVE SameBits
    OBVIOUS
  <2>2. bitmap \in Words /\ \A i \in 0 .. Groups : bitmap[i] = IF i = Groups THEN behind ELSE {}
    BY <2>1 DEF BitsInit, Words
  <2>3. Groups \in 0 .. Groups /\ \A n \in 0 .. (Bits - 1) : n \div W \in 0 .. Groups /\ n \div W # Groups
    BY BitOfWord, GroupsAre
  <2> QED BY <2>1, <2>2, <2>3 DEF BitsInit, SameBits
<1>2. SameBits /\ [BitsNext]_bitsVars => SameBits'
  <2> SUFFICES ASSUME SameBits, [BitsNext]_bitsVars PROVE SameBits'
    OBVIOUS
  <2>1. CASE SetFirst
    BY <2>1, SetFirstKeeps
  <2>2. ASSUME NEW n \in 0 .. (Bits - 1), Set(n) PROVE SameBits'
    BY <2>2, SetKeeps DEF Set
  <2>3. ASSUME NEW n \in 0 .. (Bits - 1), Clear(n) PROVE SameBits'
    BY <2>3, ClearKeeps DEF Clear
  <2>4. CASE UNCHANGED bitsVars
    BY <2>4 DEF bitsVars, SameBits, Words, Groups, Bit
  <2> QED BY <2>1, <2>2, <2>3, <2>4 DEF BitsNext
<1>3. SameBits => BitmapIsSet
  <2>1. SUFFICES ASSUME SameBits PROVE BitmapIsSet
    OBVIOUS
  <2>2. \A n \in 0 .. (Bits - 1) : bitmap_get(bitmap, n) <=> n \in set
    BY <2>1 DEF SameBits, bitmap_get
  <2>3. bitmap \in [0 .. Groups -> SUBSET Bit] /\ bitmap[Groups] = behind
    BY <2>1 DEF SameBits, Words
  <2> QED BY <2>1, <2>2, <2>3, FirstSet, FirstUnset, FirstSetFrom DEF BitmapIsSet
<1> QED BY <1>1, <1>2, <1>3, PTL DEF BitsSpec
===============================================================================
