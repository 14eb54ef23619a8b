------------------------------- MODULE SizeClass -------------------------------
(***************************************************************************)
(* Where malloc_arena takes a request from, and how much it takes: the     *)
(* size classes of chunk_small.c with their lookup tables, whole pages of  *)
(* a medium chunk, or a whole arena.  All constants are the code's.        *)
(***************************************************************************)
EXTENDS Integers, Sequences

CONSTANTS
    SizeLimit,          \* a size_t is below it, 2^64 in the code
    Requests            \* the requests looked at, in bytes

VARIABLE size           \* the request, in bytes

SHM_PAGE_SIZE       == 4096
SHM_CHUNK_UNIT_SIZE == 1048576

ASSUME SizeAssumption ==
    /\ SizeLimit \in Nat /\ SizeLimit > 2 * SHM_CHUNK_UNIT_SIZE
    /\ SizeLimit % SHM_CHUNK_UNIT_SIZE = 0
    /\ Requests \subseteq 1 .. (SizeLimit - 1)

RUN_HEADER_SIZE     == 64
CHUNK_SMALL_LIMIT   == 1920
CHUNK_MEDIUM_LIMIT  == SHM_CHUNK_UNIT_SIZE - SHM_PAGE_SIZE

\* elemsize of the classes 1, 2, ...
run_config_list == <<8, 16, 32, 48, 64, 96, 128, 192, 256, 384, 512, 768, 1280,
                     CHUNK_SMALL_LIMIT>>

run_table8   == <<1, 2, 3, 3, 4, 4, 5, 5, 6, 6, 6, 6>>
run_table32  == <<7, 7, 7, 7, 8, 8, 9, 9, 10, 10, 10, 10, 11, 11, 11, 11>>
run_table128 == <<12, 12, 12, 12, 12, 12, 13, 13, 13, 13, 14, 14, 14, 14, 14, 14>>

\* The tables count from 0 in the code.
find_run_config(s) ==
    IF s <= 96 THEN run_table8[(s - 1) \div 8 + 1]
    ELSE IF s <= 512 THEN run_table32[(s - 1) \div 32 + 1]
    ELSE run_table128[(s - 1) \div 128 + 1]

\* Mutant: sizes are rounded down.
align_size_down(s, align) == align * (s \div align)

align_size(s, align) == align * (((s + (align - 1)) % SizeLimit) \div align)

\* The branch of malloc_arena a request takes.
Kind(s) == IF s <= CHUNK_SMALL_LIMIT THEN "small"
           ELSE IF s <= CHUNK_MEDIUM_LIMIT THEN "medium" ELSE "large"

\* The bytes the request is given.
Given(s) ==
    CASE Kind(s) = "small"  -> run_config_list[find_run_config(s)]
      [] Kind(s) = "medium" -> align_size(s, SHM_PAGE_SIZE)
      [] Kind(s) = "large"  -> align_size(s, SHM_CHUNK_UNIT_SIZE)

total(c) == (SHM_PAGE_SIZE - RUN_HEADER_SIZE) \div run_config_list[c]

\* The requests are looked at one after the other, each interval from its start.
FirstRequest == size \in {s \in Requests : s - 1 \notin Requests}
NextRequest  == size + 1 \in Requests /\ size' = size + 1

-----------------------------------------------------------------------------
(* Properties *)

\* A caller is never given less than it asks for, but for a request so large that
\* rounding it up overflows to 0: of that size shmget creates no segment.  The tables
\* pick the smallest class a small request fits in, and the slots of a run, or the
\* pages of a unit, stay within the page, or the chunk, that holds them.
\* get_avaliable_chunk compares bytes and malloc_chunk_medium pages, and they
\* agree: a free unit not below the request in the one is not below it in the
\* other.
RequestFits ==
    /\ IF size <= SizeLimit - SHM_CHUNK_UNIT_SIZE THEN size <= Given(size) ELSE Given(size) = 0
    /\ Kind(size) = "small" =>
         LET c == find_run_config(size)
         IN  /\ RUN_HEADER_SIZE + total(c) * Given(size) <= SHM_PAGE_SIZE
             /\ \A d \in DOMAIN run_config_list : size <= run_config_list[d] => c <= d
    /\ Kind(size) = "medium" =>
         /\ SHM_PAGE_SIZE + Given(size) <= SHM_CHUNK_UNIT_SIZE
         /\ \A pages \in 0 .. (size \div SHM_PAGE_SIZE + 1) :
              size <= pages * SHM_PAGE_SIZE <=> Given(size) \div SHM_PAGE_SIZE <= pages
===============================================================================
