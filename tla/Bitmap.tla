-------------------------------- MODULE Bitmap --------------------------------
(***************************************************************************)
(* The bitmaps of shm_util.h, word by word.  A bitmap is an array of words *)
(* of W bits, and a word is the set of its bits.  bitmap_ffsp reads one    *)
(* word more than the bitmap has, before it tests the index: whatever lies *)
(* behind the bitmap is the last word here.  The other modules take a      *)
(* bitmap for the set of its bits and a scan for the least of them; the    *)
(* properties here say that this is what the words do.                     *)
(***************************************************************************)
EXTENDS Integers, FiniteSetsExt

CONSTANTS
    W,              \* BITMAP_BITS, 64 in the code
    Bits            \* number of bits of the bitmap, 256 in the code

ASSUME BitsAssumption == W \in Nat \ {0} /\ Bits \in Nat \ {0} /\ Bits % W = 0

VARIABLES
    bitmap,         \* the words, and the one behind them
    set,            \* history: the bits set and not cleared
    behind          \* history: what lay behind the bitmap from the beginning

bitsVars == <<bitmap, set, behind>>

Bit    == 0 .. (W - 1)              \* of a word
Groups == (Bits + W - 1) \div W        \* BITMAP_BITS2GROUPS(Bits)

\* Position of the lowest bit of a word, counted from 1; 0 if it has none.
ffs_u64(g) == IF g = {} THEN 0 ELSE Min(g) + 1

bitmap_set(w, n)   == [w EXCEPT ![n \div W] = @ \cup {n % W}]
bitmap_clear(w, n) == [w EXCEPT ![n \div W] = @ \ {n % W}]
bitmap_get(w, n)   == (n % W) \in w[n \div W]

\* Mutant: a bit in the word read is returned before the index is tested.
Scan_behind(w, i) ==
    LET from[j \in 0 .. Groups] ==
            IF ffs_u64(w[j]) # 0 THEN j * W + ffs_u64(w[j]) - 1
            ELSE IF j >= Groups THEN Bits
            ELSE from[j + 1]
    IN  from[i]

\* The first bit in word i of w or in the words after it, up to the last; Bits if
\* there is none.  A word is read first and counts only within the bitmap.
Scan(w, i) ==
    LET from[j \in 0 .. Groups] ==
            LET bit == ffs_u64(w[j])
            IN  IF j >= Groups THEN Bits
                ELSE IF bit # 0 THEN j * W + bit - 1
                ELSE from[j + 1]
    IN  from[i]

bitmap_ffs(w) == Scan(w, 0)

\* The scan for a bit unset looks at the words inverted.
bitmap_ffu(w) == bitmap_ffs([i \in DOMAIN w |-> Bit \ w[i]])

\* The bits of the first word below n are masked out.
bitmap_ffsp(w, n) == Scan([w EXCEPT ![n \div W] = @ \ (0 .. ((n % W) - 1))], n \div W)

BitsInit ==
    /\ behind \in SUBSET Bit
    /\ bitmap = [i \in 0 .. Groups |-> IF i = Groups THEN behind ELSE {}]
    /\ set = {}

Set(n)   == bitmap' = bitmap_set(bitmap, n) /\ set' = set \cup {n} /\ UNCHANGED behind
Clear(n) == bitmap' = bitmap_clear(bitmap, n) /\ set' = set \ {n} /\ UNCHANGED behind

\* bitmap_sfu: find and set the first bit unset.
SetFirst ==
    LET r == bitmap_ffu(bitmap)
    IN  /\ bitmap' = IF r < Bits THEN bitmap_set(bitmap, r) ELSE bitmap
        /\ set' = set \cup ({r} \ {Bits})
        /\ UNCHANGED behind

BitsNext == SetFirst \/ \E n \in 0 .. (Bits - 1) : Set(n) \/ Clear(n)

BitsSpec == BitsInit /\ [][BitsNext]_bitsVars

-----------------------------------------------------------------------------
(* Properties *)

Least(S) == IF S = {} THEN Bits ELSE Min(S)

\* The words are the set of bits: nothing is written past the bitmap, bitmap_get
\* tells the bits set from the others, and each scan returns the least bit it
\* looks for, and Bits exactly when there is none: across the end of a word, in the
\* word it starts in, at the last bit, whatever lies behind the bitmap.
BitmapIsSet ==
    /\ bitmap \in [0 .. Groups -> SUBSET Bit] /\ bitmap[Groups] = behind
    /\ \A n \in 0 .. (Bits - 1) : bitmap_get(bitmap, n) <=> n \in set
    /\ bitmap_ffu(bitmap) = Least((0 .. (Bits - 1)) \ set)
    /\ bitmap_ffs(bitmap) = Least(set)
    /\ \A n \in 0 .. (Bits - 1) : bitmap_ffsp(bitmap, n) = Least({m \in set : m >= n})
===============================================================================
