----------------------------- MODULE MCStructures ------------------------------
(******************************************************************************)
(* Bounded instance of the data structures and helpers: a red-black tree      *)
(* whose keys are compared by subtraction, as in rbtree_test.cpp, and shared  *)
(* by nodes 1 and 2, 3 and 4, ...; a leftist tree; bitmaps of three words of  *)
(* three bits with any word behind them; and the code's own size classes, for *)
(* all small requests and those around the ends of the first three pages, the *)
(* limits of the medium ones and the end of size_t, here of 22 bits.  They    *)
(* have nothing in common and take turns: each moves while the others are as  *)
(* they began.                                                                *)
(******************************************************************************)
EXTENDS RBTreeSet, ShmTreeSet, Bitmap, SizeClass

IntCompare(x, y) == x - y
PairedKeys == [x \in Pointer |-> (x + 1) \div 2]

Around(n)  == (n - 20) .. (n + 20)
MCRequests == ((1 .. 2000) \cup Around(CHUNK_MEDIUM_LIMIT) \cup Around(SHM_CHUNK_UNIT_SIZE)
               \cup Around(SizeLimit - SHM_CHUNK_UNIT_SIZE) \cup (SizeLimit - 20) .. (SizeLimit - 1))
              \cup UNION {Around(k * SHM_PAGE_SIZE) : k \in 1 .. 3}

MCInit == Init /\ PoolInit /\ BitsInit /\ FirstRequest

MCNext ==
    \/ /\ pooled = {} /\ set = {} /\ behind = {} /\ size = 1
       /\ Next /\ UNCHANGED <<poolVars, bitsVars, size>>
    \/ /\ members = {} /\ set = {} /\ behind = {} /\ size = 1
       /\ PoolNext /\ UNCHANGED <<vars, bitsVars, size>>
    \/ /\ members = {} /\ pooled = {} /\ size = 1
       /\ BitsNext /\ UNCHANGED <<vars, poolVars, size>>
    \/ /\ members = {} /\ pooled = {} /\ set = {} /\ behind = {}
       /\ NextRequest /\ UNCHANGED <<vars, poolVars, bitsVars>>

MCSpec == MCInit /\ [][MCNext]_<<vars, poolVars, bitsVars, size>>
===============================================================================
