------------------------------ MODULE MCAllocator ------------------------------
(* Bounded instance of Allocator: callers hold MaxLive blocks at most.        *)
EXTENDS Allocator

MaxLive == 7

FewBlocks == Init /\ [][Next /\ Cardinality(Live(heap')) <= MaxLive]_heap
===============================================================================
