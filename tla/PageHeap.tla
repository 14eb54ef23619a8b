------------------------------- MODULE PageHeap -------------------------------
(***************************************************************************)
(* What a medium chunk promises its callers (chunk_medium.h): it hands out *)
(* runs of whole pages.  A caller is given the first page of a run and a   *)
(* length; no page is in two runs at the same time, and a run stays with   *)
(* its caller until that caller gives it back.                             *)
(***************************************************************************)
EXTENDS Integers

CONSTANT N          \* the number of pages callers may be given

VARIABLE held       \* held[p]: length of the run that starts at p, 0 if none

Page == 1 .. N

\* The pages of a run of len pages that starts at p.
Extent(p, len) == p .. (p + len - 1)

Init == held = [p \in Page |-> 0]

\* A caller asks for len pages and is given those from p on.
Malloc(p, len) ==
    /\ held[p] = 0 /\ len \in Page
    /\ Extent(p, len) \subseteq Page
    /\ \A q \in Page : Extent(p, len) \cap Extent(q, held[q]) = {}
    /\ held' = [held EXCEPT ![p] = len]

\* The holder of the run at p gives it back.
Free(p) ==
    /\ held[p] # 0
    /\ held' = [held EXCEPT ![p] = 0]

\* A step changes what is held at one page.
Next == \E p \in Page : held'[p] # held[p] /\ (Free(p) \/ Malloc(p, held'[p]))

Spec == Init /\ [][Next]_held
===============================================================================
