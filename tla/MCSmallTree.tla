------------------------------ MODULE MCSmallTree ------------------------------
(* Bounded instances of SmallTree.  Class 1 has two slots in a run, as the    *)
(* largest class of the code has, class 2 only one; or there is class 1 only. *)
(* BeforeOldLinks ends with the step that pushes a run with old links.        *)
EXTENDS SmallTree

OneSize  == [c \in Class |-> 1]
TwoSizes == [c \in Class |-> IF c = 1 THEN 2 ELSE 4]

BeforeOldLinks == TreeInit /\ [][~torn /\ TreeNext]_tvars
===============================================================================
