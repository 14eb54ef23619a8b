-------------------------------- MODULE MCArena --------------------------------
(* Bounded instance of Arena.  Neither processes nor segment ids are compared  *)
(* other than for equality.                                                   *)
EXTENDS Arena, TLC

Interchangeable == Permutations(Proc) \cup Permutations(Shmid)
===============================================================================
