----------------------------- MODULE MCMediumTree ------------------------------
(* Bounded instance of MediumTree.                                            *)
EXTENDS MediumTree
===============================================================================
