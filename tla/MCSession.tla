------------------------------- MODULE MCSession -------------------------------
(* Bounded instance of Session.                                               *)
EXTENDS Session
===============================================================================
