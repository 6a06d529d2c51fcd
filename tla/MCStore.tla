------------------------------ MODULE MCStore ------------------------------
(***************************************************************************)
(* A small instance of Store: two goroutines that update (a handler and    *)
(* the scheduler) and one that looks.                                      *)
(***************************************************************************)
EXTENDS Store

CONSTANTS u1, u2, w1
=============================================================================
