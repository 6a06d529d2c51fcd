---------------------------- MODULE MCLifecycle ----------------------------
(***************************************************************************)
(* A small instance of Lifecycle: two requests.                            *)
(***************************************************************************)
EXTENDS Lifecycle

CONSTANTS q1, q2
=============================================================================
