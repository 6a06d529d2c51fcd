--------------------------- MODULE MCFulfilment ----------------------------
(***************************************************************************)
(* A small instance of Fulfilment: two bookings share a voyage of two      *)
(* slots.                                                                  *)
(***************************************************************************)
EXTENDS Fulfilment

CONSTANTS c1, v1

FCargoOf == [c \in {c1} |-> [type |-> "pv_module", peak |-> FALSE]]

FShape == [v \in {v1} |-> [refrigerated |-> 0, dry |-> 2]]

FRequests ==
    {[cargo |-> c1, voyage |-> v1, slotType |-> "dry", qty |-> q, key |-> NoKey] : q \in {1, 2}}
=============================================================================
