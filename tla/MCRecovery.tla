---------------------------- MODULE MCRecovery -----------------------------
(***************************************************************************)
(* A small instance of BookingRecovery: one dry slot, one cargo, and two   *)
(* bookings that are asked for with or without a key.                      *)
(***************************************************************************)
EXTENDS BookingRecovery

CONSTANTS c1, v1, k1

RCargoOf == [c \in {c1} |-> [type |-> "energy_storage", peak |-> TRUE]]

RShape == [v \in {v1} |-> [refrigerated |-> 0, dry |-> 1]]

RRequests ==
    {[cargo |-> c1, voyage |-> v1, slotType |-> "dry", qty |-> 1, key |-> k] : k \in {k1, NoKey}}
=============================================================================
