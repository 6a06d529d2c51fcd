------------------------------- MODULE MCApi -------------------------------
(***************************************************************************)
(* A small instance of Api: one dry slot, three calls that book, with or   *)
(* without a key, or pay.  Cargo and voyage are registered and confirmed.  *)
(***************************************************************************)
EXTENDS Api, MCPrepared

CONSTANTS c1, v1, k1, a1, a2, a3

HCargoOf == [c \in {c1} |-> [type |-> "energy_storage", peak |-> TRUE]]

HShape == [v \in {v1} |-> [refrigerated |-> 0, dry |-> 1]]

HRequests ==
    {[cargo |-> c1, voyage |-> v1, slotType |-> "dry", qty |-> 1, key |-> k] : k \in {k1, NoKey}}
      \cup {[cargo |-> c1, voyage |-> v1, slotType |-> "refrigerated", qty |-> 0, key |-> k1]}

CallSymmetry == Permutations(Call)

HInit == PreparedInit /\ CallsInit

PreparedSpec == HInit /\ [][ApiNext]_apiVars
=============================================================================
