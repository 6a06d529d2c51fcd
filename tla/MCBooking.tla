----------------------------- MODULE MCBooking -----------------------------
(***************************************************************************)
(* A small instance of Booking and of its refinement: one voyage whose     *)
(* slots three bookings compete for.                                       *)
(***************************************************************************)
EXTENDS BookingRefinesQuota

CONSTANTS c1, c2, v1, k1

MCCargoId == {c1, c2}

\* One peak-season battery and one general cargo: priorities 100 and 10.
MCCargoOf == [c \in MCCargoId |->
                IF c = c1 THEN [type |-> "power_battery", peak |-> TRUE]
                          ELSE [type |-> "regular", peak |-> FALSE]]

MCShape  == [v \in {v1} |-> [refrigerated |-> 1, dry |-> 2]]

Ask(c, v, t, q, k) == [cargo |-> c, voyage |-> v, slotType |-> t, qty |-> q, key |-> k]

\* One or two dry slots for the cargo of high priority and, with a key, one for the
\* other; and a refrigerated slot, which only c1 is eligible for.
MixedRequests ==
    {Ask(c1, v1, "dry", q, NoKey) : q \in {1, 2}} \cup {Ask(c2, v1, "dry", 1, k1)}
      \cup {Ask(c, v1, "refrigerated", 1, NoKey) : c \in MCCargoId}
=============================================================================
