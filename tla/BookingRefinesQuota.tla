------------------------ MODULE BookingRefinesQuota ------------------------
(***************************************************************************)
(* Booking implements SlotQuota: a pool is a slot type of a voyage, and a  *)
(* booking's status tells the phase of its claim.                          *)
(***************************************************************************)
EXTENDS Booking

PhaseOf(bk) ==
    CASE bk.status = "waitlisted" -> "waiting"
      [] bk.status = "frozen"     -> "holding"
      [] bk.status \in Paid       -> "paid"
      [] OTHER                    -> "gone"

Ledger ==
    [b \in DOMAIN bookings |->
       [pool  |-> <<bookings[b].voyage, bookings[b].slotType>>,
        qty   |-> bookings[b].qty,
        phase |-> PhaseOf(bookings[b]),
        since |-> bookings[b].frozenAt]]

Quota == INSTANCE SlotQuota
           WITH Pool      <- Voyage \X SlotType,
                Capacity  <- [p \in Voyage \X SlotType |-> Shape[p[1]][p[2]]],
                Window    <- PaymentTimeout,
                MaxClaims <- MaxBookings,
                LastTick  <- MaxTime,
                clock     <- now,
                ledger    <- Ledger

\* Every step of the booking service is a step of the ledger or leaves it as it
\* is: whatever becomes of slots and waitlist, no pool is oversold, payment is
\* taken only inside the window, and places go only to those who queued for them.
ImplementsQuota == Quota!QuotaSpec
=============================================================================
