---------------------------- MODULE MCPrepared -----------------------------
(***************************************************************************)
(* A store in which cargo and voyages have been registered and confirmed,  *)
(* and nothing has been booked: where some of the instances start.         *)
(***************************************************************************)
EXTENDS Booking

PreparedInit ==
    /\ now = 0
    /\ cargo = [c \in CargoId |-> "confirmed"]
    /\ voyages = [v \in Voyage |-> "scheduled"]
    /\ slots = [s \in Slot |-> FreeSlot]
    /\ bookings = <<>>
    /\ waitlist = {}
    /\ idempotency = [k \in Key |-> NoBooking]
    /\ counter = 0
=============================================================================
