-------------------------- MODULE MCAppointments ---------------------------
(***************************************************************************)
(* A small instance of Appointments: a voyage of two slots, peak-season    *)
(* batteries and general cargo, and three appointments.  The server starts *)
(* on a snapshot with two bookings, one paid and one frozen.               *)
(***************************************************************************)
EXTENDS Appointments

CONSTANTS c1, c2, v1

ACargoOf == [c \in {c1, c2} |-> IF c = c1 THEN [type |-> "power_battery", peak |-> TRUE]
                                          ELSE [type |-> "regular", peak |-> FALSE]]

AShape == [v \in {v1} |-> [refrigerated |-> 0, dry |-> 2]]

\* A booking of one slot for cargo c, asked for at time t.
Made(c, st, t) ==
    [cargo |-> c, voyage |-> v1, slotType |-> "dry", qty |-> 1, key |-> NoKey, status |-> st,
     submitTime |-> t, frozenAt |-> t]

\* The booking made later has the higher priority.
AInit ==
    /\ now = 1
    /\ cargo = [c \in CargoId |-> "confirmed"]
    /\ voyages = [v \in Voyage |-> "scheduled"]
    /\ bookings = <<Made(c2, "confirmed", 0), Made(c1, "frozen", 1)>>
    /\ slots = [s \in Slot |-> IF s[2] = 0 THEN [status |-> "allocated", holder |-> 1]
                                           ELSE [status |-> "frozen", holder |-> 2]]
    /\ waitlist = {}
    /\ idempotency = [k \in Key |-> NoBooking]
    /\ counter = 2
    /\ FlowInit /\ TruckInit

PreparedSpec == AInit /\ [][AptNext]_aptVars /\ AptFairness
=============================================================================
