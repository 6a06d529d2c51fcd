------------------------------- MODULE Domain -------------------------------
(***************************************************************************)
(* The vocabulary of internal/domain: cargo categories, slot types and     *)
(* statuses, booking statuses, and the two rules of a cargo that the       *)
(* dispatch centre consults (slot eligibility and dispatch priority).      *)
(***************************************************************************)
EXTENDS Integers

\* CargoType, and the sub-family that may travel refrigerated.
NewEnergyType == {"energy_storage", "power_battery", "pv_module"}
CargoType     == NewEnergyType \cup {"regular"}

SlotType   == {"refrigerated", "dry"}
SlotStatus == {"free", "frozen", "allocated"}

BookingStatus == {"pending", "frozen", "confirmed", "manifested", "arrived",
                  "waitlisted", "released", "cancelled"}

VoyageStatus == {"scheduled", "delayed", "departed", "arrived"}

\* A cargo as its registration request describes it; these fields never change.
CargoAttributes == [type : CargoType, peak : BOOLEAN]

IsNewEnergy(c) == c.type \in NewEnergyType

\* Faulty variant: the supervisor's confirmation is not asked for.
EligibleUnconfirmed(c, confirmed, t) ==
    t = "dry" \/ (t = "refrigerated" /\ IsNewEnergy(c))

\* May cargo c, whose temperature control is confirmed or not, take a slot of
\* type t?
EligibleForSlot(c, confirmed, t) ==
    \/ t = "refrigerated" /\ confirmed /\ IsNewEnergy(c)
    \/ t = "dry"

Priority(c) ==
    IF IsNewEnergy(c) THEN (IF c.peak THEN 100 ELSE 50) ELSE 10
=============================================================================
