--------------------------- MODULE MCPortChange ----------------------------
(***************************************************************************)
(* Small instances of PortChange: one or two bookings on one voyage, two   *)
(* ports, and a deadline within the modelled time.  The server starts on a *)
(* snapshot in which cargo and voyage are registered and confirmed.        *)
(***************************************************************************)
EXTENDS PortChange, MCPrepared

CONSTANTS c1, v1, p1, p2

PCargoOf == [c \in {c1} |-> [type |-> "pv_module", peak |-> FALSE]]

PShape == [v \in {v1} |-> [refrigerated |-> 0, dry |-> 2]]

PRequests == {[cargo |-> c1, voyage |-> v1, slotType |-> "dry", qty |-> 1, key |-> NoKey]}

PDestOf == [v \in {v1} |-> p1]

PDepartureAt == [v \in {v1} |-> 2]

PInit == PreparedInit /\ FlowInit /\ PortInit

PreparedSpec == PInit /\ [][ChangeNext]_changeVars
=============================================================================
