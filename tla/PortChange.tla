---------------------------- MODULE PortChange -----------------------------
(***************************************************************************)
(* The port change with two signatures: a booking asks for another         *)
(* destination port, the dispatch specialist and the agent at the port     *)
(* sign, in either order, and the change applies to the voyage, which      *)
(* other bookings share.  A call of SignPortChange names the booking and   *)
(* the role, not the request: it may be early, late, or come twice.        *)
(***************************************************************************)
EXTENDS Fulfilment

CONSTANTS
    Port,            \* the ports
    DestOf,          \* DestOf[v]: the destination with which v is created
    DepartureAt,     \* DepartureAt[v]: the departure of v, in clock ticks
    PortChangeWindow \* how long before departure changes end

MaxPortChanges == 2

ASSUME PortAssumption ==
    /\ DestOf \in [Voyage -> Port]
    /\ DepartureAt \in [Voyage -> Nat]
    /\ PortChangeWindow \in Nat

VARIABLES
    destPort,    \* [Voyage -> Port]
    pending,     \* the pending request of each booking that has one
    portChanges, \* [booking id -> changes it has used]
    calls        \* signatures ever sent: by whom, for which booking

portVars   == <<destPort, pending, portChanges, calls>>
changeVars == <<fullVars, portVars>>

SignatureRole == {"dispatch_specialist", "dest_port_agent"}

PortChangeRequest ==
    [newPort : Port, requestedAt : 0 .. MaxTime, signed : SUBSET SignatureRole]

PortInit ==
    /\ destPort = DestOf
    /\ pending = <<>>
    /\ portChanges = [b \in 1 .. MaxBookings |-> 0]
    /\ calls = {}

ChangeInit == FulfilInit /\ PortInit

-----------------------------------------------------------------------------
CanChangePort(v) == now < DepartureAt[v] - PortChangeWindow

\* Faulty variant: the third change passes.
ValidatePortChangeOnceMore(b) ==
    /\ bookings[b].status \in {"frozen", "confirmed", "manifested"}
    /\ portChanges[b] <= MaxPortChanges
    /\ CanChangePort(bookings[b].voyage)
    /\ b \notin DOMAIN pending

ValidatePortChange(b) ==
    /\ bookings[b].status \in {"frozen", "confirmed", "manifested"}
    /\ portChanges[b] < MaxPortChanges
    /\ CanChangePort(bookings[b].voyage)
    /\ b \notin DOMAIN pending

RequestPortChange(b, p) ==
    /\ Known(b)
    /\ ValidatePortChange(b)
    /\ pending' = [x \in DOMAIN pending \cup {b} |->
                     IF x = b THEN [newPort |-> p, requestedAt |-> now, signed |-> {}]
                              ELSE pending[x]]
    /\ UNCHANGED <<fullVars, destPort, portChanges, calls>>

\* Someone of the given role sends a signature for b, whatever is requested.
CallSign(b, role) ==
    /\ Known(b)
    /\ calls' = calls \cup {[booking |-> b, role |-> role]}
    /\ UNCHANGED <<fullVars, destPort, pending, portChanges>>

\* The change of b is approved: charged to b and applied to its voyage.
Approve(b) ==
    /\ portChanges' = [portChanges EXCEPT ![b] = @ + 1]
    /\ destPort' = [destPort EXCEPT ![bookings[b].voyage] = pending[b].newPort]
    /\ pending' = Restrict(pending, DOMAIN pending \ {b})

\* Faulty variants: one signature is enough; the request is not taken away.
SignAlone(b, role) ==
    /\ b \in DOMAIN pending
    /\ Approve(b)
    /\ UNCHANGED <<fullVars, calls>>

SignAndKeep(b, role) ==
    /\ b \in DOMAIN pending
    /\ pending' = [pending EXCEPT ![b].signed = @ \cup {role}]
    /\ IF pending'[b].signed = SignatureRole
         THEN /\ portChanges' = [portChanges EXCEPT ![b] = @ + 1]
              /\ destPort' = [destPort EXCEPT ![bookings[b].voyage] = pending[b].newPort]
         ELSE UNCHANGED <<portChanges, destPort>>
    /\ UNCHANGED <<fullVars, calls>>

\* A signature arrives: neither the deadline nor the booking's status is looked at.
\* Without a request it is refused, and nothing changes.
SignPortChange(b, role) ==
    /\ b \in DOMAIN pending
    /\ \/ pending[b].signed \cup {role} = SignatureRole /\ Approve(b)
       \/ /\ pending[b].signed \cup {role} # SignatureRole
          /\ pending' = [pending EXCEPT ![b].signed = @ \cup {role}]
          /\ UNCHANGED <<destPort, portChanges>>
    /\ UNCHANGED <<fullVars, calls>>

ChangeNext ==
    \/ FulfilNext /\ UNCHANGED portVars
    \/ \E b \in 1 .. MaxBookings, p \in Port : RequestPortChange(b, p)
    \/ \E b \in 1 .. MaxBookings, role \in SignatureRole : CallSign(b, role)
    \/ \E c \in calls : SignPortChange(c.booking, c.role)

ChangeSpec == ChangeInit /\ [][ChangeNext]_changeVars

-----------------------------------------------------------------------------
\* Properties.

\* Types; and a pending request lacks a signature.
PortTypeOK ==
    /\ FulfilTypeOK
    /\ destPort \in [Voyage -> Port]
    /\ DOMAIN pending \subseteq DOMAIN bookings
    /\ \A b \in DOMAIN pending :
          pending[b] \in PortChangeRequest /\ pending[b].signed # SignatureRole
    /\ portChanges \in [1 .. MaxBookings -> Nat]
    /\ calls \subseteq [booking : DOMAIN bookings, role : SignatureRole]

\* No booking uses more than two changes, however often a signature is repeated, and
\* none has a request under way that could make a third.
AtMostTwoChanges ==
    \A b \in DOMAIN bookings :
        portChanges[b] + (IF b \in DOMAIN pending THEN 1 ELSE 0) <= MaxPortChanges

\* The step diverts voyage v, by the request of booking b.
Diverts(v, b) ==
    /\ destPort'[v] # destPort[v]
    /\ bookings[b].voyage = v
    /\ b \in DOMAIN pending /\ b \notin DOMAIN pending'
    /\ destPort'[v] = pending[b].newPort

\* A voyage is diverted only by the request of one of its bookings, made in time and
\* signed by someone of either role, and the change is charged to that booking alone.
DiversionIsDue ==
    [][\A v \in Voyage :
          destPort'[v] # destPort[v] =>
              \E b \in DOMAIN pending :
                  /\ Diverts(v, b)
                  /\ pending[b].requestedAt < DepartureAt[v] - PortChangeWindow
                  /\ \A role \in SignatureRole :
                        \E c \in calls : c.booking = b /\ c.role = role
                  /\ portChanges' = [portChanges EXCEPT ![b] = @ + 1]]_changeVars

\* No voyage is diverted within the last PortChangeWindow before its departure.
NoLateDiversion ==
    [][\A v \in Voyage : destPort'[v] # destPort[v] => CanChangePort(v)]_changeVars
=============================================================================
