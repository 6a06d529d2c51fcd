---------------------------- MODULE Fulfilment -----------------------------
(***************************************************************************)
(* What follows payment: manifest declaration, the voyage's course, and    *)
(* sign-off at the destination.  The manifest, arrival and dispatch        *)
(* services work on the bookings of module Booking, in the same store and  *)
(* under the same lock, each with a status check of its own.               *)
(***************************************************************************)
EXTENDS Booking

CONSTANT MaxManifests \* bound: manifests ever submitted

ASSUME ManifestBoundAssumption == MaxManifests \in Nat

VARIABLES
    manifests, \* manifests, in the order of their ids: booking and status
    arrivals,  \* arrival records, in the order of their ids: booking and voyage
    signed     \* history: bookings whose sign-off has been answered with success

flowVars == <<manifests, arrivals, signed>>
fullVars == <<vars, flowVars>>

ManifestRecord ==
    [booking : 1 .. MaxBookings, status : {"submitted", "declared", "rejected"}]

ArrivalRecord == [booking : 1 .. MaxBookings, voyage : Voyage]

FlowInit == manifests = <<>> /\ arrivals = <<>> /\ signed = {}

FulfilInit == Init /\ FlowInit

\* An operation of the booking service.
BookingStep == Next /\ UNCHANGED flowVars

-----------------------------------------------------------------------------
\* Manifests.

\* Faulty variant: an existing manifest is not looked for.
SubmitAgain(b) ==
    /\ Len(manifests) < MaxManifests
    /\ Known(b)
    /\ bookings[b].status = "confirmed"
    /\ manifests' = Append(manifests, [booking |-> b, status |-> "submitted"])
    /\ UNCHANGED <<vars, arrivals, signed>>

\* A confirmed booking without a manifest that still counts gets one.
Submit(b) ==
    /\ Len(manifests) < MaxManifests
    /\ Known(b)
    /\ bookings[b].status = "confirmed"
    /\ \A m \in DOMAIN manifests :
          manifests[m].booking = b => manifests[m].status = "rejected"
    /\ manifests' = Append(manifests, [booking |-> b, status |-> "submitted"])
    /\ UNCHANGED <<vars, arrivals, signed>>

\* Faulty variant: the manifest's status is written to the booking.
DeclareBooking(m) ==
    /\ manifests[m].status = "submitted"
    /\ manifests' = [manifests EXCEPT ![m].status = "declared"]
    /\ bookings' = [bookings EXCEPT ![manifests[m].booking].status = "declared"]
    /\ UNCHANGED <<now, cargo, voyages, slots, waitlist, idempotency, counter,
                   arrivals, signed>>

\* The status of the booking is written whatever it is.
Declare(m) ==
    /\ manifests[m].status = "submitted"
    /\ Known(manifests[m].booking)
    /\ manifests' = [manifests EXCEPT ![m].status = "declared"]
    /\ bookings' = [bookings EXCEPT ![manifests[m].booking].status = "manifested"]
    /\ UNCHANGED <<now, cargo, voyages, slots, waitlist, idempotency, counter,
                   arrivals, signed>>

\* A rejected manifest counts no more; the booking stays as it is.
Reject(m) ==
    /\ manifests[m].status = "submitted"
    /\ manifests' = [manifests EXCEPT ![m].status = "rejected"]
    /\ UNCHANGED <<vars, arrivals, signed>>

-----------------------------------------------------------------------------
\* The course of a voyage.

SetVoyage(v, st) ==
    /\ voyages' = [voyages EXCEPT ![v] = st]
    /\ UNCHANGED <<now, cargo, slots, bookings, waitlist, idempotency, counter, flowVars>>

MarkDelayed(v)  == voyages[v] \in {"scheduled", "delayed"} /\ SetVoyage(v, "delayed")

MarkDeparted(v) == voyages[v] # "none" /\ SetVoyage(v, "departed")

MarkArrived(v)  == voyages[v] # "none" /\ SetVoyage(v, "arrived")

-----------------------------------------------------------------------------
\* Sign-off.

\* The arrival records that count as an earlier sign-off of booking b.
EarlierArrivals(b) ==
    {a \in DOMAIN arrivals : arrivals[a].voyage = bookings[b].voyage}

\* Faulty variant: the arrival is recorded and the booking's status forgotten.
SignOffRecordOnly(b) ==
    /\ Known(b)
    /\ EarlierArrivals(b) = {}
    /\ bookings[b].status = "manifested"
    /\ voyages[bookings[b].voyage] = "arrived"
    /\ arrivals' = Append(arrivals, [booking |-> b, voyage |-> bookings[b].voyage])
    /\ signed' = signed \cup {b}
    /\ UNCHANGED <<vars, manifests>>

SignOff(b) ==
    /\ Known(b)
    /\ EarlierArrivals(b) = {}
    /\ bookings[b].status = "manifested"
    /\ voyages[bookings[b].voyage] = "arrived"
    /\ arrivals' = Append(arrivals, [booking |-> b, voyage |-> bookings[b].voyage])
    /\ bookings' = [bookings EXCEPT ![b].status = "arrived"]
    /\ signed' = signed \cup {b}
    /\ UNCHANGED <<now, cargo, voyages, slots, waitlist, idempotency, counter, manifests>>

\* The repeated sign-off: answered with the record found, before any check of b.
SignOffRepeated(b) ==
    /\ Known(b)
    /\ EarlierArrivals(b) # {}
    /\ signed' = signed \cup {b}
    /\ UNCHANGED <<vars, manifests, arrivals>>

\* The calls of these services, but for the delay of a voyage.
FlowCall ==
    \/ \E b \in 1 .. MaxBookings : Submit(b) \/ SignOff(b) \/ SignOffRepeated(b)
    \/ \E m \in DOMAIN manifests : Declare(m) \/ Reject(m)
    \/ \E v \in Voyage : MarkDeparted(v) \/ MarkArrived(v)

FulfilNext == BookingStep \/ FlowCall \/ \E v \in Voyage : MarkDelayed(v)

\* As in Booking, time passes and the scheduler's passes go on; the clients of these
\* services too owe nothing.
FulfilFairness ==
    WF_fullVars(Tick /\ UNCHANGED flowVars) /\ WF_fullVars(ReconcileExpired /\ UNCHANGED flowVars)

FulfilSpec == FulfilInit /\ [][FulfilNext]_fullVars /\ FulfilFairness

-----------------------------------------------------------------------------
\* Properties.

FlowTypeOK ==
    /\ manifests \in Seq(ManifestRecord) /\ Len(manifests) <= MaxManifests
    /\ arrivals \in Seq(ArrivalRecord)
    /\ signed \subseteq DOMAIN bookings

\* Types; and a manifest or an arrival record is one of a booking that exists.
FulfilTypeOK ==
    /\ TypeOK
    /\ FlowTypeOK
    /\ \A m \in DOMAIN manifests : manifests[m].booking \in DOMAIN bookings
    /\ \A a \in DOMAIN arrivals : arrivals[a].booking \in DOMAIN bookings

ManifestsOf(b, S) ==
    {m \in DOMAIN manifests : manifests[m].booking = b /\ manifests[m].status \in S}

\* However often a manifest is rejected and submitted again, at most one counts;
\* and a booking has reached the manifest step, or gone beyond it, only by a
\* declared one.
OneManifestCounts ==
    \A b \in DOMAIN bookings :
        /\ Cardinality(ManifestsOf(b, {"submitted", "declared"})) <= 1
        /\ bookings[b].status \in {"manifested", "arrived"} => ManifestsOf(b, {"declared"}) # {}

\* The arrival records are those of the arrived bookings, one each.
ArrivalsMatchBookings ==
    /\ {arrivals[a].booking : a \in DOMAIN arrivals}
          = {b \in DOMAIN bookings : bookings[b].status = "arrived"}
    /\ IsInjective([a \in DOMAIN arrivals |-> arrivals[a].booking])

\* An arrived booking stays arrived and keeps its slots: a declaration or a
\* cancellation that comes late cannot take it back.
ArrivedIsFinal ==
    [][\A b \in DOMAIN bookings :
          bookings[b].status = "arrived" =>
              bookings'[b].status = "arrived" /\ Holding(Data, b) = Holding(Data, b)']_fullVars

\* Each booking of a shared voyage whose sign-off succeeded has an arrival record
\* of its own and has arrived.
SignedOffHasArrived ==
    \A b \in signed :
        /\ \E a \in DOMAIN arrivals : arrivals[a].booking = b
        /\ bookings[b].status = "arrived"

\* A booking that is declared, or has arrived, has the slots that were paid for.
DeclaredHoldsItsSlots ==
    \A b \in DOMAIN bookings :
        bookings[b].status \in {"manifested", "arrived"} =>
            Cardinality(Holding(Data, b)) = bookings[b].qty
=============================================================================
