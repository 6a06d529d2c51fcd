--------------------------- MODULE Appointments ----------------------------
(***************************************************************************)
(* The trucks: port appointments and their numbers, and the two operations *)
(* of the dispatch service that are two updates each.  A delay marks the   *)
(* voyage and then re-appoints its trucks; a new berth plan changes the    *)
(* berth and then renumbers them; between the two anything may happen, a   *)
(* crash included, and the scheduler's passes have to make up for it.      *)
(***************************************************************************)
EXTENDS Fulfilment

CONSTANTS
    Start,           \* window starts that clients ask for
    MaxAppointments, \* bound: appointments ever created
    MaxCrashes       \* bound: crashes

\* Ids are compared as strings: the order of numbers, as long as they have one digit.
ASSUME StartAssumption            == Start \subseteq 0 .. MaxTime
ASSUME AppointmentBoundAssumption == MaxAppointments \in 0 .. 9 /\ MaxCrashes \in Nat

VARIABLES
    appointments, \* appointments, in the order of their ids
    working,      \* second updates still to come: what, and for which voyage
    serving,      \* the process has booted and takes calls
    pass,         \* "booked" between the two halves of a pass, or "idle"
    crashes       \* crashes so far

truckVars == <<appointments, working, serving, pass, crashes>>
aptVars   == <<fullVars, truckVars>>

AppointmentRecord ==
    [booking : 1 .. MaxBookings, start : 0 .. MaxTime,
     status : {"scheduled", "rescheduled", "completed"}, sequence : 1 .. MaxAppointments]

Active == {"scheduled", "rescheduled"}

\* An appointment's voyage and priority are copies of its booking's.
BookingOf(a) == bookings[appointments[a].booking]

Trucks(v, S) ==
    {a \in DOMAIN appointments : BookingOf(a).voyage = v /\ appointments[a].status \in S}

TruckInit ==
    /\ appointments = <<>>
    /\ working = {}
    /\ serving = FALSE
    /\ pass = "idle"
    /\ crashes = 0

AptInit == FulfilInit /\ TruckInit

-----------------------------------------------------------------------------
\* Renumbering.

\* Faulty variant: first come, first served.
BeforeByArrival(a, b) == a < b

\* orderByPriority: priority, then the time the booking was asked for, then the id.
Before(a, b) ==
    LET x == BookingOf(a)
        y == BookingOf(b)
    IN  \/ PriorityOf(x) > PriorityOf(y)
        \/ /\ PriorityOf(x) = PriorityOf(y)
           /\ x.submitTime < y.submitTime \/ (x.submitTime = y.submitTime /\ a < b)

\* The place of truck a among those of its voyage whose status is in S, from 1.
Place(a, S) == Cardinality({b \in Trucks(BookingOf(a).voyage, S) : Before(b, a)}) + 1

\* Faulty variant: the intermediate status stays.
ReappointedHalfway(V, S) ==
    [a \in DOMAIN appointments |->
       IF \E v \in V : a \in Trucks(v, S)
         THEN [appointments[a] EXCEPT !.status = "re_scheduling", !.sequence = Place(a, S)]
         ELSE appointments[a]]

\* rescheduleLocked, for each voyage of V: a window that has begun is moved to now.
Reappointed(V, S) ==
    [a \in DOMAIN appointments |->
       IF \E v \in V : a \in Trucks(v, S)
         THEN [appointments[a] EXCEPT !.status = "rescheduled", !.sequence = Place(a, S),
                                      !.start = IF @ < now THEN now ELSE @]
         ELSE appointments[a]]

-----------------------------------------------------------------------------
\* The appointment service.

\* Faulty variant: the trucks in the queue are counted.
NextSequenceByCount(v) == Cardinality(Trucks(v, Active)) + 1

\* One more than the highest number of the voyage, whatever became of its truck.
NextSequence(v) ==
    Max({0} \cup {appointments[a].sequence :
                    a \in Trucks(v, {"scheduled", "rescheduled", "completed"})}) + 1

\* Faulty variant: a re-scheduled appointment is not found again.
CreateSecondAppointment(b, at) ==
    /\ Len(appointments) < MaxAppointments
    /\ Known(b)
    /\ bookings[b].status \in {"confirmed", "manifested"}
    /\ \A a \in DOMAIN appointments :
          appointments[a].booking = b => appointments[a].status # "scheduled"
    /\ appointments' = Append(appointments,
          [booking |-> b, start |-> at, status |-> "scheduled",
           sequence |-> NextSequence(bookings[b].voyage)])
    /\ UNCHANGED <<fullVars, working, serving, pass, crashes>>

\* A paid booking without an active appointment gets one, at the end of the queue.
CreateAppointment(b, at) ==
    /\ Len(appointments) < MaxAppointments
    /\ Known(b)
    /\ bookings[b].status \in {"confirmed", "manifested"}
    /\ \A a \in DOMAIN appointments :
          appointments[a].booking = b => appointments[a].status \notin Active
    /\ appointments' = Append(appointments,
          [booking |-> b, start |-> at, status |-> "scheduled",
           sequence |-> NextSequence(bookings[b].voyage)])
    /\ UNCHANGED <<fullVars, working, serving, pass, crashes>>

\* The exported operation; no handler of the server calls it.
CompleteAppointment(a) ==
    /\ appointments[a].status \in Active
    /\ appointments' = [appointments EXCEPT ![a].status = "completed"]
    /\ UNCHANGED <<fullVars, working, serving, pass, crashes>>

\* RescheduleForVoyage: every active truck of the voyage.
Reschedule(v) ==
    /\ <<"reschedule", v>> \in working
    /\ working' = working \ {<<"reschedule", v>>}
    /\ appointments' = Reappointed({v}, Active)
    /\ UNCHANGED <<fullVars, serving, pass, crashes>>

\* ResequenceByPriority: new numbers, and neither status nor window changes.
Resequence(v) ==
    /\ <<"resequence", v>> \in working
    /\ working' = working \ {<<"resequence", v>>}
    /\ appointments' = [a \in DOMAIN appointments |->
                          IF a \in Trucks(v, Active)
                            THEN [appointments[a] EXCEPT !.sequence = Place(a, Active)]
                            ELSE appointments[a]]
    /\ UNCHANGED <<fullVars, serving, pass, crashes>>

-----------------------------------------------------------------------------
\* The first updates; at most one second update of a kind is under way for a voyage
\* (a bound).  When the first cannot be saved the call ends there, without the second,
\* and memory keeps what the first has changed.

Begin(what, v) ==
    /\ \/ <<what, v>> \notin working /\ working' = working \cup {<<what, v>>}
       \/ UNCHANGED working
    /\ UNCHANGED <<appointments, serving, pass, crashes>>

DelayVoyage(v) == MarkDelayed(v) /\ Begin("reschedule", v)

\* The berth itself is only ever read by clients.
ChangeBerth(v) == voyages[v] # "none" /\ Begin("resequence", v) /\ UNCHANGED fullVars

-----------------------------------------------------------------------------
\* The scheduler's pass, at boot and at each tick: two updates.

BookingHalf ==
    /\ pass = "idle"
    /\ pass' = "booked"
    /\ ReconcileExpired \/ (Overdue = {} /\ UNCHANGED vars)
    /\ UNCHANGED <<flowVars, appointments, working, serving, crashes>>

Delayed == {v \in Voyage : voyages[v] = "delayed"}

\* Faulty variants: the trucks are looked at when the process boots and never again;
\* those re-appointed before are taken in place of those that were not.
ReconcileOnce ==
    /\ pass = "booked"
    /\ pass' = "idle"
    /\ appointments' = IF serving THEN appointments ELSE Reappointed(Delayed, {"scheduled"})
    /\ serving' = TRUE
    /\ UNCHANGED <<fullVars, working, crashes>>

ReconcileRescheduled ==
    /\ pass = "booked"
    /\ pass' = "idle"
    /\ appointments' = Reappointed(Delayed, {"rescheduled"})
    /\ serving' = TRUE
    /\ UNCHANGED <<fullVars, working, crashes>>

\* portapp.Reconcile: on the delayed voyages, the trucks not re-appointed so far.
Reconcile ==
    /\ pass = "booked"
    /\ pass' = "idle"
    /\ appointments' = Reappointed(Delayed, {"scheduled"})
    /\ serving' = TRUE
    /\ UNCHANGED <<fullVars, working, crashes>>

\* The process stops and loads its snapshot: the second updates under way, and the
\* rest of a pass, are gone.  The snapshot is taken to be up to date (a bound): what is
\* lost with a late payment or a failed write is BookingRecovery's subject.
Crash ==
    /\ crashes < MaxCrashes
    /\ crashes' = crashes + 1
    /\ working' = {}
    /\ serving' = FALSE
    /\ pass' = "idle"
    /\ UNCHANGED <<fullVars, appointments>>

OtherCall ==
    /\ serving
    /\ (ServiceCall /\ UNCHANGED flowVars) \/ FlowCall
    /\ UNCHANGED truckVars

TruckCall ==
    /\ serving
    /\ \/ \E b \in 1 .. MaxBookings, at \in Start : CreateAppointment(b, at)
       \/ \E a \in DOMAIN appointments : CompleteAppointment(a)
       \/ \E v \in Voyage : DelayVoyage(v) \/ Reschedule(v) \/ ChangeBerth(v) \/ Resequence(v)

AptNext ==
    \/ Tick /\ UNCHANGED <<flowVars, truckVars>>
    \/ OtherCall \/ TruckCall
    \/ BookingHalf \/ Reconcile \/ Crash

\* The ticker keeps the passes going; clients owe nothing, and a goroutine may be
\* stopped for ever between its two updates.
AptFairness == WF_aptVars(BookingHalf) /\ WF_aptVars(Reconcile)

AptSpec == AptInit /\ [][AptNext]_aptVars /\ AptFairness

-----------------------------------------------------------------------------
\* Properties.

TruckTypeOK ==
    /\ appointments \in Seq(AppointmentRecord) /\ Len(appointments) <= MaxAppointments
    /\ working \subseteq {"reschedule", "resequence"} \X Voyage
    /\ serving \in BOOLEAN
    /\ pass \in {"idle", "booked"}
    /\ crashes \in 0 .. MaxCrashes

\* Types; and a truck is one of a booking that exists, with a number that does not
\* exceed the count of the appointments ever made.
AptTypeOK ==
    /\ FulfilTypeOK
    /\ TruckTypeOK
    /\ \A a \in DOMAIN appointments :
          /\ appointments[a].booking \in DOMAIN bookings
          /\ appointments[a].sequence <= Len(appointments)

\* A booking has one truck under way at most, through delays, completions, crashes
\* and repeated calls.
OneTruckPerBooking ==
    \A b \in DOMAIN bookings :
        Cardinality({a \in DOMAIN appointments :
                       appointments[a].booking = b /\ appointments[a].status \in Active}) <= 1

\* A truck that has not been re-appointed shares its number with no other truck of
\* its voyage that is still to come, however often those were renumbered.
ScheduledNumberIsUnique ==
    \A v \in Voyage : \A a \in Trucks(v, {"scheduled"}), b \in Trucks(v, Active) :
        a # b => appointments[a].sequence # appointments[b].sequence

\* The active trucks of a voyage have the numbers from 1, and one with a smaller
\* number has no lower priority, and no later booking of the same priority.
InOrder(v) ==
    /\ {appointments[a].sequence : a \in Trucks(v, Active)} = 1 .. Cardinality(Trucks(v, Active))
    /\ \A a, b \in Trucks(v, Active) :
          appointments[a].sequence < appointments[b].sequence =>
              \/ PriorityOf(BookingOf(a)) > PriorityOf(BookingOf(b))
              \/ /\ PriorityOf(BookingOf(a)) = PriorityOf(BookingOf(b))
                 /\ BookingOf(a).submitTime <= BookingOf(b).submitTime

\* The second update of a delay, and that of a new berth plan, put all the trucks in
\* order, those included that came or went since the first; and those of a delay get
\* a window that is not over.
RenumberingCoversAll ==
    [][\A v \in Voyage :
          /\ Reschedule(v) \/ Resequence(v) => InOrder(v)'
          /\ Reschedule(v) => \A a \in Trucks(v, Active)' : appointments'[a].start >= now]_aptVars

\* When the process begins to serve, no truck of a delayed voyage is as it was before
\* the delay: what a crash had interrupted is made up for.
ServesReappointed ==
    [][~serving /\ serving' => \A v \in Delayed : Trucks(v, {"scheduled"})' = {}]_aptVars

\* The trucks of delayed voyages that have not been re-appointed.
Stranded == UNION {Trucks(v, {"scheduled"}) : v \in Delayed}

\* A delay reaches every truck in the end, also when the second update of the delay
\* never comes or was too early for the truck: again and again no truck is stranded.
DelayReachesEveryTruck == Stranded # {} ~> Stranded = {}
=============================================================================
