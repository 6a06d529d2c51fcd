-------------------------- MODULE BookingRecovery --------------------------
(***************************************************************************)
(* The booking service on top of the store: after each update that         *)
(* succeeds the whole memory is written to disk (a temporary file, then a  *)
(* rename: the snapshot is the old one or the new one, never a mixture);   *)
(* writing may fail, the process may stop, and a restart loads the         *)
(* snapshot and reconciles before it serves.                               *)
(***************************************************************************)
EXTENDS Booking

VARIABLES
    disk,    \* the snapshot file
    serving, \* the process has booted and takes calls
    outcome, \* how the step's Update ended: "ok", "refused" (the function
             \* returned an error), "unsaved" (the write failed), or "none"
    booked,  \* history: bookings whose creation was answered with success
    paid     \* history: bookings whose payment was answered with success

recoveryVars == <<vars, disk, serving, outcome, booked, paid>>

\* Faulty variant: a part of the data is not written to the snapshot.
MemoryWithoutWaitlist ==
    [cargo |-> cargo, voyages |-> voyages, slots |-> slots, bookings |-> bookings,
     waitlist |-> {}, idempotency |-> idempotency, counter |-> counter]

\* What is kept in a snapshot; the clock is the world's.
Memory ==
    [cargo |-> cargo, voyages |-> voyages, slots |-> slots, bookings |-> bookings,
     waitlist |-> waitlist, idempotency |-> idempotency, counter |-> counter]

memoryVars == <<cargo, voyages, slots, bookings, waitlist, idempotency, counter>>

RecoveryInit ==
    /\ Init
    /\ disk = Memory
    /\ serving = FALSE
    /\ outcome = "none"
    /\ booked = {}
    /\ paid = {}

\* The function given to Update has returned without error: the memory it leaves
\* is written, and the write succeeds or fails.  Memory keeps the change anyway.
Persist ==
    \/ disk' = Memory' /\ outcome' = "ok"
    \/ disk' = disk /\ outcome' = "unsaved"

\* The answer to the client says whether Update succeeded; a booking is known to
\* the client by its id and what was asked for.
Answer(ghost, x) == IF outcome' = "ok" THEN ghost \cup {x} ELSE ghost

Asked(b, r) ==
    [id |-> b, cargo |-> r.cargo, voyage |-> r.voyage, slotType |-> r.slotType,
     qty |-> r.qty, key |-> r.key]

Book(r) ==
    /\ serving
    /\ CreateBooking(r)
    /\ Persist
    /\ booked' = Answer(booked, Asked(counter', r))
    /\ UNCHANGED <<serving, paid>>

\* Faulty variant: nothing has changed, so nothing is written.
BookAgainUnsaved(r) ==
    /\ serving
    /\ r.key # NoKey
    /\ idempotency[r.key] # NoBooking
    /\ outcome' = "ok"
    /\ booked' = Answer(booked, Asked(idempotency[r.key], bookings[idempotency[r.key]]))
    /\ UNCHANGED <<vars, disk, serving, paid>>

\* A key seen before: the booking it made is the answer, and the snapshot is
\* written again.
BookAgain(r) ==
    /\ serving
    /\ r.qty > 0
    /\ r.key # NoKey
    /\ idempotency[r.key] # NoBooking
    /\ UNCHANGED vars
    /\ Persist
    /\ booked' = Answer(booked, Asked(idempotency[r.key], bookings[idempotency[r.key]]))
    /\ UNCHANGED <<serving, paid>>

Pay(b) ==
    /\ serving
    /\ PayInTime(b)
    /\ Persist
    /\ paid' = Answer(paid, b)
    /\ UNCHANGED <<serving, booked>>

\* Faulty variant: nothing has changed, so nothing is written.
PayAgainUnsaved(b) ==
    /\ serving
    /\ Known(b)
    /\ bookings[b].status = "confirmed"
    /\ outcome' = "ok"
    /\ paid' = Answer(paid, b)
    /\ UNCHANGED <<vars, disk, serving, booked>>

\* A confirmed booking paid again: nothing changes in memory, and the snapshot is
\* written.
PayAgain(b) ==
    /\ serving
    /\ Known(b)
    /\ bookings[b].status = "confirmed"
    /\ UNCHANGED vars
    /\ Persist
    /\ paid' = Answer(paid, b)
    /\ UNCHANGED <<serving, booked>>

\* The function returns ErrPaymentTimeout, so nothing is written.
PayTooLate(b) ==
    /\ serving
    /\ PayLate(b)
    /\ outcome' = "refused"
    /\ UNCHANGED <<disk, serving, booked, paid>>

\* The other updates of a serving process.
Serve ==
    /\ serving
    /\ \/ \E c \in CargoId : CreateCargo(c) \/ ConfirmTemp(c)
       \/ \E v \in Voyage : CreateVoyage(v)
       \/ \E b \in 1 .. MaxBookings : Cancel(b)
    /\ Persist
    /\ UNCHANGED <<serving, booked, paid>>

\* Faulty variant: the process serves as soon as it has loaded the snapshot.
ServeAtOnce ==
    /\ UNCHANGED vars
    /\ Persist
    /\ serving' = TRUE
    /\ UNCHANGED <<booked, paid>>

\* ReconcileNow, at boot or at a tick of the scheduler: it writes the snapshot
\* even when nothing was overdue.
Reconcile ==
    /\ ReconcileExpired \/ (Overdue = {} /\ UNCHANGED vars)
    /\ Persist
    /\ serving' = TRUE
    /\ UNCHANGED <<booked, paid>>

\* The process stops and is started again: what memory had more than the snapshot
\* is lost.  It reconciles before it serves.
Restart ==
    /\ cargo' = disk.cargo
    /\ voyages' = disk.voyages
    /\ slots' = disk.slots
    /\ bookings' = disk.bookings
    /\ waitlist' = disk.waitlist
    /\ idempotency' = disk.idempotency
    /\ counter' = disk.counter
    /\ serving' = FALSE
    /\ outcome' = "none"
    /\ UNCHANGED <<now, disk, booked, paid>>

Pass ==
    /\ Tick
    /\ outcome' = "none"
    /\ UNCHANGED <<disk, serving, booked, paid>>

RecoveryNext ==
    \/ Pass \/ Restart \/ Reconcile \/ Serve
    \/ \E r \in Request : Book(r) \/ BookAgain(r)
    \/ \E b \in 1 .. MaxBookings : Pay(b) \/ PayAgain(b) \/ PayTooLate(b)

RecoverySpec == RecoveryInit /\ [][RecoveryNext]_recoveryVars

-----------------------------------------------------------------------------
\* Properties.

\* Whatever the moment of a crash, the snapshot is one the service can go on
\* from: slots, bookings, quantities and waitlist agree with one another, and the
\* counter is past every id in use.
SnapshotIsConsistent ==
    /\ disk.bookings \in [1 .. disk.counter -> BookingRecord]
    /\ SlotsMatch(disk) /\ Quotas(disk) /\ Waitlisted(disk)

\* A payment that was answered with success is in memory and in the snapshot: no
\* crash, no failed write and no retry loses it, unless the booking is cancelled.
PaymentSurvives ==
    \A b \in paid, known \in {bookings, disk.bookings} :
        b \in DOMAIN known /\ known[b].status \in Paid \cup {"cancelled"}

\* A booking that was answered with success keeps its id and what it asked for,
\* in memory and in the snapshot, and its key goes on leading to it: ids are not
\* handed out twice, and a retry after a restart makes no second booking.
BookingSurvives ==
    \A a \in booked :
        /\ a.id \in DOMAIN bookings /\ Asked(a.id, bookings[a.id]) = a
        /\ a.id \in DOMAIN disk.bookings /\ Asked(a.id, disk.bookings[a.id]) = a
        /\ a.key # NoKey => idempotency[a.key] = a.id /\ disk.idempotency[a.key] = a.id

\* While the process serves, every freeze that expired while it was down has been
\* dealt with: what is overdue became so after the boot.
ServesReconciled ==
    [][~serving /\ serving' => Overdue' = {}]_recoveryVars

\* An update whose function returns an error leaves the state as it was.
RefusedUpdateChangesNothing ==
    [][outcome' = "refused" => UNCHANGED memoryVars]_recoveryVars
=============================================================================
