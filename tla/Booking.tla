------------------------------ MODULE Booking ------------------------------
(***************************************************************************)
(* The booking service: freezing of slots, payment, cancellation, the      *)
(* waitlist, and the reconciliation of expired freezes.                    *)
(*                                                                         *)
(* Every operation is one Store.Update: the handler runs from its first    *)
(* read to its last write under the store's exclusive lock, so it is one   *)
(* atomic action here.  Requests the code refuses, and repeats it answers  *)
(* from what is already stored, change nothing and are stuttering steps.   *)
(***************************************************************************)
EXTENDS Domain, Sequences, SequencesExt

CONSTANTS
    CargoId,        \* ids under which cargo can be registered
    CargoOf,        \* CargoOf[c]: type and season given when c is registered
    Voyage,         \* ids under which a voyage can be provisioned
    Shape,          \* Shape[v]: numbers of refrigerated and dry slots of v
    Key,            \* idempotency keys of clients
    NoKey,          \* the empty idempotency key
    Request,        \* the booking requests clients may send
    PaymentTimeout, \* length of the freeze window, in clock ticks
    MaxBookings,    \* bound: bookings ever created
    MaxTime         \* bound: last tick of the clock

BookingRequest ==
    [cargo : CargoId, voyage : Voyage, slotType : SlotType, qty : Int,
     key : Key \cup {NoKey}]

ASSUME CargoAssumption   == CargoOf \in [CargoId -> CargoAttributes]
ASSUME ShapeAssumption   == Shape \in [Voyage -> [refrigerated : Nat, dry : Nat]]
ASSUME KeyAssumption     == NoKey \notin Key
ASSUME RequestAssumption == Request \subseteq BookingRequest
ASSUME TimeAssumption    == PaymentTimeout \in Nat /\ MaxTime \in Nat
ASSUME BoundAssumption   == MaxBookings \in Nat

VARIABLES
    now,         \* the clock
    cargo,       \* [CargoId -> "absent", "registered" or "confirmed"]
    voyages,     \* [Voyage -> VoyageStatus, or "none" before it is created]
    slots,       \* [Slot -> status and holder]
    bookings,    \* booking id -> booking
    waitlist,    \* ids of the queued bookings
    idempotency, \* [Key -> the booking made under that key, or NoBooking]
    counter      \* the number of the last booking id handed out

vars == <<now, cargo, voyages, slots, bookings, waitlist, idempotency, counter>>

NoBooking == 0

-----------------------------------------------------------------------------
\* Slots: a voyage numbers its refrigerated slots first, then its dry ones.

Slot == UNION {{v} \X (0 .. Shape[v].refrigerated + Shape[v].dry - 1) : v \in Voyage}

SlotTypeOf(s) == IF s[2] < Shape[s[1]].refrigerated THEN "refrigerated" ELSE "dry"

FreeSlot == [status |-> "free", holder |-> NoBooking]

BookingRecord ==
    [cargo : CargoId, voyage : Voyage, slotType : SlotType, qty : Nat \ {0},
     key : Key \cup {NoKey}, status : BookingStatus, submitTime : 0 .. MaxTime,
     frozenAt : 0 .. MaxTime]

\* The statuses of a booking that has paid, and of one that holds slots.
Paid == {"confirmed", "manifested", "arrived"}
Live == Paid \cup {"frozen"}

\* The part of the store that the helpers under the lock rewrite.  A waitlist
\* entry repeats fields of its booking that never change, and entries are
\* appended in the order of their ids, so the ids alone stand for the list.
Data == [slots |-> slots, bookings |-> bookings, waitlist |-> waitlist]

Commit(d) ==
    /\ slots' = d.slots
    /\ bookings' = d.bookings
    /\ waitlist' = d.waitlist

FreeSlots(d, v, t) ==
    {s \in Slot : s[1] = v /\ SlotTypeOf(s) = t /\ d.slots[s].status = "free"}

\* Faulty variant: one slot too many.
FirstAndNext(n, S) == {s \in S : Cardinality({r \in S : r[2] < s[2]}) <= n}

\* The first n slots of S, in the order of their index on the voyage.
First(n, S) == {s \in S : Cardinality({r \in S : r[2] < s[2]}) < n}

\* There are enough free slots for booking b.
Fits(d, b) ==
    d.bookings[b].qty
        <= Cardinality(FreeSlots(d, d.bookings[b].voyage, d.bookings[b].slotType))

\* Faulty variants: the end of the window is stored in place of its beginning; a
\* promoted booking keeps the window it had.
FreezeUntil(d, b) ==
    LET bk     == d.bookings[b]
        chosen == First(bk.qty, FreeSlots(d, bk.voyage, bk.slotType))
    IN  [d EXCEPT
           !.slots = [s \in Slot |-> IF s \in chosen
                                       THEN [status |-> "frozen", holder |-> b]
                                       ELSE d.slots[s]],
           !.bookings = [d.bookings EXCEPT ![b].status = "frozen",
                                           ![b].frozenAt = now + PaymentTimeout]]

FreezeSameWindow(d, b) ==
    [FreezeUntil(d, b) EXCEPT !.bookings[b].frozenAt = d.bookings[b].submitTime]

\* Booking b takes its quantity of free slots; its payment window opens now.
Freeze(d, b) ==
    LET bk     == d.bookings[b]
        chosen == First(bk.qty, FreeSlots(d, bk.voyage, bk.slotType))
    IN  [d EXCEPT
           !.slots = [s \in Slot |-> IF s \in chosen
                                       THEN [status |-> "frozen", holder |-> b]
                                       ELSE d.slots[s]],
           !.bookings = [d.bookings EXCEPT ![b].status = "frozen",
                                           ![b].frozenAt = now]]

-----------------------------------------------------------------------------
\* The waitlist.

PriorityOf(bk) == Priority(CargoOf[bk.cargo])

\* Entry a is promoted before entry b: higher priority, then earlier, then
\* nearer to the head of the list.
Ahead(d, a, b) ==
    LET x == d.bookings[a]
        y == d.bookings[b]
    IN  \/ PriorityOf(x) > PriorityOf(y)
        \/ /\ PriorityOf(x) = PriorityOf(y)
           /\ x.submitTime < y.submitTime \/ (x.submitTime = y.submitTime /\ a < b)

Queue(d, v, t) ==
    {b \in d.waitlist : d.bookings[b].voyage = v /\ d.bookings[b].slotType = t}

\* Faulty variant: first come, first served, whatever the cargo.
BestByArrival(d, v, t) ==
    {b \in Queue(d, v, t) : \A a \in Queue(d, v, t) : b <= a}

\* The best entry of a queue, as a set: empty when the queue is.
Best(d, v, t) ==
    {b \in Queue(d, v, t) : \A a \in Queue(d, v, t) \ {b} : Ahead(d, b, a)}

\* Faulty variant: the promoted entry is left on the list.
PromoteKeepsEntry(d, v, t) ==
    LET ready == {b \in Best(d, v, t) : voyages[v] # "none" /\ Fits(d, b)}
    IN  IF ready = {} THEN d ELSE Freeze(d, CHOOSE b \in ready : TRUE)

\* promoteFromWaitlistLocked: only the head is considered, and it waits until
\* its whole quantity is free.
Promote(d, v, t) ==
    LET ready == {b \in Best(d, v, t) : voyages[v] # "none" /\ Fits(d, b)}
    IN  IF ready = {}
          THEN d
          ELSE LET b == CHOOSE b \in ready : TRUE
               IN  [Freeze(d, b) EXCEPT !.waitlist = @ \ {b}]

-----------------------------------------------------------------------------
\* Leaving: the slots of a booking return to the free pool.

\* Faulty variants: the status is not looked at; the window is a tick too long.
ExpiredAnyStatus(bk) == now - bk.frozenAt > PaymentTimeout

ExpiredTooLate(bk) == bk.status = "frozen" /\ now - bk.frozenAt > PaymentTimeout + 1

Expired(bk) == bk.status = "frozen" /\ now - bk.frozenAt > PaymentTimeout

\* Faulty variant: the slots are marked free and keep their holder.
ReleaseKeepsHolder(d, out, st, which) ==
    [d EXCEPT
       !.slots = [s \in Slot |->
                    IF d.slots[s].holder \in out /\ d.slots[s].status \in which
                      THEN [d.slots[s] EXCEPT !.status = "free"] ELSE d.slots[s]],
       !.bookings = [b \in DOMAIN d.bookings |->
                       IF b \in out THEN [d.bookings[b] EXCEPT !.status = st]
                                    ELSE d.bookings[b]]]

\* The bookings in out leave with status st; of their slots, those whose status
\* is in which become free.
Release(d, out, st, which) ==
    [d EXCEPT
       !.slots = [s \in Slot |->
                    IF d.slots[s].holder \in out /\ d.slots[s].status \in which
                      THEN FreeSlot ELSE d.slots[s]],
       !.bookings = [b \in DOMAIN d.bookings |->
                       IF b \in out THEN [d.bookings[b] EXCEPT !.status = st]
                                    ELSE d.bookings[b]]]

\* Faulty variant: an overdue booking goes back to the waitlist.
ReleaseToWaitlist(d, out) ==
    [Release(d, out, "waitlisted", {"frozen"}) EXCEPT !.waitlist = @ \cup out]

\* releaseFrozen, for each booking of out.
ReleaseFrozen(d, out) == Release(d, out, "released", {"frozen"})

\* Faulty variant: one promotion for the whole pass.
PromotionsOnce(d, order) ==
    Promote(d, d.bookings[order[1]].voyage, d.bookings[order[1]].slotType)

\* One promotion for each released booking, in the order of their release.
Promotions(d, order) ==
    LET after[k \in 0 .. Len(order)] ==
          IF k = 0 THEN d
          ELSE Promote(after[k - 1], d.bookings[order[k]].voyage,
                                     d.bookings[order[k]].slotType)
    IN  after[Len(order)]

-----------------------------------------------------------------------------
Init ==
    /\ now = 0
    /\ cargo = [c \in CargoId |-> "absent"]
    /\ voyages = [v \in Voyage |-> "none"]
    /\ slots = [s \in Slot |-> FreeSlot]
    /\ bookings = <<>>
    /\ waitlist = {}
    /\ idempotency = [k \in Key |-> NoBooking]
    /\ counter = 0

\* Time passes; MaxTime bounds it.
Tick ==
    /\ now < MaxTime
    /\ now' = now + 1
    /\ UNCHANGED <<cargo, voyages, slots, bookings, waitlist, idempotency, counter>>

CreateCargo(c) ==
    /\ cargo[c] = "absent"
    /\ cargo' = [cargo EXCEPT ![c] = "registered"]
    /\ UNCHANGED <<now, voyages, slots, bookings, waitlist, idempotency, counter>>

ConfirmTemp(c) ==
    /\ cargo[c] # "absent"
    /\ cargo' = [cargo EXCEPT ![c] = "confirmed"]
    /\ UNCHANGED <<now, voyages, slots, bookings, waitlist, idempotency, counter>>

CreateVoyage(v) ==
    /\ voyages[v] = "none"
    /\ voyages' = [voyages EXCEPT ![v] = "scheduled"]
    /\ UNCHANGED <<now, cargo, slots, bookings, waitlist, idempotency, counter>>

\* Faulty variant: the idempotency table is not consulted.
AdmissibleAgain(r) ==
    /\ r.qty > 0
    /\ cargo[r.cargo] # "absent"
    /\ EligibleForSlot(CargoOf[r.cargo], cargo[r.cargo] = "confirmed", r.slotType)
    /\ voyages[r.voyage] # "none"

\* The request r passes the checks of CreateBooking and is not a repeat.
Admissible(r) ==
    /\ r.qty > 0
    /\ r.key # NoKey => idempotency[r.key] = NoBooking
    /\ cargo[r.cargo] # "absent"
    /\ EligibleForSlot(CargoOf[r.cargo], cargo[r.cargo] = "confirmed", r.slotType)
    /\ voyages[r.voyage] # "none"

\* The store's data with booking b, made from request r, added in status st.
Enter(b, r, st) ==
    [Data EXCEPT
       !.bookings = [x \in 1 .. b |->
                       IF x = b
                         THEN [cargo |-> r.cargo, voyage |-> r.voyage,
                               slotType |-> r.slotType, qty |-> r.qty, key |-> r.key,
                               status |-> st, submitTime |-> now, frozenAt |-> 0]
                         ELSE bookings[x]]]

\* A new booking freezes its slots at once when enough are free, whoever may be
\* waiting, and joins the waitlist otherwise.
CreateBooking(r) ==
    LET b       == counter + 1
        pending == Enter(b, r, "pending")
        queued  == Enter(b, r, "waitlisted")
    IN  /\ b <= MaxBookings
        /\ Admissible(r)
        /\ \/ Fits(pending, b) /\ Commit(Freeze(pending, b))
           \/ ~Fits(pending, b) /\ Commit([queued EXCEPT !.waitlist = @ \cup {b}])
        /\ idempotency' = [k \in Key |-> IF k = r.key THEN b ELSE idempotency[k]]
        /\ counter' = b
        /\ UNCHANGED <<now, cargo, voyages>>

Known(b) == b \in DOMAIN bookings

\* Faulty variant: the window is not checked.
PayAnyTime(b) ==
    /\ Known(b)
    /\ bookings[b].status = "frozen"
    /\ slots' = [s \in Slot |-> IF slots[s].holder = b
                                  THEN [slots[s] EXCEPT !.status = "allocated"]
                                  ELSE slots[s]]
    /\ bookings' = [bookings EXCEPT ![b].status = "confirmed"]
    /\ UNCHANGED <<now, cargo, voyages, waitlist, idempotency, counter>>

\* Payment within the freeze window: the frozen slots of b become allocated.
PayInTime(b) ==
    /\ Known(b)
    /\ bookings[b].status = "frozen"
    /\ ~Expired(bookings[b])
    /\ voyages[bookings[b].voyage] # "none"
    /\ slots' = [s \in Slot |-> IF slots[s].holder = b /\ slots[s].status = "frozen"
                                  THEN [slots[s] EXCEPT !.status = "allocated"]
                                  ELSE slots[s]]
    /\ bookings' = [bookings EXCEPT ![b].status = "confirmed"]
    /\ UNCHANGED <<now, cargo, voyages, waitlist, idempotency, counter>>

\* Payment after the window: the caller gets an error, yet the booking is
\* released and the waitlist promoted.
PayLate(b) ==
    /\ Known(b)
    /\ Expired(bookings[b])
    /\ Commit(Promote(ReleaseFrozen(Data, {b}), bookings[b].voyage, bookings[b].slotType))
    /\ UNCHANGED <<now, cargo, voyages, idempotency, counter>>

\* Faulty variant: an arrived booking can be cancelled.
CancelArrived(b) ==
    /\ Known(b)
    /\ bookings[b].status \in Live
    /\ Commit(Promote(Release(Data, {b}, "cancelled", SlotStatus),
                      bookings[b].voyage, bookings[b].slotType))
    /\ UNCHANGED <<now, cargo, voyages, idempotency, counter>>

Cancel(b) ==
    /\ Known(b)
    /\ bookings[b].status \in {"frozen", "confirmed", "manifested"}
    /\ Commit(Promote(Release(Data, {b}, "cancelled", SlotStatus),
                      bookings[b].voyage, bookings[b].slotType))
    /\ UNCHANGED <<now, cargo, voyages, idempotency, counter>>

\* The exported operation; no handler of the server calls it.
PromoteWaitlist(v, t) ==
    /\ Commit(Promote(Data, v, t))
    /\ UNCHANGED <<now, cargo, voyages, idempotency, counter>>

Overdue == {b \in DOMAIN bookings : Expired(bookings[b])}

\* One pass of the scheduler: release every overdue booking, then promote once
\* for each of them.  The order is that of Go's map iteration: any.
ReconcileExpired ==
    /\ Overdue # {}
    /\ \E order \in SetToSeqs(Overdue) :
          Commit(Promotions(ReleaseFrozen(Data, Overdue), order))
    /\ UNCHANGED <<now, cargo, voyages, idempotency, counter>>

\* What clients call, and one exported operation no handler does.
ServiceCall ==
    \/ \E c \in CargoId : CreateCargo(c) \/ ConfirmTemp(c)
    \/ \E v \in Voyage : CreateVoyage(v)
    \/ \E r \in Request : CreateBooking(r)
    \/ \E b \in 1 .. MaxBookings : PayInTime(b) \/ PayLate(b) \/ Cancel(b)
    \/ \E v \in Voyage, t \in SlotType : PromoteWaitlist(v, t)

Next == Tick \/ ServiceCall \/ ReconcileExpired

\* The clock advances, and the scheduler's ticker keeps calling ReconcileExpired.
\* Clients owe the system nothing.
Fairness == WF_vars(Tick) /\ WF_vars(ReconcileExpired)

Spec == Init /\ [][Next]_vars /\ Fairness

-----------------------------------------------------------------------------
\* Invariants.

\* Type correctness: ids are 1 .. counter, without gaps, and whatever refers to a
\* booking (waitlist, idempotency table) refers to one that exists.
TypeOK ==
    /\ now \in 0 .. MaxTime
    /\ cargo \in [CargoId -> {"absent", "registered", "confirmed"}]
    /\ voyages \in [Voyage -> VoyageStatus \cup {"none"}]
    /\ slots \in [Slot -> [status : SlotStatus, holder : Nat]]
    /\ counter \in 0 .. MaxBookings
    /\ bookings \in [1 .. counter -> BookingRecord]
    /\ waitlist \subseteq DOMAIN bookings
    /\ idempotency \in [Key -> {NoBooking} \cup DOMAIN bookings]

\* A slot is free and held by nobody, frozen by a booking that is itself frozen,
\* or allocated to one that has paid; and the holder asked for that voyage and
\* that type.  Releasing, paying and promoting touch slots and bookings in
\* separate loops: this is what they must keep in step.
SlotAgrees(d, s) ==
    LET h == d.slots[s].holder
    IN  CASE d.slots[s].status = "free"      -> h = NoBooking
          [] d.slots[s].status = "frozen"    -> h \in DOMAIN d.bookings /\ d.bookings[h].status = "frozen"
          [] d.slots[s].status = "allocated" -> h \in DOMAIN d.bookings /\ d.bookings[h].status \in Paid

HolderAskedFor(d, s) ==
    d.slots[s].status # "free" =>
        /\ d.bookings[d.slots[s].holder].voyage = s[1]
        /\ d.bookings[d.slots[s].holder].slotType = SlotTypeOf(s)

SlotsMatch(d) == \A s \in Slot : SlotAgrees(d, s) /\ HolderAskedFor(d, s)

SlotsMatchHolders == SlotsMatch(Data)

\* A booking that holds slots holds exactly the quantity it asked for, and one
\* that does not (waiting, released, cancelled) holds none: a batch is never
\* split, lost in part or freed in part.
Holding(d, b) == {s \in Slot : d.slots[s].holder = b}

Quotas(d) ==
    \A b \in DOMAIN d.bookings :
        Cardinality(Holding(d, b)) =
            IF d.bookings[b].status \in Live THEN d.bookings[b].qty ELSE 0

HoldsItsQuota == Quotas(Data)

\* The waitlist holds the waitlisted bookings, all of them and no other: nobody
\* is promoted twice or forgotten.
Waitlisted(d) ==
    d.waitlist = {b \in DOMAIN d.bookings : d.bookings[b].status = "waitlisted"}

WaitlistIsExact == Waitlisted(Data)

\* A refrigerated slot is held only for new-energy cargo whose temperature
\* control is confirmed, also when the slot came by way of the waitlist.
TemperatureControl ==
    \A s \in Slot :
        SlotTypeOf(s) = "refrigerated" /\ slots[s].status # "free" =>
            LET c == bookings[slots[s].holder].cargo
            IN  cargo[c] = "confirmed" /\ IsNewEnergy(CargoOf[c])

\* A key stands for one booking, whether it was frozen or waitlisted: a retried
\* request finds the booking its first attempt made.
OneBookingPerKey ==
    \A b \in DOMAIN bookings :
        bookings[b].key # NoKey => idempotency[bookings[b].key] = b

\* The bookings for one type of slot of a voyage ask for one slot each.
SinglesOnly(v, t) ==
    \A b \in DOMAIN bookings :
        bookings[b].voyage = v /\ bookings[b].slotType = t => bookings[b].qty = 1

\* Where customers ask for single slots, no slot is ever free beside a queue:
\* whatever frees slots, a pass that frees several included, promotes as many.
\* (A batch that is released promotes one customer only.)
NoIdleSlot ==
    \A v \in Voyage, t \in SlotType :
        SinglesOnly(v, t) => \A b \in Best(Data, v, t) : ~Fits(Data, b)

-----------------------------------------------------------------------------
\* Action properties.

\* Whoever leaves the waitlist is ahead, in the promotion order, of everyone of
\* the same voyage and slot type who stays on it.
PromotionByPriority ==
    [][\A a \in waitlist \ waitlist', b \in waitlist \cap waitlist' :
          /\ bookings[a].voyage = bookings[b].voyage
          /\ bookings[a].slotType = bookings[b].slotType
          => Ahead(Data, a, b)]_vars

\* A booking that has paid keeps the very slots it paid for until it is
\* cancelled: neither the scheduler's pass nor a promotion takes one away.
PaidKeepsItsSlots ==
    [][\A b \in DOMAIN bookings :
          bookings[b].status \in Paid =>
              \/ bookings'[b].status = "cancelled"
              \/ bookings'[b].status \in Paid /\ Holding(Data, b) = Holding(Data, b)']_vars

\* After a pass of the scheduler no freeze is overdue, those it has just made
\* by promotion included: the promoted customer gets a window of its own.
ReconcileLeavesNoneOverdue ==
    [][ReconcileExpired => Overdue' = {}]_vars

-----------------------------------------------------------------------------
\* Liveness.

IsFrozen(b) == Known(b) /\ bookings[b].status = "frozen"

\* A frozen booking is eventually paid, cancelled or released; one whose window
\* ends beyond the modelled time is not spoken of.
FreezeIsSettled ==
    \A b \in 1 .. MaxBookings :
        IsFrozen(b) /\ bookings[b].frozenAt + PaymentTimeout < MaxTime ~> ~IsFrozen(b)
=============================================================================
