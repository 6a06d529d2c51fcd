---------------------------- MODULE CourseProofs ----------------------------
(***************************************************************************)
(* The course of a booking: what one step of the booking service may do to *)
(* a booking and to its slots.  The action properties of Booking follow,   *)
(* and the services that work on the same bookings rest on it.  What a     *)
(* booking was made for never changes: a refrigerated slot is held only    *)
(* for cargo that may have it, and a key leads to the one booking made     *)
(* under it.                                                               *)
(***************************************************************************)
EXTENDS BookingProofs

\* Booking b is in e as it was in d, and so are its slots.
Stays(d, e, b) == e.bookings[b] = d.bookings[b] /\ Holding(e, b) = Holding(d, b)

\* Booking b waited in d, and has been promoted in e: its window opens now.
Promoted(d, e, b) ==
    /\ d.bookings[b].status = "waitlisted"
    /\ e.bookings[b] = [d.bookings[b] EXCEPT !.status = "frozen", !.frozenAt = now]

\* Those who left the waitlist of d are ahead of those who stay.
LeftInOrder(d, e) ==
    /\ e.waitlist \subseteq d.waitlist
    /\ \A a \in d.waitlist \ e.waitlist, b \in e.waitlist :
          /\ d.bookings[a].voyage = d.bookings[b].voyage
          /\ d.bookings[a].slotType = d.bookings[b].slotType
          => Ahead(d, a, b)

\* What promotions make of the data d.
Advances(d, e) ==
    /\ DOMAIN e.bookings = DOMAIN d.bookings
    /\ \A b \in DOMAIN d.bookings : Stays(d, e, b) \/ Promoted(d, e, b)
    /\ LeftInOrder(d, e)

-----------------------------------------------------------------------------
\* The helpers under the lock.

\* A promotion advances one booking at most, the best of its queue.
LEMMA PromoteAdvances ==
    ASSUME now \in 0 .. MaxTime, NEW n \in Nat, NEW d \in DataType(n), Sound(d),
           NEW v, NEW t
    PROVE  Advances(d, Promote(d, v, t))
<1> DEFINE ready == {b \in Best(d, v, t) : voyages[v] # "none" /\ Fits(d, b)}
           b == CHOOSE b \in ready : TRUE
           e == Promote(d, v, t)
<1>1. CASE ready = {}
  <2>1. e = d
    BY <1>1 DEF Promote
  <2> HIDE DEF e
  <2> QED
    BY <2>1 DEF Advances, Stays, LeftInOrder, e
<1>2. CASE ready # {}
  <2> DEFINE bk     == d.bookings[b]
             chosen == First(bk.qty, FreeSlots(d, bk.voyage, bk.slotType))
             newSlots == [s \in Slot |-> IF s \in chosen
                                           THEN [status |-> "frozen", holder |-> b]
                                           ELSE d.slots[s]]
             newBookings == [d.bookings EXCEPT ![b].status = "frozen", ![b].frozenAt = now]
  <2>1. e = [Freeze(d, b) EXCEPT !.waitlist = @ \ {b}]
    BY <1>2 DEF Promote
  <2>2. b \in ready
    BY <1>2
  <2>3. /\ b \in Best(d, v, t)
        /\ b \in d.waitlist
        /\ d.bookings[b].voyage = v
        /\ d.bookings[b].slotType = t
        /\ \A a \in d.waitlist \ {b} :
              d.bookings[a].voyage = v /\ d.bookings[a].slotType = t => Ahead(d, b, a)
    BY <2>2 DEF Best, Queue
  <2> HIDE DEF b, ready
  <2>4. b \in 1 .. n /\ d.bookings[b].status = "waitlisted" /\ DOMAIN d.bookings = 1 .. n
    BY <2>3 DEF Sound, Waitlisted, DataType
  <2>5. chosen \subseteq FreeSlots(d, bk.voyage, bk.slotType)
    BY FirstChooses
  <2>6. e.slots = newSlots /\ e.bookings = newBookings /\ e.waitlist = d.waitlist \ {b}
    BY <2>1 DEF Freeze, DataType
  <2> HIDE DEF e
  <2>7. \A s \in chosen : s \in Slot /\ d.slots[s].holder = NoBooking
    BY <2>5 DEF FreeSlots, Sound, SlotsMatch, SlotAgrees
  <2>8. \A x \in 1 .. n : x # b => Holding(e, x) = Holding(d, x)
    <3> SUFFICES ASSUME NEW x \in 1 .. n, x # b, NEW s \in Slot
                 PROVE  newSlots[s].holder = x <=> d.slots[s].holder = x
      BY <2>6 DEF Holding
    <3> HIDE DEF chosen
    <3> QED
      BY <2>7 DEF NoBooking
  <2>9. \A x \in 1 .. n : x # b => newBookings[x] = d.bookings[x]
    BY <2>4
  <2>10. newBookings[b] = [d.bookings[b] EXCEPT !.status = "frozen", !.frozenAt = now]
    BY <2>4
  <2>11. DOMAIN newBookings = 1 .. n
    BY <2>4
  <2> HIDE DEF newBookings, newSlots
  <2>12. \A x \in 1 .. n : Stays(d, e, x) \/ Promoted(d, e, x)
    BY <2>4, <2>6, <2>8, <2>9, <2>10 DEF Stays, Promoted
  <2>13. LeftInOrder(d, e)
    BY <2>3, <2>6 DEF LeftInOrder
  <2> QED
    BY <2>4, <2>6, <2>11, <2>12, <2>13 DEF Advances, e
<1> QED
  BY <1>1, <1>2

\* The order of promotion of two bookings is that of what they were made with.
LEMMA AheadStays ==
    ASSUME NEW d, NEW e, NEW a, NEW b,
           \A x \in {a, b} : e.bookings[x].cargo = d.bookings[x].cargo
                             /\ e.bookings[x].submitTime = d.bookings[x].submitTime
    PROVE  Ahead(d, a, b) <=> Ahead(e, a, b)
BY DEF Ahead, PriorityOf

\* To advance twice is to advance.
LEMMA AdvancesCompose ==
    ASSUME NEW n, NEW d \in DataType(n), NEW e \in DataType(n), NEW f,
           Advances(d, e), Advances(e, f)
    PROVE  Advances(d, f)
<1>1. DOMAIN d.bookings = 1 .. n /\ DOMAIN e.bookings = 1 .. n /\ DOMAIN f.bookings = 1 .. n
  BY DEF Advances, DataType
<1>2. ASSUME NEW x \in 1 .. n
      PROVE  /\ Stays(d, f, x) \/ Promoted(d, f, x)
             /\ e.bookings[x].cargo = d.bookings[x].cargo
             /\ e.bookings[x].voyage = d.bookings[x].voyage
             /\ e.bookings[x].slotType = d.bookings[x].slotType
             /\ e.bookings[x].submitTime = d.bookings[x].submitTime
  <2>1. Stays(d, e, x) \/ Promoted(d, e, x)
    BY <1>1 DEF Advances
  <2>2. Stays(e, f, x) \/ Promoted(e, f, x)
    BY <1>1 DEF Advances
  <2>3. d.bookings[x] \in BookingRecord /\ e.bookings[x] \in BookingRecord
    BY DEF DataType
  <2>4. Promoted(d, e, x) => e.bookings[x].status = "frozen"
    BY <2>3 DEF Promoted, BookingRecord
  <2> QED
    BY <2>1, <2>2, <2>3, <2>4 DEF Stays, Promoted, BookingRecord
<1>3. LeftInOrder(d, f)
  <2>1. e.waitlist \subseteq d.waitlist /\ f.waitlist \subseteq e.waitlist
    BY DEF Advances, LeftInOrder
  <2>2. ASSUME NEW a \in d.waitlist \ f.waitlist, NEW b \in f.waitlist,
               d.bookings[a].voyage = d.bookings[b].voyage,
               d.bookings[a].slotType = d.bookings[b].slotType
        PROVE  Ahead(d, a, b)
    <3>1. a \in 1 .. n /\ b \in 1 .. n
      BY <2>1 DEF DataType
    <3>2. CASE a \notin e.waitlist
      BY <2>1, <2>2, <3>2 DEF Advances, LeftInOrder
    <3>3. CASE a \in e.waitlist
      <4>1. Ahead(e, a, b)
        BY <1>2, <2>2, <3>1, <3>3 DEF Advances, LeftInOrder
      <4> QED
        BY <1>2, <3>1, <4>1, AheadStays
    <3> QED
      BY <3>2, <3>3
  <2> QED
    BY <2>1, <2>2 DEF LeftInOrder
<1> QED
  BY <1>1, <1>2, <1>3 DEF Advances

\* So do the promotions of a scheduler's pass.
LEMMA PromotionsAdvance ==
    ASSUME now \in 0 .. MaxTime, NEW n \in Nat, NEW d \in DataType(n), Sound(d),
           NEW order, Len(order) \in Nat
    PROVE  Advances(d, Promotions(d, order))
<1> DEFINE G == {e \in DataType(n) : Sound(e) /\ Advances(d, e)}
<1>1. ASSUME NEW e \in G, NEW v, NEW t PROVE Promote(e, v, t) \in G
  <2>1. Promote(e, v, t) \in DataType(n) /\ Sound(Promote(e, v, t))
    BY PromoteSound
  <2>2. Advances(e, Promote(e, v, t))
    BY PromoteAdvances
  <2>3. Advances(d, Promote(e, v, t))
    BY <2>2, AdvancesCompose
  <2> QED
    BY <2>1, <2>3
<1>2. d \in G
  BY DEF Advances, Stays, LeftInOrder
<1> HIDE DEF G
<1>3. Promotions(d, order) \in G
  BY <1>1, <1>2, PromotionsStay
<1> QED
  BY <1>3 DEF G

-----------------------------------------------------------------------------
\* Leaving, and what it lets others do.

\* The bookings in out leave with status st, and others advance.
Hands(d, e, out, st) ==
    /\ DOMAIN e.bookings = DOMAIN d.bookings
    /\ \A b \in out : e.bookings[b] = [d.bookings[b] EXCEPT !.status = st]
    /\ \A b \in DOMAIN d.bookings \ out : Stays(d, e, b) \/ Promoted(d, e, b)
    /\ LeftInOrder(d, e)

\* A release concerns the bookings that leave and their slots only.
LEMMA ReleaseOnly ==
    ASSUME NEW n \in Nat, NEW d \in DataType(n), NEW out \in SUBSET (1 .. n),
           NEW st, NEW which
    PROVE  LET e == Release(d, out, st, which)
           IN  /\ DOMAIN e.bookings = DOMAIN d.bookings
               /\ e.waitlist = d.waitlist
               /\ \A b \in out : e.bookings[b] = [d.bookings[b] EXCEPT !.status = st]
               /\ \A b \in DOMAIN d.bookings \ out : Stays(d, e, b)
<1> DEFINE e == Release(d, out, st, which)
           newSlots == [s \in Slot |->
                          IF d.slots[s].holder \in out /\ d.slots[s].status \in which
                            THEN FreeSlot ELSE d.slots[s]]
           newBookings == [b \in DOMAIN d.bookings |->
                             IF b \in out THEN [d.bookings[b] EXCEPT !.status = st]
                                          ELSE d.bookings[b]]
<1>1. e.slots = newSlots /\ e.bookings = newBookings /\ e.waitlist = d.waitlist
  BY DEF Release, DataType
<1>2. DOMAIN d.bookings = 1 .. n
  BY DEF DataType
<1>3. \A b \in 1 .. n : b \notin out => Holding(e, b) = Holding(d, b)
  <2> SUFFICES ASSUME NEW b \in 1 .. n, b \notin out, NEW s \in Slot
               PROVE  newSlots[s].holder = b <=> d.slots[s].holder = b
    BY <1>1 DEF Holding
  <2> QED
    BY DEF FreeSlot, NoBooking
<1> HIDE DEF e
<1> QED
  BY <1>1, <1>2, <1>3 DEF Stays, e

\* A release, and then promotions.
LEMMA HandsOver ==
    ASSUME NEW n \in Nat, NEW d \in DataType(n), NEW out \in SUBSET (1 .. n),
           NEW st, st # "waitlisted", NEW which,
           NEW f, Advances(Release(d, out, st, which), f)
    PROVE  Hands(d, f, out, st)
<1> DEFINE e == Release(d, out, st, which)
<1>1. /\ DOMAIN e.bookings = 1 .. n
      /\ DOMAIN d.bookings = 1 .. n
      /\ e.waitlist = d.waitlist
      /\ \A b \in out : e.bookings[b] = [d.bookings[b] EXCEPT !.status = st]
      /\ \A b \in (1 .. n) \ out : Stays(d, e, b)
  <2>1. DOMAIN d.bookings = 1 .. n
    BY DEF DataType
  <2>2. /\ DOMAIN e.bookings = DOMAIN d.bookings
        /\ e.waitlist = d.waitlist
        /\ \A b \in out : e.bookings[b] = [d.bookings[b] EXCEPT !.status = st]
        /\ \A b \in DOMAIN d.bookings \ out : Stays(d, e, b)
    BY ReleaseOnly
  <2> HIDE DEF e
  <2> QED
    BY <2>1, <2>2
<1>0. \A b \in 1 .. n : d.bookings[b] \in BookingRecord
  BY DEF DataType
<1> HIDE DEF e
<1>2. Advances(e, f)
  BY DEF e
<1>3. \A b \in out : f.bookings[b] = [d.bookings[b] EXCEPT !.status = st]
  <2> SUFFICES ASSUME NEW b \in out PROVE f.bookings[b] = e.bookings[b]
    BY <1>1
  <2>1. e.bookings[b].status = st
    BY <1>0, <1>1 DEF BookingRecord
  <2> QED
    BY <1>1, <1>2, <2>1 DEF Advances, Stays, Promoted
<1>4. \A b \in (1 .. n) \ out : Stays(d, f, b) \/ Promoted(d, f, b)
  BY <1>1, <1>2 DEF Advances, Stays, Promoted
<1>5. \A b \in 1 .. n : /\ e.bookings[b].cargo = d.bookings[b].cargo
                         /\ e.bookings[b].voyage = d.bookings[b].voyage
                         /\ e.bookings[b].slotType = d.bookings[b].slotType
                         /\ e.bookings[b].submitTime = d.bookings[b].submitTime
  <2> SUFFICES ASSUME NEW b \in 1 .. n
               PROVE  /\ e.bookings[b].cargo = d.bookings[b].cargo
                      /\ e.bookings[b].voyage = d.bookings[b].voyage
                      /\ e.bookings[b].slotType = d.bookings[b].slotType
                      /\ e.bookings[b].submitTime = d.bookings[b].submitTime
    OBVIOUS
  <2>1. CASE b \in out
    BY <1>0, <1>1, <2>1 DEF BookingRecord
  <2>2. CASE b \notin out
    BY <1>1, <2>2 DEF Stays
  <2> QED
    BY <2>1, <2>2
<1>6. LeftInOrder(d, f)
  <2>1. f.waitlist \subseteq d.waitlist /\ d.waitlist \subseteq 1 .. n
    BY <1>1, <1>2 DEF Advances, LeftInOrder, DataType
  <2>2. ASSUME NEW a \in d.waitlist \ f.waitlist, NEW b \in f.waitlist,
               d.bookings[a].voyage = d.bookings[b].voyage,
               d.bookings[a].slotType = d.bookings[b].slotType
        PROVE  Ahead(d, a, b)
    <3>1. Ahead(e, a, b)
      BY <1>1, <1>2, <1>5, <2>1, <2>2 DEF Advances, LeftInOrder
    <3> QED
      BY <1>5, <2>1, <3>1, AheadStays
  <2> QED
    BY <2>1, <2>2 DEF LeftInOrder
<1> QED
  BY <1>1, <1>2, <1>3, <1>4, <1>6 DEF Hands, Advances

-----------------------------------------------------------------------------
\* The steps that make bookings leave.

LEMMA DataNext == ASSUME NEW n, NEW d \in DataType(n), Commit(d) PROVE Data' = d
BY DEF Commit, Data, DataType

LEMMA PayLateHands ==
    ASSUME IInv, NEW b, PayLate(b)
    PROVE  /\ b \in DOMAIN bookings /\ Expired(bookings[b])
           /\ Hands(Data, Data', {b}, "released")
<1> DEFINE d == ReleaseFrozen(Data, {b})
           e == Promote(d, bookings[b].voyage, bookings[b].slotType)
<1>1. /\ Data \in DataType(counter) /\ Sound(Data) /\ counter \in Nat
      /\ now \in 0 .. MaxTime /\ DOMAIN bookings = 1 .. counter
  BY DataIsSound DEF IInv, TypeOK
<1>2. {b} \in SUBSET DOMAIN bookings /\ Expired(bookings[b]) /\ bookings[b].status = "frozen"
  BY DEF PayLate, Known, Expired
<1>3. d \in DataType(counter) /\ Sound(d)
  BY <1>2, ReleaseFrozenSound
<1>4. e \in DataType(counter) /\ Advances(d, e)
  <2> HIDE DEF d
  <2> QED
    BY <1>1, <1>3, PromoteSound, PromoteAdvances
<1>5. Hands(Data, e, {b}, "released")
  <2> HIDE DEF e
  <2> QED
    BY <1>1, <1>2, <1>4, HandsOver DEF ReleaseFrozen
<1>6. Data' = e
  <2>1. Commit(e)
    BY DEF PayLate
  <2> HIDE DEF e
  <2> QED
    BY <1>4, <2>1, DataNext
<1> QED
  BY <1>2, <1>5, <1>6

LEMMA CancelHands ==
    ASSUME IInv, NEW b, Cancel(b)
    PROVE  /\ b \in DOMAIN bookings
           /\ bookings[b].status \in {"frozen", "confirmed", "manifested"}
           /\ Hands(Data, Data', {b}, "cancelled")
<1> DEFINE d == Release(Data, {b}, "cancelled", SlotStatus)
           e == Promote(d, bookings[b].voyage, bookings[b].slotType)
<1>1. /\ Data \in DataType(counter) /\ Sound(Data) /\ counter \in Nat
      /\ now \in 0 .. MaxTime /\ DOMAIN bookings = 1 .. counter
  BY DataIsSound DEF IInv, TypeOK
<1>2. /\ b \in DOMAIN bookings /\ {b} \in SUBSET (1 .. counter)
      /\ bookings[b].status \in {"frozen", "confirmed", "manifested"}
  BY <1>1 DEF Cancel, Known
<1>3. d \in DataType(counter) /\ Sound(d)
  <2>1. \A s \in Slot : Data.slots[s].status \in SlotStatus
    BY <1>1 DEF DataType
  <2>2. \A x \in {b} : Data.bookings[x].status # "waitlisted"
    BY <1>2 DEF Data
  <2> QED
    BY <1>1, <1>2, <2>1, <2>2, ReleaseSound
<1>4. e \in DataType(counter) /\ Advances(d, e)
  <2> HIDE DEF d
  <2> QED
    BY <1>1, <1>3, PromoteSound, PromoteAdvances
<1>5. Hands(Data, e, {b}, "cancelled")
  <2> HIDE DEF e
  <2> QED
    BY <1>1, <1>2, <1>4, HandsOver
<1>6. Data' = e
  <2>1. Commit(e)
    BY DEF Cancel
  <2> HIDE DEF e
  <2> QED
    BY <1>4, <2>1, DataNext
<1> QED
  BY <1>2, <1>5, <1>6

LEMMA ReconcileHands ==
    ASSUME IInv, ReconcileExpired
    PROVE  /\ Overdue \in SUBSET DOMAIN bookings
           /\ \A b \in Overdue : Expired(bookings[b])
           /\ Hands(Data, Data', Overdue, "released")
<1> DEFINE d == ReleaseFrozen(Data, Overdue)
<1>1. /\ Data \in DataType(counter) /\ Sound(Data) /\ counter \in Nat
      /\ now \in 0 .. MaxTime /\ DOMAIN bookings = 1 .. counter
  BY DataIsSound DEF IInv, TypeOK
<1>2. /\ Overdue \in SUBSET DOMAIN bookings
      /\ \A b \in Overdue : Expired(bookings[b]) /\ bookings[b].status = "frozen"
  BY DEF Overdue, Expired
<1>3. d \in DataType(counter) /\ Sound(d)
  BY <1>2, ReleaseFrozenSound
<1>4. PICK order \in SetToSeqs(Overdue) : Commit(Promotions(d, order))
  BY DEF ReconcileExpired
<1> DEFINE e == Promotions(d, order)
<1>5. e \in DataType(counter) /\ Advances(d, e)
  <2>1. Len(order) \in Nat
    BY <1>1, OrderHasLength
  <2> HIDE DEF d
  <2> QED
    BY <1>1, <1>3, <2>1, PromotionsSound, PromotionsAdvance
<1>6. Hands(Data, e, Overdue, "released")
  <2> HIDE DEF e
  <2> QED
    BY <1>1, <1>2, <1>5, HandsOver DEF ReleaseFrozen
<1>7. Data' = e
  <2>1. Commit(e)
    BY <1>4
  <2> HIDE DEF e
  <2> QED
    BY <1>5, <2>1, DataNext
<1> QED
  BY <1>2, <1>6, <1>7

LEMMA PromoteWaitlistAdvances ==
    ASSUME IInv, NEW v, NEW t, PromoteWaitlist(v, t)
    PROVE  Advances(Data, Data')
<1>1. /\ Data \in DataType(counter) /\ Sound(Data) /\ counter \in Nat
      /\ now \in 0 .. MaxTime
  BY DataIsSound DEF IInv, TypeOK
<1>2. Promote(Data, v, t) \in DataType(counter) /\ Advances(Data, Promote(Data, v, t))
  BY <1>1, PromoteSound, PromoteAdvances
<1> QED
  BY <1>2, DataNext DEF PromoteWaitlist

-----------------------------------------------------------------------------
\* One step of the service, as a booking sees it.

Pays(b) ==
    /\ bookings[b].status = "frozen"
    /\ ~Expired(bookings[b])
    /\ bookings'[b] = [bookings[b] EXCEPT !.status = "confirmed"]
    /\ Holding(Data, b)' = Holding(Data, b)

Leaves(b) ==
    \/ /\ Expired(bookings[b])
       /\ bookings'[b] = [bookings[b] EXCEPT !.status = "released"]
    \/ /\ bookings[b].status \in {"frozen", "confirmed", "manifested"}
       /\ bookings'[b] = [bookings[b] EXCEPT !.status = "cancelled"]

\* Bookings are never forgotten; each stays as it is, is promoted, pays or leaves.
Courses ==
    \A b \in DOMAIN bookings :
        /\ b \in DOMAIN bookings'
        /\ Stays(Data, Data', b) \/ Promoted(Data, Data', b) \/ Pays(b) \/ Leaves(b)

\* A new booking is frozen or waits.
Entrances ==
    \A b \in DOMAIN bookings' : b \notin DOMAIN bookings =>
        bookings'[b].status \in {"frozen", "waitlisted"}

LeaveInOrder ==
    \A a \in waitlist \ waitlist', b \in waitlist \cap waitlist' :
        /\ bookings[a].voyage = bookings[b].voyage
        /\ bookings[a].slotType = bookings[b].slotType
        => Ahead(Data, a, b)

Course == Courses /\ Entrances /\ LeaveInOrder

LEMMA HandsCourse ==
    ASSUME NEW out, NEW st, Hands(Data, Data', out, st),
           \A b \in out : \/ st = "released" /\ Expired(bookings[b])
                          \/ /\ st = "cancelled"
                             /\ bookings[b].status \in {"frozen", "confirmed", "manifested"}
    PROVE  Course
<1>1. /\ DOMAIN bookings' = DOMAIN bookings
      /\ \A b \in out : bookings'[b] = [bookings[b] EXCEPT !.status = st]
      /\ \A b \in DOMAIN bookings \ out : Stays(Data, Data', b) \/ Promoted(Data, Data', b)
  BY DEF Hands, Data
<1>2. LeaveInOrder
  BY DEF Hands, LeftInOrder, LeaveInOrder, Data
<1>3. Courses
  BY <1>1 DEF Courses, Leaves
<1>4. Entrances
  BY <1>1 DEF Entrances
<1> QED
  BY <1>2, <1>3, <1>4 DEF Course

\* A new booking takes slots that nobody holds.
LEMMA CreateBookingCourse ==
    ASSUME IInv, NEW r \in Request, CreateBooking(r)
    PROVE  Course
<1> DEFINE b == counter + 1
           new(st) == [cargo |-> r.cargo, voyage |-> r.voyage,
                       slotType |-> r.slotType, qty |-> r.qty, key |-> r.key,
                       status |-> st, submitTime |-> now, frozenAt |-> 0]
           made(st) == [x \in 1 .. b |-> IF x = b THEN new(st) ELSE bookings[x]]
<1>1. /\ counter \in Nat /\ bookings \in [1 .. counter -> BookingRecord]
      /\ DOMAIN bookings = 1 .. counter /\ SlotsMatch(Data)
  BY DataIsSound DEF IInv, TypeOK, SlotsMatchHolders
<1>2. \A st : /\ Enter(b, r, st).bookings = made(st)
              /\ Enter(b, r, st).slots = slots
              /\ Enter(b, r, st).waitlist = waitlist
  BY DEF Enter, Data
<1>3. \A x \in 1 .. b : x \in 1 .. counter \/ x = b
  BY <1>1
<1>4. \A x \in 1 .. counter : x # b /\ x \in 1 .. b
  BY <1>1
<1>5. ASSUME Commit(Freeze(Enter(b, r, "pending"), b)) PROVE Course
  <2> DEFINE d      == Enter(b, r, "pending")
             bk     == d.bookings[b]
             chosen == First(bk.qty, FreeSlots(d, bk.voyage, bk.slotType))
             g      == made("pending")
             f      == [g EXCEPT ![b].status = "frozen", ![b].frozenAt = now]
  <2>1. /\ slots' = [s \in Slot |-> IF s \in chosen
                                       THEN [status |-> "frozen", holder |-> b]
                                       ELSE d.slots[s]]
        /\ bookings' = [d.bookings EXCEPT ![b].status = "frozen", ![b].frozenAt = now]
        /\ waitlist' = d.waitlist
    BY <1>5 DEF Commit, Freeze, Enter, Data
  <2>2. d.slots = slots /\ d.bookings = g /\ d.waitlist = waitlist
    BY <1>2
  <2>3. \A s \in chosen : slots[s].holder = NoBooking
    <3>1. chosen \subseteq FreeSlots(d, bk.voyage, bk.slotType)
      BY FirstChooses
    <3>2. \A s \in chosen : s \in Slot /\ slots[s].status = "free"
      BY <2>2, <3>1 DEF FreeSlots
    <3> HIDE DEF chosen
    <3> QED
      BY <1>1, <3>2 DEF SlotsMatch, SlotAgrees, Data
  <2>4. DOMAIN f = 1 .. b /\ \A x \in 1 .. counter : f[x] = bookings[x]
    BY <1>4
  <2>5. f[b].status = "frozen"
    BY <1>1
  <2>6. bookings' = f
    BY <2>1, <2>2
  <2> HIDE DEF f, g, d, bk, chosen
  <2>7. \A x \in 1 .. counter : Holding(Data', x) = Holding(Data, x)
    <3> SUFFICES ASSUME NEW x \in 1 .. counter, NEW s \in Slot
                 PROVE  slots'[s].holder = x <=> slots[s].holder = x
      BY DEF Holding, Data
    <3> QED
      BY <1>4, <2>1, <2>2, <2>3 DEF NoBooking
  <2>8. Courses
    <3>1. \A x \in 1 .. counter : Stays(Data, Data', x)
      BY <2>4, <2>6, <2>7 DEF Stays, Data
    <3> QED
      BY <1>1, <1>4, <2>4, <2>6, <3>1 DEF Courses
  <2>9. Entrances
    BY <1>1, <1>3, <2>4, <2>5, <2>6 DEF Entrances
  <2>10. LeaveInOrder
    BY <2>1, <2>2 DEF LeaveInOrder
  <2> QED
    BY <2>8, <2>9, <2>10 DEF Course
<1>6. ASSUME Commit([Enter(b, r, "waitlisted") EXCEPT !.waitlist = @ \cup {b}]) PROVE Course
  <2>1. slots' = slots /\ bookings' = made("waitlisted") /\ waitlist' = waitlist \cup {b}
    BY <1>2, <1>6 DEF Commit, Enter, Data
  <2>2. /\ DOMAIN made("waitlisted") = 1 .. b
        /\ \A x \in 1 .. counter : made("waitlisted")[x] = bookings[x]
        /\ made("waitlisted")[b].status = "waitlisted"
    BY <1>1, <1>4
  <2> HIDE DEF made
  <2>3. Courses
    <3>1. \A x \in 1 .. counter : Stays(Data, Data', x)
      BY <2>1, <2>2 DEF Stays, Holding, Data
    <3> QED
      BY <1>1, <1>4, <2>1, <2>2, <3>1 DEF Courses
  <2>4. Entrances
    BY <1>1, <1>3, <2>1, <2>2 DEF Entrances
  <2>5. LeaveInOrder
    BY <2>1 DEF LeaveInOrder
  <2> QED
    BY <2>3, <2>4, <2>5 DEF Course
<1> QED
  BY <1>5, <1>6 DEF CreateBooking

LEMMA PayInTimeCourse ==
    ASSUME IInv, NEW b, PayInTime(b)
    PROVE  Course
<1>1. /\ b \in DOMAIN bookings /\ bookings[b].status = "frozen" /\ ~Expired(bookings[b])
      /\ slots' = [s \in Slot |-> IF slots[s].holder = b /\ slots[s].status = "frozen"
                                     THEN [slots[s] EXCEPT !.status = "allocated"]
                                     ELSE slots[s]]
      /\ bookings' = [bookings EXCEPT ![b].status = "confirmed"]
      /\ waitlist' = waitlist
  BY DEF PayInTime, Known
<1>2. \A s \in Slot : slots'[s].holder = slots[s].holder
  BY <1>1 DEF IInv, TypeOK
<1>3. \A x \in DOMAIN bookings : Holding(Data', x) = Holding(Data, x)
  BY <1>2 DEF Holding, Data
<1>4. Courses
  <2>1. \A x \in DOMAIN bookings : x # b => Stays(Data, Data', x)
    BY <1>1, <1>3 DEF Stays, Data
  <2>2. Pays(b)
    <3>1. Holding(Data, b)' = Holding(Data, b)
      BY <1>1, <1>2 DEF Holding, Data
    <3> QED
      BY <1>1, <3>1 DEF Pays
  <2> QED
    BY <1>1, <2>1, <2>2 DEF Courses
<1>5. Entrances
  BY <1>1 DEF Entrances
<1>6. LeaveInOrder
  BY <1>1 DEF LeaveInOrder
<1> QED
  BY <1>4, <1>5, <1>6 DEF Course

LEMMA StepCourse == IInv /\ [Next]_vars => Course
<1> SUFFICES ASSUME IInv, [Next]_vars PROVE Course
  OBVIOUS
<1>1. ASSUME UNCHANGED <<slots, bookings, waitlist>> PROVE Course
  BY <1>1 DEF Course, Courses, Stays, Holding, Data, Entrances, LeaveInOrder
<1>2. CASE Tick \/ UNCHANGED vars
  BY <1>1, <1>2 DEF Tick, vars
<1>3. ASSUME NEW c \in CargoId, CreateCargo(c) \/ ConfirmTemp(c) PROVE Course
  BY <1>1, <1>3 DEF CreateCargo, ConfirmTemp
<1>4. ASSUME NEW v \in Voyage, CreateVoyage(v) PROVE Course
  BY <1>1, <1>4 DEF CreateVoyage
<1>5. ASSUME NEW r \in Request, CreateBooking(r) PROVE Course
  BY <1>5, CreateBookingCourse
<1>6. ASSUME NEW b \in 1 .. MaxBookings, PayInTime(b) PROVE Course
  BY <1>6, PayInTimeCourse
<1>7. ASSUME NEW b \in 1 .. MaxBookings, PayLate(b) PROVE Course
  <2>1. Hands(Data, Data', {b}, "released") /\ Expired(bookings[b])
    BY <1>7, PayLateHands
  <2> QED
    BY <2>1, HandsCourse
<1>8. ASSUME NEW b \in 1 .. MaxBookings, Cancel(b) PROVE Course
  <2>1. /\ Hands(Data, Data', {b}, "cancelled")
        /\ bookings[b].status \in {"frozen", "confirmed", "manifested"}
    BY <1>8, CancelHands
  <2> QED
    BY <2>1, HandsCourse
<1>9. ASSUME NEW v \in Voyage, NEW t \in SlotType, PromoteWaitlist(v, t) PROVE Course
  <2>1. Advances(Data, Data')
    BY <1>9, PromoteWaitlistAdvances
  <2>2. Hands(Data, Data', {}, "released")
    BY <2>1 DEF Advances, Hands
  <2> QED
    BY <2>2, HandsCourse
<1>10. CASE ReconcileExpired
  BY <1>10, ReconcileHands, HandsCourse
<1> QED
  BY <1>2, <1>3, <1>4, <1>5, <1>6, <1>7, <1>8, <1>9, <1>10 DEF Next, ServiceCall

\* What this says of the statuses alone.
LEMMA StatusCourse ==
    ASSUME IInv, [Next]_vars, NEW b \in DOMAIN bookings
    PROVE  /\ b \in DOMAIN bookings'
           /\ \/ bookings'[b].status = bookings[b].status
              \/ bookings[b].status = "waitlisted" /\ bookings'[b].status = "frozen"
              \/ /\ bookings[b].status = "frozen"
                 /\ bookings'[b].status \in {"confirmed", "released", "cancelled"}
              \/ /\ bookings[b].status \in {"confirmed", "manifested"}
                 /\ bookings'[b].status = "cancelled"
<1>1. /\ b \in DOMAIN bookings'
      /\ Stays(Data, Data', b) \/ Promoted(Data, Data', b) \/ Pays(b) \/ Leaves(b)
  BY StepCourse DEF Course, Courses
<1>2. bookings[b] \in BookingRecord
  BY DataIsSound DEF IInv, TypeOK
<1>3. CASE Stays(Data, Data', b)
  BY <1>1, <1>3 DEF Stays, Data
<1>4. CASE Promoted(Data, Data', b)
  BY <1>1, <1>2, <1>4 DEF Promoted, Data, BookingRecord
<1>5. CASE Pays(b)
  BY <1>1, <1>2, <1>5 DEF Pays, BookingRecord
<1>6. CASE Leaves(b)
  BY <1>1, <1>2, <1>6 DEF Leaves, Expired, BookingRecord
<1> QED
  BY <1>1, <1>3, <1>4, <1>5, <1>6

\* What was asked for with booking b does not change.
SameRequest(b) ==
    /\ bookings'[b].cargo = bookings[b].cargo
    /\ bookings'[b].voyage = bookings[b].voyage
    /\ bookings'[b].slotType = bookings[b].slotType
    /\ bookings'[b].qty = bookings[b].qty
    /\ bookings'[b].key = bookings[b].key
    /\ bookings'[b].submitTime = bookings[b].submitTime

RequestsKept == \A b \in DOMAIN bookings : b \in DOMAIN bookings' /\ SameRequest(b)

LEMMA StepKeepsRequests == IInv /\ [Next]_vars => RequestsKept
<1> SUFFICES ASSUME IInv, [Next]_vars, NEW b \in DOMAIN bookings
             PROVE  b \in DOMAIN bookings' /\ SameRequest(b)
  BY DEF RequestsKept
<1>1. /\ b \in DOMAIN bookings'
      /\ Stays(Data, Data', b) \/ Promoted(Data, Data', b) \/ Pays(b) \/ Leaves(b)
  BY StepCourse DEF Course, Courses
<1>2. bookings[b] \in BookingRecord
  BY DataIsSound DEF IInv, TypeOK
<1>3. CASE Stays(Data, Data', b)
  BY <1>1, <1>3 DEF Stays, Data, SameRequest
<1>4. CASE Promoted(Data, Data', b)
  BY <1>1, <1>2, <1>4 DEF Promoted, Data, BookingRecord, SameRequest
<1>5. CASE Pays(b)
  BY <1>1, <1>2, <1>5 DEF Pays, BookingRecord, SameRequest
<1>6. CASE Leaves(b)
  BY <1>1, <1>2, <1>6 DEF Leaves, Expired, BookingRecord, SameRequest
<1> QED
  BY <1>1, <1>3, <1>4, <1>5, <1>6

-----------------------------------------------------------------------------
\* The theorems.

PaidKeep ==
    \A b \in DOMAIN bookings :
        bookings[b].status \in Paid =>
            \/ bookings'[b].status = "cancelled"
            \/ bookings'[b].status \in Paid /\ Holding(Data, b) = Holding(Data, b)'

LEMMA StepKeepsPaid == IInv /\ [Next]_vars => PaidKeep
<1> SUFFICES ASSUME IInv, [Next]_vars, NEW b \in DOMAIN bookings, bookings[b].status \in Paid
             PROVE  \/ bookings'[b].status = "cancelled"
                    \/ /\ bookings'[b].status \in Paid
                       /\ Holding(Data, b) = Holding(Data, b)'
  BY DEF PaidKeep
<1>1. Stays(Data, Data', b) \/ Promoted(Data, Data', b) \/ Pays(b) \/ Leaves(b)
  BY StepCourse DEF Course, Courses
<1>2. bookings[b] \in BookingRecord
  BY DataIsSound DEF IInv, TypeOK
<1>3. CASE Stays(Data, Data', b)
  BY <1>3 DEF Stays, Holding, Data
<1>4. CASE Leaves(b)
  BY <1>2, <1>4 DEF Leaves, Expired, Paid, BookingRecord
<1> QED
  BY <1>1, <1>3, <1>4 DEF Promoted, Pays, Paid, Data

\* Until it is cancelled, a booking that has paid keeps the very slots it paid for,
\* whatever the scheduler's passes and the promotions of others do.
THEOREM PaidAlwaysKeepsItsSlots == Spec => PaidKeepsItsSlots
<1>1. IInv /\ [Next]_vars => PaidKeep
  BY StepKeepsPaid
<1>2. Spec => [][PaidKeep]_vars
  BY <1>1, InductiveInvariant, PTL DEF Spec
<1> QED
  BY <1>2 DEF PaidKeepsItsSlots, PaidKeep

\* Nobody on the waitlist is overtaken by one who is behind.
THEOREM PromotionAlwaysByPriority == Spec => PromotionByPriority
<1>1. IInv /\ [Next]_vars => LeaveInOrder
  BY StepCourse DEF Course
<1>2. Spec => [][LeaveInOrder]_vars
  BY <1>1, InductiveInvariant, PTL DEF Spec
<1> QED
  BY <1>2 DEF PromotionByPriority, LeaveInOrder

\* Releasing the overdue freezes promotes at once, and promotions freeze now.
LEMMA ReconcileSettles == IInv /\ ReconcileExpired => Overdue' = {}
<1> SUFFICES ASSUME IInv, ReconcileExpired, NEW b \in DOMAIN bookings', Expired(bookings[b])'
             PROVE  FALSE
  BY DEF Overdue
<1>1. /\ Hands(Data, Data', Overdue, "released") /\ now' = now
      /\ bookings \in [DOMAIN bookings -> BookingRecord]
      /\ now \in Nat
  BY ReconcileHands, DataIsSound, TimeAssumption DEF ReconcileExpired, IInv, TypeOK
<1>2. /\ b \in DOMAIN bookings
      /\ b \in Overdue => bookings'[b].status = "released"
      /\ b \notin Overdue => Stays(Data, Data', b) \/ Promoted(Data, Data', b)
  BY <1>1 DEF Hands, Data, BookingRecord
<1>3. bookings'[b].status = "frozen" /\ now - bookings'[b].frozenAt > PaymentTimeout
  BY <1>1 DEF Expired
<1>4. b \notin Overdue
  BY <1>2, <1>3
<1>5. CASE bookings'[b] = bookings[b]
  BY <1>2, <1>3, <1>4, <1>5 DEF Overdue, Expired
<1>6. CASE Promoted(Data, Data', b)
  <2>1. bookings'[b] = [bookings[b] EXCEPT !.status = "frozen", !.frozenAt = now]
    BY <1>6 DEF Promoted, Data
  <2>2. bookings[b] \in BookingRecord
    BY <1>1, <1>2
  <2>3. bookings'[b].frozenAt = now
    BY <2>1, <2>2 DEF BookingRecord
  <2> QED
    BY <1>1, <1>3, <2>3, TimeAssumption
<1> QED
  BY <1>2, <1>4, <1>5, <1>6 DEF Stays, Data

\* A pass of the scheduler leaves no freeze overdue, not even one of its own making.
THEOREM ReconcileAlwaysSettles == Spec => ReconcileLeavesNoneOverdue
<1>1. IInv => (ReconcileExpired => Overdue' = {})
  BY ReconcileSettles
<1>2. Spec => [][ReconcileExpired => Overdue' = {}]_vars
  BY <1>1, InductiveInvariant, PTL DEF Spec
<1> QED
  BY <1>2 DEF ReconcileLeavesNoneOverdue

-----------------------------------------------------------------------------
\* What a booking was made for, and what its cargo was checked for then.

\* Once confirmed, the temperature control of a cargo stays confirmed.
LEMMA ConfirmationStays ==
    ASSUME IInv, [Next]_vars, NEW c \in CargoId, cargo[c] = "confirmed"
    PROVE  cargo'[c] = "confirmed"
<1>1. cargo \in [CargoId -> {"absent", "registered", "confirmed"}]
  BY DEF IInv, TypeOK
<1>2. CASE UNCHANGED cargo
  BY <1>2
<1>3. ASSUME NEW x \in CargoId, CreateCargo(x) \/ ConfirmTemp(x) PROVE cargo'[c] = "confirmed"
  BY <1>1, <1>3 DEF CreateCargo, ConfirmTemp
<1> QED
  BY <1>2, <1>3 DEF Next, ServiceCall, vars, Tick, CreateVoyage, CreateBooking, PayInTime, PayLate,
                    Cancel, PromoteWaitlist, ReconcileExpired

-----------------------------------------------------------------------------
\* Every booking for refrigerated slots, waiting or not, is for new-energy cargo
\* whose temperature control is confirmed.
BookedEligibly ==
    \A b \in DOMAIN bookings :
        bookings[b].slotType = "refrigerated" =>
            /\ cargo[bookings[b].cargo] = "confirmed"
            /\ IsNewEnergy(CargoOf[bookings[b].cargo])

\* The inductive invariant: the slots agree with their holders, and what holders
\* were made for was checked when they were made.
JInv == IInv /\ BookedEligibly /\ OneBookingPerKey

\* The bookings after a new one.
LEMMA NewBooking ==
    ASSUME IInv, NEW r \in Request, CreateBooking(r)
    PROVE  LET b == counter + 1
           IN  /\ DOMAIN bookings' = 1 .. b
               /\ \A x \in 1 .. counter : /\ bookings'[x].cargo = bookings[x].cargo
                                          /\ bookings'[x].slotType = bookings[x].slotType
                                          /\ bookings'[x].key = bookings[x].key
               /\ bookings'[b].cargo = r.cargo
               /\ bookings'[b].voyage = r.voyage
               /\ bookings'[b].slotType = r.slotType
               /\ bookings'[b].qty = r.qty
               /\ bookings'[b].key = r.key
<1> DEFINE b == counter + 1
           new(st) == [cargo |-> r.cargo, voyage |-> r.voyage,
                       slotType |-> r.slotType, qty |-> r.qty, key |-> r.key,
                       status |-> st, submitTime |-> now, frozenAt |-> 0]
           made(st) == [x \in 1 .. b |-> IF x = b THEN new(st) ELSE bookings[x]]
           Same(g) == /\ DOMAIN g = 1 .. b
                      /\ \A x \in 1 .. counter : /\ g[x].cargo = bookings[x].cargo
                                                 /\ g[x].slotType = bookings[x].slotType
                                                 /\ g[x].key = bookings[x].key
                      /\ g[b].cargo = r.cargo /\ g[b].voyage = r.voyage
                      /\ g[b].slotType = r.slotType /\ g[b].qty = r.qty
                      /\ g[b].key = r.key
<1>1. counter \in Nat /\ bookings \in [1 .. counter -> BookingRecord]
  BY DataIsSound DEF IInv, TypeOK
<1>2. \A st : Same(made(st)) /\ Enter(b, r, st).bookings = made(st)
  BY <1>1 DEF Enter, Data
<1>3. CASE Commit(Freeze(Enter(b, r, "pending"), b))
  <2> DEFINE g == made("pending")
             f == [g EXCEPT ![b].status = "frozen", ![b].frozenAt = now]
  <2>1. bookings' = f
    BY <1>2, <1>3 DEF Commit, Freeze, Enter, Data
  <2>2. \A x \in 1 .. b : /\ f[x].cargo = g[x].cargo
                          /\ f[x].voyage = g[x].voyage
                          /\ f[x].slotType = g[x].slotType
                          /\ f[x].qty = g[x].qty
                          /\ f[x].key = g[x].key
    BY <1>1 DEF BookingRecord
  <2>3. DOMAIN f = 1 .. b
    OBVIOUS
  <2>4. \A x \in 1 .. counter : x \in 1 .. b
    BY <1>1
  <2>5. b \in 1 .. b /\ Same(g)
    BY <1>1, <1>2
  <2> HIDE DEF f, g, b
  <2> QED
    BY <2>1, <2>2, <2>3, <2>4, <2>5 DEF b
<1>4. CASE Commit([Enter(b, r, "waitlisted") EXCEPT !.waitlist = @ \cup {b}])
  <2>1. bookings' = made("waitlisted")
    BY <1>4 DEF Commit, Enter, Data
  <2>2. Same(made("waitlisted"))
    BY <1>2
  <2> HIDE DEF made
  <2> QED
    BY <2>1, <2>2
<1> QED
  BY <1>3, <1>4 DEF CreateBooking

\* Every step keeps both.
LEMMA NextIdentity == JInv /\ [Next]_vars => JInv'
<1> SUFFICES ASSUME JInv, [Next]_vars PROVE JInv'
  OBVIOUS
<1>1. IInv /\ IInv'
  BY NextInvariant DEF JInv
<1>2. /\ counter \in Nat /\ DOMAIN bookings = 1 .. counter
      /\ bookings \in [1 .. counter -> BookingRecord]
  BY <1>1, DataIsSound DEF IInv, TypeOK
<1>3. ASSUME NEW x \in 1 .. counter, bookings[x].slotType = "refrigerated"
      PROVE  cargo'[bookings[x].cargo] = "confirmed" /\ IsNewEnergy(CargoOf[bookings[x].cargo])
  <2>1. bookings[x].cargo \in CargoId
    BY <1>2 DEF BookingRecord
  <2> QED
    BY <1>1, <1>2, <1>3, <2>1, ConfirmationStays DEF JInv, BookedEligibly
<1>4. ASSUME NEW r \in Request, CreateBooking(r)
      PROVE  BookedEligibly' /\ OneBookingPerKey'
  <2> DEFINE b == counter + 1
  <2>1. /\ DOMAIN bookings' = 1 .. b
        /\ \A x \in 1 .. counter : /\ bookings'[x].cargo = bookings[x].cargo
                                   /\ bookings'[x].slotType = bookings[x].slotType
                                   /\ bookings'[x].key = bookings[x].key
        /\ bookings'[b].cargo = r.cargo
        /\ bookings'[b].slotType = r.slotType
        /\ bookings'[b].key = r.key
    BY <1>1, <1>4, NewBooking
  <2>2. \A x \in 1 .. b : x = b \/ x \in 1 .. counter
    BY <1>2
  <2>3. /\ idempotency' = [k \in Key |-> IF k = r.key THEN b ELSE idempotency[k]]
        /\ Admissible(r) /\ cargo' = cargo /\ r.key \in Key \cup {NoKey}
    BY <1>4, RequestAssumption DEF CreateBooking, BookingRequest
  <2>4. r.slotType = "refrigerated" => cargo[r.cargo] = "confirmed" /\ IsNewEnergy(CargoOf[r.cargo])
    BY <2>3 DEF Admissible, EligibleForSlot
  <2>5. BookedEligibly'
    <3> SUFFICES ASSUME NEW x \in 1 .. b, bookings'[x].slotType = "refrigerated"
                 PROVE  /\ cargo'[bookings'[x].cargo] = "confirmed"
                        /\ IsNewEnergy(CargoOf[bookings'[x].cargo])
      BY <2>1 DEF BookedEligibly
    <3>1. CASE x = b
      BY <3>1, <2>1, <2>3, <2>4
    <3>2. CASE x \in 1 .. counter
      BY <3>2, <2>1, <1>3
    <3> QED
      BY <3>1, <3>2, <2>2
  <2>6. OneBookingPerKey'
    <3> SUFFICES ASSUME NEW x \in 1 .. b, bookings'[x].key # NoKey
                 PROVE  idempotency'[bookings'[x].key] = x
      BY <2>1 DEF OneBookingPerKey
    <3>1. CASE x = b
      BY <3>1, <2>1, <2>3
    <3>2. CASE x \in 1 .. counter
      <4> DEFINE k == bookings[x].key
      <4>1. bookings'[x].key = k /\ k \in Key
        BY <3>2, <2>1, <1>2 DEF BookingRecord
      <4>2. idempotency[k] = x
        BY <3>2, <4>1, <1>2 DEF JInv, OneBookingPerKey
      <4>3. k # r.key
        BY <3>2, <4>1, <4>2, <2>3 DEF Admissible, NoBooking
      <4> QED
        BY <4>1, <4>2, <4>3, <2>3
    <3> QED
      BY <3>1, <3>2, <2>2
  <2> QED
    BY <2>5, <2>6
<1>5. ASSUME UNCHANGED <<counter, idempotency>>
      PROVE  BookedEligibly' /\ OneBookingPerKey'
  <2>1. /\ DOMAIN bookings' = 1 .. counter
        /\ \A x \in 1 .. counter : /\ bookings'[x].cargo = bookings[x].cargo
                                   /\ bookings'[x].slotType = bookings[x].slotType
                                   /\ bookings'[x].key = bookings[x].key
    <3>1. DOMAIN bookings' = 1 .. counter
      BY <1>1, <1>5 DEF IInv, TypeOK
    <3>2. RequestsKept
      BY <1>1, StepKeepsRequests
    <3> QED
      BY <1>2, <3>1, <3>2 DEF RequestsKept, SameRequest
  <2>2. BookedEligibly'
    BY <1>3, <2>1 DEF BookedEligibly
  <2>3. OneBookingPerKey'
    BY <1>2, <1>5, <2>1 DEF JInv, OneBookingPerKey
  <2> QED
    BY <2>2, <2>3
<1>6. UNCHANGED <<counter, idempotency>> \/ \E r \in Request : CreateBooking(r)
  BY DEF Next, ServiceCall, vars, Tick, CreateCargo, ConfirmTemp, CreateVoyage, PayInTime,
         PayLate, Cancel, PromoteWaitlist, ReconcileExpired
<1> QED
  BY <1>1, <1>4, <1>5, <1>6 DEF JInv

\* At the start nothing is booked.
LEMMA IdentityInit == Init => JInv
<1>1. Init => BookedEligibly /\ OneBookingPerKey
  BY DEF Init, BookedEligibly, OneBookingPerKey
<1> QED
  BY <1>1, InitInvariant DEF JInv

\* Both invariants, and what they rest on, hold of every behaviour.
THEOREM IdentityInvariant == Spec => []JInv
<1>1. Spec => Init /\ [][Next]_vars
  BY DEF Spec
<1> QED
  BY <1>1, IdentityInit, NextIdentity, PTL

\* What was checked when a booking was made holds of the slots it comes to hold.
LEMMA IdentityControls == JInv => TemperatureControl
<1> SUFFICES ASSUME JInv, NEW s \in Slot, SlotTypeOf(s) = "refrigerated",
                    slots[s].status # "free"
             PROVE  /\ cargo[bookings[slots[s].holder].cargo] = "confirmed"
                    /\ IsNewEnergy(CargoOf[bookings[slots[s].holder].cargo])
  BY DEF TemperatureControl
<1>1. SlotAgrees(Data, s) /\ HolderAskedFor(Data, s) /\ slots[s].status \in SlotStatus
  BY DEF JInv, IInv, SlotsMatchHolders, SlotsMatch, TypeOK
<1>2. /\ slots[s].holder \in DOMAIN bookings
      /\ bookings[slots[s].holder].slotType = "refrigerated"
  BY <1>1 DEF SlotAgrees, HolderAskedFor, SlotStatus, Data
<1> QED
  BY <1>2 DEF JInv, BookedEligibly

\* A refrigerated slot is never held for cargo that may not have it, not even
\* when the slot comes by way of the waitlist, long after the cargo was checked.
THEOREM TemperatureAlwaysControlled == Spec => []TemperatureControl
BY IdentityControls, IdentityInvariant, PTL

\* A key never stands for two bookings, and goes on leading to the one made under
\* it: a request that is repeated makes no second booking.
THEOREM KeysStayUnique == Spec => []OneBookingPerKey
<1>1. JInv => OneBookingPerKey
  BY DEF JInv
<1> QED
  BY <1>1, IdentityInvariant, PTL
=============================================================================
