----------------------------- MODULE QuotaProofs -----------------------------
(***************************************************************************)
(* The proof that a booking holds its whole quantity of slots or none: it  *)
(* counts slots, and builds on the invariant of BookingProofs.  And, with  *)
(* the same means, that single slots are never idle beside a queue.        *)
(***************************************************************************)
EXTENDS CourseProofs

-----------------------------------------------------------------------------
\* Counting slots.

\* A slot is the pair of its voyage and its index on it.
LEMMA SlotParts ==
    ASSUME NEW s \in Slot
    PROVE  /\ s[1] \in Voyage
           /\ s[2] \in 0 .. Shape[s[1]].refrigerated + Shape[s[1]].dry - 1
           /\ s = <<s[1], s[2]>>
<1>1. PICK v \in Voyage : s \in {v} \X (0 .. Shape[v].refrigerated + Shape[v].dry - 1)
  BY DEF Slot
<1> QED
  BY <1>1

\* A voyage has finitely many slots.
LEMMA SlotsFinite ==
    ASSUME NEW v, NEW S \in SUBSET Slot, \A s \in S : s[1] = v
    PROVE  IsFiniteSet(S)
<1>1. CASE S = {}
  BY <1>1, FS_EmptySet
<1>2. CASE S # {}
  <2>1. v \in Voyage
    BY <1>2, SlotParts
  <2> DEFINE N == Shape[v].refrigerated + Shape[v].dry - 1
             f == [s \in S |-> s[2]]
  <2>2. N \in Int
    BY <2>1, ShapeAssumption
  <2>3. \A s \in S : s[2] \in 0 .. N /\ s = <<v, s[2]>>
    BY SlotParts
  <2> HIDE DEF N
  <2>4. f \in [S -> 0 .. N] /\ \A r, s \in S : f[r] = f[s] => r = s
    BY <2>3
  <2> HIDE DEF f
  <2>5. f \in Injection(S, 0 .. N)
    BY <2>4 DEF Injection, IsInjective
  <2> QED
    BY <2>2, <2>5, FS_Interval, FS_Injection
<1> QED
  BY <1>1, <1>2

\* First finds as many slots as it is asked for, when there are so many.
LEMMA FirstCounts ==
    ASSUME NEW v, NEW S \in SUBSET Slot, \A s \in S : s[1] = v,
           NEW k \in Nat, k <= Cardinality(S)
    PROVE  Cardinality(First(k, S)) = k
<1> DEFINE Before(s) == {r \in S : r[2] < s[2]}
<1>1. \A s \in S : s[2] \in Nat /\ s = <<v, s[2]>>
  BY SlotParts
<1>2. IsFiniteSet(S) /\ Cardinality(S) \in Nat
  BY SlotsFinite, FS_CardinalityType
<1>3. \A s \in S : IsFiniteSet(Before(s)) /\ Cardinality(Before(s)) \in Nat
  <2>1. \A s \in S : Before(s) \in SUBSET S
    OBVIOUS
  <2> HIDE DEF Before
  <2> QED
    BY <2>1, <1>2, FS_Subset, FS_CardinalityType
<1>4. \A n : First(n, S) = {s \in S : Cardinality(Before(s)) < n}
  BY DEF First
<1>5. \A n : First(n, S) \in SUBSET S
  BY <1>4
<1>6. \A n : IsFiniteSet(First(n, S)) /\ Cardinality(First(n, S)) \in Nat
  BY <1>2, <1>5, FS_Subset, FS_CardinalityType
<1> DEFINE Bad == {n \in 0 .. k : Cardinality(First(n, S)) # n}
<1>7. Bad = {}
  <2> SUFFICES ASSUME Bad # {} PROVE FALSE
    OBVIOUS
  <2>1. Bad \in SUBSET Nat
    OBVIOUS
  <2>2. PICK m \in Bad : \A n \in Bad : m <= n
    <3> HIDE DEF Bad
    <3> QED
      BY <2>1, LeastNat
  <2>3. m \in 0 .. k /\ Cardinality(First(m, S)) # m
    OBVIOUS
  <2>4. m # 0
    <3>1. First(0, S) = {}
      <4> HIDE DEF Before
      <4> QED
        BY <1>3, <1>4
    <3> QED
      BY <2>3, <3>1, FS_EmptySet
  <2> DEFINE q == m - 1
             A == First(q, S)
  <2>5. q \in Nat /\ q < Cardinality(S) /\ m = q + 1
    BY <2>3, <2>4, <1>2
  <2>6. Cardinality(A) = q
    <3>1. q \notin Bad
      <4> HIDE DEF Bad
      <4> QED
        BY <2>2, <2>3, <2>5
    <3> QED
      BY <3>1, <2>3, <2>5
  <2>7. S \ A # {}
    <3>1. A # S
      BY <2>5, <2>6
    <3> QED
      BY <3>1, <1>5
  \* The slot that First(m, S) has and First(q, S) has not.
  <2>8. PICK x \in S \ A : \A s \in S \ A : x[2] <= s[2]
    <3> DEFINE I == {s[2] : s \in S \ A}
    <3>1. I \in SUBSET Nat /\ I # {}
      BY <1>1, <2>7
    <3>2. PICK i \in I : \A j \in I : i <= j
      <4> HIDE DEF I
      <4> QED
        BY <3>1, LeastNat
    <3> QED
      BY <3>2
  <2> HIDE DEF q, Bad
  <2>9. Before(x) \subseteq A
    <3>1. \A r \in Before(x) : r \in S /\ ~(x[2] <= r[2])
      BY <1>1, <2>8
    <3> QED
      BY <3>1, <2>8
  <2>10. \A r, s \in S : r[2] <= s[2] => Cardinality(Before(r)) <= Cardinality(Before(s))
    <3> SUFFICES ASSUME NEW r \in S, NEW s \in S, r[2] <= s[2]
                 PROVE  Cardinality(Before(r)) <= Cardinality(Before(s))
      OBVIOUS
    <3>1. Before(r) \in SUBSET Before(s)
      BY <1>1
    <3> HIDE DEF Before
    <3> QED
      BY <3>1, <1>3, FS_Subset
  <2>11. A \subseteq Before(x)
    <3> SUFFICES ASSUME NEW r \in A, r \notin Before(x) PROVE FALSE
      OBVIOUS
    <3>1. r \in S /\ x[2] <= r[2]
      BY <1>1, <1>5, <2>8
    <3> HIDE DEF Before
    <3>2. Cardinality(Before(x)) <= Cardinality(Before(r)) /\ Cardinality(Before(r)) < q
      BY <3>1, <2>8, <2>10, <1>4
    <3>3. x \in A
      BY <3>1, <3>2, <2>5, <2>8, <1>3, <1>4
    <3> QED
      BY <3>3, <2>8
  <2>12. Cardinality(Before(x)) = q
    BY <2>6, <2>9, <2>11
  <2>13. ASSUME NEW s \in S, Cardinality(Before(s)) = q PROVE s = x
    <3>1. s \in S \ A
      <4> HIDE DEF Before
      <4> QED
        BY <2>13, <2>5, <1>4
    <3>2. ~(x[2] < s[2])
      <4> SUFFICES ASSUME x[2] < s[2] PROVE FALSE
        OBVIOUS
      <4>1. Before(x) \cup {x} \in SUBSET Before(s) /\ x \notin Before(x)
        BY <1>1, <2>8
      <4> HIDE DEF Before
      <4>2. Cardinality(Before(x) \cup {x}) = q + 1
        BY <4>1, <2>8, <2>12, <1>3, FS_AddElement
      <4>3. Cardinality(Before(x) \cup {x}) <= Cardinality(Before(s))
        BY <4>1, <1>3, FS_Subset
      <4> QED
        BY <4>2, <4>3, <2>13, <2>5
    <3>3. x[2] = s[2]
      BY <3>1, <3>2, <2>8, <1>1
    <3> QED
      BY <3>3, <2>8, <1>1
  <2>14. First(m, S) = A \cup {x}
    <3> HIDE DEF Before
    <3>1. \A s \in S : Cardinality(Before(s)) < m <=>
                         Cardinality(Before(s)) < q \/ Cardinality(Before(s)) = q
      BY <1>3, <2>5
    <3> QED
      BY <3>1, <1>4, <2>8, <2>12, <2>13
  <2>15. Cardinality(First(m, S)) = q + 1
    BY <2>14, <2>8, <2>6, <1>6, FS_AddElement
  <2> QED
    BY <2>15, <2>3, <2>5
<1> QED
  BY <1>7

-----------------------------------------------------------------------------
\* What each helper under the lock makes of the quantities.

\* Quotas carry over when no booking gets or loses a slot, or changes sides.
LEMMA QuotasCarry ==
    ASSUME NEW d, NEW e, Quotas(d), DOMAIN e.bookings = DOMAIN d.bookings,
           \A x \in DOMAIN d.bookings :
              /\ Holding(e, x) = Holding(d, x)
              /\ e.bookings[x].status \in Live <=> d.bookings[x].status \in Live
              /\ e.bookings[x].qty = d.bookings[x].qty
    PROVE  Quotas(e)
BY DEF Quotas

\* A booking that holds nothing and finds enough free slots gets its quantity,
\* and nobody else's slots are touched.
LEMMA FreezeQuota ==
    ASSUME now \in 0 .. MaxTime, NEW n \in Nat, NEW d \in DataType(n), SlotsMatch(d),
           NEW b \in 1 .. n, d.bookings[b].status \notin Live, Fits(d, b),
           \A x \in (1 .. n) \ {b} :
              Cardinality(Holding(d, x)) =
                IF d.bookings[x].status \in Live THEN d.bookings[x].qty ELSE 0
    PROVE  Quotas(Freeze(d, b))
<1> DEFINE bk     == d.bookings[b]
           chosen == First(bk.qty, FreeSlots(d, bk.voyage, bk.slotType))
           newSlots == [s \in Slot |-> IF s \in chosen
                                         THEN [status |-> "frozen", holder |-> b]
                                         ELSE d.slots[s]]
           newBookings == [d.bookings EXCEPT ![b].status = "frozen", ![b].frozenAt = now]
           e == Freeze(d, b)
<1>1. chosen \subseteq FreeSlots(d, bk.voyage, bk.slotType)
  BY FirstChooses
<1>2. Cardinality(chosen) = bk.qty
  <2>1. bk.qty \in Nat /\ bk.qty <= Cardinality(FreeSlots(d, bk.voyage, bk.slotType))
    BY DEF DataType, BookingRecord, Fits
  <2>2. /\ FreeSlots(d, bk.voyage, bk.slotType) \in SUBSET Slot
        /\ \A s \in FreeSlots(d, bk.voyage, bk.slotType) : s[1] = bk.voyage
    BY DEF FreeSlots
  <2> QED
    BY <2>1, <2>2, FirstCounts
<1> HIDE DEF chosen
<1>3. e = [d EXCEPT !.slots = newSlots, !.bookings = newBookings]
  BY DEF Freeze, chosen
<1>4. e.slots = newSlots /\ e.bookings = newBookings /\ DOMAIN newBookings = 1 .. n
  BY <1>3 DEF DataType
<1>5. \A x \in 1 .. n : newBookings[x].qty = d.bookings[x].qty
                        /\ newBookings[x].status = IF x = b THEN "frozen" ELSE d.bookings[x].status
  BY DEF DataType, BookingRecord
<1>6. ASSUME NEW s \in Slot
      PROVE  /\ s \in chosen => d.slots[s].holder = NoBooking
             /\ d.slots[s].holder # b
  <2>1. SlotAgrees(d, s) /\ d.slots[s].status \in SlotStatus /\ DOMAIN d.bookings = 1 .. n
    BY DEF SlotsMatch, DataType
  <2>2. s \in chosen => d.slots[s].status = "free"
    BY <1>1 DEF FreeSlots
  <2>3. d.slots[s].status = "free" => d.slots[s].holder = NoBooking
    BY <2>1 DEF SlotAgrees
  <2>4. d.slots[s].status # "free" => d.bookings[d.slots[s].holder].status \in Live
    BY <2>1 DEF SlotAgrees, SlotStatus, Live, Paid
  <2> QED
    BY <2>2, <2>3, <2>4 DEF NoBooking
<1>7. chosen \subseteq Slot
  BY <1>1 DEF FreeSlots
<1>8. Holding(e, b) = chosen
  BY <1>4, <1>6, <1>7 DEF Holding
<1>9. \A x \in (1 .. n) \ {b} : Holding(e, x) = Holding(d, x)
  BY <1>4, <1>6 DEF Holding, NoBooking
<1>10. "frozen" \in Live
  BY DEF Live
<1> HIDE DEF newBookings, newSlots, e
<1> QED
  BY <1>2, <1>4, <1>5, <1>8, <1>9, <1>10 DEF Quotas, e

\* A promotion serves the head of the queue in full or not at all.
LEMMA PromoteQuota ==
    ASSUME now \in 0 .. MaxTime, NEW n \in Nat, NEW d \in DataType(n), Sound(d), Quotas(d),
           NEW v, NEW t
    PROVE  Quotas(Promote(d, v, t))
<1> DEFINE ready == {b \in Best(d, v, t) : voyages[v] # "none" /\ Fits(d, b)}
           b == CHOOSE b \in ready : TRUE
<1>1. CASE ready = {}
  BY <1>1 DEF Promote
<1>2. CASE ready # {}
  <2>1. Promote(d, v, t) = [Freeze(d, b) EXCEPT !.waitlist = @ \ {b}]
    BY <1>2 DEF Promote
  <2>2. b \in ready
    BY <1>2
  <2>3. b \in d.waitlist /\ Fits(d, b)
    BY <2>2 DEF Best, Queue
  <2> HIDE DEF b, ready
  <2>4. b \in 1 .. n /\ d.bookings[b].status \notin Live /\ DOMAIN d.bookings = 1 .. n
    BY <2>3 DEF Sound, Waitlisted, DataType, Live, Paid
  <2>5. Quotas(Freeze(d, b))
    BY <2>3, <2>4, FreezeQuota DEF Sound, Quotas
  <2> DEFINE e == Promote(d, v, t)
  <2>6. e.slots = Freeze(d, b).slots /\ e.bookings = Freeze(d, b).bookings
    BY <2>1 DEF Freeze
  <2> HIDE DEF e
  <2> QED
    BY <2>5, <2>6 DEF Quotas, Holding, e
<1> QED
  BY <1>1, <1>2

\* Bookings that leave give back all they held, and nobody else loses a slot.
LEMMA ReleaseQuota ==
    ASSUME NEW n \in Nat, NEW d \in DataType(n), Quotas(d),
           NEW out \in SUBSET (1 .. n),
           NEW st \in {"released", "cancelled"},
           NEW which,
           \A s \in Slot : d.slots[s].holder \in out => d.slots[s].status \in which
    PROVE  Quotas(Release(d, out, st, which))
<1> DEFINE newSlots == [s \in Slot |->
                          IF d.slots[s].holder \in out /\ d.slots[s].status \in which
                            THEN FreeSlot ELSE d.slots[s]]
           newBookings == [b \in DOMAIN d.bookings |->
                             IF b \in out THEN [d.bookings[b] EXCEPT !.status = st]
                                          ELSE d.bookings[b]]
           e == Release(d, out, st, which)
<1>1. DOMAIN d.bookings = 1 .. n /\ d.bookings \in [1 .. n -> BookingRecord]
  BY DEF DataType
<1>2. e.slots = newSlots /\ e.bookings = newBookings
  BY DEF Release, DataType
<1>3. \A x \in 1 .. n : newBookings[x].qty = d.bookings[x].qty
                        /\ newBookings[x].status = IF x \in out THEN st ELSE d.bookings[x].status
  BY <1>1 DEF BookingRecord
<1>4. \A x \in out : Holding(e, x) = {}
  BY <1>2 DEF Holding, FreeSlot, NoBooking
<1>5. \A x \in (1 .. n) \ out : Holding(e, x) = Holding(d, x)
  BY <1>2 DEF Holding, FreeSlot, NoBooking
<1>6. st \notin Live /\ DOMAIN newBookings = 1 .. n
  BY <1>1 DEF Live, Paid
<1> HIDE DEF newSlots, newBookings, e
<1> QED
  BY <1>1, <1>2, <1>3, <1>4, <1>5, <1>6, FS_EmptySet DEF Quotas, e

\* The promotions of a scheduler's pass keep every quantity.
LEMMA PromotionsQuota ==
    ASSUME now \in 0 .. MaxTime, NEW n \in Nat, NEW d \in DataType(n), Sound(d), Quotas(d),
           NEW order, Len(order) \in Nat
    PROVE  Quotas(Promotions(d, order))
<1> DEFINE G == {e \in DataType(n) : Sound(e) /\ Quotas(e)}
<1>1. \A e \in G : \A v, t : Promote(e, v, t) \in G
  BY PromoteSound, PromoteQuota
<1>2. d \in G
  OBVIOUS
<1> HIDE DEF G
<1>3. Promotions(d, order) \in G
  BY <1>1, <1>2, PromotionsStay
<1> QED
  BY <1>3 DEF G

-----------------------------------------------------------------------------
\* The inductive invariant, with the quantities.
QInv == IInv /\ HoldsItsQuota

\* A step that commits data with its quantities keeps them.
LEMMA CommitQuota ==
    ASSUME NEW n, NEW d \in DataType(n), Quotas(d), Commit(d)
    PROVE  HoldsItsQuota'
<1>1. Data' = d
  BY DEF Commit, Data, DataType
<1> QED
  BY <1>1 DEF HoldsItsQuota

\* A booking that is just added holds nothing, and the others hold what they did.
LEMMA EnterQuota ==
    ASSUME QInv, NEW r, NEW st
    PROVE  LET b == counter + 1
               d == Enter(b, r, st)
           IN  /\ \A x \in (1 .. b) \ {b} :
                     Cardinality(Holding(d, x)) =
                       IF d.bookings[x].status \in Live THEN d.bookings[x].qty ELSE 0
               /\ st \notin Live => Quotas(d)
<1> DEFINE b   == counter + 1
           new == [cargo |-> r.cargo, voyage |-> r.voyage,
                   slotType |-> r.slotType, qty |-> r.qty, key |-> r.key,
                   status |-> st, submitTime |-> now, frozenAt |-> 0]
           newBookings == [x \in 1 .. b |-> IF x = b THEN new ELSE bookings[x]]
           d == Enter(b, r, st)
<1>1. counter \in Nat /\ Data \in DataType(counter) /\ SlotsMatch(Data) /\ DOMAIN bookings = 1 .. counter
  BY DataIsSound DEF Sound, QInv
<1>2. d.slots = slots /\ d.bookings = newBookings
  BY DEF Enter, Data
<1>3. \A x \in 1 .. counter : newBookings[x] = bookings[x] /\ x \in (1 .. b) \ {b}
  BY <1>1
<1>4. newBookings[b].status = st /\ DOMAIN newBookings = 1 .. b
      /\ (1 .. b) \ {b} = 1 .. counter
  BY <1>1
<1>5. \A x : Holding(d, x) = Holding(Data, x)
  BY <1>2 DEF Holding, Data
<1>6. Holding(Data, b) = {}
  <2> SUFFICES ASSUME NEW s \in Slot, Data.slots[s].holder = b PROVE FALSE
    BY DEF Holding
  <2>1. SlotAgrees(Data, s) /\ Data.slots[s].status \in SlotStatus
    BY <1>1 DEF SlotsMatch, DataType
  <2>2. Data.slots[s].holder = 0 \/ Data.slots[s].holder \in 1 .. counter
    BY <2>1, <1>1 DEF SlotAgrees, SlotStatus, NoBooking, Data
  <2> QED
    BY <2>2, <1>1
<1>7. \A x \in 1 .. counter :
         Cardinality(Holding(Data, x)) =
           IF bookings[x].status \in Live THEN bookings[x].qty ELSE 0
  BY <1>1 DEF QInv, HoldsItsQuota, Quotas, Data
<1> HIDE DEF newBookings, d
<1>8. \A x \in (1 .. b) \ {b} :
         Cardinality(Holding(d, x)) =
           IF d.bookings[x].status \in Live THEN d.bookings[x].qty ELSE 0
  BY <1>2, <1>3, <1>4, <1>5, <1>7
<1>9. st \notin Live => Quotas(d)
  BY <1>2, <1>4, <1>5, <1>6, <1>8, FS_EmptySet DEF Quotas
<1> QED
  BY <1>8, <1>9 DEF d

\* A new booking takes its whole quantity or waits for it.
LEMMA CreateBookingQuota ==
    ASSUME QInv, NEW r \in Request, CreateBooking(r)
    PROVE  HoldsItsQuota'
<1> DEFINE b       == counter + 1
           pending == Enter(b, r, "pending")
           queued  == Enter(b, r, "waitlisted")
<1>1. /\ counter \in Nat /\ b \in 1 .. MaxBookings /\ Admissible(r)
      /\ now \in 0 .. MaxTime /\ IInv /\ b \in 1 .. b
  BY BoundAssumption DEF CreateBooking, QInv, IInv, TypeOK
<1>2. CASE Fits(pending, b) /\ Commit(Freeze(pending, b))
  <2>1. pending \in DataType(b) /\ SlotsMatch(pending) /\ pending.bookings[b].status = "pending"
    BY <1>1, EnterSound DEF BookingStatus
  <2>2. \A x \in (1 .. b) \ {b} :
           Cardinality(Holding(pending, x)) =
             IF pending.bookings[x].status \in Live THEN pending.bookings[x].qty ELSE 0
    BY EnterQuota
  <2> HIDE DEF pending
  <2>3. pending.bookings[b].status \notin Live
    BY <2>1 DEF Live, Paid
  <2>4. Quotas(Freeze(pending, b))
    BY <1>1, <1>2, <2>1, <2>2, <2>3, FreezeQuota
  <2>5. Freeze(pending, b) \in DataType(b)
    BY <1>1, <2>1, <2>3, FreezeSound
  <2> QED
    BY <1>2, <2>4, <2>5, CommitQuota
<1>3. CASE Commit([queued EXCEPT !.waitlist = @ \cup {b}])
  <2>1. queued \in DataType(b)
    BY <1>1, EnterSound DEF BookingStatus
  <2>2. Quotas(queued)
    BY EnterQuota DEF Live, Paid
  <2> HIDE DEF queued
  <2>3. queued.waitlist \cup {b} \in SUBSET (1 .. b) /\ b \in Nat
    BY <1>1, <2>1 DEF DataType
  <2> HIDE DEF b
  <2> DEFINE d == [queued EXCEPT !.waitlist = @ \cup {b}]
  <2>4. d \in DataType(b) /\ d.slots = queued.slots /\ d.bookings = queued.bookings
    BY <2>1, <2>3, WaitlistReplaced
  <2> HIDE DEF d
  <2>5. Quotas(d)
    BY <2>2, <2>4 DEF Quotas, Holding
  <2> QED
    BY <1>3, <2>4, <2>5, CommitQuota DEF d
<1> QED
  BY <1>2, <1>3 DEF CreateBooking

\* Payment turns frozen slots into allocated ones, and moves none.
LEMMA PayInTimeQuota ==
    ASSUME QInv, NEW b, PayInTime(b)
    PROVE  HoldsItsQuota'
<1>1. /\ DOMAIN bookings = 1 .. counter /\ b \in 1 .. counter
      /\ bookings[b].status = "frozen" /\ TypeOK
  BY DataIsSound DEF QInv, IInv, PayInTime, Known
<1>2. /\ DOMAIN bookings' = DOMAIN bookings
      /\ \A x \in DOMAIN bookings :
            /\ bookings'[x].qty = bookings[x].qty
            /\ bookings'[x].status = IF x = b THEN "confirmed" ELSE bookings[x].status
  BY <1>1 DEF PayInTime, TypeOK, BookingRecord
<1>3. \A s \in Slot : slots'[s].holder = slots[s].holder
  BY <1>1 DEF PayInTime, TypeOK
<1>4. \A x : Holding(Data', x) = Holding(Data, x)
  BY <1>3 DEF Holding, Data
<1>5. \A x \in DOMAIN Data.bookings :
         /\ Holding(Data', x) = Holding(Data, x)
         /\ Data'.bookings[x].status \in Live <=> Data.bookings[x].status \in Live
         /\ Data'.bookings[x].qty = Data.bookings[x].qty
  BY <1>1, <1>2, <1>4 DEF Data, Live, Paid
<1>6. DOMAIN Data'.bookings = DOMAIN Data.bookings
  BY <1>2 DEF Data
<1>7. Quotas(Data)
  BY DEF QInv, HoldsItsQuota
<1>8. Quotas(Data')
  BY <1>5, <1>6, <1>7, QuotasCarry
<1> QED
  BY <1>8 DEF HoldsItsQuota

\* Cancellation gives the whole batch back.
LEMMA CancelQuota ==
    ASSUME QInv, NEW b, Cancel(b)
    PROVE  HoldsItsQuota'
<1> DEFINE d == Release(Data, {b}, "cancelled", SlotStatus)
           e == Promote(d, bookings[b].voyage, bookings[b].slotType)
<1>1. /\ Data \in DataType(counter) /\ Sound(Data) /\ Quotas(Data) /\ counter \in Nat
      /\ now \in 0 .. MaxTime /\ {b} \in SUBSET (1 .. counter)
      /\ bookings[b].status # "waitlisted"
  BY DataIsSound DEF Cancel, Known, QInv, IInv, TypeOK, HoldsItsQuota
<1>2. \A s \in Slot : Data.slots[s].status \in SlotStatus
  BY <1>1 DEF DataType
<1>3. \A x \in {b} : Data.bookings[x].status # "waitlisted"
  BY <1>1 DEF Data
<1>4. d \in DataType(counter) /\ Sound(d) /\ Quotas(d)
  BY <1>1, <1>2, <1>3, ReleaseSound, ReleaseQuota
<1> HIDE DEF d
<1>5. e \in DataType(counter) /\ Quotas(e)
  BY <1>1, <1>4, PromoteSound, PromoteQuota
<1> HIDE DEF e
<1>6. Commit(e)
  BY DEF Cancel, d, e
<1> QED
  BY <1>5, <1>6, CommitQuota

\* Frozen bookings that are released give their whole batches back.
LEMMA ReleaseFrozenQuota ==
    ASSUME QInv, NEW out \in SUBSET DOMAIN bookings,
           \A b \in out : bookings[b].status = "frozen"
    PROVE  Quotas(ReleaseFrozen(Data, out))
<1>1. /\ Data \in DataType(counter) /\ Sound(Data) /\ Quotas(Data) /\ counter \in Nat
      /\ out \in SUBSET (1 .. counter)
  BY DataIsSound DEF QInv, HoldsItsQuota
<1>2. \A s \in Slot : Data.slots[s].holder \in out => Data.slots[s].status \in {"frozen"}
  <2> SUFFICES ASSUME NEW s \in Slot, Data.slots[s].holder \in out
               PROVE  Data.slots[s].status = "frozen"
    OBVIOUS
  <2>1. SlotAgrees(Data, s) /\ Data.slots[s].status \in SlotStatus
    BY <1>1 DEF Sound, SlotsMatch, DataType
  <2>2. Data.slots[s].holder # NoBooking /\ Data.bookings[Data.slots[s].holder].status = "frozen"
    BY <1>1 DEF NoBooking, Data
  <2> QED
    BY <2>1, <2>2 DEF SlotAgrees, SlotStatus, Paid
<1> QED
  BY <1>1, <1>2, ReleaseQuota DEF ReleaseFrozen

\* A payment that comes too late gives the whole batch back.
LEMMA PayLateQuota ==
    ASSUME QInv, NEW b, PayLate(b)
    PROVE  HoldsItsQuota'
<1> DEFINE d == ReleaseFrozen(Data, {b})
           e == Promote(d, bookings[b].voyage, bookings[b].slotType)
<1>1. /\ counter \in Nat /\ now \in 0 .. MaxTime /\ IInv
      /\ {b} \in SUBSET DOMAIN bookings /\ bookings[b].status = "frozen"
  BY DataIsSound DEF PayLate, Known, Expired, QInv, IInv, TypeOK
<1>2. d \in DataType(counter) /\ Sound(d) /\ Quotas(d)
  BY <1>1, ReleaseFrozenSound, ReleaseFrozenQuota
<1> HIDE DEF d
<1>3. e \in DataType(counter) /\ Quotas(e)
  BY <1>1, <1>2, PromoteSound, PromoteQuota
<1> HIDE DEF e
<1>4. Commit(e)
  BY DEF PayLate, d, e
<1> QED
  BY <1>3, <1>4, CommitQuota

\* A pass of the scheduler moves whole batches only.
LEMMA ReconcileQuota ==
    ASSUME QInv, ReconcileExpired
    PROVE  HoldsItsQuota'
<1> DEFINE d == ReleaseFrozen(Data, Overdue)
<1>1. /\ counter \in Nat /\ now \in 0 .. MaxTime /\ IInv
      /\ Overdue \in SUBSET DOMAIN bookings /\ \A b \in Overdue : bookings[b].status = "frozen"
  BY DataIsSound DEF Overdue, Expired, QInv, IInv, TypeOK
<1>2. d \in DataType(counter) /\ Sound(d) /\ Quotas(d)
  BY <1>1, ReleaseFrozenSound, ReleaseFrozenQuota
<1>3. PICK order \in SetToSeqs(Overdue) : Commit(Promotions(d, order))
  BY DEF ReconcileExpired
<1>4. Len(order) \in Nat
  BY <1>1, <1>3, OrderHasLength
<1> HIDE DEF d
<1>5. Promotions(d, order) \in DataType(counter) /\ Quotas(Promotions(d, order))
  BY <1>1, <1>2, <1>4, PromotionsSound, PromotionsQuota
<1> QED
  BY <1>3, <1>5, CommitQuota

\* At the start nothing is held.
LEMMA InitQuota == Init => QInv
<1>1. Init => HoldsItsQuota
  BY DEF Init, HoldsItsQuota, Quotas, Data
<1> QED
  BY <1>1, InitInvariant DEF QInv

\* Every step of the service keeps the quantities.
LEMMA NextQuota == QInv /\ [Next]_vars => QInv'
<1> SUFFICES ASSUME QInv, [Next]_vars PROVE QInv'
  OBVIOUS
<1>1. IInv'
  BY NextInvariant DEF QInv
<1>2. ASSUME UNCHANGED <<slots, bookings, waitlist>> PROVE HoldsItsQuota'
  <2>1. Data' = Data
    BY <1>2 DEF Data
  <2> QED
    BY <2>1 DEF QInv, HoldsItsQuota
<1>3. ASSUME Tick \/ UNCHANGED vars PROVE HoldsItsQuota'
  BY <1>2, <1>3 DEF Tick, vars
<1>4. ASSUME NEW c \in CargoId, CreateCargo(c) \/ ConfirmTemp(c) PROVE HoldsItsQuota'
  BY <1>2, <1>4 DEF CreateCargo, ConfirmTemp
<1>5. ASSUME NEW v \in Voyage, CreateVoyage(v) PROVE HoldsItsQuota'
  BY <1>2, <1>5 DEF CreateVoyage
<1>6. ASSUME NEW r \in Request, CreateBooking(r) PROVE HoldsItsQuota'
  BY <1>6, CreateBookingQuota
<1>7. ASSUME NEW b, PayInTime(b) \/ PayLate(b) \/ Cancel(b) PROVE HoldsItsQuota'
  BY <1>7, PayInTimeQuota, PayLateQuota, CancelQuota
<1>8. ASSUME NEW v, NEW t, PromoteWaitlist(v, t) PROVE HoldsItsQuota'
  <2>1. /\ Data \in DataType(counter) /\ Sound(Data) /\ Quotas(Data) /\ counter \in Nat
        /\ now \in 0 .. MaxTime
    BY DataIsSound DEF QInv, IInv, TypeOK, HoldsItsQuota
  <2>2. Promote(Data, v, t) \in DataType(counter) /\ Quotas(Promote(Data, v, t))
    BY <2>1, PromoteSound, PromoteQuota
  <2> QED
    BY <1>8, <2>2, CommitQuota DEF PromoteWaitlist
<1>9. ASSUME ReconcileExpired PROVE HoldsItsQuota'
  BY <1>9, ReconcileQuota
<1>10. HoldsItsQuota'
  BY <1>3, <1>4, <1>5, <1>6, <1>7, <1>8, <1>9 DEF Next, ServiceCall
<1> QED
  BY <1>1, <1>10 DEF QInv

\* No batch is ever split, lost in part or freed in part: a booking that is
\* frozen or has paid holds exactly the slots it asked for, and any other none.
THEOREM QuotasAlwaysHold == Spec => []HoldsItsQuota
<1>1. Init => QInv
  BY InitQuota
<1>2. QInv => HoldsItsQuota
  BY DEF QInv
<1>3. Spec => Init /\ [][Next]_vars
  BY DEF Spec
<1> QED
  BY <1>1, <1>2, <1>3, NextQuota, PTL

-----------------------------------------------------------------------------
\* No idle slot: the best of a queue.

\* A queue that is not empty has a best entry.
LEMMA BestExists ==
    ASSUME NEW n \in Nat, NEW d \in DataType(n), NEW v, NEW t, Queue(d, v, t) # {}
    PROVE  Best(d, v, t) # {}
<1> DEFINE Q == Queue(d, v, t)
           rank(b) == 100 - PriorityOf(d.bookings[b])
           time(b) == d.bookings[b].submitTime
<1>1. Q \in SUBSET (1 .. n) /\ Q # {}
  BY DEF Queue, DataType
<1>2. \A b \in Q : /\ rank(b) \in Nat /\ time(b) \in Nat
                   /\ PriorityOf(d.bookings[b]) \in Int
  <2>1. \A b \in Q : d.bookings[b] \in BookingRecord
    BY <1>1 DEF DataType
  <2>2. \A b \in Q : time(b) \in Nat
    BY <2>1, TimeAssumption DEF BookingRecord
  <2>3. \A b \in Q : PriorityOf(d.bookings[b]) \in {10, 50, 100}
    BY DEF PriorityOf, Priority
  <2> QED
    BY <2>2, <2>3
<1>3. PICK b1 \in Q : \A a \in Q : rank(b1) <= rank(a)
  <2> DEFINE T == {rank(b) : b \in Q}
  <2>1. T \in SUBSET Nat /\ T # {}
    BY <1>1, <1>2
  <2> HIDE DEF T
  <2>2. PICK m \in T : \A k \in T : m <= k
    BY <2>1, LeastNat
  <2> QED
    BY <2>2 DEF T
<1> DEFINE Q1 == {a \in Q : rank(a) = rank(b1)}
<1>4. PICK b2 \in Q1 : \A a \in Q1 : time(b2) <= time(a)
  <2> DEFINE T == {time(b) : b \in Q1}
  <2>1. T \in SUBSET Nat /\ T # {}
    BY <1>2
  <2> HIDE DEF T
  <2>2. PICK m \in T : \A k \in T : m <= k
    BY <2>1, LeastNat
  <2> QED
    BY <2>2 DEF T
<1> DEFINE Q2 == {a \in Q1 : time(a) = time(b2)}
<1>5. PICK b \in Q2 : \A a \in Q2 : b <= a
  <2>1. Q2 \in SUBSET Nat /\ Q2 # {}
    BY <1>1
  <2> HIDE DEF Q2
  <2> QED
    BY <2>1, LeastNat
<1>6. b \in Q /\ b \in Q1 /\ time(b) = time(b2) /\ rank(b) = rank(b1)
  OBVIOUS
<1>7. ASSUME NEW a \in Q \ {b} PROVE Ahead(d, b, a)
  <2>1. CASE rank(a) # rank(b1)
    <3>1. rank(b) < rank(a)
      BY <1>2, <1>3, <1>6, <2>1
    <3>2. PriorityOf(d.bookings[b]) > PriorityOf(d.bookings[a])
      BY <1>2, <1>6, <3>1
    <3> QED
      BY <3>2 DEF Ahead
  <2>2. CASE rank(a) = rank(b1)
    <3>1. a \in Q1 /\ time(b) <= time(a)
      BY <1>4, <1>6, <2>2
    <3>2. time(a) = time(b) => b < a
      <4> SUFFICES ASSUME time(a) = time(b) PROVE b < a
        OBVIOUS
      <4>1. a \in Q2
        BY <1>6, <3>1
      <4>2. b <= a /\ b # a /\ a \in Nat /\ b \in Nat
        BY <1>1, <1>5, <1>6, <4>1
      <4> QED
        BY <4>2
    <3>3. PriorityOf(d.bookings[b]) = PriorityOf(d.bookings[a])
      BY <1>2, <1>6, <2>2
    <3>4. time(b) < time(a) \/ (time(b) = time(a) /\ b < a)
      BY <1>2, <1>6, <3>1, <3>2
    <3> QED
      BY <3>3, <3>4 DEF Ahead
  <2> QED
    BY <2>1, <2>2
<1>8. b \in Best(d, v, t)
  BY <1>6, <1>7 DEF Best
<1> QED
  BY <1>8

-----------------------------------------------------------------------------
\* No idle slot: how many promotions it takes.

\* SinglesOnly, of any data.
Singles(d, v, t) ==
    \A b \in DOMAIN d.bookings :
        d.bookings[b].voyage = v /\ d.bookings[b].slotType = t => d.bookings[b].qty = 1

\* Whoever has booked, has booked on a voyage that exists.
Sailing(d) == \A b \in DOMAIN d.bookings : voyages[d.bookings[b].voyage] # "none"

\* With m promotions, the queue or the free slots come to an end.
Room(d, v, t, m) ==
    Queue(d, v, t) = {} \/ Cardinality(FreeSlots(d, v, t)) <= m

\* What was asked for is the same in d and e.
SameAsked(d, e) ==
    /\ DOMAIN e.bookings = DOMAIN d.bookings
    /\ \A b \in DOMAIN d.bookings :
          /\ e.bookings[b].voyage = d.bookings[b].voyage
          /\ e.bookings[b].slotType = d.bookings[b].slotType
          /\ e.bookings[b].qty = d.bookings[b].qty

LEMMA AdvancesAsked ==
    ASSUME NEW n, NEW d \in DataType(n), NEW e, Advances(d, e)
    PROVE  SameAsked(d, e)
<1>1. DOMAIN e.bookings = DOMAIN d.bookings
  BY DEF Advances
<1>2. ASSUME NEW b \in DOMAIN d.bookings
      PROVE  /\ e.bookings[b].voyage = d.bookings[b].voyage
             /\ e.bookings[b].slotType = d.bookings[b].slotType
             /\ e.bookings[b].qty = d.bookings[b].qty
  <2>1. d.bookings[b] \in BookingRecord
    BY DEF DataType
  <2>2. Stays(d, e, b) \/ Promoted(d, e, b)
    BY DEF Advances
  <2> QED
    BY <2>1, <2>2 DEF Stays, Promoted, BookingRecord
<1> QED
  BY <1>1, <1>2 DEF SameAsked

\* The slots of one type of a voyage can be counted.
LEMMA FreeFinite ==
    ASSUME NEW d, NEW v, NEW t
    PROVE  /\ IsFiniteSet(FreeSlots(d, v, t))
           /\ Cardinality(FreeSlots(d, v, t)) \in Nat
           /\ Cardinality(FreeSlots(d, v, t)) = 0 <=> FreeSlots(d, v, t) = {}
<1>1. FreeSlots(d, v, t) \in SUBSET Slot /\ \A s \in FreeSlots(d, v, t) : s[1] = v
  BY DEF FreeSlots
<1> QED
  BY <1>1, SlotsFinite, FS_CardinalityType, FS_EmptySet

\* A promotion elsewhere leaves queue and slots alone; one here takes from both.
LEMMA PromoteRoom ==
    ASSUME now \in 0 .. MaxTime, NEW n \in Nat, NEW d \in DataType(n), Sound(d), Sailing(d),
           NEW v, NEW t, Singles(d, v, t), NEW m \in Nat, Room(d, v, t, m),
           NEW x, NEW y
    PROVE  /\ x = v /\ y = t /\ m > 0 => Room(Promote(d, x, y), v, t, m - 1)
           /\ ~(x = v /\ y = t) => Room(Promote(d, x, y), v, t, m)
<1> DEFINE ready == {b \in Best(d, x, y) : voyages[x] # "none" /\ Fits(d, b)}
           b == CHOOSE b \in ready : TRUE
           e == Promote(d, x, y)
<1>1. CASE ready # {}
  <2> DEFINE bk     == d.bookings[b]
             chosen == First(bk.qty, FreeSlots(d, bk.voyage, bk.slotType))
             newSlots == [s \in Slot |-> IF s \in chosen
                                           THEN [status |-> "frozen", holder |-> b]
                                           ELSE d.slots[s]]
  <2>1. e = [Freeze(d, b) EXCEPT !.waitlist = @ \ {b}]
    BY <1>1 DEF Promote
  <2>2. b \in ready
    BY <1>1
  <2>3. /\ b \in d.waitlist /\ Fits(d, b)
        /\ d.bookings[b].voyage = x
        /\ d.bookings[b].slotType = y
    BY <2>2 DEF Best, Queue
  <2>4. SameAsked(d, e)
    BY PromoteAdvances, AdvancesAsked
  <2>5. e.slots = newSlots /\ e.waitlist = d.waitlist \ {b}
    BY <2>1 DEF Freeze, DataType
  <2> HIDE DEF b, ready, e
  <2>6. b \in DOMAIN d.bookings /\ d.waitlist \subseteq DOMAIN d.bookings
    BY <2>3 DEF Sound, Waitlisted
  <2>7. Queue(e, v, t) = Queue(d, v, t) \ {b}
    BY <2>4, <2>5, <2>6 DEF Queue, SameAsked
  <2>8. chosen \subseteq FreeSlots(d, x, y)
    BY <2>3, FirstChooses
  <2>9. FreeSlots(e, v, t) = FreeSlots(d, v, t) \ chosen
    BY <2>5 DEF FreeSlots
  <2>10. CASE ~(x = v /\ y = t)
    <3>1. FreeSlots(e, v, t) = FreeSlots(d, v, t)
      BY <2>8, <2>9, <2>10 DEF FreeSlots
    <3> QED
      BY <2>7, <2>10, <3>1 DEF Room, e
  <2>11. CASE x = v /\ y = t
    <3>1. bk.qty = 1
      BY <2>3, <2>6, <2>11 DEF Singles
    <3>2. 1 <= Cardinality(FreeSlots(d, v, t))
      BY <2>3, <2>11, <3>1 DEF Fits
    <3>3. /\ FreeSlots(d, v, t) \in SUBSET Slot
          /\ \A s \in FreeSlots(d, v, t) : s[1] = v
      BY DEF FreeSlots
    <3>4. Cardinality(First(1, FreeSlots(d, v, t))) = 1
      BY <3>2, <3>3, FirstCounts
    <3>5. chosen = First(1, FreeSlots(d, v, t))
      BY <2>3, <2>11, <3>1
    <3> HIDE DEF chosen
    <3>6. IsFiniteSet(chosen)
      BY <2>8, FreeFinite, FS_Subset
    <3>7. PICK s : chosen = {s}
      BY <3>4, <3>5, <3>6, FS_Singleton
    <3>8. s \in FreeSlots(d, v, t) /\ FreeSlots(e, v, t) = FreeSlots(d, v, t) \ {s}
      BY <2>8, <2>9, <2>11, <3>7
    <3>9. Cardinality(FreeSlots(e, v, t)) = Cardinality(FreeSlots(d, v, t)) - 1
      <4>1. IsFiniteSet(FreeSlots(d, v, t))
        BY FreeFinite
      <4>2. Cardinality(FreeSlots(d, v, t) \ {s}) = Cardinality(FreeSlots(d, v, t)) - 1
        BY <3>8, <4>1, FS_RemoveElement
      <4> QED
        BY <3>8, <4>2
    <3>10. Queue(d, v, t) # {}
      BY <2>3, <2>11 DEF Queue
    <3>11. Cardinality(FreeSlots(e, v, t)) <= m - 1
      BY <3>9, <3>10, FreeFinite DEF Room
    <3> QED
      BY <2>11, <3>11 DEF Room, e
  <2> QED
    BY <2>10, <2>11
<1>2. CASE ready = {}
  <2>1. e = d
    BY <1>2 DEF Promote
  <2>2. ASSUME x = v, y = t, m > 0 PROVE Room(d, v, t, m - 1)
    <3>1. CASE Queue(d, v, t) = {}
      BY <3>1 DEF Room
    <3>2. CASE Queue(d, v, t) # {}
      <4>1. PICK a \in Best(d, v, t) : TRUE
        BY <3>2, BestExists
      <4>2. a \in Queue(d, v, t) /\ ~(voyages[v] # "none" /\ Fits(d, a))
        BY <1>2, <2>2, <4>1 DEF Best
      <4>3. /\ a \in DOMAIN d.bookings
            /\ d.bookings[a].voyage = v
            /\ d.bookings[a].slotType = t
        BY <4>2 DEF Queue, Sound, Waitlisted
      <4>4. d.bookings[a].qty = 1 /\ voyages[v] # "none"
        BY <4>3 DEF Singles, Sailing
      <4>5. ~ (1 <= Cardinality(FreeSlots(d, v, t)))
        BY <4>2, <4>3, <4>4 DEF Fits
      <4>6. Cardinality(FreeSlots(d, v, t)) <= m - 1
        BY <2>2, <4>5, FreeFinite
      <4> QED
        BY <4>6 DEF Room
    <3> QED
      BY <3>1, <3>2
  <2> QED
    BY <2>1, <2>2
<1> QED
  BY <1>1, <1>2

\* As many promotions as the queue or the slots are long bring one of them to its
\* end, wherever in the order they come.
LEMMA PromotionsRoom ==
    ASSUME now \in 0 .. MaxTime, NEW n \in Nat, NEW d \in DataType(n), Sound(d), Sailing(d),
           NEW v, NEW t, Singles(d, v, t),
           NEW order, Len(order) \in Nat,
           Room(d, v, t, Cardinality({j \in 1 .. Len(order) :
                                        /\ d.bookings[order[j]].voyage = v
                                        /\ d.bookings[order[j]].slotType = t}))
    PROVE  Room(Promotions(d, order), v, t, 0)
<1> DEFINE Here(j) == /\ d.bookings[order[j]].voyage = v
                      /\ d.bookings[order[j]].slotType = t
           Rest(k) == {j \in k + 1 .. Len(order) : Here(j)}
<1>0. PICK f : Series(f, d, order) /\ Promotions(d, order) = f[Len(order)]
  BY PromotionsSeries
<1>1. /\ f[0] = d
      /\ \A k \in 1 .. Len(order) :
            f[k] = Promote(f[k - 1], d.bookings[order[k]].voyage,
                                     d.bookings[order[k]].slotType)
      /\ Promotions(d, order) = f[Len(order)]
  BY <1>0 DEF Series
<1>2. \A k \in Nat : IsFiniteSet(Rest(k)) /\ Cardinality(Rest(k)) \in Nat
  <2> SUFFICES ASSUME NEW k \in Nat PROVE IsFiniteSet(Rest(k)) /\ Cardinality(Rest(k)) \in Nat
    OBVIOUS
  <2>1. IsFiniteSet(k + 1 .. Len(order))
    <3>1. k + 1 \in Int /\ Len(order) \in Int
      OBVIOUS
    <3> HIDE DEF Rest, Here
    <3> QED
      BY ONLY <3>1, FS_Interval
  <2>2. Rest(k) \in SUBSET (k + 1 .. Len(order))
    OBVIOUS
  <2> HIDE DEF Rest
  <2> QED
    BY <2>1, <2>2, FS_Subset, FS_CardinalityType
<1> DEFINE Fine(k) == /\ f[k] \in DataType(n) /\ Sound(f[k]) /\ Advances(d, f[k])
                      /\ Room(f[k], v, t, Cardinality(Rest(k)))
           Bad == {k \in 0 .. Len(order) : ~Fine(k)}
<1>3. Fine(0)
  <2>1. Advances(d, d)
    BY DEF Advances, Stays, LeftInOrder
  <2>2. Rest(0) = {j \in 1 .. Len(order) : Here(j)}
    OBVIOUS
  <2> QED
    BY <1>1, <2>1, <2>2
<1>4. ASSUME NEW k \in 1 .. Len(order), Fine(k - 1) PROVE Fine(k)
  <2> DEFINE x == d.bookings[order[k]].voyage
             y == d.bookings[order[k]].slotType
             e == f[k - 1]
  <2>1. f[k] = Promote(e, x, y)
    BY <1>1
  <2>2. /\ e \in DataType(n) /\ Sound(e) /\ Advances(d, e)
        /\ Room(e, v, t, Cardinality(Rest(k - 1)))
    BY <1>4
  <2> HIDE DEF Fine, e
  <2>3. f[k] \in DataType(n) /\ Sound(f[k])
    BY <2>1, <2>2, PromoteSound
  <2>4. Advances(d, f[k])
    <3>1. Advances(e, Promote(e, x, y))
      BY <2>2, PromoteAdvances
    <3> QED
      BY <2>1, <2>2, <2>3, <3>1, AdvancesCompose
  <2>5. SameAsked(d, e)
    BY <2>2, AdvancesAsked
  <2>6. Sailing(e) /\ Singles(e, v, t)
    BY <2>5 DEF Sailing, Singles, SameAsked
  <2>7. k - 1 \in Nat /\ k \in Nat
    OBVIOUS
  <2>8. CASE Here(k)
    <3>1. Rest(k) = Rest(k - 1) \ {k} /\ k \in Rest(k - 1)
      BY <2>7, <2>8
    <3> HIDE DEF Rest, Here
    <3>2. Cardinality(Rest(k)) = Cardinality(Rest(k - 1)) - 1
      <4>1. IsFiniteSet(Rest(k - 1))
        BY <1>2, <2>7
      <4>2. Cardinality(Rest(k - 1) \ {k}) = Cardinality(Rest(k - 1)) - 1
        BY <3>1, <4>1, FS_RemoveElement
      <4> QED
        BY <3>1, <4>2
    <3>3. Cardinality(Rest(k - 1)) \in Nat /\ Cardinality(Rest(k - 1)) > 0
      BY <1>2, <2>7, <3>2
    <3>4. x = v /\ y = t
      BY <2>8 DEF Here
    <3>5. Room(Promote(e, x, y), v, t, Cardinality(Rest(k - 1)) - 1)
      BY <2>2, <2>6, <3>3, <3>4, PromoteRoom
    <3> QED
      BY <2>1, <2>3, <2>4, <3>2, <3>5 DEF Fine
  <2>9. CASE ~Here(k)
    <3>1. Rest(k) = Rest(k - 1)
      BY <2>7, <2>9
    <3> HIDE DEF Rest, Here
    <3>2. ~(x = v /\ y = t)
      BY <2>9 DEF Here
    <3>3. Cardinality(Rest(k - 1)) \in Nat
      BY <1>2, <2>7
    <3>4. Room(Promote(e, x, y), v, t, Cardinality(Rest(k - 1)))
      BY <2>2, <2>6, <3>2, <3>3, PromoteRoom
    <3> QED
      BY <2>1, <2>3, <2>4, <3>1, <3>4 DEF Fine
  <2> QED
    BY <2>8, <2>9
<1> HIDE DEF Fine
<1>5. Bad = {}
  <2> SUFFICES ASSUME Bad # {} PROVE FALSE
    OBVIOUS
  <2>1. Bad \in SUBSET Nat
    OBVIOUS
  <2>2. PICK m \in Bad : \A k \in Bad : m <= k
    <3> HIDE DEF Bad
    <3> QED
      BY <2>1, LeastNat
  <2>3. m \in 0 .. Len(order) /\ ~Fine(m)
    OBVIOUS
  <2>4. m # 0
    BY <1>3, <2>3
  <2>5. m - 1 \in 0 .. Len(order) /\ m \in 1 .. Len(order)
    BY <2>3, <2>4
  <2>6. Fine(m - 1)
    <3>1. m - 1 \notin Bad
      <4> HIDE DEF Bad
      <4> QED
        BY <2>2, <2>3, <2>5
    <3> QED
      BY <2>5, <3>1
  <2> QED
    BY <1>4, <2>3, <2>5, <2>6
<1>6. Fine(Len(order))
  <2>1. Len(order) \in 0 .. Len(order)
    OBVIOUS
  <2> QED
    BY <1>5, <2>1
<1>7. Rest(Len(order)) = {}
  OBVIOUS
<1> HIDE DEF Rest
<1> QED
  BY <1>1, <1>6, <1>7, FS_EmptySet DEF Fine

\* Bookings of single slots that leave make room for as many as they are: J counts
\* them.
LEMMA ReleaseRoom ==
    ASSUME NEW n \in Nat, NEW d \in DataType(n), Sound(d), Quotas(d),
           NEW v, NEW t, Singles(d, v, t), Room(d, v, t, 0),
           NEW out \in SUBSET (1 .. n), NEW st, NEW which,
           NEW J, IsFiniteSet(J), NEW g,
           \A b \in out : /\ d.bookings[b].voyage = v
                          /\ d.bookings[b].slotType = t
                          => \E j \in J : g[j] = b
    PROVE  Room(Release(d, out, st, which), v, t, Cardinality(J))
<1> DEFINE e == Release(d, out, st, which)
           newSlots == [s \in Slot |->
                          IF d.slots[s].holder \in out /\ d.slots[s].status \in which
                            THEN FreeSlot ELSE d.slots[s]]
<1>1. e.slots = newSlots
  BY DEF Release, DataType
<1>2. /\ DOMAIN e.bookings = DOMAIN d.bookings
      /\ e.waitlist = d.waitlist
      /\ \A b \in out : e.bookings[b] = [d.bookings[b] EXCEPT !.status = st]
      /\ \A b \in DOMAIN d.bookings \ out : Stays(d, e, b)
  BY ReleaseOnly
<1> HIDE DEF e
<1>3. ASSUME NEW b \in DOMAIN d.bookings
      PROVE  /\ e.bookings[b].voyage = d.bookings[b].voyage
             /\ e.bookings[b].slotType = d.bookings[b].slotType
  <2>1. d.bookings[b] \in BookingRecord
    BY DEF DataType
  <2>2. CASE b \in out
    BY <1>2, <2>1, <2>2 DEF BookingRecord
  <2>3. CASE b \notin out
    BY <1>2, <2>3 DEF Stays
  <2> QED
    BY <2>2, <2>3
<1>4. Queue(e, v, t) = Queue(d, v, t)
  <2>1. d.waitlist \subseteq DOMAIN d.bookings
    BY DEF Sound, Waitlisted
  <2> QED
    BY <1>2, <1>3, <2>1 DEF Queue
<1>5. CASE Queue(d, v, t) = {}
  BY <1>4, <1>5 DEF Room, e
<1>6. CASE Queue(d, v, t) # {}
  <2>1. FreeSlots(d, v, t) = {}
    BY <1>6, FreeFinite DEF Room
  <2> DEFINE F == FreeSlots(e, v, t)
  <2>2. ASSUME NEW s \in F
        PROVE  /\ s \in Slot /\ s[1] = v /\ SlotTypeOf(s) = t
               /\ d.slots[s].holder \in out
               /\ d.slots[s].status # "free"
    <3>1. s \in Slot /\ s[1] = v /\ SlotTypeOf(s) = t /\ newSlots[s].status = "free"
      BY <1>1 DEF FreeSlots
    <3>2. d.slots[s].status # "free"
      BY <2>1, <3>1 DEF FreeSlots
    <3> QED
      BY <3>1, <3>2
  <2>3. ASSUME NEW s \in F
        PROVE  \E j \in J : g[j] = d.slots[s].holder
    <3>1. HolderAskedFor(d, s)
      BY <2>2 DEF Sound, SlotsMatch
    <3> QED
      BY <2>2, <3>1 DEF HolderAskedFor
  <2>4. ASSUME NEW r \in F, NEW s \in F, d.slots[r].holder = d.slots[s].holder
        PROVE  r = s
    <3> DEFINE b == d.slots[s].holder
    <3>1. HolderAskedFor(d, s) /\ SlotAgrees(d, s) /\ b \in DOMAIN d.bookings
      BY <2>2 DEF Sound, SlotsMatch, DataType
    <3>2. d.bookings[b].qty = 1
      BY <2>2, <3>1 DEF HolderAskedFor, Singles
    <3>3. d.bookings[b].status \in Live
      <4>1. d.slots[s].status \in SlotStatus
        BY <2>2 DEF DataType
      <4> QED
        BY <2>2, <3>1, <4>1 DEF SlotAgrees, SlotStatus, Live, Paid
    <3>4. Cardinality(Holding(d, b)) = 1
      BY <3>1, <3>2, <3>3 DEF Quotas
    <3>5. r \in Holding(d, b) /\ s \in Holding(d, b)
      BY <2>2, <2>4 DEF Holding
    <3>6. IsFiniteSet(Holding(d, b))
      <4>1. Holding(d, b) \in SUBSET Slot
        BY DEF Holding
      <4>2. ASSUME NEW q \in Holding(d, b) PROVE q[1] = d.bookings[b].voyage
        <5>1. q \in Slot /\ d.slots[q].holder = b
          BY DEF Holding
        <5>2. SlotAgrees(d, q) /\ HolderAskedFor(d, q)
          BY <5>1 DEF Sound, SlotsMatch
        <5>3. b # NoBooking
          BY <3>1 DEF DataType, NoBooking
        <5> QED
          BY <5>1, <5>2, <5>3 DEF SlotAgrees, HolderAskedFor
      <4> QED
        BY <4>1, <4>2, SlotsFinite
    <3>7. PICK q : Holding(d, b) = {q}
      BY <3>4, <3>6, FS_Singleton
    <3> QED
      BY <3>5, <3>7
  <2> DEFINE h == [s \in F |-> CHOOSE j \in J : g[j] = d.slots[s].holder]
  <2>5. ASSUME NEW s \in F PROVE h[s] \in J /\ g[h[s]] = d.slots[s].holder
    BY <2>3
  <2> HIDE DEF F
  <2>6. h \in [F -> J] /\ \A r, s \in F : h[r] = h[s] => r = s
    <3>1. \A r, s \in F : h[r] = h[s] => r = s
      BY <2>4, <2>5
    <3>2. h \in [F -> J]
      BY <2>5
    <3> QED
      BY <3>1, <3>2
  <2> HIDE DEF h
  <2>7. h \in Injection(F, J)
    BY <2>6 DEF Injection, IsInjective
  <2>8. Cardinality(F) <= Cardinality(J)
    BY <2>7, FS_Injection
  <2> QED
    BY <2>8 DEF Room, F, e
<1> QED
  BY <1>5, <1>6

-----------------------------------------------------------------------------
\* No idle slot: what each operation does to queues and free slots.

\* What was asked for is the same through two steps.
LEMMA AskedTwice ==
    ASSUME NEW d, NEW e, NEW f, SameAsked(d, e), SameAsked(e, f)
    PROVE  SameAsked(d, f)
BY DEF SameAsked

\* What is said of what was asked for stays true.
LEMMA AskedSame ==
    ASSUME NEW d, NEW e, SameAsked(d, e)
    PROVE  /\ Sailing(d) => Sailing(e)
           /\ \A v, t : Singles(d, v, t) <=> Singles(e, v, t)
BY DEF SameAsked, Sailing, Singles

\* Bookings that leave have asked for what they had asked for.
LEMMA ReleaseAsked ==
    ASSUME NEW n \in Nat, NEW d \in DataType(n), NEW out \in SUBSET (1 .. n), NEW st, NEW which
    PROVE  SameAsked(d, Release(d, out, st, which))
<1> DEFINE e == Release(d, out, st, which)
<1>1. /\ DOMAIN e.bookings = DOMAIN d.bookings
      /\ \A b \in out : e.bookings[b] = [d.bookings[b] EXCEPT !.status = st]
      /\ \A b \in DOMAIN d.bookings \ out : Stays(d, e, b)
  BY ReleaseOnly
<1> HIDE DEF e
<1>2. ASSUME NEW b \in DOMAIN d.bookings
      PROVE  /\ e.bookings[b].voyage = d.bookings[b].voyage
             /\ e.bookings[b].slotType = d.bookings[b].slotType
             /\ e.bookings[b].qty = d.bookings[b].qty
  <2>1. d.bookings[b] \in BookingRecord
    BY DEF DataType
  <2>2. CASE b \in out
    BY <1>1, <2>1, <2>2 DEF BookingRecord
  <2>3. CASE b \notin out
    BY <1>1, <2>3 DEF Stays
  <2> QED
    BY <2>2, <2>3
<1> QED
  BY <1>1, <1>2 DEF SameAsked, e

\* A promotion too many does no harm.
LEMMA PromoteKeepsRoom ==
    ASSUME now \in 0 .. MaxTime, NEW n \in Nat, NEW d \in DataType(n), Sound(d), Sailing(d),
           NEW v, NEW t, Singles(d, v, t), Room(d, v, t, 0), NEW x, NEW y
    PROVE  Room(Promote(d, x, y), v, t, 0)
<1>1. CASE x = v /\ y = t
  <2>1. Room(d, v, t, 1)
    BY FreeFinite DEF Room
  <2>2. Room(Promote(d, x, y), v, t, 1 - 1)
    BY <1>1, <2>1, PromoteRoom
  <2> QED
    BY <2>2
<1>2. CASE ~(x = v /\ y = t)
  BY <1>2, PromoteRoom
<1> QED
  BY <1>1, <1>2

\* One booking that leaves, one promotion.
LEMMA OneLeavesRoom ==
    ASSUME now \in 0 .. MaxTime,
           NEW n \in Nat, NEW d \in DataType(n), Sound(d), Quotas(d), Sailing(d),
           NEW v, NEW t, Singles(d, v, t), Room(d, v, t, 0),
           NEW b \in 1 .. n, NEW st, NEW which,
           Release(d, {b}, st, which) \in DataType(n), Sound(Release(d, {b}, st, which))
    PROVE  Room(Promote(Release(d, {b}, st, which),
                        d.bookings[b].voyage, d.bookings[b].slotType), v, t, 0)
<1> DEFINE e == Release(d, {b}, st, which)
           x == d.bookings[b].voyage
           y == d.bookings[b].slotType
<1>1. SameAsked(d, e)
  BY ReleaseAsked
<1>2. Sailing(e) /\ Singles(e, v, t)
  BY <1>1, AskedSame
<1>3. CASE x = v /\ y = t
  <2>1. IsFiniteSet({b}) /\ Cardinality({b}) = 1
    BY FS_Singleton
  <2> DEFINE g == [j \in {b} |-> j]
  <2>2. \A c \in {b} : \E j \in {b} : g[j] = c
    OBVIOUS
  <2> HIDE DEF g
  <2>3. Room(e, v, t, Cardinality({b}))
    BY <2>1, <2>2, ReleaseRoom
  <2>4. Room(e, v, t, 1)
    BY <2>1, <2>3
  <2> HIDE DEF e
  <2>5. Room(Promote(e, x, y), v, t, 1 - 1)
    BY <1>2, <1>3, <2>4, PromoteRoom DEF e
  <2> QED
    BY <2>5 DEF e
<1>4. CASE ~(x = v /\ y = t)
  <2>1. IsFiniteSet({}) /\ Cardinality({}) = 0
    BY FS_EmptySet
  <2> DEFINE g == [j \in {} |-> j]
  <2>2. \A c \in {b} : d.bookings[c].voyage = v /\ d.bookings[c].slotType = t
                          => \E j \in {} : g[j] = c
    BY <1>4
  <2> HIDE DEF g
  <2>3. Room(e, v, t, Cardinality({}))
    BY <2>1, <2>2, ReleaseRoom
  <2>4. Room(e, v, t, 0)
    BY <2>1, <2>3
  <2> HIDE DEF e
  <2> QED
    BY <1>2, <1>4, <2>4, PromoteRoom DEF e
<1> QED
  BY <1>3, <1>4

\* The order of a pass names every booking that is overdue.
LEMMA OrderIsComplete ==
    ASSUME counter \in Nat, DOMAIN bookings = 1 .. counter, NEW order \in SetToSeqs(Overdue)
    PROVE  \A b \in Overdue : \E j \in 1 .. Len(order) : order[j] = b
<1>1. IsFiniteSet(Overdue) /\ Cardinality(Overdue) \in Nat
  <2>1. IsFiniteSet(1 .. counter)
    BY FS_Interval
  <2>2. Overdue \in SUBSET (1 .. counter)
    BY DEF Overdue
  <2> QED
    BY <2>1, <2>2, FS_Subset, FS_CardinalityType
<1> DEFINE N == Cardinality(Overdue)
<1>2. order \in [1 .. N -> Overdue] /\ IsInjective(order)
  BY DEF SetToSeqs, IsInjective
<1>3. Len(order) = N
  BY <1>1, <1>2
<1>4. order \in Injection(1 .. N, Overdue)
  BY <1>2 DEF Injection
<1>5. IsFiniteSet(1 .. N) /\ Cardinality(1 .. N) = N
  BY <1>1, FS_Interval
<1>6. order \in Surjection(1 .. N, Overdue)
  BY <1>1, <1>4, <1>5, FS_Injection
<1> QED
  BY <1>3, <1>6 DEF Surjection

-----------------------------------------------------------------------------
\* No idle slot: the invariant.

Roomy(d) == \A v \in Voyage, t \in SlotType : Singles(d, v, t) => Room(d, v, t, 0)

\* Where single slots are asked for, the queue is empty or no slot is free.
NInv == QInv /\ Sailing(Data) /\ Roomy(Data)

\* What the invariant gives the proofs of the steps.
LEMMA NInvGives ==
    ASSUME NInv
    PROVE  /\ Data \in DataType(counter) /\ Sound(Data) /\ Quotas(Data) /\ Sailing(Data)
           /\ Roomy(Data)
           /\ counter \in Nat /\ now \in 0 .. MaxTime /\ DOMAIN bookings = 1 .. counter
           /\ IInv /\ QInv
BY DataIsSound DEF NInv, QInv, IInv, TypeOK, HoldsItsQuota

\* A step that commits data with the same requests, and room where there was room.
LEMMA CommitRoom ==
    ASSUME NInv, NEW e \in DataType(counter), Commit(e), voyages' = voyages,
           SameAsked(Data, e),
           \A v \in Voyage, t \in SlotType : Singles(Data, v, t) => Room(e, v, t, 0)
    PROVE  Sailing(Data)' /\ Roomy(Data)'
<1>1. Data' = e
  BY DataNext
<1>2. Sailing(e) /\ \A v, t : Singles(Data, v, t) <=> Singles(e, v, t)
  BY AskedSame, NInvGives
<1>3. Sailing(Data)'
  BY <1>1, <1>2 DEF Sailing
<1>4. Roomy(e)
  BY <1>2 DEF Roomy
<1> QED
  BY <1>1, <1>3, <1>4

\* A step that leaves slots, bookings and waitlist alone.
LEMMA IdleRoom ==
    ASSUME NInv, UNCHANGED <<slots, bookings, waitlist>>,
           \A v \in Voyage : voyages[v] # "none" => voyages'[v] # "none"
    PROVE  Sailing(Data)' /\ Roomy(Data)'
<1>1. Data' = Data
  BY DEF Data
<1>2. \A b \in DOMAIN Data.bookings : Data.bookings[b].voyage \in Voyage
  BY NInvGives DEF DataType, BookingRecord
<1>3. \A b \in DOMAIN Data.bookings : voyages'[Data.bookings[b].voyage] # "none"
  BY <1>2, NInvGives DEF Sailing
<1>4. Sailing(Data)'
  BY <1>1, <1>3 DEF Sailing
<1>5. Roomy(Data)'
  BY <1>1, NInvGives
<1> QED
  BY <1>4, <1>5

\* A cancellation promotes once, and that is enough.
LEMMA CancelRoom ==
    ASSUME NInv, NEW b, Cancel(b)
    PROVE  Sailing(Data)' /\ Roomy(Data)'
<1> DEFINE d == Release(Data, {b}, "cancelled", SlotStatus)
           x == bookings[b].voyage
           y == bookings[b].slotType
           e == Promote(d, x, y)
<1>1. /\ Data \in DataType(counter) /\ Sound(Data) /\ Quotas(Data) /\ Sailing(Data)
      /\ Roomy(Data) /\ counter \in Nat /\ now \in 0 .. MaxTime
      /\ b \in 1 .. counter /\ {b} \in SUBSET (1 .. counter)
      /\ bookings[b].status # "waitlisted"
      /\ x = Data.bookings[b].voyage /\ y = Data.bookings[b].slotType
  BY NInvGives DEF Cancel, Known, Data
<1>2. \A s \in Slot : Data.slots[s].status \in SlotStatus
  BY <1>1 DEF DataType
<1>3. \A a \in {b} : Data.bookings[a].status # "waitlisted"
  BY <1>1 DEF Data
<1>4. d \in DataType(counter) /\ Sound(d)
  BY <1>1, <1>2, <1>3, ReleaseSound
<1>5. SameAsked(Data, d)
  BY <1>1, ReleaseAsked
<1>6. ASSUME NEW v \in Voyage, NEW t \in SlotType, Singles(Data, v, t)
      PROVE  Room(e, v, t, 0)
  <2>1. Room(Data, v, t, 0)
    BY <1>1, <1>6 DEF Roomy
  <2>2. Room(Promote(d, Data.bookings[b].voyage, Data.bookings[b].slotType), v, t, 0)
    BY <1>1, <1>4, <1>6, <2>1, OneLeavesRoom
  <2> QED
    BY <1>1, <2>2
<1>7. Commit(e) /\ voyages' = voyages
  BY DEF Cancel
<1> HIDE DEF d
<1>8. e \in DataType(counter) /\ Advances(d, e)
  BY <1>1, <1>4, PromoteSound, PromoteAdvances
<1> HIDE DEF e
<1>9. SameAsked(d, e)
  BY <1>4, <1>8, AdvancesAsked
<1>10. SameAsked(Data, e)
  BY <1>5, <1>9, AskedTwice
<1> QED
  BY <1>6, <1>7, <1>8, <1>10, CommitRoom

\* So does a payment that comes too late.
LEMMA PayLateRoom ==
    ASSUME NInv, NEW b, PayLate(b)
    PROVE  Sailing(Data)' /\ Roomy(Data)'
<1> DEFINE d == Release(Data, {b}, "released", {"frozen"})
           x == bookings[b].voyage
           y == bookings[b].slotType
           e == Promote(d, x, y)
<1>1. /\ Data \in DataType(counter) /\ Sound(Data) /\ Quotas(Data) /\ Sailing(Data)
      /\ Roomy(Data) /\ counter \in Nat /\ now \in 0 .. MaxTime /\ IInv
      /\ b \in 1 .. counter /\ {b} \in SUBSET DOMAIN bookings /\ {b} \in SUBSET (1 .. counter)
      /\ bookings[b].status = "frozen"
      /\ x = Data.bookings[b].voyage /\ y = Data.bookings[b].slotType
  BY NInvGives DEF PayLate, Known, Expired, Data
<1>2. d = ReleaseFrozen(Data, {b})
  BY DEF ReleaseFrozen
<1>3. d \in DataType(counter) /\ Sound(d)
  BY <1>1, <1>2, ReleaseFrozenSound
<1>4. SameAsked(Data, d)
  BY <1>1, ReleaseAsked
<1>5. ASSUME NEW v \in Voyage, NEW t \in SlotType, Singles(Data, v, t)
      PROVE  Room(e, v, t, 0)
  <2>1. Room(Data, v, t, 0)
    BY <1>1, <1>5 DEF Roomy
  <2>2. Room(Promote(d, Data.bookings[b].voyage, Data.bookings[b].slotType), v, t, 0)
    BY <1>1, <1>3, <1>5, <2>1, OneLeavesRoom
  <2> QED
    BY <1>1, <2>2
<1>6. Commit(e) /\ voyages' = voyages
  BY <1>2 DEF PayLate
<1> HIDE DEF d
<1>7. e \in DataType(counter) /\ Advances(d, e)
  BY <1>1, <1>3, PromoteSound, PromoteAdvances
<1> HIDE DEF e
<1>8. SameAsked(d, e)
  BY <1>3, <1>7, AdvancesAsked
<1>9. SameAsked(Data, e)
  BY <1>4, <1>8, AskedTwice
<1> QED
  BY <1>5, <1>6, <1>7, <1>9, CommitRoom

\* A pass of the scheduler promotes once for each booking it releases, in an order
\* that has nothing to do with where the slots came free: that is enough as well.
LEMMA ReconcileRoom ==
    ASSUME NInv, ReconcileExpired
    PROVE  Sailing(Data)' /\ Roomy(Data)'
<1> DEFINE d == Release(Data, Overdue, "released", {"frozen"})
<1>1. /\ Data \in DataType(counter) /\ Sound(Data) /\ Quotas(Data) /\ Sailing(Data)
      /\ Roomy(Data) /\ counter \in Nat /\ now \in 0 .. MaxTime /\ IInv
      /\ DOMAIN bookings = 1 .. counter /\ Overdue \in SUBSET DOMAIN bookings
      /\ \A b \in Overdue : bookings[b].status = "frozen"
  BY NInvGives DEF Overdue, Expired
<1>2. d = ReleaseFrozen(Data, Overdue)
  BY DEF ReleaseFrozen
<1>3. d \in DataType(counter) /\ Sound(d)
  BY <1>1, <1>2, ReleaseFrozenSound
<1>4. SameAsked(Data, d) /\ Overdue \in SUBSET (1 .. counter)
  BY <1>1, ReleaseAsked
<1>5. PICK order \in SetToSeqs(Overdue) : Commit(Promotions(d, order))
  BY <1>2 DEF ReconcileExpired
<1>6. Len(order) \in Nat /\ \A b \in Overdue : \E j \in 1 .. Len(order) : order[j] = b
  BY <1>1, <1>5, OrderHasLength, OrderIsComplete
<1>7. \A j \in 1 .. Len(order) : order[j] \in Overdue
  <2>1. order \in [1 .. Cardinality(Overdue) -> Overdue]
    BY <1>5 DEF SetToSeqs
  <2>2. IsFiniteSet(Overdue)
    BY <1>1, <1>4, FS_Interval, FS_Subset
  <2>3. Len(order) = Cardinality(Overdue)
    BY <2>1, <2>2, FS_CardinalityType
  <2> QED
    BY <2>1, <2>3
<1> DEFINE e == Promotions(d, order)
<1>8. Sailing(d) /\ \A v, t : Singles(Data, v, t) <=> Singles(d, v, t)
  BY <1>1, <1>4, AskedSame
<1>9. ASSUME NEW v \in Voyage, NEW t \in SlotType, Singles(Data, v, t)
      PROVE  Room(e, v, t, 0)
  <2> DEFINE J == {j \in 1 .. Len(order) : /\ d.bookings[order[j]].voyage = v
                                           /\ d.bookings[order[j]].slotType = t}
  <2>1. Room(Data, v, t, 0)
    BY <1>1, <1>9 DEF Roomy
  <2>2. IsFiniteSet(J)
    <3>1. IsFiniteSet(1 .. Len(order)) /\ J \in SUBSET (1 .. Len(order))
      BY <1>6, FS_Interval
    <3> HIDE DEF J
    <3> QED
      BY <3>1, FS_Subset
  <2>3. \A b \in Overdue : /\ Data.bookings[b].voyage = v
                           /\ Data.bookings[b].slotType = t
                           => \E j \in J : order[j] = b
    <3> SUFFICES ASSUME NEW b \in Overdue, Data.bookings[b].voyage = v,
                        Data.bookings[b].slotType = t
                 PROVE  \E j \in J : order[j] = b
      OBVIOUS
    <3>1. PICK j \in 1 .. Len(order) : order[j] = b
      BY <1>6
    <3>2. b \in DOMAIN Data.bookings
      BY <1>1 DEF Data
    <3>3. d.bookings[b].voyage = v /\ d.bookings[b].slotType = t
      BY <1>4, <3>2 DEF SameAsked
    <3> QED
      BY <3>1, <3>3
  <2> HIDE DEF J
  <2>4. Room(d, v, t, Cardinality(J))
    <3>1. /\ Data \in DataType(counter) /\ Sound(Data) /\ Quotas(Data) /\ counter \in Nat
          /\ Overdue \in SUBSET (1 .. counter)
      BY <1>1, <1>4
    <3> QED
      BY <3>1, <1>9, <2>1, <2>2, <2>3, ReleaseRoom
  <2> HIDE DEF d
  <2>5. Singles(d, v, t)
    BY <1>8, <1>9
  <2> QED
    BY <1>1, <1>3, <1>6, <1>8, <2>4, <2>5, PromotionsRoom DEF J
<1> HIDE DEF d
<1>10. e \in DataType(counter) /\ Advances(d, e)
  BY <1>1, <1>3, <1>6, PromotionsSound, PromotionsAdvance
<1> HIDE DEF e
<1>11. SameAsked(d, e)
  BY <1>3, <1>10, AdvancesAsked
<1>12. SameAsked(Data, e)
  BY <1>4, <1>11, AskedTwice
<1>13. Commit(e) /\ voyages' = voyages
  BY <1>5 DEF ReconcileExpired, e
<1> QED
  BY <1>9, <1>10, <1>12, <1>13, CommitRoom

\* The exported promotion promotes.
LEMMA PromoteWaitlistRoom ==
    ASSUME NInv, NEW x, NEW y, PromoteWaitlist(x, y)
    PROVE  Sailing(Data)' /\ Roomy(Data)'
<1> DEFINE e == Promote(Data, x, y)
<1>1. e \in DataType(counter) /\ Advances(Data, e)
  BY NInvGives, PromoteSound, PromoteAdvances
<1>2. ASSUME NEW v \in Voyage, NEW t \in SlotType, Singles(Data, v, t)
      PROVE  Room(e, v, t, 0)
  BY <1>2, NInvGives, PromoteKeepsRoom DEF Roomy
<1>3. Commit(e) /\ voyages' = voyages
  BY DEF PromoteWaitlist
<1> HIDE DEF e
<1>4. SameAsked(Data, e)
  BY <1>1, NInvGives, AdvancesAsked
<1> QED
  BY <1>1, <1>2, <1>3, <1>4, CommitRoom

\* Payment frees no slot and takes nobody off the waitlist.
LEMMA PayInTimeRoom ==
    ASSUME NInv, NEW b, PayInTime(b)
    PROVE  Sailing(Data)' /\ Roomy(Data)'
<1>1. /\ Data \in DataType(counter) /\ Sound(Data) /\ Sailing(Data) /\ Roomy(Data)
      /\ DOMAIN bookings = 1 .. counter /\ TypeOK
      /\ b \in DOMAIN bookings
  BY NInvGives DEF PayInTime, Known, IInv
<1>2. /\ DOMAIN bookings' = DOMAIN bookings
      /\ \A x \in DOMAIN bookings :
            /\ bookings'[x].voyage = bookings[x].voyage
            /\ bookings'[x].slotType = bookings[x].slotType
            /\ bookings'[x].qty = bookings[x].qty
  BY <1>1 DEF PayInTime, TypeOK, BookingRecord
<1>3. waitlist' = waitlist /\ voyages' = voyages
  BY DEF PayInTime
<1>4. \A s \in Slot : slots'[s].status = "free" <=> slots[s].status = "free"
  BY <1>1 DEF PayInTime, TypeOK
<1>5. ASSUME NEW v, NEW t PROVE FreeSlots(Data', v, t) = FreeSlots(Data, v, t)
  BY <1>4 DEF FreeSlots, Data
<1>6. waitlist \subseteq DOMAIN bookings
  BY <1>1 DEF TypeOK
<1>7. ASSUME NEW v, NEW t PROVE Queue(Data', v, t) = Queue(Data, v, t)
  BY <1>2, <1>3, <1>6 DEF Queue, Data
<1>8. SameAsked(Data, Data')
  BY <1>2 DEF SameAsked, Data
<1>9. Sailing(Data') /\ \A v, t : Singles(Data, v, t) <=> Singles(Data', v, t)
  BY <1>1, <1>8, AskedSame
<1>10. Sailing(Data)'
  BY <1>3, <1>9 DEF Sailing
<1>11. Roomy(Data')
  BY <1>1, <1>5, <1>7, <1>9 DEF Roomy, Room
<1> QED
  BY <1>10, <1>11

\* What a new booking makes of the store.
LEMMA CreateBookingMakes ==
    ASSUME IInv, NEW r \in Request, CreateBooking(r)
    PROVE  LET b == counter + 1
           IN  /\ DOMAIN bookings' = 1 .. b
               /\ \A x \in 1 .. counter : bookings'[x] = bookings[x]
               /\ bookings'[b].voyage = r.voyage
               /\ bookings'[b].slotType = r.slotType
               /\ bookings'[b].qty = r.qty
               /\ \A s \in Slot : slots'[s].status = "free" => slots[s].status = "free"
               /\ \/ /\ waitlist' = waitlist
                     /\ bookings'[b].status = "frozen"
                     /\ bookings'[b].frozenAt = now
                  \/ /\ waitlist' = waitlist \cup {b}
                     /\ bookings'[b].status = "waitlisted"
                     /\ slots' = slots
                     /\ ~(r.qty <= Cardinality(FreeSlots(Data, r.voyage, r.slotType)))
<1> DEFINE b == counter + 1
           new(st) == [cargo |-> r.cargo, voyage |-> r.voyage,
                       slotType |-> r.slotType, qty |-> r.qty, key |-> r.key,
                       status |-> st, submitTime |-> now, frozenAt |-> 0]
           made(st) == [x \in 1 .. b |-> IF x = b THEN new(st) ELSE bookings[x]]
<1>1. counter \in Nat
  BY DataIsSound
<1>2. \A st : /\ Enter(b, r, st).bookings = made(st)
              /\ Enter(b, r, st).slots = slots
              /\ Enter(b, r, st).waitlist = waitlist
  BY DEF Enter, Data
<1>3. \A x \in 1 .. counter : x # b /\ x \in 1 .. b
  BY <1>1
<1>4. CASE Fits(Enter(b, r, "pending"), b) /\ Commit(Freeze(Enter(b, r, "pending"), b))
  <2> DEFINE d      == Enter(b, r, "pending")
             bk     == d.bookings[b]
             chosen == First(bk.qty, FreeSlots(d, bk.voyage, bk.slotType))
             g      == made("pending")
             f      == [g EXCEPT ![b].status = "frozen", ![b].frozenAt = now]
  <2>1. /\ slots' = [s \in Slot |-> IF s \in chosen
                                       THEN [status |-> "frozen", holder |-> b]
                                       ELSE d.slots[s]]
        /\ bookings' = [d.bookings EXCEPT ![b].status = "frozen", ![b].frozenAt = now]
        /\ waitlist' = d.waitlist
    BY <1>4 DEF Commit, Freeze, Enter, Data
  <2>2. d.slots = slots /\ d.bookings = g /\ d.waitlist = waitlist
    BY <1>2
  <2>3. DOMAIN f = 1 .. b /\ \A x \in 1 .. counter : f[x] = bookings[x]
    BY <1>3
  <2>4. /\ f[b].voyage = r.voyage /\ f[b].slotType = r.slotType /\ f[b].qty = r.qty
        /\ f[b].status = "frozen" /\ f[b].frozenAt = now
    BY <1>1
  <2>5. bookings' = f
    BY <2>1, <2>2
  <2> HIDE DEF f, g, d, bk, chosen
  <2>6. \A s \in Slot : slots'[s].status = "free" => slots[s].status = "free"
    BY <2>1, <2>2
  <2> QED
    BY <2>1, <2>2, <2>3, <2>4, <2>5, <2>6
<1>5. CASE /\ ~Fits(Enter(b, r, "pending"), b)
           /\ Commit([Enter(b, r, "waitlisted") EXCEPT !.waitlist = @ \cup {b}])
  <2>1. slots' = slots /\ bookings' = made("waitlisted") /\ waitlist' = waitlist \cup {b}
    BY <1>2, <1>5 DEF Commit, Enter, Data
  <2>2. /\ DOMAIN made("waitlisted") = 1 .. b
        /\ \A x \in 1 .. counter : made("waitlisted")[x] = bookings[x]
        /\ made("waitlisted")[b].voyage = r.voyage
        /\ made("waitlisted")[b].slotType = r.slotType
        /\ made("waitlisted")[b].qty = r.qty
        /\ made("waitlisted")[b].status = "waitlisted"
    BY <1>1, <1>3
  <2>3. ~(r.qty <= Cardinality(FreeSlots(Data, r.voyage, r.slotType)))
    <3> DEFINE d == Enter(b, r, "pending")
    <3>1. d.bookings[b].qty = r.qty /\ d.bookings[b].voyage = r.voyage
          /\ d.bookings[b].slotType = r.slotType /\ d.slots = slots
      <4>1. d.bookings = made("pending") /\ d.slots = slots
        BY <1>2
      <4>2. made("pending")[b] = new("pending")
        BY <1>1
      <4> HIDE DEF d, made
      <4> QED
        BY <4>1, <4>2
    <3> HIDE DEF d
    <3>2. FreeSlots(d, r.voyage, r.slotType) = FreeSlots(Data, r.voyage, r.slotType)
      BY <3>1 DEF FreeSlots, Data
    <3>3. ~Fits(d, b)
      BY <1>5 DEF d
    <3> QED
      BY <3>1, <3>2, <3>3 DEF Fits
  <2> HIDE DEF made
  <2> QED
    BY <2>1, <2>2, <2>3
<1> QED
  BY <1>4, <1>5 DEF CreateBooking

\* A new booking takes from the free slots, or waits because there are none.
LEMMA CreateBookingRoom ==
    ASSUME NInv, NEW r \in Request, CreateBooking(r)
    PROVE  Sailing(Data)' /\ Roomy(Data)'
<1> DEFINE b == counter + 1
<1>1. /\ Sailing(Data) /\ Roomy(Data) /\ counter \in Nat /\ DOMAIN bookings = 1 .. counter
      /\ waitlist \subseteq 1 .. counter
      /\ r.qty \in Nat /\ voyages[r.voyage] # "none" /\ voyages' = voyages
  <2>1. TypeOK /\ r.qty \in Nat /\ Admissible(r) /\ voyages' = voyages
    BY NInvGives, RequestAssumption DEF CreateBooking, IInv, BookingRequest, Admissible
  <2> QED
    BY <2>1, NInvGives DEF TypeOK, Admissible
<1>2. /\ DOMAIN bookings' = 1 .. b
      /\ \A x \in 1 .. counter : bookings'[x] = bookings[x]
      /\ bookings'[b].voyage = r.voyage
      /\ bookings'[b].slotType = r.slotType
      /\ bookings'[b].qty = r.qty
      /\ \A s \in Slot : slots'[s].status = "free" => slots[s].status = "free"
      /\ \/ waitlist' = waitlist
         \/ /\ waitlist' = waitlist \cup {b}
            /\ slots' = slots
            /\ ~(r.qty <= Cardinality(FreeSlots(Data, r.voyage, r.slotType)))
  BY NInvGives, CreateBookingMakes
<1>3. b \in 1 .. b /\ \A x \in 1 .. b : x \in 1 .. counter \/ x = b
  BY <1>1
<1>4. \A x \in 1 .. counter : x \in 1 .. b
  BY <1>1
<1> HIDE DEF b
<1>5. Sailing(Data)'
  <2>1. \A x \in 1 .. counter : voyages[bookings[x].voyage] # "none"
    BY <1>1 DEF Sailing, Data
  <2> QED
    BY <1>1, <1>2, <1>3, <2>1 DEF Sailing, Data
<1>6. ASSUME NEW v \in Voyage, NEW t \in SlotType, Singles(Data', v, t)
      PROVE  Room(Data', v, t, 0)
  <2>1. Singles(Data, v, t)
    BY <1>1, <1>2, <1>4, <1>6 DEF Singles, Data
  <2>2. Room(Data, v, t, 0)
    BY <1>1, <2>1 DEF Roomy
  <2>3. FreeSlots(Data', v, t) \in SUBSET FreeSlots(Data, v, t)
    BY <1>2 DEF FreeSlots, Data
  <2>4. Cardinality(FreeSlots(Data', v, t)) <= Cardinality(FreeSlots(Data, v, t))
    BY <2>3, FreeFinite, FS_Subset
  <2>5. CASE Queue(Data', v, t) = Queue(Data, v, t)
    BY <2>2, <2>4, <2>5, FreeFinite DEF Room
  <2>6. CASE Queue(Data', v, t) # Queue(Data, v, t)
    <3>1. waitlist' # waitlist
      BY <1>1, <1>2, <2>6 DEF Queue, Data
    <3>2. waitlist' = waitlist \cup {b} /\ slots' = slots
          /\ ~(r.qty <= Cardinality(FreeSlots(Data, r.voyage, r.slotType)))
      BY <1>2, <3>1
    <3>3. r.voyage = v /\ r.slotType = t
      <4> SUFFICES ASSUME ~(r.voyage = v /\ r.slotType = t) PROVE FALSE
        OBVIOUS
      <4> QED
        BY <1>1, <1>2, <2>6, <3>2 DEF Queue, Data
    <3>4. r.qty = 1
      BY <1>2, <1>3, <1>6, <3>3 DEF Singles, Data
    <3>5. ~(1 <= Cardinality(FreeSlots(Data, v, t)))
      BY <3>2, <3>3, <3>4
    <3>6. Cardinality(FreeSlots(Data', v, t)) <= 0
      BY <3>5, <2>4, FreeFinite
    <3> QED
      BY <3>6 DEF Room
  <2> QED
    BY <2>5, <2>6
<1>7. Roomy(Data')
  BY <1>6 DEF Roomy
<1> QED
  BY <1>5, <1>7

\* Every step of the service keeps the invariant.
LEMMA NextRoom == NInv /\ [Next]_vars => NInv'
<1> SUFFICES ASSUME NInv, [Next]_vars PROVE NInv'
  OBVIOUS
<1> DEFINE Kept == Sailing(Data)' /\ Roomy(Data)'
<1>1. QInv'
  BY NInvGives, NextQuota
<1>2. ASSUME UNCHANGED <<slots, bookings, waitlist, voyages>> PROVE Kept
  BY <1>2, IdleRoom
<1>3. ASSUME Tick \/ UNCHANGED vars PROVE Kept
  BY <1>2, <1>3 DEF Tick, vars
<1>4. ASSUME NEW c \in CargoId, CreateCargo(c) \/ ConfirmTemp(c) PROVE Kept
  BY <1>2, <1>4 DEF CreateCargo, ConfirmTemp
<1>5. ASSUME NEW v \in Voyage, CreateVoyage(v) PROVE Kept
  <2>1. \A x \in Voyage : voyages[x] # "none" => voyages'[x] # "none"
    <3>1. voyages \in [Voyage -> VoyageStatus \cup {"none"}]
      BY NInvGives DEF IInv, TypeOK
    <3> QED
      BY <1>5, <3>1 DEF CreateVoyage
  <2> QED
    BY <1>5, <2>1, IdleRoom DEF CreateVoyage
<1>6. ASSUME NEW r \in Request, CreateBooking(r) PROVE Kept
  BY <1>6, CreateBookingRoom
<1>7. ASSUME NEW b, PayInTime(b) PROVE Kept
  BY <1>7, PayInTimeRoom
<1>8. ASSUME NEW b, PayLate(b) PROVE Kept
  BY <1>8, PayLateRoom
<1>9. ASSUME NEW b, Cancel(b) PROVE Kept
  BY <1>9, CancelRoom
<1>10. ASSUME NEW v, NEW t, PromoteWaitlist(v, t) PROVE Kept
  BY <1>10, PromoteWaitlistRoom
<1>11. ASSUME ReconcileExpired PROVE Kept
  BY <1>11, ReconcileRoom
<1>12. Kept
  <2> HIDE DEF Kept
  <2>1. CASE ServiceCall
    BY <2>1, <1>4, <1>5, <1>6, <1>7, <1>8, <1>9, <1>10 DEF ServiceCall
  <2> QED
    BY <2>1, <1>3, <1>11 DEF Next
<1> QED
  BY <1>1, <1>12 DEF NInv

\* With no room left, the head of the queue does not fit.
LEMMA RoomMeansNoIdle == NInv => NoIdleSlot
<1> SUFFICES ASSUME NInv, NEW v \in Voyage, NEW t \in SlotType, SinglesOnly(v, t),
                    NEW b \in Best(Data, v, t), Fits(Data, b)
             PROVE  FALSE
  BY DEF NoIdleSlot
<1>1. Data.waitlist \subseteq DOMAIN Data.bookings /\ Roomy(Data)
  BY NInvGives DEF Sound, Waitlisted
<1>2. b \in Queue(Data, v, t) /\ b \in DOMAIN Data.bookings
      /\ Data.bookings[b].voyage = v /\ Data.bookings[b].slotType = t
  BY <1>1 DEF Best, Queue
<1>3. Singles(Data, v, t)
  BY DEF SinglesOnly, Singles, Data
<1>4. Data.bookings[b].qty = 1
  BY <1>2, <1>3 DEF Singles
<1>5. Cardinality(FreeSlots(Data, v, t)) <= 0
  BY <1>1, <1>2, <1>3 DEF Roomy, Room
<1>6. 1 <= Cardinality(FreeSlots(Data, v, t))
  BY <1>2, <1>4 DEF Fits
<1> QED
  BY <1>5, <1>6, FreeFinite

\* Where single slots are asked for, no slot is ever free beside a queue: a pass
\* that frees several promotes as many, whatever order the map hands them out in,
\* and a promotion spent on another voyage is never missing here.
THEOREM NeverIdle == Spec => []NoIdleSlot
<1>1. Init => NInv
  <2> SUFFICES ASSUME Init PROVE NInv
    OBVIOUS
  <2>1. QInv
    BY InitQuota
  <2>2. Sailing(Data)
    BY DEF Init, Sailing, Data
  <2>3. \A v, t : Queue(Data, v, t) = {}
    BY DEF Init, Queue, Data
  <2>4. Roomy(Data)
    BY <2>3 DEF Roomy, Room
  <2> QED
    BY <2>1, <2>2, <2>4 DEF NInv
<1>2. Spec => Init /\ [][Next]_vars
  BY DEF Spec
<1> QED
  BY <1>1, <1>2, NextRoom, RoomMeansNoIdle, PTL
=============================================================================
