---------------------------- MODULE BookingProofs ----------------------------
(***************************************************************************)
(* Theorems about Booking, for all values of its constants.                *)
(***************************************************************************)
EXTENDS Booking, TLAPS, WellFoundedInduction, FiniteSetTheorems, SequenceTheorems

-----------------------------------------------------------------------------
\* Facts about numbers and sequences.

\* A set of naturals that is not empty has a least element: this stands for
\* induction below.
LEMMA LeastNat ==
    ASSUME NEW T \in SUBSET Nat, T # {}
    PROVE  \E m \in T : \A k \in T : m <= k
<1>1. IsWellFoundedOn(OpToRel(<, Nat), Nat)
  BY NatLessThanWellFounded
<1>2. PICK m \in T : \A k \in T : ~ (<<k, m>> \in OpToRel(<, Nat))
  BY <1>1, WFMin
<1>3. ASSUME NEW k \in T PROVE m <= k
  <2>1. ~(k < m)
    BY <1>2 DEF OpToRel
  <2> QED
    BY <2>1
<1> QED
  BY <1>3

\* A series of states of the data, from d, in which each follows by the promotion due.
Series(f, d, order) ==
    /\ f[0] = d
    /\ \A k \in 1 .. Len(order) :
          f[k] = Promote(f[k - 1], d.bookings[order[k]].voyage,
                                   d.bookings[order[k]].slotType)

\* What a scheduler's pass makes of the data and an order is the last of the series.
LEMMA PromotionsSeries ==
    ASSUME NEW d, NEW order, Len(order) \in Nat
    PROVE  \E f : Series(f, d, order) /\ Promotions(d, order) = f[Len(order)]
<1> DEFINE Step(e, k) == Promote(e, d.bookings[order[k]].voyage,
                                    d.bookings[order[k]].slotType)
           Is(f, n) == f = [k \in 0 .. n |-> IF k = 0 THEN d ELSE Step(f[k - 1], k)]
           after == CHOOSE f : Is(f, Len(order))
<1>1. Promotions(d, order) = after[Len(order)]
  BY DEF Promotions
<1> HIDE DEF Step, after
<1>2. \A n \in Nat : \E f : Is(f, n)
  <2> DEFINE Bad == {n \in Nat : ~ \E f : Is(f, n)}
  <2> SUFFICES ASSUME Bad # {} PROVE FALSE
    OBVIOUS
  <2>1. PICK m \in Bad : \A k \in Bad : m <= k
    <3>1. Bad \in SUBSET Nat
      OBVIOUS
    <3> HIDE DEF Bad
    <3> QED
      BY <3>1, LeastNat
  <2>2. m \in Nat /\ ~ \E f : Is(f, m)
    OBVIOUS
  <2>3. m # 0
    <3>1. Is([k \in 0 .. 0 |-> d], 0)
      OBVIOUS
    <3> QED
      BY <3>1, <2>2
  <2>4. PICK f : Is(f, m - 1)
    <3>1. m - 1 \in Nat
      BY <2>2, <2>3
    <3>2. m - 1 \notin Bad
      <4> HIDE DEF Bad
      <4> QED
        BY <2>1, <2>2, <3>1
    <3> QED
      BY <3>1, <3>2
  <2> DEFINE g == [k \in 0 .. m |-> IF k = m THEN Step(f[m - 1], m) ELSE f[k]]
  <2>5. ASSUME NEW k \in 0 .. m
        PROVE  g[k] = IF k = 0 THEN d ELSE Step(g[k - 1], k)
    <3>1. CASE k = m
      BY <3>1, <2>2, <2>3
    <3>2. CASE k # m
      BY <3>2, <2>2, <2>3, <2>4
    <3> QED
      BY <3>1, <3>2
  <2>6. Is(g, m)
    BY <2>5
  <2> QED
    BY <2>6, <2>2
<1>3. Is(after, Len(order))
  <2>1. \E f : Is(f, Len(order))
    BY <1>2
  <2> HIDE DEF Is
  <2> QED
    BY <2>1 DEF after
<1>4. after[0] = d
  BY <1>3
<1>5. \A k \in 1 .. Len(order) : after[k] = Step(after[k - 1], k)
  BY <1>3
<1> QED
  BY <1>1, <1>4, <1>5 DEF Step, Series

\* A property that every promotion keeps, given as the set of data that has it, is
\* kept by a scheduler's pass.
LEMMA PromotionsStay ==
    ASSUME NEW G, NEW d \in G, NEW order, Len(order) \in Nat,
           \A e \in G : \A v, t : Promote(e, v, t) \in G
    PROVE  Promotions(d, order) \in G
<1>0. PICK f : Series(f, d, order) /\ Promotions(d, order) = f[Len(order)]
  BY PromotionsSeries
<1>1. /\ f[0] = d
      /\ \A k \in 1 .. Len(order) :
            f[k] = Promote(f[k - 1], d.bookings[order[k]].voyage,
                                     d.bookings[order[k]].slotType)
      /\ Promotions(d, order) = f[Len(order)]
  BY <1>0 DEF Series
<1> DEFINE Bad == {k \in 0 .. Len(order) : f[k] \notin G}
<1>2. Bad = {}
  <2> SUFFICES ASSUME Bad # {} PROVE FALSE
    OBVIOUS
  <2>1. Bad \in SUBSET Nat
    OBVIOUS
  <2>2. PICK m \in Bad : \A k \in Bad : m <= k
    <3> HIDE DEF Bad
    <3> QED
      BY <2>1, LeastNat
  <2>3. m \in 0 .. Len(order) /\ f[m] \notin G
    OBVIOUS
  <2>4. m # 0
    BY <2>3, <1>1
  <2>5. m - 1 \in 0 .. Len(order) /\ m \in 1 .. Len(order)
    BY <2>3, <2>4
  <2>6. f[m - 1] \in G
    <3>1. m - 1 \notin Bad
      <4> HIDE DEF Bad
      <4> QED
        BY <2>2, <2>3, <2>5
    <3> QED
      BY <3>1, <2>5
  <2>7. f[m] = Promote(f[m - 1], d.bookings[order[m]].voyage, d.bookings[order[m]].slotType)
    BY <2>5, <1>1
  <2> QED
    BY <2>3, <2>6, <2>7
<1>3. Len(order) \in 0 .. Len(order)
  OBVIOUS
<1> QED
  BY <1>1, <1>2, <1>3

-----------------------------------------------------------------------------
\* The data under the lock, with n bookings: its type, and the invariants that
\* each helper keeps.
DataType(n) ==
    [slots : [Slot -> [status : SlotStatus, holder : Nat]],
     bookings : [1 .. n -> BookingRecord],
     waitlist : SUBSET (1 .. n)]

Sound(d) == SlotsMatch(d) /\ Waitlisted(d)

\* First chooses among the slots it is given.
LEMMA FirstChooses == ASSUME NEW n, NEW S PROVE First(n, S) \subseteq S
BY DEF First

\* Freezing the slots of a booking that holds none and may not be on the waitlist
\* any more keeps type and agreement of slots and holders.
LEMMA FreezeSound ==
    ASSUME now \in 0 .. MaxTime, NEW n \in Nat, NEW d \in DataType(n), SlotsMatch(d),
           NEW b \in 1 .. n, d.bookings[b].status \notin Live
    PROVE  /\ Freeze(d, b) \in DataType(n)
           /\ SlotsMatch(Freeze(d, b))
           /\ Freeze(d, b).waitlist = d.waitlist
           /\ \A x \in 1 .. n : Freeze(d, b).bookings[x].status =
                                  IF x = b THEN "frozen" ELSE d.bookings[x].status
<1> DEFINE bk     == d.bookings[b]
           chosen == First(bk.qty, FreeSlots(d, bk.voyage, bk.slotType))
           newSlots == [s \in Slot |-> IF s \in chosen
                                         THEN [status |-> "frozen", holder |-> b]
                                         ELSE d.slots[s]]
           newBookings == [d.bookings EXCEPT ![b].status = "frozen", ![b].frozenAt = now]
<1> HIDE DEF chosen
<1>1. Freeze(d, b) = [d EXCEPT !.slots = newSlots, !.bookings = newBookings]
  BY DEF Freeze, chosen
<1>2. chosen \subseteq FreeSlots(d, bk.voyage, bk.slotType)
  BY FirstChooses DEF chosen
<1>3. newSlots \in [Slot -> [status : SlotStatus, holder : Nat]]
  BY DEF DataType, SlotStatus
<1>4. newBookings \in [1 .. n -> BookingRecord]
  <2>1. d.bookings \in [1 .. n -> BookingRecord]
    BY DEF DataType
  <2>2. newBookings = [x \in 1 .. n |->
                         IF x = b THEN [d.bookings[b] EXCEPT !.status = "frozen", !.frozenAt = now]
                                  ELSE d.bookings[x]]
    BY <2>1
  <2>3. [d.bookings[b] EXCEPT !.status = "frozen", !.frozenAt = now] \in BookingRecord
    BY <2>1 DEF BookingRecord, BookingStatus
  <2> QED
    BY <2>1, <2>2, <2>3
<1>5. /\ Freeze(d, b).slots = newSlots
      /\ Freeze(d, b).bookings = newBookings
      /\ Freeze(d, b).waitlist = d.waitlist
      /\ Freeze(d, b) \in DataType(n)
  BY <1>1, <1>3, <1>4 DEF DataType
<1>6. \A x \in 1 .. n : /\ newBookings[x].status = IF x = b THEN "frozen" ELSE d.bookings[x].status
                        /\ newBookings[x].voyage = d.bookings[x].voyage
                        /\ newBookings[x].slotType = d.bookings[x].slotType
  BY DEF DataType, BookingRecord
<1>7. ASSUME NEW s \in Slot
      PROVE  SlotAgrees(Freeze(d, b), s) /\ HolderAskedFor(Freeze(d, b), s)
  <2>1. CASE s \in chosen
    <3>1. s[1] = d.bookings[b].voyage /\ SlotTypeOf(s) = d.bookings[b].slotType
      BY <2>1, <1>2 DEF FreeSlots
    <3>2. newSlots[s] = [status |-> "frozen", holder |-> b]
      BY <2>1
    <3>3. /\ newBookings[b].status = "frozen"
          /\ newBookings[b].voyage = s[1]
          /\ newBookings[b].slotType = SlotTypeOf(s)
      BY <3>1, <1>6
    <3>4. /\ Freeze(d, b).slots[s].status = "frozen"
          /\ Freeze(d, b).slots[s].holder = b
          /\ b \in DOMAIN Freeze(d, b).bookings
      BY <3>2, <1>4, <1>5
    <3> HIDE DEF newBookings, newSlots
    <3> QED
      BY <3>3, <3>4, <1>5 DEF SlotAgrees, HolderAskedFor
  <2>2. CASE s \notin chosen
    <3>1. newSlots[s] = d.slots[s]
      BY <2>2
    <3>2. SlotAgrees(d, s) /\ HolderAskedFor(d, s)
      BY DEF SlotsMatch
    <3>3. d.slots[s].status \in SlotStatus /\ d.slots[s].holder \in Nat /\ DOMAIN d.bookings = 1 .. n
      BY DEF DataType
    <3>4. d.slots[s].status # "free" => d.slots[s].holder \in 1 .. n /\ d.slots[s].holder # b
      BY <3>2, <3>3 DEF SlotAgrees, SlotStatus, Live, Paid
    <3> DEFINE h == d.slots[s].holder
    <3>5. d.slots[s].status # "free" => /\ newBookings[h].status = d.bookings[h].status
                                        /\ newBookings[h].voyage = d.bookings[h].voyage
                                        /\ newBookings[h].slotType = d.bookings[h].slotType
      BY <3>4, <1>6
    <3>6. Freeze(d, b).slots[s] = d.slots[s] /\ DOMAIN Freeze(d, b).bookings = 1 .. n
      BY <3>1, <1>4, <1>5
    <3> HIDE DEF newBookings, newSlots
    <3>7. HolderAskedFor(Freeze(d, b), s)
      BY <3>2, <3>5, <3>6, <1>5 DEF HolderAskedFor
    <3>8. SlotAgrees(Freeze(d, b), s)
      BY <3>2, <3>3, <3>4, <3>5, <3>6, <1>5 DEF SlotAgrees, SlotStatus
    <3> QED
      BY <3>7, <3>8
  <2> QED
    BY <2>1, <2>2
<1> QED
  BY <1>5, <1>6, <1>7 DEF SlotsMatch

\* A promotion keeps the data sound: it freezes for one waitlisted booking, and
\* takes that one off the waitlist.
LEMMA PromoteSound ==
    ASSUME now \in 0 .. MaxTime, NEW n \in Nat, NEW d \in DataType(n), Sound(d),
           NEW v, NEW t
    PROVE  Promote(d, v, t) \in DataType(n) /\ Sound(Promote(d, v, t))
<1> DEFINE ready == {b \in Best(d, v, t) : voyages[v] # "none" /\ Fits(d, b)}
           b == CHOOSE b \in ready : TRUE
<1>1. CASE ready = {}
  <2>1. Promote(d, v, t) = d
    BY <1>1 DEF Promote
  <2> QED
    BY <2>1
<1>2. CASE ready # {}
  <2>1. Promote(d, v, t) = [Freeze(d, b) EXCEPT !.waitlist = @ \ {b}]
    BY <1>2 DEF Promote
  <2>2. b \in ready
    BY <1>2
  <2>3. b \in d.waitlist
    BY <2>2 DEF Best, Queue
  <2> HIDE DEF b, ready
  <2>4. b \in 1 .. n /\ d.bookings[b].status = "waitlisted"
    BY <2>3 DEF Sound, Waitlisted, DataType
  <2> DEFINE e == Freeze(d, b)
  <2>5. /\ e \in DataType(n)
        /\ SlotsMatch(e)
        /\ e.waitlist = d.waitlist
        /\ \A x \in 1 .. n : e.bookings[x].status =
                               IF x = b THEN "frozen" ELSE d.bookings[x].status
    <3>1. d.bookings[b].status \notin Live
      BY <2>4 DEF Live, Paid
    <3> QED
      BY <2>4, <3>1, FreezeSound DEF Sound
  <2> HIDE DEF e
  <2> DEFINE p == [e EXCEPT !.waitlist = @ \ {b}]
  <2>6. p \in DataType(n) /\ p.slots = e.slots /\ p.bookings = e.bookings
        /\ p.waitlist = d.waitlist \ {b}
    BY <2>5 DEF DataType
  <2> HIDE DEF p
  <2>7. SlotsMatch(p)
    BY <2>5, <2>6 DEF SlotsMatch, SlotAgrees, HolderAskedFor
  <2>8. Waitlisted(p)
    <3>1. DOMAIN p.bookings = 1 .. n /\ DOMAIN d.bookings = 1 .. n
      BY <2>6 DEF DataType
    <3> QED
      BY <2>4, <2>5, <2>6, <3>1 DEF Waitlisted, Sound
  <2> QED
    BY <2>1, <2>6, <2>7, <2>8 DEF Sound, p, e
<1> QED
  BY <1>1, <1>2

\* Bookings that leave give their slots back: the data stays sound when each of
\* them held slots of the kinds that are freed, and none waited.
LEMMA ReleaseSound ==
    ASSUME NEW n \in Nat, NEW d \in DataType(n), Sound(d),
           NEW out \in SUBSET (1 .. n),
           NEW st \in {"released", "cancelled"},
           NEW which,
           \A s \in Slot : d.slots[s].holder \in out => d.slots[s].status \in which,
           \A b \in out : d.bookings[b].status # "waitlisted"
    PROVE  /\ Release(d, out, st, which) \in DataType(n)
           /\ Sound(Release(d, out, st, which))
<1> DEFINE newSlots == [s \in Slot |->
                          IF d.slots[s].holder \in out /\ d.slots[s].status \in which
                            THEN FreeSlot ELSE d.slots[s]]
           newBookings == [b \in DOMAIN d.bookings |->
                             IF b \in out THEN [d.bookings[b] EXCEPT !.status = st]
                                          ELSE d.bookings[b]]
           e == Release(d, out, st, which)
<1>1. /\ DOMAIN d.bookings = 1 .. n
      /\ d.slots \in [Slot -> [status : SlotStatus, holder : Nat]]
      /\ d.bookings \in [1 .. n -> BookingRecord]
  BY DEF DataType
<1>2. e = [d EXCEPT !.slots = newSlots, !.bookings = newBookings]
  BY DEF Release
<1>3. newSlots \in [Slot -> [status : SlotStatus, holder : Nat]]
  BY <1>1 DEF FreeSlot, SlotStatus, NoBooking
<1>4. newBookings \in [1 .. n -> BookingRecord]
  <2>1. \A b \in 1 .. n : [d.bookings[b] EXCEPT !.status = st] \in BookingRecord
    BY <1>1 DEF BookingRecord, BookingStatus
  <2> QED
    BY <1>1, <2>1
<1>5. \A b \in 1 .. n : /\ newBookings[b].status = IF b \in out THEN st ELSE d.bookings[b].status
                        /\ newBookings[b].voyage = d.bookings[b].voyage
                        /\ newBookings[b].slotType = d.bookings[b].slotType
  BY <1>1 DEF BookingRecord
<1>6. e \in DataType(n) /\ e.slots = newSlots /\ e.bookings = newBookings
      /\ e.waitlist = d.waitlist /\ DOMAIN e.bookings = 1 .. n
  BY <1>2, <1>3, <1>4 DEF DataType
<1>7. \A s \in Slot : newSlots[s] = IF d.slots[s].holder \in out THEN FreeSlot ELSE d.slots[s]
  OBVIOUS
<1> HIDE DEF newSlots, newBookings, e
<1>8. ASSUME NEW s \in Slot PROVE SlotAgrees(e, s) /\ HolderAskedFor(e, s)
  <2>1. CASE d.slots[s].holder \in out
    <3>1. e.slots[s].status = "free" /\ e.slots[s].holder = NoBooking
      BY <2>1, <1>6, <1>7 DEF FreeSlot
    <3> QED
      BY <3>1 DEF SlotAgrees, HolderAskedFor
  <2>2. CASE d.slots[s].holder \notin out
    <3>1. e.slots[s] = d.slots[s]
      BY <2>2, <1>6, <1>7
    <3>2. SlotAgrees(d, s) /\ HolderAskedFor(d, s) /\ d.slots[s].status \in SlotStatus
      BY <1>1 DEF Sound, SlotsMatch
    <3>3. d.slots[s].status # "free" => d.slots[s].holder \in 1 .. n
      BY <3>2, <1>1 DEF SlotAgrees, SlotStatus
    <3> DEFINE h == d.slots[s].holder
    <3>4. d.slots[s].status # "free" => /\ newBookings[h].status = d.bookings[h].status
                                        /\ newBookings[h].voyage = d.bookings[h].voyage
                                        /\ newBookings[h].slotType = d.bookings[h].slotType
      BY <3>3, <2>2, <1>5
    <3>5. HolderAskedFor(e, s)
      BY <3>1, <3>2, <3>4, <1>6 DEF HolderAskedFor
    <3>6. SlotAgrees(e, s)
      BY <3>1, <3>2, <3>3, <3>4, <1>6 DEF SlotAgrees, SlotStatus
    <3> QED
      BY <3>5, <3>6
  <2> QED
    BY <2>1, <2>2
<1>9. Waitlisted(e)
  BY <1>1, <1>5, <1>6 DEF Waitlisted, Sound
<1> QED
  BY <1>6, <1>8, <1>9 DEF Sound, SlotsMatch, e

\* The promotions of a scheduler's pass, however many and in whatever order, keep
\* the data sound.
LEMMA PromotionsSound ==
    ASSUME now \in 0 .. MaxTime, NEW n \in Nat, NEW d \in DataType(n), Sound(d),
           NEW order, Len(order) \in Nat
    PROVE  Promotions(d, order) \in DataType(n) /\ Sound(Promotions(d, order))
<1> DEFINE G == {e \in DataType(n) : Sound(e)}
<1>1. \A e \in G : \A v, t : Promote(e, v, t) \in G
  BY PromoteSound
<1>2. d \in G
  OBVIOUS
<1> HIDE DEF G
<1>3. Promotions(d, order) \in G
  BY <1>1, <1>2, PromotionsStay
<1> QED
  BY <1>3 DEF G

-----------------------------------------------------------------------------
\* The inductive invariant.  The agreement of slots and holders is not inductive
\* alone: a booking that is promoted must hold no slots yet, which it does because
\* the waitlist is exact; and both need that whatever refers to a booking refers
\* to one of 1 .. counter, which is type correctness.
IInv == TypeOK /\ SlotsMatchHolders /\ WaitlistIsExact

\* The invariant says of the variables what Sound says of the data.
LEMMA DataIsSound ==
    ASSUME IInv
    PROVE  Data \in DataType(counter) /\ Sound(Data) /\ counter \in Nat
                /\ DOMAIN bookings = 1 .. counter
BY BoundAssumption
   DEF IInv, TypeOK, SlotsMatchHolders, WaitlistIsExact, DataType, Sound, Data

\* A step that commits sound data ends in the invariant.
LEMMA CommitSound ==
    ASSUME TypeOK, NEW n \in 0 .. MaxBookings, NEW d \in DataType(n), Sound(d), Commit(d),
           counter' = n, idempotency' \in [Key -> {NoBooking} \cup 1 .. n],
           UNCHANGED <<now, cargo, voyages>>
    PROVE  IInv'
<1>1. slots' = d.slots /\ bookings' = d.bookings /\ waitlist' = d.waitlist
  BY DEF Commit
<1>2. Data' = d
  BY <1>1 DEF Data, DataType
<1>3. TypeOK'
  BY <1>1 DEF TypeOK, DataType
<1> QED
  BY <1>2, <1>3 DEF IInv, SlotsMatchHolders, WaitlistIsExact, Sound

\* The empty store is sound.
LEMMA InitInvariant == Init => IInv
<1> SUFFICES ASSUME Init PROVE IInv
  OBVIOUS
<1>1. TypeOK
  <2>1. bookings \in [1 .. counter -> BookingRecord]
    BY DEF Init
  <2> QED
    BY <2>1, TimeAssumption, BoundAssumption
       DEF Init, TypeOK, FreeSlot, SlotStatus, NoBooking
<1>2. SlotsMatchHolders
  BY DEF Init, SlotsMatchHolders, SlotsMatch, SlotAgrees, HolderAskedFor, Data, FreeSlot
<1>3. WaitlistIsExact
  BY DEF Init, WaitlistIsExact, Waitlisted, Data
<1> QED
  BY <1>1, <1>2, <1>3 DEF IInv

\* Adding a booking that holds nothing.
LEMMA EnterSound ==
    ASSUME IInv, NEW r \in Request, Admissible(r), counter + 1 <= MaxBookings,
           NEW st \in BookingStatus
    PROVE  LET d == Enter(counter + 1, r, st)
           IN  /\ d \in DataType(counter + 1)
               /\ SlotsMatch(d)
               /\ d.waitlist = waitlist
               /\ d.bookings[counter + 1].status = st
               /\ \A x \in 1 .. counter : d.bookings[x].status = bookings[x].status
<1> DEFINE b   == counter + 1
           new == [cargo |-> r.cargo, voyage |-> r.voyage,
                   slotType |-> r.slotType, qty |-> r.qty, key |-> r.key,
                   status |-> st, submitTime |-> now, frozenAt |-> 0]
           newBookings == [x \in 1 .. b |-> IF x = b THEN new ELSE bookings[x]]
           d == Enter(b, r, st)
<1>1. counter \in Nat /\ Data \in DataType(counter) /\ SlotsMatch(Data) /\ DOMAIN bookings = 1 .. counter
  BY DataIsSound DEF Sound
<1>2. d = [Data EXCEPT !.bookings = newBookings]
  BY DEF Enter
<1>3. new \in BookingRecord
  <2>1. r.qty \in Nat \ {0}
    BY RequestAssumption DEF Admissible, BookingRequest
  <2> QED
    BY <2>1, RequestAssumption, TimeAssumption DEF BookingRequest, BookingRecord, IInv, TypeOK
<1>4. newBookings \in [1 .. b -> BookingRecord]
  BY <1>1, <1>3 DEF IInv, TypeOK
<1>5. d \in DataType(b) /\ d.bookings = newBookings /\ d.slots = slots /\ d.waitlist = waitlist
  <2>1. d = [slots |-> slots, bookings |-> newBookings, waitlist |-> waitlist]
    BY <1>2 DEF Data
  <2>2. slots \in [Slot -> [status : SlotStatus, holder : Nat]] /\ waitlist \in SUBSET (1 .. b)
    BY <1>1 DEF IInv, TypeOK
  <2> HIDE DEF newBookings, d
  <2>3. d.bookings = newBookings /\ d.slots = slots /\ d.waitlist = waitlist
    BY <2>1
  <2>4. d \in DataType(b)
    BY <2>1, <2>2, <1>4 DEF DataType
  <2> QED
    BY <2>3, <2>4
<1>6. newBookings[b].status = st /\ \A x \in 1 .. counter : newBookings[x] = bookings[x]
  BY <1>1
<1> HIDE DEF newBookings, d
<1>7. ASSUME NEW s \in Slot PROVE SlotAgrees(d, s) /\ HolderAskedFor(d, s)
  <2> DEFINE h == Data.slots[s].holder
  <2>1. /\ SlotAgrees(Data, s) /\ HolderAskedFor(Data, s)
        /\ Data.slots[s].status \in SlotStatus /\ DOMAIN Data.bookings = 1 .. counter
    BY <1>1 DEF SlotsMatch, DataType
  <2>2. Data.slots[s].status # "free" => h \in 1 .. counter
    BY <2>1, <1>1 DEF SlotAgrees, SlotStatus
  <2>3. d.slots[s] = Data.slots[s] /\ DOMAIN d.bookings = 1 .. b
    BY <1>4, <1>5 DEF Data
  <2>4. Data.slots[s].status # "free" => h \in 1 .. b /\ d.bookings[h] = Data.bookings[h]
    BY <2>2, <1>1, <1>5, <1>6 DEF Data
  <2>5. HolderAskedFor(d, s)
    BY <2>1, <2>3, <2>4 DEF HolderAskedFor
  <2>6. SlotAgrees(d, s)
    BY <2>1, <2>3, <2>4 DEF SlotAgrees, SlotStatus
  <2> QED
    BY <2>5, <2>6
<1> QED
  BY <1>5, <1>6, <1>7 DEF SlotsMatch, d

\* Replacing the waitlist of the store's data keeps the rest of it.
LEMMA WaitlistReplaced ==
    ASSUME NEW n \in Nat, NEW q \in DataType(n), NEW w \in SUBSET (1 .. n)
    PROVE  LET d == [q EXCEPT !.waitlist = w]
           IN  /\ d \in DataType(n) /\ d.slots = q.slots /\ d.bookings = q.bookings
               /\ d.waitlist = w
  BY DEF DataType

\* The statuses that follow CreateBooking's two ways.
LEMMA CreateBookingInvariant ==
    ASSUME IInv, NEW r \in Request, CreateBooking(r)
    PROVE  IInv'
<1> DEFINE b       == counter + 1
           pending == Enter(b, r, "pending")
           queued  == Enter(b, r, "waitlisted")
<1>1. /\ counter \in Nat /\ b \in 0 .. MaxBookings /\ Admissible(r) /\ TypeOK
      /\ counter' = b /\ UNCHANGED <<now, cargo, voyages>>
      /\ waitlist = {x \in 1 .. counter : bookings[x].status = "waitlisted"}
  BY BoundAssumption DEF CreateBooking, IInv, TypeOK, WaitlistIsExact, Waitlisted, Data
<1>2. idempotency' \in [Key -> {NoBooking} \cup 1 .. b]
  BY <1>1 DEF CreateBooking, TypeOK
<1>3. CASE Commit(Freeze(pending, b))
  <2>1. /\ pending \in DataType(b) /\ SlotsMatch(pending) /\ pending.waitlist = waitlist
        /\ pending.bookings[b].status = "pending"
        /\ \A x \in 1 .. counter : pending.bookings[x].status = bookings[x].status
    BY <1>1, EnterSound DEF BookingStatus
  <2> HIDE DEF pending
  <2>2. pending.bookings[b].status \notin Live
    BY <2>1 DEF Live, Paid
  <2> DEFINE d == Freeze(pending, b)
  <2>3. /\ d \in DataType(b) /\ SlotsMatch(d) /\ d.waitlist = waitlist
        /\ \A x \in 1 .. b : d.bookings[x].status =
                               IF x = b THEN "frozen" ELSE pending.bookings[x].status
    BY <1>1, <2>1, <2>2, FreezeSound DEF TypeOK
  <2> HIDE DEF d
  <2>4. DOMAIN d.bookings = 1 .. b
    BY <2>3 DEF DataType
  <2>5. Waitlisted(d)
    BY <1>1, <2>1, <2>3, <2>4 DEF Waitlisted
  <2> QED
    BY <1>1, <1>2, <1>3, <2>3, <2>5, CommitSound DEF Sound, d
<1>4. CASE Commit([queued EXCEPT !.waitlist = @ \cup {b}])
  <2>1. /\ queued \in DataType(b) /\ SlotsMatch(queued) /\ queued.waitlist = waitlist
        /\ queued.bookings[b].status = "waitlisted"
        /\ \A x \in 1 .. counter : queued.bookings[x].status = bookings[x].status
    BY <1>1, EnterSound DEF BookingStatus
  <2> HIDE DEF queued
  <2> DEFINE d == [queued EXCEPT !.waitlist = @ \cup {b}]
  <2>2. /\ d \in DataType(b) /\ d.slots = queued.slots /\ d.bookings = queued.bookings
        /\ d.waitlist = waitlist \cup {b}
    <3>1. queued.waitlist \cup {b} \in SUBSET (1 .. b) /\ b \in Nat
      BY <1>1, <2>1
    <3> HIDE DEF b
    <3> QED
      BY <2>1, <3>1, WaitlistReplaced
  <2> HIDE DEF d
  <2>3. SlotsMatch(d)
    BY <2>1, <2>2 DEF SlotsMatch, SlotAgrees, HolderAskedFor
  <2>4. DOMAIN d.bookings = 1 .. b
    BY <2>2 DEF DataType
  <2>5. Waitlisted(d)
    BY <1>1, <2>1, <2>2, <2>4 DEF Waitlisted
  <2> QED
    BY <1>1, <1>2, <1>4, <2>2, <2>3, <2>5, CommitSound DEF Sound, d
<1> QED
  BY <1>3, <1>4 DEF CreateBooking

\* Bookings leave, and promotions follow.
LEMMA CancelInvariant ==
    ASSUME IInv, NEW b, Cancel(b)
    PROVE  IInv'
<1> DEFINE d == Release(Data, {b}, "cancelled", SlotStatus)
<1>1. /\ Data \in DataType(counter) /\ Sound(Data) /\ counter \in Nat /\ TypeOK
      /\ counter \in 0 .. MaxBookings /\ now \in 0 .. MaxTime
      /\ b \in 1 .. counter /\ bookings[b].status # "waitlisted"
  BY DataIsSound DEF Cancel, Known, IInv, TypeOK
<1>2. d \in DataType(counter) /\ Sound(d)
  <2>1. \A s \in Slot : Data.slots[s].status \in SlotStatus
    BY <1>1 DEF DataType
  <2>2. \A x \in {b} : Data.bookings[x].status # "waitlisted"
    BY <1>1 DEF Data
  <2> QED
    BY <1>1, <2>1, <2>2, ReleaseSound
<1> HIDE DEF d
<1> DEFINE e == Promote(d, bookings[b].voyage, bookings[b].slotType)
<1>3. e \in DataType(counter) /\ Sound(e)
  BY <1>1, <1>2, PromoteSound
<1> HIDE DEF e
<1>4. Commit(e) /\ UNCHANGED <<now, cargo, voyages, idempotency, counter>>
  BY DEF Cancel, d, e
<1>5. idempotency' \in [Key -> {NoBooking} \cup 1 .. counter]
  BY <1>1, <1>4, DataIsSound DEF TypeOK
<1> QED
  BY <1>1, <1>3, <1>4, <1>5, CommitSound

\* The frozen bookings in out are released.
LEMMA ReleaseFrozenSound ==
    ASSUME IInv, NEW out \in SUBSET DOMAIN bookings,
           \A b \in out : bookings[b].status = "frozen"
    PROVE  ReleaseFrozen(Data, out) \in DataType(counter) /\ Sound(ReleaseFrozen(Data, out))
<1>1. Data \in DataType(counter) /\ Sound(Data) /\ counter \in Nat /\ out \in SUBSET (1 .. counter)
  BY DataIsSound
<1>2. \A s \in Slot : Data.slots[s].holder \in out => Data.slots[s].status \in {"frozen"}
  <2> SUFFICES ASSUME NEW s \in Slot, Data.slots[s].holder \in out
               PROVE  Data.slots[s].status = "frozen"
    OBVIOUS
  <2>1. SlotAgrees(Data, s) /\ Data.slots[s].status \in SlotStatus
    BY <1>1 DEF Sound, SlotsMatch, DataType
  <2>2. Data.slots[s].holder # NoBooking /\ Data.bookings[Data.slots[s].holder].status = "frozen"
    BY <1>1 DEF NoBooking, Data
  <2> QED
    BY <2>1, <2>2 DEF SlotAgrees, SlotStatus, Paid
<1>3. \A b \in out : Data.bookings[b].status # "waitlisted"
  BY DEF Data
<1> QED
  BY <1>1, <1>2, <1>3, ReleaseSound DEF ReleaseFrozen

\* A payment that comes too late releases its booking, and a promotion follows.
LEMMA PayLateInvariant ==
    ASSUME IInv, NEW b, PayLate(b)
    PROVE  IInv'
<1> DEFINE d == ReleaseFrozen(Data, {b})
<1>1. /\ counter \in Nat /\ TypeOK /\ counter \in 0 .. MaxBookings /\ now \in 0 .. MaxTime
      /\ {b} \in SUBSET DOMAIN bookings /\ bookings[b].status = "frozen"
  BY DataIsSound DEF PayLate, Known, Expired, IInv, TypeOK
<1>2. d \in DataType(counter) /\ Sound(d)
  BY <1>1, ReleaseFrozenSound
<1> HIDE DEF d
<1> DEFINE e == Promote(d, bookings[b].voyage, bookings[b].slotType)
<1>3. e \in DataType(counter) /\ Sound(e)
  BY <1>1, <1>2, PromoteSound
<1> HIDE DEF e
<1>4. Commit(e) /\ UNCHANGED <<now, cargo, voyages, idempotency, counter>>
  BY DEF PayLate, d, e
<1>5. idempotency' \in [Key -> {NoBooking} \cup 1 .. counter]
  BY <1>1, <1>4, DataIsSound DEF TypeOK
<1> QED
  BY <1>1, <1>3, <1>4, <1>5, CommitSound

\* An order of the overdue bookings is a sequence.
LEMMA OrderHasLength ==
    ASSUME counter \in Nat, DOMAIN bookings = 1 .. counter, NEW order \in SetToSeqs(Overdue)
    PROVE  Len(order) \in Nat
<1>1. IsFiniteSet(Overdue)
  BY FS_Interval, FS_Subset DEF Overdue
<1>2. Cardinality(Overdue) \in Nat
  BY <1>1, FS_CardinalityType
<1>3. order \in [1 .. Cardinality(Overdue) -> Overdue]
  BY DEF SetToSeqs
<1> QED
  BY <1>2, <1>3

\* A pass of the scheduler: what is overdue leaves, and promotions follow.
LEMMA ReconcileInvariant ==
    ASSUME IInv, ReconcileExpired
    PROVE  IInv'
<1> DEFINE d == ReleaseFrozen(Data, Overdue)
<1>1. /\ counter \in Nat /\ TypeOK /\ counter \in 0 .. MaxBookings /\ now \in 0 .. MaxTime
      /\ Overdue \in SUBSET DOMAIN bookings /\ DOMAIN bookings = 1 .. counter
      /\ \A b \in Overdue : bookings[b].status = "frozen"
  BY DataIsSound DEF Overdue, Expired, IInv, TypeOK
<1>2. d \in DataType(counter) /\ Sound(d)
  BY <1>1, ReleaseFrozenSound
<1>3. PICK order \in SetToSeqs(Overdue) : Commit(Promotions(d, order))
  BY DEF ReconcileExpired
<1> HIDE DEF d
<1>4. Len(order) \in Nat
  BY <1>1, <1>3, OrderHasLength
<1> DEFINE e == Promotions(d, order)
<1>5. e \in DataType(counter) /\ Sound(e)
  BY <1>1, <1>2, <1>4, PromotionsSound
<1> HIDE DEF e
<1>6. Commit(e) /\ UNCHANGED <<now, cargo, voyages, idempotency, counter>>
  BY <1>3 DEF ReconcileExpired, e
<1>7. idempotency' \in [Key -> {NoBooking} \cup 1 .. counter]
  BY <1>1, <1>6 DEF TypeOK
<1> QED
  BY <1>1, <1>5, <1>6, <1>7, CommitSound

\* A promotion by itself.
LEMMA PromoteWaitlistInvariant ==
    ASSUME IInv, NEW v, NEW t, PromoteWaitlist(v, t)
    PROVE  IInv'
<1> DEFINE e == Promote(Data, v, t)
<1>1. /\ counter \in Nat /\ TypeOK /\ counter \in 0 .. MaxBookings /\ now \in 0 .. MaxTime
      /\ Data \in DataType(counter) /\ Sound(Data) /\ DOMAIN bookings = 1 .. counter
  BY DataIsSound DEF IInv, TypeOK
<1>2. e \in DataType(counter) /\ Sound(e)
  BY <1>1, PromoteSound
<1> HIDE DEF e
<1>3. Commit(e) /\ UNCHANGED <<now, cargo, voyages, idempotency, counter>>
  BY DEF PromoteWaitlist, e
<1>4. idempotency' \in [Key -> {NoBooking} \cup 1 .. counter]
  BY <1>1, <1>3 DEF TypeOK
<1> QED
  BY <1>1, <1>2, <1>3, <1>4, CommitSound

\* Payment turns the frozen slots of the booking into allocated ones.
LEMMA PayInTimeInvariant ==
    ASSUME IInv, NEW b, PayInTime(b)
    PROVE  IInv'
<1> DEFINE newSlots == [s \in Slot |-> IF slots[s].holder = b /\ slots[s].status = "frozen"
                                         THEN [slots[s] EXCEPT !.status = "allocated"]
                                         ELSE slots[s]]
           newBookings == [bookings EXCEPT ![b].status = "confirmed"]
           d == [slots |-> newSlots, bookings |-> newBookings, waitlist |-> waitlist]
<1>1. /\ counter \in Nat /\ TypeOK /\ counter \in 0 .. MaxBookings
      /\ Data \in DataType(counter) /\ Sound(Data) /\ DOMAIN bookings = 1 .. counter
      /\ b \in 1 .. counter /\ bookings[b].status = "frozen"
  BY DataIsSound DEF PayInTime, Known, IInv, TypeOK
<1>2. newSlots \in [Slot -> [status : SlotStatus, holder : Nat]]
  BY <1>1 DEF TypeOK, SlotStatus
<1>3. newBookings \in [1 .. counter -> BookingRecord]
  <2>1. newBookings = [x \in 1 .. counter |->
                         IF x = b THEN [bookings[b] EXCEPT !.status = "confirmed"]
                                  ELSE bookings[x]]
    BY <1>1 DEF TypeOK
  <2>2. [bookings[b] EXCEPT !.status = "confirmed"] \in BookingRecord
    BY <1>1 DEF TypeOK, BookingRecord, BookingStatus
  <2> QED
    BY <1>1, <2>1, <2>2 DEF TypeOK
<1>4. \A x \in 1 .. counter :
         /\ newBookings[x].status = IF x = b THEN "confirmed" ELSE bookings[x].status
         /\ newBookings[x].voyage = bookings[x].voyage
         /\ newBookings[x].slotType = bookings[x].slotType
  BY <1>1 DEF TypeOK, BookingRecord
<1>5. \A s \in Slot : /\ newSlots[s].holder = slots[s].holder
                      /\ newSlots[s].status = IF slots[s].holder = b /\ slots[s].status = "frozen"
                                                THEN "allocated" ELSE slots[s].status
  BY <1>1 DEF TypeOK
<1>6. Commit(d) /\ UNCHANGED <<now, cargo, voyages, idempotency, counter>>
  BY DEF PayInTime, Commit
<1> HIDE DEF newSlots, newBookings
<1>7. d \in DataType(counter)
  BY <1>1, <1>2, <1>3 DEF DataType, TypeOK
<1>8. DOMAIN d.bookings = 1 .. counter /\ d.bookings = newBookings /\ d.slots = newSlots
  BY <1>3
<1> HIDE DEF d
<1>9. ASSUME NEW s \in Slot PROVE SlotAgrees(d, s) /\ HolderAskedFor(d, s)
  <2> DEFINE h == slots[s].holder
  <2>1. /\ SlotAgrees(Data, s) /\ HolderAskedFor(Data, s) /\ slots[s].status \in SlotStatus
    BY <1>1 DEF Sound, SlotsMatch, TypeOK
  <2>2. CASE slots[s].status = "free"
    <3>1. newSlots[s].status = "free" /\ newSlots[s].holder = NoBooking
      BY <2>1, <2>2, <1>5 DEF SlotAgrees, Data
    <3> QED
      BY <3>1, <1>8 DEF SlotAgrees, HolderAskedFor
  <2>3. CASE slots[s].status # "free"
    <3>1. h \in 1 .. counter
      BY <2>1, <2>3, <1>1 DEF SlotAgrees, SlotStatus, Data
    <3>2. bookings[h].voyage = s[1] /\ bookings[h].slotType = SlotTypeOf(s)
      BY <2>1, <2>3 DEF HolderAskedFor, Data
    <3>3. HolderAskedFor(d, s)
      BY <3>1, <3>2, <1>4, <1>5, <1>8 DEF HolderAskedFor
    <3>4. CASE h = b
      <4>1. slots[s].status = "frozen"
        BY <2>1, <2>3, <3>4, <1>1 DEF SlotAgrees, SlotStatus, Data, Paid
      <4>2. newSlots[s].status = "allocated" /\ newSlots[s].holder = b
        BY <4>1, <3>4, <1>5
      <4>3. newBookings[b].status \in Paid
        BY <1>1, <1>4 DEF Paid
      <4> QED
        BY <4>2, <4>3, <3>3, <1>1, <1>8 DEF SlotAgrees
    <3>5. CASE h # b
      <4>1. newSlots[s].status = slots[s].status /\ newSlots[s].holder = h
        BY <3>5, <1>5
      <4>2. newBookings[h].status = bookings[h].status
        BY <3>1, <3>5, <1>4
      <4>3. SlotAgrees(d, s)
        BY <2>1, <2>3, <3>1, <4>1, <4>2, <1>8 DEF SlotAgrees, SlotStatus, Data
      <4> QED
        BY <3>3, <4>3
    <3> QED
      BY <3>4, <3>5
  <2> QED
    BY <2>2, <2>3
<1>10. Waitlisted(d)
  <2>1. Waitlisted(Data) /\ d.waitlist = waitlist
    BY <1>1 DEF Sound, d
  <2> QED
    BY <2>1, <1>1, <1>4, <1>8 DEF Waitlisted, Data
<1>11. idempotency' \in [Key -> {NoBooking} \cup 1 .. counter]
  BY <1>1, <1>6 DEF TypeOK
<1> QED
  BY <1>1, <1>6, <1>7, <1>9, <1>10, <1>11, CommitSound DEF Sound, SlotsMatch

\* The invariant does not depend on the clock, the cargo or the voyages, except
\* for their types.
LEMMA OthersInvariant ==
    ASSUME IInv, UNCHANGED <<slots, bookings, waitlist, idempotency, counter>>,
           now' \in 0 .. MaxTime,
           cargo' \in [CargoId -> {"absent", "registered", "confirmed"}],
           voyages' \in [Voyage -> VoyageStatus \cup {"none"}]
    PROVE  IInv'
<1>1. Data' = Data
  BY DEF Data
<1>2. TypeOK'
  BY DEF IInv, TypeOK
<1>3. SlotsMatchHolders' /\ WaitlistIsExact'
  BY <1>1 DEF IInv, SlotsMatchHolders, WaitlistIsExact, SlotsMatch, SlotAgrees,
              HolderAskedFor, Waitlisted
<1> QED
  BY <1>2, <1>3 DEF IInv

\* Every step of the service, and every stuttering step, keeps the invariant.
LEMMA NextInvariant == IInv /\ [Next]_vars => IInv'
<1> SUFFICES ASSUME IInv, [Next]_vars PROVE IInv'
  OBVIOUS
<1>1. TypeOK
  BY DEF IInv
<1>2. CASE Tick
  <2>1. now' \in 0 .. MaxTime
    BY <1>1, <1>2, TimeAssumption DEF Tick, TypeOK
  <2> QED
    BY <1>1, <1>2, <2>1, OthersInvariant DEF Tick, TypeOK
<1>3. ASSUME NEW c \in CargoId, CreateCargo(c) \/ ConfirmTemp(c) PROVE IInv'
  <2>1. cargo' \in [CargoId -> {"absent", "registered", "confirmed"}]
    BY <1>1, <1>3 DEF CreateCargo, ConfirmTemp, TypeOK
  <2> QED
    BY <1>1, <1>3, <2>1, OthersInvariant DEF CreateCargo, ConfirmTemp, TypeOK
<1>4. ASSUME NEW v \in Voyage, CreateVoyage(v) PROVE IInv'
  <2>1. voyages' \in [Voyage -> VoyageStatus \cup {"none"}]
    BY <1>1, <1>4 DEF CreateVoyage, TypeOK, VoyageStatus
  <2> QED
    BY <1>1, <1>4, <2>1, OthersInvariant DEF CreateVoyage, TypeOK
<1>5. ASSUME NEW r \in Request, CreateBooking(r) PROVE IInv'
  BY <1>5, CreateBookingInvariant
<1>6. ASSUME NEW b, PayInTime(b) \/ PayLate(b) \/ Cancel(b) PROVE IInv'
  BY <1>6, PayInTimeInvariant, PayLateInvariant, CancelInvariant
<1>7. ASSUME NEW v, NEW t, PromoteWaitlist(v, t) PROVE IInv'
  BY <1>7, PromoteWaitlistInvariant
<1>8. CASE ReconcileExpired
  BY <1>8, ReconcileInvariant
<1>9. CASE UNCHANGED vars
  BY <1>1, <1>9, OthersInvariant DEF vars, TypeOK
<1> QED
  BY <1>2, <1>3, <1>4, <1>5, <1>6, <1>7, <1>8, <1>9 DEF Next, ServiceCall

\* The inductive invariant holds in every state of every behaviour.
THEOREM InductiveInvariant == Spec => []IInv
<1>1. Spec => Init /\ [][Next]_vars
  BY DEF Spec
<1> QED
  BY <1>1, InitInvariant, NextInvariant, PTL

\* Type correctness: booking ids are 1 .. counter without gaps, and the waitlist
\* and the idempotency table refer only to bookings that exist.
THEOREM TypeCorrect == Spec => []TypeOK
<1>1. IInv => TypeOK
  BY DEF IInv
<1> QED
  BY <1>1, InductiveInvariant, PTL

\* No slot is sold twice or leaked: each is free and held by nobody, frozen for a
\* frozen booking, or allocated to a paid one, of its own voyage and type.
THEOREM SlotsAlwaysMatch == Spec => []SlotsMatchHolders
<1>1. IInv => SlotsMatchHolders
  BY DEF IInv
<1> QED
  BY <1>1, InductiveInvariant, PTL

\* The waitlist is always exactly the set of waitlisted bookings: no promotion
\* leaves its entry behind and no one is forgotten.
THEOREM WaitlistAlwaysExact == Spec => []WaitlistIsExact
<1>1. IInv => WaitlistIsExact
  BY DEF IInv
<1> QED
  BY <1>1, InductiveInvariant, PTL
=============================================================================
