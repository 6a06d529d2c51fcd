---------------------------- MODULE AnswerProofs ----------------------------
(***************************************************************************)
(* Theorems about what clients are told: an answer holds across failed     *)
(* writes, crashes and restarts (BookingRecovery), and across calls that   *)
(* overlap, are given up and are repeated (Api).                           *)
(***************************************************************************)
EXTENDS Api, BookingRecovery, LedgerProofs

-----------------------------------------------------------------------------
\* Memory, by itself.

\* What holds of the memory of the service in every step.
KInv == JInv /\ HoldsItsQuota

LEMMA NextMemory == KInv /\ [Next]_vars => KInv'
BY NextIdentity, NextQuota DEF KInv, JInv, QInv

LEMMA InitMemory == Init => KInv
<1>1. Init => IInv
  BY InitInvariant
<1>2. Init => BookedEligibly /\ OneBookingPerKey /\ HoldsItsQuota
  BY DEF Init, BookedEligibly, OneBookingPerKey, HoldsItsQuota, Quotas, Data
<1> QED
  BY <1>1, <1>2 DEF KInv, JInv

\* The same of any snapshot of it.
Types(m) ==
    /\ m.cargo \in [CargoId -> {"absent", "registered", "confirmed"}]
    /\ m.voyages \in [Voyage -> VoyageStatus \cup {"none"}]
    /\ m.slots \in [Slot -> [status : SlotStatus, holder : Nat]]
    /\ m.counter \in 0 .. MaxBookings
    /\ m.bookings \in [1 .. m.counter -> BookingRecord]
    /\ m.waitlist \subseteq DOMAIN m.bookings
    /\ m.idempotency \in [Key -> {NoBooking} \cup DOMAIN m.bookings]

Eligible(m) ==
    \A b \in DOMAIN m.bookings :
        m.bookings[b].slotType = "refrigerated" =>
            /\ m.cargo[m.bookings[b].cargo] = "confirmed"
            /\ IsNewEnergy(CargoOf[m.bookings[b].cargo])

Keyed(m) ==
    \A b \in DOMAIN m.bookings :
        m.bookings[b].key # NoKey => m.idempotency[m.bookings[b].key] = b

Good(m) ==
    /\ Types(m)
    /\ SlotsMatch(m)
    /\ Waitlisted(m)
    /\ Quotas(m)
    /\ Eligible(m)
    /\ Keyed(m)

\* Holding depends on the slots alone, so do the agreements on slots and bookings.
LEMMA SameParts ==
    ASSUME NEW d, NEW e, d.slots = e.slots, d.bookings = e.bookings, d.waitlist = e.waitlist
    PROVE  /\ SlotsMatch(d) <=> SlotsMatch(e)
           /\ Waitlisted(d) <=> Waitlisted(e)
           /\ Quotas(d) <=> Quotas(e)
<1>1. SlotsMatch(d) <=> SlotsMatch(e)
  BY DEF SlotsMatch, SlotAgrees, HolderAskedFor
<1>2. Waitlisted(d) <=> Waitlisted(e)
  BY DEF Waitlisted
<1>3. Quotas(d) <=> Quotas(e)
  BY DEF Quotas, Holding
<1> QED
  BY <1>1, <1>2, <1>3

\* Memory is good as long as the invariant holds, and good memory makes it hold.
LEMMA MemoryIsGood == KInv <=> now \in 0 .. MaxTime /\ Good(Memory)
<1>1. /\ SlotsMatch(Memory) <=> SlotsMatchHolders
      /\ Waitlisted(Memory) <=> WaitlistIsExact
      /\ Quotas(Memory) <=> HoldsItsQuota
  <2>1. /\ Memory.slots = Data.slots /\ Memory.bookings = Data.bookings
        /\ Memory.waitlist = Data.waitlist
    BY DEF Memory, Data
  <2> QED
    BY <2>1, SameParts DEF SlotsMatchHolders, WaitlistIsExact, HoldsItsQuota
<1>2. TypeOK <=> now \in 0 .. MaxTime /\ Types(Memory)
  BY DEF TypeOK, Types, Memory
<1>3. Eligible(Memory) <=> BookedEligibly
  BY DEF Eligible, BookedEligibly, Memory
<1>4. Keyed(Memory) <=> OneBookingPerKey
  BY DEF Keyed, OneBookingPerKey, Memory
<1> QED
  BY <1>1, <1>2, <1>3, <1>4 DEF KInv, JInv, IInv, Good

\* A restart on a good snapshot makes good memory of it.
LEMMA RestartRestores ==
    ASSUME now \in 0 .. MaxTime, Good(disk), Restart
    PROVE  KInv'
<1>1. /\ Memory.cargo' = disk.cargo /\ Memory.voyages' = disk.voyages
      /\ Memory.slots' = disk.slots /\ Memory.bookings' = disk.bookings
      /\ Memory.waitlist' = disk.waitlist /\ Memory.idempotency' = disk.idempotency
      /\ Memory.counter' = disk.counter
  BY DEF Memory, Restart
<1>2. Types(Memory') /\ Eligible(Memory') /\ Keyed(Memory')
  BY <1>1 DEF Good, Types, Eligible, Keyed
<1>3. SlotsMatch(Memory') /\ Waitlisted(Memory') /\ Quotas(Memory')
  BY <1>1, SameParts DEF Good
<1>4. now' \in 0 .. MaxTime /\ Good(Memory)'
  BY <1>2, <1>3 DEF Good, Restart
<1>5. (KInv <=> now \in 0 .. MaxTime /\ Good(Memory))'
  BY MemoryIsGood, PTL
<1> QED
  BY <1>4, <1>5

-----------------------------------------------------------------------------
\* What has been answered.

\* The payments in P, and the bookings in B, are there in m.
PaidIn(m, P) ==
    \A b \in P : b \in DOMAIN m.bookings /\ m.bookings[b].status \in Paid \cup {"cancelled"}

BookedIn(m, B) ==
    \A a \in B :
        /\ a.id \in DOMAIN m.bookings
        /\ Asked(a.id, m.bookings[a.id]) = a
        /\ a.key \in Key \cup {NoKey}
        /\ a.key # NoKey => m.idempotency[a.key] = a.id

\* The inductive invariant: memory and snapshot are good, and neither has lost what
\* a client was told.
RInv ==
    /\ KInv
    /\ Good(disk)
    /\ PaidIn(Memory, paid) /\ PaidIn(disk, paid)
    /\ BookedIn(Memory, booked) /\ BookedIn(disk, booked)

\* A key that is taken stays with its booking.
LEMMA KeysStay ==
    ASSUME IInv, [Next]_vars, NEW k \in Key, idempotency[k] # NoBooking
    PROVE  idempotency'[k] = idempotency[k]
<1>1. CASE UNCHANGED idempotency
  BY <1>1
<1>2. ASSUME NEW r \in Request, CreateBooking(r) PROVE idempotency'[k] = idempotency[k]
  <2>1. r.key # k
    BY <1>2, KeyAssumption DEF CreateBooking, Admissible
  <2> QED
    BY <1>2, <2>1 DEF CreateBooking
<1> QED
  BY <1>1, <1>2 DEF Next, ServiceCall, vars, Tick, CreateCargo, ConfirmTemp, CreateVoyage,
                    PayInTime, PayLate, Cancel, PromoteWaitlist, ReconcileExpired

\* The steps of the service lose nothing of it.
LEMMA MemoryKeeps ==
    ASSUME KInv, [Next]_vars, NEW P, NEW B, PaidIn(Memory, P), BookedIn(Memory, B)
    PROVE  PaidIn(Memory', P) /\ BookedIn(Memory', B)
<1>1. IInv /\ bookings \in [1 .. counter -> BookingRecord] /\ counter \in Nat
  BY BoundAssumption DEF KInv, JInv, IInv, TypeOK
<1>2. PaidIn(Memory', P)
  <2> SUFFICES ASSUME NEW b \in P
               PROVE  b \in DOMAIN bookings' /\ bookings'[b].status \in Paid \cup {"cancelled"}
    BY DEF PaidIn, Memory
  <2>1. b \in DOMAIN bookings /\ bookings[b].status \in Paid \cup {"cancelled"}
    BY DEF PaidIn, Memory
  <2> QED
    BY <1>1, <2>1, StatusCourse DEF Paid
<1>3. BookedIn(Memory', B)
  <2> SUFFICES ASSUME NEW a \in B
               PROVE  /\ a.id \in DOMAIN bookings'
                      /\ Asked(a.id, bookings'[a.id]) = a
                      /\ a.key \in Key \cup {NoKey}
                      /\ a.key # NoKey => idempotency'[a.key] = a.id
    BY DEF BookedIn, Memory
  <2>1. /\ a.id \in DOMAIN bookings
        /\ Asked(a.id, bookings[a.id]) = a
        /\ a.key \in Key \cup {NoKey}
        /\ a.key # NoKey => idempotency[a.key] = a.id
    BY DEF BookedIn, Memory
  <2>2. a.id \in DOMAIN bookings' /\ SameRequest(a.id)
    BY <1>1, <2>1, StepKeepsRequests DEF RequestsKept
  <2>3. Asked(a.id, bookings'[a.id]) = a
    BY <2>1, <2>2 DEF Asked, SameRequest
  <2>4. a.id # NoBooking
    BY <1>1, <2>1 DEF NoBooking
  <2> QED
    BY <1>1, <2>1, <2>2, <2>3, <2>4, KeysStay
<1> QED
  BY <1>2, <1>3

\* An update, the write that follows, and the answer: P and B are what the client is
\* told when the write succeeds.
LEMMA AnsweredInvariant ==
    ASSUME RInv, [Next]_vars, NEW P, NEW B, PaidIn(Memory', P), BookedIn(Memory', B),
           \/ /\ disk' = Memory' /\ paid' = paid \cup P /\ booked' = booked \cup B
           \/ UNCHANGED <<disk, paid, booked>>
    PROVE  RInv'
<1>1. KInv'
  BY NextMemory DEF RInv
<1>2. Good(Memory')
  <2>1. (KInv => Good(Memory))'
    BY MemoryIsGood, PTL
  <2> QED
    BY <1>1, <2>1
<1>3. PaidIn(Memory', paid) /\ BookedIn(Memory', booked)
  BY MemoryKeeps DEF RInv
<1>4. CASE disk' = Memory' /\ paid' = paid \cup P /\ booked' = booked \cup B
  <2>1. PaidIn(Memory', paid \cup P) /\ BookedIn(Memory', booked \cup B)
    BY <1>3 DEF PaidIn, BookedIn
  <2> QED
    BY <1>1, <1>2, <1>4, <2>1 DEF RInv
<1>5. CASE UNCHANGED <<disk, paid, booked>>
  BY <1>1, <1>3, <1>5 DEF RInv
<1> QED
  BY <1>4, <1>5

\* Updates of which no client keeps the answer.
LEMMA UnaskedInvariant ==
    ASSUME RInv, [Next]_vars, Persist \/ UNCHANGED disk, UNCHANGED <<booked, paid>>
    PROVE  RInv'
<1>1. PaidIn(Memory', {}) /\ BookedIn(Memory', {})
  BY DEF PaidIn, BookedIn
<1>2. disk' = Memory' \/ disk' = disk
  BY DEF Persist
<1>3. CASE disk' = Memory'
  BY <1>1, <1>3, AnsweredInvariant
<1>4. CASE disk' = disk
  BY <1>1, <1>4, AnsweredInvariant
<1> QED
  BY <1>2, <1>3, <1>4

LEMMA BookInvariant ==
    ASSUME RInv, NEW r \in Request, Book(r)
    PROVE  RInv'
<1> DEFINE a == Asked(counter + 1, r)
<1>1. /\ CreateBooking(r) /\ Persist
      /\ booked' = Answer(booked, Asked(counter', r)) /\ UNCHANGED paid
      /\ counter' = counter + 1 /\ idempotency' = [k \in Key |-> IF k = r.key THEN counter + 1
                                                                              ELSE idempotency[k]]
  BY DEF Book, CreateBooking
<1>2. IInv /\ counter \in Nat /\ r.key \in Key \cup {NoKey}
  BY BoundAssumption, RequestAssumption DEF RInv, KInv, JInv, IInv, TypeOK, BookingRequest
<1>3. /\ a.id = counter + 1 /\ a.key = r.key
      /\ counter + 1 \in DOMAIN bookings'
      /\ Asked(counter + 1, bookings'[counter + 1]) = a
  BY <1>1, <1>2, NewBooking DEF Asked
<1> HIDE DEF a
<1>4. BookedIn(Memory', {a})
  BY <1>1, <1>2, <1>3 DEF BookedIn, Memory
<1>5. PaidIn(Memory', {})
  BY DEF PaidIn
<1>6. [Next]_vars
  BY <1>1 DEF Next, ServiceCall
<1>7. \/ /\ disk' = Memory' /\ paid' = paid \cup {} /\ booked' = booked \cup {a}
      \/ UNCHANGED <<disk, paid, booked>>
  BY <1>1 DEF Persist, Answer, a
<1> QED
  BY <1>4, <1>5, <1>6, <1>7, AnsweredInvariant

\* A repeat is answered with what the key stands for.
LEMMA BookAgainInvariant ==
    ASSUME RInv, NEW r \in Request, BookAgain(r)
    PROVE  RInv'
<1> DEFINE b == idempotency[r.key]
           a == Asked(b, bookings[b])
<1>1. /\ UNCHANGED vars /\ Persist /\ UNCHANGED paid
      /\ booked' = Answer(booked, a)
      /\ r.key # NoKey /\ b # NoBooking
  BY DEF BookAgain
<1>2. /\ idempotency \in [Key -> {NoBooking} \cup DOMAIN bookings]
      /\ bookings \in [1 .. counter -> BookingRecord]
      /\ r.key \in Key \cup {NoKey}
  BY RequestAssumption DEF RInv, KInv, JInv, IInv, TypeOK, BookingRequest
<1>3. b \in DOMAIN bookings /\ bookings[b].key \in Key \cup {NoKey}
  BY <1>1, <1>2 DEF BookingRecord
<1>4. bookings[b].key # NoKey => idempotency[bookings[b].key] = b
  BY <1>3 DEF RInv, KInv, JInv, OneBookingPerKey
<1>5. a.id = b /\ a.key = bookings[b].key /\ a = Asked(b, bookings[b])
  BY DEF Asked
<1>6. UNCHANGED <<bookings, idempotency>>
  BY <1>1 DEF vars
<1> HIDE DEF a, b
<1>7. BookedIn(Memory', {a})
  BY <1>3, <1>4, <1>5, <1>6 DEF BookedIn, Memory
<1>8. PaidIn(Memory', {})
  BY DEF PaidIn
<1>9. \/ /\ disk' = Memory' /\ paid' = paid \cup {} /\ booked' = booked \cup {a}
      \/ UNCHANGED <<disk, paid, booked>>
  BY <1>1 DEF Persist, Answer
<1> QED
  BY <1>1, <1>7, <1>8, <1>9, AnsweredInvariant

LEMMA PayInvariant ==
    ASSUME RInv, NEW b, b \in 1 .. MaxBookings, Pay(b) \/ PayAgain(b)
    PROVE  RInv'
<1>1. bookings \in [1 .. counter -> BookingRecord]
  BY DEF RInv, KInv, JInv, IInv, TypeOK
<1>2. [Next]_vars /\ b \in DOMAIN bookings' /\ bookings'[b].status = "confirmed"
  <2>1. CASE Pay(b)
    BY <1>1, <2>1 DEF Pay, PayInTime, Known, Next, ServiceCall, BookingRecord
  <2>2. CASE PayAgain(b)
    BY <2>2 DEF PayAgain, Known, vars
  <2> QED
    BY <2>1, <2>2
<1>3. PaidIn(Memory', {b}) /\ BookedIn(Memory', {})
  BY <1>2 DEF PaidIn, BookedIn, Memory, Paid
<1>4. \/ /\ disk' = Memory' /\ paid' = paid \cup {b} /\ booked' = booked \cup {}
      \/ UNCHANGED <<disk, paid, booked>>
  BY DEF Pay, PayAgain, Persist, Answer
<1> QED
  BY <1>2, <1>3, <1>4, AnsweredInvariant

LEMMA RestartInvariant ==
    ASSUME RInv, Restart
    PROVE  RInv'
<1>1. KInv'
  BY RestartRestores DEF RInv, KInv, JInv, IInv, TypeOK
<1>2. UNCHANGED <<disk, booked, paid>> /\ bookings' = disk.bookings /\ idempotency' = disk.idempotency
  BY DEF Restart
<1>3. PaidIn(Memory', paid) /\ BookedIn(Memory', booked)
  BY <1>2 DEF RInv, PaidIn, BookedIn, Memory
<1> QED
  BY <1>1, <1>2, <1>3 DEF RInv

LEMMA RecoveryStepInvariant == RInv /\ [RecoveryNext]_recoveryVars => RInv'
<1> SUFFICES ASSUME RInv, [RecoveryNext]_recoveryVars PROVE RInv'
  OBVIOUS
<1>1. CASE Pass \/ UNCHANGED recoveryVars
  BY <1>1, UnaskedInvariant DEF Pass, recoveryVars, Next
<1>2. CASE Restart
  BY <1>2, RestartInvariant
<1>3. CASE Reconcile
  BY <1>3, UnaskedInvariant DEF Reconcile, Next
<1>4. CASE Serve
  BY <1>4, UnaskedInvariant DEF Serve, Next, ServiceCall
<1>5. ASSUME NEW r \in Request, Book(r) PROVE RInv'
  BY <1>5, BookInvariant
<1>6. ASSUME NEW r \in Request, BookAgain(r) PROVE RInv'
  BY <1>6, BookAgainInvariant
<1>7. ASSUME NEW b \in 1 .. MaxBookings, Pay(b) \/ PayAgain(b) PROVE RInv'
  BY <1>7, PayInvariant
<1>8. ASSUME NEW b \in 1 .. MaxBookings, PayTooLate(b) PROVE RInv'
  BY <1>8, UnaskedInvariant DEF PayTooLate, Next, ServiceCall
<1> QED
  BY <1>1, <1>2, <1>3, <1>4, <1>5, <1>6, <1>7, <1>8 DEF RecoveryNext

-----------------------------------------------------------------------------
\* The theorems about crashes and restarts.

\* The invariant holds of every behaviour of the service on top of the store.
THEOREM RecoveryInvariant == RecoverySpec => []RInv
<1>1. RecoveryInit => RInv
  <2> SUFFICES ASSUME RecoveryInit PROVE RInv
    OBVIOUS
  <2>1. KInv /\ disk = Memory /\ paid = {} /\ booked = {}
    BY InitMemory DEF RecoveryInit
  <2>2. Good(Memory)
    BY <2>1, MemoryIsGood
  <2> QED
    BY <2>1, <2>2 DEF RInv, PaidIn, BookedIn
<1> QED
  BY <1>1, RecoveryStepInvariant, PTL DEF RecoverySpec

\* Whatever the moment of a crash, the snapshot on disk is one the service can go on
\* from.
THEOREM SnapshotAlwaysConsistent == RecoverySpec => []SnapshotIsConsistent
<1>1. RInv => SnapshotIsConsistent
  BY DEF RInv, Good, Types, SnapshotIsConsistent
<1> QED
  BY <1>1, RecoveryInvariant, PTL

\* No crash, no failed write and no retry loses a payment that was answered with
\* success.
THEOREM PaymentAlwaysSurvives == RecoverySpec => []PaymentSurvives
<1>1. RInv => PaymentSurvives
  BY DEF RInv, PaidIn, Memory, PaymentSurvives
<1> QED
  BY <1>1, RecoveryInvariant, PTL

\* Nor a booking that was answered with success, nor the way its key leads to it.
THEOREM BookingAlwaysSurvives == RecoverySpec => []BookingSurvives
<1>1. RInv => BookingSurvives
  BY DEF RInv, BookedIn, Memory, BookingSurvives
<1> QED
  BY <1>1, RecoveryInvariant, PTL

\* A process that starts to serve has dealt with every freeze that expired while
\* it was down.
THEOREM AlwaysServesReconciled == RecoverySpec => ServesReconciled
<1>1. RInv /\ [RecoveryNext]_recoveryVars => (~serving /\ serving' => Overdue' = {})
  <2> SUFFICES ASSUME RInv, [RecoveryNext]_recoveryVars, ~serving, serving'
               PROVE  Overdue' = {}
    OBVIOUS
  <2>1. Reconcile
    BY DEF RecoveryNext, recoveryVars, Pass, Restart, Serve, Book, BookAgain, Pay, PayAgain,
           PayTooLate
  <2>2. CASE ReconcileExpired
    BY <2>2, ReconcileSettles DEF RInv, KInv, JInv
  <2>3. CASE Overdue = {} /\ UNCHANGED vars
    BY <2>3 DEF Overdue, Expired, vars
  <2> QED
    BY <2>1, <2>2, <2>3 DEF Reconcile
<1>2. RecoverySpec => [][~serving /\ serving' => Overdue' = {}]_recoveryVars
  BY <1>1, RecoveryInvariant, PTL DEF RecoverySpec
<1> QED
  BY <1>2 DEF ServesReconciled

-----------------------------------------------------------------------------
\* Calls.

CallRecord ==
    [stage : {"unused", "sent", "ran", "coded", "over"},
     request : Request \cup {NoRequest},
     booking : Nat,
     result : {"none", "ok", "unsaved", "too_late", "refused"},
     code : {"none", "created", "accepted", "fine", "failed", "too_late", "refused"},
     body : BookingStatus \cup {"none"},
     told : {"none", "timeout", "created", "accepted", "fine", "failed", "too_late",
             "refused"}]

\* What is true of a call, by itself: how far it is, and what has followed from what.
Orderly(x) ==
    /\ x.stage \in {"unused", "sent"} => x.result = "none"
    /\ x.stage \in {"unused", "sent", "ran"} => x.code = "none"
    /\ x.code \in {"created", "fine"} => x.result = "ok"
    /\ x.code = "created" => x.request # NoRequest
    /\ x.code = "fine" => x.request = NoRequest
    /\ x.code = "too_late" => x.result = "too_late"
    /\ x.told \notin {"none", "timeout"} => x.stage = "over" /\ x.told = x.code
    /\ x.stage = "over" /\ x.code = "created" => x.body # "waitlisted"

\* And with regard to the bookings: what its update has led to lasts.
Lasting(x) ==
    /\ x.request # NoRequest /\ x.result \in Saved =>
          /\ x.booking \in DOMAIN bookings
          /\ x.request.key # NoKey => idempotency[x.request.key] = x.booking
    /\ x.code = "created" => bookings[x.booking].status # "waitlisted"
    /\ x.request = NoRequest /\ x.stage # "unused" => x.booking \in DOMAIN bookings
    /\ x.request = NoRequest /\ x.result \in Saved =>
          bookings[x.booking].status \in Paid \cup {"cancelled"}
    /\ x.result = "too_late" =>
          /\ x.booking \in DOMAIN bookings
          /\ bookings[x.booking].status = "released"

\* The inductive invariant: calls are what they seem, and lead to what they led to.
CallsHold == \A c \in Call : Orderly(calls[c]) /\ Lasting(calls[c])

CInv == KInv /\ calls \in [Call -> CallRecord] /\ CallsHold

\* Whatever the service does, what calls have led to stays.
LEMMA WhatLasts ==
    ASSUME KInv, [Next]_vars, NEW x \in CallRecord, Orderly(x), Lasting(x)
    PROVE  Lasting(x)'
<1>1. /\ IInv /\ bookings \in [1 .. counter -> BookingRecord] /\ counter \in Nat
  BY BoundAssumption DEF KInv, JInv, IInv, TypeOK
<1>2. ASSUME x.booking \in DOMAIN bookings
      PROVE  /\ x.booking \in DOMAIN bookings'
             /\ bookings[x.booking].status \in Paid \cup {"cancelled"} =>
                   bookings'[x.booking].status \in Paid \cup {"cancelled"}
             /\ bookings[x.booking].status = "released" =>
                   bookings'[x.booking].status = "released"
             /\ bookings[x.booking].status # "waitlisted" =>
                   bookings'[x.booking].status # "waitlisted"
  BY <1>1, <1>2, StatusCourse DEF Paid
<1>3. ASSUME x.request # NoRequest, x.result \in Saved, x.request.key # NoKey
      PROVE  idempotency'[x.request.key] = x.booking
  <2>1. x.booking \in DOMAIN bookings /\ idempotency[x.request.key] = x.booking
    BY <1>3 DEF Lasting
  <2>2. x.request.key \in Key
    <3>1. x.request \in Request
      BY <1>3 DEF CallRecord
    <3> QED
      BY <1>3, <3>1, RequestAssumption DEF BookingRequest
  <2>3. idempotency[x.request.key] # NoBooking
    BY <1>1, <2>1 DEF NoBooking
  <2> QED
    BY <1>1, <2>1, <2>2, <2>3, KeysStay
<1> QED
  BY <1>2, <1>3 DEF Lasting, Orderly, Saved

\* One call goes from x to y, while the service takes a step or none.
LEMMA OneCallMoves ==
    ASSUME CInv, [Next]_vars, NEW c \in Call, NEW y \in CallRecord,
           calls' = [calls EXCEPT ![c] = y], Orderly(y), Lasting(y)'
    PROVE  CInv'
<1>1. KInv'
  BY NextMemory DEF CInv
<1>2. calls' \in [Call -> CallRecord]
  BY DEF CInv
<1>3. ASSUME NEW d \in Call PROVE (Orderly(calls[d]) /\ Lasting(calls[d]))'
  <2>1. CASE d = c
    <3>1. calls'[d] = y
      BY <2>1 DEF CInv
    <3> QED
      BY <3>1 DEF Orderly, Lasting
  <2>2. CASE d # c
    <3>1. PICK x \in CallRecord : x = calls[d]
      BY DEF CInv
    <3>2. calls'[d] = x
      BY <2>2, <3>1 DEF CInv
    <3>3. Orderly(x) /\ Lasting(x)
      BY <3>1 DEF CInv, CallsHold
    <3>4. Lasting(x)'
      BY <3>3, WhatLasts DEF CInv
    <3> QED
      BY <3>2, <3>3, <3>4 DEF Orderly, Lasting
  <2> QED
    BY <2>1, <2>2
<1> QED
  BY <1>1, <1>2, <1>3 DEF CInv, CallsHold

\* All calls stay as they are.
LEMMA NoCallMoves == ASSUME CInv, [Next]_vars, UNCHANGED calls PROVE CInv'
<1>1. KInv'
  BY NextMemory DEF CInv
<1>2. ASSUME NEW d \in Call PROVE (Orderly(calls[d]) /\ Lasting(calls[d]))'
  <2>1. PICK x \in CallRecord : x = calls[d]
    BY DEF CInv
  <2>2. calls'[d] = x /\ Orderly(x) /\ Lasting(x)
    BY <2>1 DEF CInv, CallsHold
  <2>3. Lasting(x)'
    BY <2>2, WhatLasts DEF CInv
  <2> QED
    BY <2>2, <2>3 DEF Orderly, Lasting
<1> QED
  BY <1>1, <1>2 DEF CInv, CallsHold

\* A client sends a call.
LEMMA SendInvariant ==
    ASSUME CInv, NEW c \in Call,
           \/ \E r \in Request : SendBooking(c, r)
           \/ \E b \in 1 .. MaxBookings : SendPayment(c, b)
    PROVE  CInv'
<1>1. PICK x \in CallRecord : x = calls[c]
  BY DEF CInv
<1>2. x.stage = "unused" /\ Orderly(x) /\ Lasting(x) /\ x.result = "none" /\ x.code = "none"
  BY <1>1 DEF SendBooking, SendPayment, At, CInv, CallsHold, Orderly
<1>3. UNCHANGED vars /\ [Next]_vars
  BY DEF SendBooking, SendPayment
<1>4. ASSUME NEW r \in Request, SendBooking(c, r) PROVE CInv'
  <2> DEFINE y == [x EXCEPT !.stage = "sent", !.request = r]
  <2>1. /\ calls' = [calls EXCEPT ![c] = y]
        /\ y \in CallRecord
        /\ y.stage = "sent" /\ y.request = r /\ y.result = "none" /\ y.code = "none"
        /\ y.told = x.told
    BY <1>1, <1>2, <1>4 DEF SendBooking, CallRecord, CInv
  <2> HIDE DEF y
  <2>2. Orderly(y) /\ Lasting(y)'
    BY <1>2, <2>1, NoRequestAssumption DEF Orderly, Lasting, Saved
  <2> QED
    BY <1>3, <2>1, <2>2, OneCallMoves
<1>5. ASSUME NEW b \in 1 .. MaxBookings, SendPayment(c, b) PROVE CInv'
  <2> DEFINE y == [x EXCEPT !.stage = "sent", !.booking = b]
  <2>1. /\ calls' = [calls EXCEPT ![c] = y]
        /\ y \in CallRecord
        /\ y.stage = "sent" /\ y.booking = b /\ y.result = "none" /\ y.code = "none"
        /\ y.told = x.told
    <3>1. calls' = [calls EXCEPT ![c].stage = "sent", ![c].booking = b] /\ b \in Nat
      BY <1>5, BoundAssumption DEF SendPayment
    <3>2. calls \in [Call -> CallRecord]
      BY DEF CInv
    <3>3. calls' = [calls EXCEPT ![c] = y]
      BY <1>1, <3>1, <3>2 DEF CallRecord
    <3> QED
      BY <1>1, <1>2, <3>1, <3>3 DEF CallRecord
  <2>2. b \in DOMAIN bookings'
    BY <1>3, <1>5 DEF SendPayment, Known, vars
  <2> HIDE DEF y
  <2>3. Orderly(y) /\ Lasting(y)'
    BY <1>2, <2>1, <2>2 DEF Orderly, Lasting, Saved
  <2> QED
    BY <1>3, <2>1, <2>3, OneCallMoves
<1> QED
  BY <1>4, <1>5

\* The update of a call ends: b and res are what it comes to.
LEMMA RanInvariant ==
    ASSUME CInv, [Next]_vars, NEW c \in Call, At(c, "sent"), NEW b \in Nat,
           NEW res \in {"ok", "unsaved", "too_late", "refused"}, Ran(c, b, {res}),
           Books(c) /\ res \in Saved =>
              /\ b \in DOMAIN bookings'
              /\ calls[c].request.key # NoKey => idempotency'[calls[c].request.key] = b,
           ~Books(c) => b \in DOMAIN bookings',
           ~Books(c) /\ res \in Saved => bookings'[b].status \in Paid \cup {"cancelled"},
           res = "too_late" => /\ b \in DOMAIN bookings'
                               /\ bookings'[b].status = "released"
    PROVE  CInv'
<1>1. PICK x \in CallRecord : x = calls[c]
  BY DEF CInv
<1>2. x.stage = "sent" /\ Orderly(x) /\ x.code = "none"
  BY <1>1 DEF At, CInv, CallsHold, Orderly
<1> DEFINE y == [x EXCEPT !.stage = "ran", !.booking = b, !.result = res]
<1>3. /\ calls' = [calls EXCEPT ![c] = y]
      /\ y \in CallRecord
      /\ y.stage = "ran" /\ y.booking = b /\ y.result = res /\ y.code = "none"
      /\ y.told = x.told /\ y.request = x.request
  <2>1. calls' = [calls EXCEPT ![c].stage = "ran", ![c].booking = b, ![c].result = res]
    BY DEF Ran
  <2>2. calls \in [Call -> CallRecord]
    BY DEF CInv
  <2>3. calls' = [calls EXCEPT ![c] = y]
    BY <1>1, <2>1, <2>2 DEF CallRecord
  <2> QED
    BY <1>1, <1>2, <2>3 DEF CallRecord
<1> HIDE DEF y
<1>4. Orderly(y) /\ Lasting(y)'
  BY <1>1, <1>2, <1>3 DEF Orderly, Lasting, Saved, Books
<1> QED
  BY <1>3, <1>4, OneCallMoves

LEMMA RunBookingInvariant ==
    ASSUME CInv, NEW c \in Call, RunBooking(c)
    PROVE  CInv'
<1>1. PICK r \in Request : r = calls[c].request
  BY DEF RunBooking, Books, CInv, CallRecord
<1>2. /\ At(c, "sent") /\ Books(c)
      /\ r.key \in Key \cup {NoKey}
      /\ IInv /\ counter \in Nat /\ bookings \in [1 .. counter -> BookingRecord]
      /\ idempotency \in [Key -> {NoBooking} \cup DOMAIN bookings]
  BY BoundAssumption, RequestAssumption
     DEF RunBooking, CInv, KInv, JInv, IInv, TypeOK, BookingRequest
<1>3. ASSUME CreateBooking(r), Ran(c, counter', Saved) PROVE CInv'
  <2>1. PICK b \in Nat : b = counter + 1
    BY <1>2
  <2>2. /\ counter' = b
        /\ r.key # NoKey => idempotency'[r.key] = b
    BY <1>2, <1>3, <2>1 DEF CreateBooking
  <2>3. b \in DOMAIN bookings'
    BY <1>2, <1>3, <2>1, NewBooking
  <2>4. PICK res \in Saved : Ran(c, b, {res})
    BY <1>3, <2>2 DEF Ran
  <2>5. [Next]_vars
    BY <1>3 DEF Next, ServiceCall
  <2> QED
    BY <1>1, <1>2, <2>2, <2>3, <2>4, <2>5, RanInvariant DEF Saved
<1>4. ASSUME Seen(r), UNCHANGED vars, Ran(c, idempotency[r.key], Saved) PROVE CInv'
  <2>1. PICK b \in Nat : b = idempotency[r.key] /\ b \in DOMAIN bookings
    BY <1>2, <1>4 DEF Seen
  <2>2. PICK res \in Saved : Ran(c, b, {res})
    BY <1>4, <2>1 DEF Ran
  <2>3. b \in DOMAIN bookings' /\ idempotency'[r.key] = b
    BY <1>4, <2>1 DEF vars
  <2> QED
    BY <1>1, <1>2, <1>4, <2>2, <2>3, RanInvariant DEF Saved
<1>5. ASSUME UNCHANGED vars, Ran(c, NoBooking, {"refused"}) PROVE CInv'
  <2>1. NoBooking \in Nat
    BY DEF NoBooking
  <2> QED
    BY <1>2, <1>5, <2>1, RanInvariant DEF Saved
<1> QED
  BY <1>1, <1>3, <1>4, <1>5 DEF RunBooking

LEMMA RunPaymentInvariant ==
    ASSUME CInv, NEW c \in Call, RunPayment(c)
    PROVE  CInv'
<1>1. PICK x \in CallRecord : x = calls[c]
  BY DEF CInv
<1>2. PICK b \in Nat : b = x.booking
  BY DEF CallRecord
<1>3. /\ At(c, "sent") /\ ~Books(c)
      /\ b \in DOMAIN bookings
      /\ IInv /\ counter \in 0 .. MaxBookings /\ bookings \in [1 .. counter -> BookingRecord]
  BY <1>1, <1>2 DEF RunPayment, At, Books, CInv, CallsHold, Lasting, KInv, JInv, IInv, TypeOK
<1>4. b \in 1 .. MaxBookings
  BY <1>3, BoundAssumption
<1>5. ASSUME PayInTime(b), Ran(c, b, Saved) PROVE CInv'
  <2>1. PICK res \in Saved : Ran(c, b, {res})
    BY <1>5 DEF Ran
  <2>2. [Next]_vars
    BY <1>4, <1>5 DEF Next, ServiceCall
  <2>3. b \in DOMAIN bookings' /\ bookings'[b].status = "confirmed"
    BY <1>3, <1>5 DEF PayInTime, BookingRecord
  <2> QED
    BY <1>3, <2>1, <2>2, <2>3, RanInvariant DEF Saved, Paid
<1>6. ASSUME PayLate(b), Ran(c, b, {"too_late"}) PROVE CInv'
  <2>1. [Next]_vars
    BY <1>4, <1>6 DEF Next, ServiceCall
  <2>2. b \in DOMAIN bookings' /\ bookings'[b] = [bookings[b] EXCEPT !.status = "released"]
    BY <1>3, <1>6, PayLateHands DEF Hands, Data
  <2>3. bookings'[b].status = "released"
    BY <1>3, <2>2 DEF BookingRecord
  <2> QED
    BY <1>3, <1>6, <2>1, <2>2, <2>3, RanInvariant DEF Saved
<1>7. ASSUME bookings[b].status = "confirmed", UNCHANGED vars, Ran(c, b, Saved) PROVE CInv'
  <2>1. PICK res \in Saved : Ran(c, b, {res})
    BY <1>7 DEF Ran
  <2>2. b \in DOMAIN bookings' /\ bookings'[b].status = "confirmed"
    BY <1>3, <1>7 DEF vars
  <2> QED
    BY <1>3, <1>7, <2>1, <2>2, RanInvariant DEF Saved, Paid
<1>8. ASSUME UNCHANGED vars, Ran(c, b, {"refused"}) PROVE CInv'
  <2>1. b \in DOMAIN bookings'
    BY <1>3, <1>8 DEF vars
  <2> QED
    BY <1>3, <1>8, <2>1, RanInvariant DEF Saved
<1> QED
  BY <1>1, <1>2, <1>5, <1>6, <1>7, <1>8 DEF RunPayment

\* The answer: the goroutine looks at the booking twice, and what it saw first is
\* still so the second time as far as the answer tells.
LEMMA HeaderInvariant ==
    ASSUME CInv, NEW c \in Call, WriteHeader(c)
    PROVE  CInv'
<1>1. PICK x \in CallRecord : x = calls[c]
  BY DEF CInv
<1>2. x.stage = "ran" /\ Orderly(x) /\ Lasting(x) /\ x.result = calls[c].result
  BY <1>1 DEF WriteHeader, At, CInv, CallsHold
<1>3. PICK code : code = CodeOf(c)
  OBVIOUS
<1>4. /\ x.result = "ok" /\ x.request # NoRequest =>
            \/ code = "accepted"
            \/ code = "created" /\ bookings[x.booking].status # "waitlisted"
      /\ x.result = "ok" /\ x.request = NoRequest => code = "fine"
      /\ x.result = "unsaved" => code = "failed"
      /\ x.result \notin {"ok", "unsaved"} => code = x.result
  BY <1>1, <1>3 DEF CodeOf, Books
<1>5. x.result \in {"none", "ok", "unsaved", "too_late", "refused"}
  BY DEF CallRecord
<1>6. code \in {"none", "created", "accepted", "fine", "failed", "too_late", "refused"}
  BY <1>4, <1>5
<1> DEFINE y == [x EXCEPT !.stage = "coded", !.code = code]
<1>7. /\ calls' = [calls EXCEPT ![c] = y]
      /\ y \in CallRecord
      /\ y.stage = "coded" /\ y.code = code
      /\ y.request = x.request /\ y.booking = x.booking /\ y.result = x.result
      /\ y.told = x.told /\ y.body = x.body
  <2>1. calls' = [calls EXCEPT ![c].stage = "coded", ![c].code = code]
    BY <1>3 DEF WriteHeader
  <2>2. calls \in [Call -> CallRecord]
    BY DEF CInv
  <2>3. calls' = [calls EXCEPT ![c] = y]
    BY <1>1, <2>1, <2>2 DEF CallRecord
  <2>4. y \in CallRecord
    BY <1>6 DEF CallRecord
  <2> QED
    BY <2>3, <2>4 DEF CallRecord
<1> HIDE DEF y
<1>8. Orderly(y)
  BY <1>2, <1>4, <1>5, <1>7 DEF Orderly
<1>9. UNCHANGED vars
  BY DEF WriteHeader
<1>10. Lasting(y)
  BY <1>2, <1>4, <1>5, <1>7 DEF Lasting
<1>11. Lasting(y)'
  BY <1>9, <1>10 DEF Lasting, vars
<1> QED
  BY <1>7, <1>8, <1>9, <1>11, OneCallMoves

LEMMA BodyInvariant ==
    ASSUME CInv, NEW c \in Call, WriteBody(c)
    PROVE  CInv'
<1>1. PICK x \in CallRecord : x = calls[c]
  BY DEF CInv
<1>2. x.stage = "coded" /\ Orderly(x) /\ Lasting(x)
  BY <1>1 DEF WriteBody, At, CInv, CallsHold
<1>3. PICK body : body = IF x.result = "ok" THEN bookings[x.booking].status ELSE "none"
  OBVIOUS
<1>4. PICK told : told = IF x.told = "none" THEN x.code ELSE x.told
  OBVIOUS
<1>5. body \in BookingStatus \cup {"none"}
  <2>1. bookings \in [1 .. counter -> BookingRecord]
    BY DEF CInv, KInv, JInv, IInv, TypeOK
  <2>2. CASE x.result = "ok"
    <3>1. x.booking \in DOMAIN bookings
      BY <1>2, <2>2 DEF Lasting, Saved
    <3>2. bookings[x.booking] \in BookingRecord
      BY <2>1, <3>1
    <3> QED
      BY <1>3, <2>2, <3>2 DEF BookingRecord
  <2> QED
    BY <1>3, <2>2
<1> DEFINE y == [x EXCEPT !.stage = "over", !.body = body, !.told = told]
<1>6. /\ calls' = [calls EXCEPT ![c] = y]
      /\ y \in CallRecord
      /\ y.stage = "over" /\ y.body = body /\ y.told = told /\ y.code = x.code
      /\ y.request = x.request /\ y.booking = x.booking /\ y.result = x.result
  <2>1. calls' = [calls EXCEPT ![c].stage = "over", ![c].body = body, ![c].told = told]
    BY <1>1, <1>3, <1>4 DEF WriteBody, CInv, CallRecord
  <2>2. calls \in [Call -> CallRecord]
    BY DEF CInv
  <2>3. calls' = [calls EXCEPT ![c] = y]
    BY <1>1, <2>1, <2>2 DEF CallRecord
  <2>4. told \in {"none", "timeout", "created", "accepted", "fine", "failed", "too_late",
                 "refused"}
    BY <1>4 DEF CallRecord
  <2>5. y \in CallRecord
    BY <1>5, <2>4 DEF CallRecord
  <2> QED
    BY <2>3, <2>5 DEF CallRecord
<1> HIDE DEF y
<1>7. x.code = "created" => body # "waitlisted"
  BY <1>2, <1>3 DEF Orderly, Lasting
<1>8. Orderly(y)
  BY <1>2, <1>4, <1>6, <1>7 DEF Orderly
<1>9. UNCHANGED vars
  BY DEF WriteBody
<1>10. Lasting(y)
  BY <1>2, <1>6 DEF Lasting
<1>11. Lasting(y)'
  BY <1>9, <1>10 DEF Lasting, vars
<1> QED
  BY <1>6, <1>8, <1>9, <1>11, OneCallMoves

LEMMA TimeOutInvariant ==
    ASSUME CInv, NEW c \in Call, TimeOut(c)
    PROVE  CInv'
<1>1. PICK x \in CallRecord : x = calls[c]
  BY DEF CInv
<1>2. Orderly(x) /\ Lasting(x)
  BY <1>1 DEF CInv, CallsHold
<1> DEFINE y == [x EXCEPT !.told = "timeout"]
<1>3. /\ calls' = [calls EXCEPT ![c] = y]
      /\ y \in CallRecord
      /\ y.told = "timeout" /\ y.stage = x.stage /\ y.body = x.body /\ y.code = x.code
      /\ y.request = x.request /\ y.booking = x.booking /\ y.result = x.result
  BY <1>1 DEF TimeOut, CallRecord, CInv
<1> HIDE DEF y
<1>4. Orderly(y)
  BY <1>2, <1>3 DEF Orderly
<1>5. UNCHANGED vars
  BY DEF TimeOut
<1>6. Lasting(y)
  BY <1>2, <1>3 DEF Lasting
<1>7. Lasting(y)'
  BY <1>5, <1>6 DEF Lasting, vars
<1> QED
  BY <1>3, <1>4, <1>5, <1>7, OneCallMoves

LEMMA ApiStepInvariant == CInv /\ [ApiNext]_apiVars => CInv'
<1> SUFFICES ASSUME CInv, [ApiNext]_apiVars PROVE CInv'
  OBVIOUS
<1>1. CASE UNCHANGED apiVars
  BY <1>1, NoCallMoves DEF apiVars
<1>2. CASE Elsewhere
  BY <1>2, NoCallMoves DEF Elsewhere, Next, ServiceCall
<1>3. ASSUME NEW c \in Call, NEW r \in Request, SendBooking(c, r) PROVE CInv'
  BY <1>3, SendInvariant
<1>4. ASSUME NEW c \in Call, NEW b \in 1 .. MaxBookings, SendPayment(c, b) PROVE CInv'
  BY <1>4, SendInvariant
<1>5. ASSUME NEW c \in Call, Handler(c) \/ TimeOut(c) PROVE CInv'
  BY <1>5, RunBookingInvariant, RunPaymentInvariant, HeaderInvariant, BodyInvariant,
     TimeOutInvariant DEF Handler
<1> QED
  BY <1>1, <1>2, <1>3, <1>4, <1>5 DEF ApiNext

-----------------------------------------------------------------------------
\* The theorems about answers.

\* The invariant holds of every behaviour of the calls.
THEOREM ApiInvariant == ApiSpec => []CInv
<1>1. ApiInit => CInv
  <2> SUFFICES ASSUME ApiInit PROVE CInv
    OBVIOUS
  <2>1. KInv
    BY InitMemory DEF ApiInit
  <2>2. ASSUME NEW c \in Call PROVE calls[c] = Unused
    BY DEF ApiInit, CallsInit
  <2>3. Unused \in CallRecord
    BY DEF Unused, CallRecord, NoBooking
  <2>4. calls \in [Call -> CallRecord]
    BY <2>3 DEF ApiInit, CallsInit
  <2>5. Orderly(Unused) /\ Lasting(Unused)
    BY DEF Unused, Orderly, Lasting, Saved
  <2>6. CallsHold
    BY <2>2, <2>5 DEF CallsHold
  <2> QED
    BY <2>1, <2>4, <2>6 DEF CInv
<1> QED
  BY <1>1, ApiStepInvariant, PTL DEF ApiSpec

\* Calls that carry the same key come to the same booking, whichever ran first and
\* whatever their clients were told.
THEOREM KeyedCallsAlwaysShare == ApiSpec => []KeyedCallsShareABooking
<1>1. CInv => KeyedCallsShareABooking
  BY DEF CInv, CallsHold, Lasting, KeyedCallsShareABooking, Books
<1> QED
  BY <1>1, ApiInvariant, PTL

\* A booking that was told as created is not waiting in the body either.
THEOREM CreatedNeverWaits == ApiSpec => []CreatedIsNotWaiting
<1>1. CInv => CreatedIsNotWaiting
  BY DEF CInv, CallsHold, Orderly, CreatedIsNotWaiting
<1> QED
  BY <1>1, ApiInvariant, PTL

\* A payment told as made has been made, and one told as too late is never made.
THEOREM PaymentAnswersAlwaysHold == ApiSpec => []PaymentAnswersHold
<1>1. CInv => PaymentAnswersHold
  <2> SUFFICES ASSUME CInv, NEW c \in Call
               PROVE  /\ calls[c].told = "fine" =>
                            bookings[calls[c].booking].status \in Paid \cup {"cancelled"}
                      /\ calls[c].told = "too_late" =>
                            bookings[calls[c].booking].status \notin Paid
    BY DEF PaymentAnswersHold
  <2>1. Orderly(calls[c]) /\ Lasting(calls[c])
    BY DEF CInv, CallsHold
  <2> QED
    BY <2>1 DEF Orderly, Lasting, Saved, Paid
<1> QED
  BY <1>1, ApiInvariant, PTL

-----------------------------------------------------------------------------
\* The service under its calls.

\* Calls that overlap, are given up and are repeated make the steps of the service.
LEMMA CallsMakeSteps == CInv /\ [ApiNext]_apiVars => [Next]_vars
<1> SUFFICES ASSUME CInv, [ApiNext]_apiVars PROVE [Next]_vars
  OBVIOUS
<1>1. CASE Elsewhere
  BY <1>1 DEF Elsewhere, Next, ServiceCall
<1>2. ASSUME NEW c \in Call, RunBooking(c) PROVE [Next]_vars
  <2>1. PICK r \in Request : r = calls[c].request
    BY <1>2 DEF RunBooking, Books, CInv, CallRecord
  <2>2. CreateBooking(r) \/ UNCHANGED vars
    BY <1>2, <2>1 DEF RunBooking
  <2> QED
    BY <2>2 DEF Next, ServiceCall
<1>3. ASSUME NEW c \in Call, RunPayment(c) PROVE [Next]_vars
  <2>1. PICK b : b = calls[c].booking
    OBVIOUS
  <2>2. PayInTime(b) \/ PayLate(b) \/ UNCHANGED vars
    BY <1>3, <2>1 DEF RunPayment
  <2>3. DOMAIN bookings \in SUBSET (1 .. MaxBookings)
    BY BoundAssumption DEF CInv, KInv, JInv, IInv, TypeOK
  <2>4. PayInTime(b) \/ PayLate(b) => b \in 1 .. MaxBookings
    BY <2>3 DEF PayInTime, PayLate, Known
  <2> QED
    BY <2>2, <2>4 DEF Next, ServiceCall
<1>4. ASSUME \/ \E c \in Call, r \in Request : SendBooking(c, r)
             \/ \E c \in Call, b \in 1 .. MaxBookings : SendPayment(c, b)
             \/ \E c \in Call : WriteHeader(c) \/ WriteBody(c) \/ TimeOut(c)
             \/ UNCHANGED apiVars
      PROVE  UNCHANGED vars
  BY <1>4 DEF SendBooking, SendPayment, WriteHeader, WriteBody, TimeOut, apiVars
<1> QED
  BY <1>1, <1>2, <1>3, <1>4 DEF ApiNext, Handler

\* However calls for the same booking or key interleave, time out and come again, the
\* service keeps the ledger of SlotQuota.
THEOREM CallsKeepTheLedger == ApiSpec => ImplementsQuota
<1>1. ApiInit => Quota!QuotaInit
  BY LedgerInit DEF ApiInit
<1>2. CInv => QInv
  BY DEF CInv, KInv, JInv, QInv
<1>3. CInv /\ [ApiNext]_apiVars => [Quota!QuotaNext]_(Quota!quotaVars)
  BY <1>2, CallsMakeSteps, LedgerStep
<1> QED
  BY <1>1, <1>3, ApiInvariant, PTL DEF ApiSpec, ImplementsQuota, Quota!QuotaSpec
=============================================================================
