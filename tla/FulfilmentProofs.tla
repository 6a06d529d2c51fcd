-------------------------- MODULE FulfilmentProofs --------------------------
(***************************************************************************)
(* Theorems about Fulfilment: what holds of slots, manifests and arrivals  *)
(* when the manifest, arrival and dispatch services change the bookings    *)
(* of the booking service, each with its own status check.                 *)
(***************************************************************************)
EXTENDS Fulfilment, CourseProofs

Counting == {"submitted", "declared"}

\* Who has a manifest has paid; it may have been cancelled since.
ManifestsArePaid ==
    \A m \in DOMAIN manifests :
        /\ manifests[m].booking \in DOMAIN bookings
        /\ bookings[manifests[m].booking].status \in Paid \cup {"cancelled"}

OneCounts ==
    \A m, k \in DOMAIN manifests :
        /\ manifests[m].booking = manifests[k].booking
        /\ manifests[m].status \in Counting
        /\ manifests[k].status \in Counting
        => m = k

DeclaredBefore ==
    \A b \in DOMAIN bookings :
        bookings[b].status \in {"manifested", "arrived"} =>
            \E m \in DOMAIN manifests :
                manifests[m].booking = b /\ manifests[m].status = "declared"

\* The inductive invariant.  That an arrived booking has a declared manifest, and
\* one only that counts, is what keeps a late declaration away from it.
FInv ==
    /\ IInv
    /\ FlowTypeOK
    /\ ManifestsArePaid
    /\ OneCounts
    /\ DeclaredBefore
    /\ ArrivalsMatchBookings

\* A manifest is of a booking that has paid, an arrival record of one that has arrived.
LEMMA FlowIsTyped == FInv => FulfilTypeOK
<1> SUFFICES ASSUME FInv PROVE FulfilTypeOK
  OBVIOUS
<1>1. \A m \in DOMAIN manifests : manifests[m].booking \in DOMAIN bookings
  BY DEF FInv, ManifestsArePaid
<1>2. ASSUME NEW a \in DOMAIN arrivals PROVE arrivals[a].booking \in DOMAIN bookings
  <2>1. arrivals[a].booking \in {arrivals[x].booking : x \in DOMAIN arrivals}
    OBVIOUS
  <2> QED
    BY <2>1 DEF FInv, ArrivalsMatchBookings
<1> QED
  BY <1>1, <1>2 DEF FInv, IInv, FulfilTypeOK

LEMMA FlowIsTypedNext == FInv' => FulfilTypeOK'
BY FlowIsTyped, PTL

-----------------------------------------------------------------------------
\* The steps.

\* The slots and the waitlist agree with their bookings as before, when the status
\* of one that has paid, or had and was cancelled, is written.
LEMMA StatusWritten ==
    ASSUME IInv, NEW b \in DOMAIN bookings, bookings[b].status \in Paid \cup {"cancelled"},
           NEW st \in Paid, bookings' = [bookings EXCEPT ![b].status = st],
           UNCHANGED <<now, cargo, voyages, slots, waitlist, idempotency, counter>>
    PROVE  IInv'
<1>1. TypeOK /\ bookings \in [1 .. counter -> BookingRecord]
  BY DEF IInv, TypeOK
<1>2. \A x \in DOMAIN bookings :
         /\ bookings'[x].status = IF x = b THEN st ELSE bookings[x].status
         /\ bookings'[x].voyage = bookings[x].voyage
         /\ bookings'[x].slotType = bookings[x].slotType
  BY <1>1 DEF BookingRecord
<1>3. bookings' \in [1 .. counter -> BookingRecord]
  <2>1. bookings' = [x \in 1 .. counter |->
                       IF x = b THEN [bookings[b] EXCEPT !.status = st] ELSE bookings[x]]
    BY <1>1
  <2>2. [bookings[b] EXCEPT !.status = st] \in BookingRecord
    BY <1>1 DEF BookingRecord, BookingStatus, Paid
  <2> QED
    BY <1>1, <2>1, <2>2
<1>4. TypeOK'
  BY <1>1, <1>3 DEF TypeOK
<1>5. SlotsMatchHolders'
  <2> SUFFICES ASSUME NEW s \in Slot PROVE SlotAgrees(Data', s) /\ HolderAskedFor(Data', s)
    BY DEF SlotsMatchHolders, SlotsMatch
  <2>1. SlotAgrees(Data, s) /\ HolderAskedFor(Data, s) /\ slots[s].status \in SlotStatus
    BY <1>1 DEF IInv, SlotsMatchHolders, SlotsMatch, TypeOK
  <2>2. slots' = slots /\ DOMAIN bookings' = DOMAIN bookings
    OBVIOUS
  <2>3. slots[s].status = "free" => slots[s].holder = NoBooking
    BY <2>1 DEF SlotAgrees, Data
  <2>4. slots[s].status # "free" => slots[s].holder \in DOMAIN bookings
    BY <2>1 DEF SlotAgrees, SlotStatus, Data
  <2>5. HolderAskedFor(Data', s)
    BY <1>2, <2>1, <2>2, <2>4 DEF HolderAskedFor, Data
  <2>6. slots[s].status = "frozen" => bookings'[slots[s].holder].status = "frozen"
    BY <1>2, <2>1, <2>4 DEF SlotAgrees, Data, Paid
  <2>7. slots[s].status = "allocated" => bookings'[slots[s].holder].status \in Paid
    <3>1. slots[s].status = "allocated" => bookings[slots[s].holder].status \in Paid
      BY <2>1 DEF SlotAgrees, Data
    <3> QED
      BY <1>2, <2>4, <3>1
  <2>8. SlotAgrees(Data', s)
    BY <2>1, <2>2, <2>3, <2>4, <2>6, <2>7 DEF SlotAgrees, Data, SlotStatus
  <2> QED
    BY <2>5, <2>8
<1>6. WaitlistIsExact'
  BY <1>2 DEF IInv, WaitlistIsExact, Waitlisted, Data, Paid
<1> QED
  BY <1>4, <1>5, <1>6 DEF IInv

\* The booking service neither makes a booking arrive nor touches one that has.
LEMMA BookingStepInvariant ==
    ASSUME FInv, BookingStep
    PROVE  FInv'
<1>1. IInv /\ [Next]_vars /\ UNCHANGED <<manifests, arrivals, signed>>
  BY DEF FInv, BookingStep, flowVars
<1>2. IInv'
  BY <1>1, NextInvariant
<1>4. \A b \in DOMAIN bookings :
         /\ b \in DOMAIN bookings'
         /\ bookings[b].status \in Paid \cup {"cancelled"} =>
               bookings'[b].status \in {bookings[b].status, "cancelled"}
         /\ bookings[b].status = "arrived" => bookings'[b].status = "arrived"
         /\ bookings'[b].status \in {"manifested", "arrived"} =>
               bookings'[b].status = bookings[b].status
  <2> SUFFICES ASSUME NEW b \in DOMAIN bookings
               PROVE  /\ b \in DOMAIN bookings'
                      /\ bookings[b].status \in Paid \cup {"cancelled"} =>
                            bookings'[b].status \in {bookings[b].status, "cancelled"}
                      /\ bookings[b].status = "arrived" => bookings'[b].status = "arrived"
                      /\ bookings'[b].status \in {"manifested", "arrived"} =>
                            bookings'[b].status = bookings[b].status
    OBVIOUS
  <2> QED
    BY <1>1, StatusCourse DEF Paid
<1>5. \A b \in DOMAIN bookings' : b \notin DOMAIN bookings =>
         bookings'[b].status \notin {"manifested", "arrived"}
  BY <1>1, StepCourse DEF Course, Entrances
<1>3. FlowTypeOK'
  BY <1>1, <1>4 DEF FInv, FlowTypeOK
<1>6. ManifestsArePaid'
  BY <1>1, <1>4 DEF FInv, ManifestsArePaid
<1>7. OneCounts'
  BY <1>1 DEF FInv, OneCounts
<1>8. DeclaredBefore'
  BY <1>1, <1>4, <1>5 DEF FInv, DeclaredBefore
<1>9. ArrivalsMatchBookings'
  <2>1. {b \in DOMAIN bookings' : bookings'[b].status = "arrived"}
          = {b \in DOMAIN bookings : bookings[b].status = "arrived"}
    BY <1>4, <1>5
  <2> QED
    BY <1>1, <2>1 DEF FInv, ArrivalsMatchBookings
<1> QED
  BY <1>2, <1>3, <1>6, <1>7, <1>8, <1>9 DEF FInv

LEMMA SubmitInvariant ==
    ASSUME FInv, NEW b \in 1 .. MaxBookings, Submit(b)
    PROVE  FInv'
<1> DEFINE new == [booking |-> b, status |-> "submitted"]
<1>1. /\ b \in DOMAIN bookings /\ bookings[b].status = "confirmed"
      /\ manifests' = Append(manifests, new)
      /\ \A m \in DOMAIN manifests :
            manifests[m].booking = b => manifests[m].status = "rejected"
      /\ Len(manifests) < MaxManifests
      /\ UNCHANGED <<vars, arrivals, signed>>
  BY DEF Submit, Known
<1>2. manifests \in Seq(ManifestRecord)
  BY DEF FInv, FlowTypeOK
<1>3. new \in ManifestRecord
  BY DEF ManifestRecord
<1> HIDE DEF new
<1>4. /\ manifests' \in Seq(ManifestRecord)
      /\ Len(manifests') = Len(manifests) + 1
      /\ Len(manifests) \in Nat
      /\ DOMAIN manifests = 1 .. Len(manifests)
      /\ DOMAIN manifests' = 1 .. Len(manifests) + 1
      /\ \A m \in DOMAIN manifests : manifests'[m] = manifests[m]
      /\ manifests'[Len(manifests) + 1] = new
  BY <1>1, <1>2, <1>3
<1>5. new.booking = b /\ new.status = "submitted"
  BY DEF new
<1>6. IInv'
  <2>1. UNCHANGED vars
    BY <1>1
  <2> QED
    BY <2>1, NextInvariant DEF FInv
<1>7. FlowTypeOK'
  <2>1. Len(manifests') <= MaxManifests
    BY <1>1, <1>4, ManifestBoundAssumption
  <2> QED
    BY <1>1, <1>4, <1>6, <2>1 DEF FInv, FlowTypeOK, vars
<1>8. \A m \in DOMAIN manifests' : m \in DOMAIN manifests \/ m = Len(manifests) + 1
  BY <1>4
<1>9. ManifestsArePaid'
  <2> SUFFICES ASSUME NEW m \in DOMAIN manifests'
               PROVE  /\ manifests'[m].booking \in DOMAIN bookings
                      /\ bookings[manifests'[m].booking].status \in Paid \cup {"cancelled"}
    BY <1>1 DEF ManifestsArePaid, vars
  <2>1. CASE m \in DOMAIN manifests
    BY <1>4, <2>1 DEF FInv, ManifestsArePaid
  <2>2. CASE m = Len(manifests) + 1
    BY <1>1, <1>4, <1>5, <2>2 DEF Paid
  <2> QED
    BY <1>8, <2>1, <2>2
<1>10. OneCounts'
  BY <1>1, <1>4, <1>5, <1>8 DEF FInv, OneCounts, Counting
<1>11. DeclaredBefore'
  BY <1>1, <1>4, <1>8 DEF FInv, DeclaredBefore, vars
<1>12. ArrivalsMatchBookings'
  BY <1>1 DEF FInv, ArrivalsMatchBookings, vars
<1> QED
  BY <1>6, <1>7, <1>9, <1>10, <1>11, <1>12 DEF FInv

\* What a declaration or a rejection does to the list of manifests.
LEMMA ManifestWritten ==
    ASSUME manifests \in Seq(ManifestRecord), NEW m \in DOMAIN manifests,
           NEW st \in {"submitted", "declared", "rejected"},
           manifests' = [manifests EXCEPT ![m].status = st]
    PROVE  /\ manifests' \in Seq(ManifestRecord)
           /\ Len(manifests') = Len(manifests)
           /\ DOMAIN manifests' = DOMAIN manifests
           /\ \A k \in DOMAIN manifests :
                 /\ manifests'[k].booking = manifests[k].booking
                 /\ manifests'[k].status = IF k = m THEN st ELSE manifests[k].status
<1>1. /\ DOMAIN manifests = 1 .. Len(manifests)
      /\ Len(manifests) \in Nat
      /\ \A k \in DOMAIN manifests : manifests[k] \in ManifestRecord
  OBVIOUS
<1>2. manifests' = [k \in 1 .. Len(manifests) |->
                      IF k = m THEN [manifests[m] EXCEPT !.status = st] ELSE manifests[k]]
  BY <1>1
<1>3. [manifests[m] EXCEPT !.status = st] \in ManifestRecord
  BY <1>1 DEF ManifestRecord
<1>4. manifests' \in Seq(ManifestRecord) /\ Len(manifests') = Len(manifests)
  BY <1>1, <1>2, <1>3
<1>5. \A k \in DOMAIN manifests :
         /\ manifests'[k].booking = manifests[k].booking
         /\ manifests'[k].status = IF k = m THEN st ELSE manifests[k].status
  BY <1>1, <1>2 DEF ManifestRecord
<1> QED
  BY <1>1, <1>2, <1>4, <1>5

LEMMA DeclareInvariant ==
    ASSUME FInv, NEW m \in DOMAIN manifests, Declare(m)
    PROVE  FInv' /\ bookings[manifests[m].booking].status # "arrived"
<1> DEFINE b == manifests[m].booking
<1>1. /\ manifests[m].status = "submitted"
      /\ b \in DOMAIN bookings
      /\ manifests' = [manifests EXCEPT ![m].status = "declared"]
      /\ bookings' = [bookings EXCEPT ![b].status = "manifested"]
      /\ UNCHANGED <<now, cargo, voyages, slots, waitlist, idempotency, counter,
                     arrivals, signed>>
  BY DEF Declare, Known
<1>2. /\ manifests \in Seq(ManifestRecord)
      /\ bookings \in [1 .. counter -> BookingRecord]
      /\ DOMAIN bookings = 1 .. counter
  BY DEF FInv, IInv, FlowTypeOK, TypeOK
<1>3. /\ manifests' \in Seq(ManifestRecord)
      /\ Len(manifests') = Len(manifests)
      /\ DOMAIN manifests' = DOMAIN manifests
      /\ \A k \in DOMAIN manifests :
            /\ manifests'[k].booking = manifests[k].booking
            /\ manifests'[k].status = IF k = m THEN "declared" ELSE manifests[k].status
  BY <1>1, <1>2, ManifestWritten
<1>4. /\ DOMAIN bookings' = DOMAIN bookings
      /\ \A x \in DOMAIN bookings :
            bookings'[x].status = IF x = b THEN "manifested" ELSE bookings[x].status
  BY <1>1, <1>2 DEF BookingRecord
<1>5. bookings[b].status \in Paid \cup {"cancelled"}
  BY DEF FInv, ManifestsArePaid
<1>6. bookings[b].status # "arrived"
  BY <1>1 DEF FInv, DeclaredBefore, OneCounts, Counting
<1>7. IInv'
  BY <1>1, <1>5, StatusWritten DEF FInv, Paid
<1> HIDE DEF b
<1>8. FlowTypeOK'
  BY <1>1, <1>3, <1>7 DEF FInv, FlowTypeOK, IInv
<1>9. ManifestsArePaid'
  BY <1>3, <1>4 DEF FInv, ManifestsArePaid, Paid
<1>10. OneCounts'
  BY <1>1, <1>3 DEF FInv, OneCounts, Counting
<1>11. DeclaredBefore'
  <2> SUFFICES ASSUME NEW x \in DOMAIN bookings, bookings'[x].status \in {"manifested", "arrived"}
               PROVE  \E k \in DOMAIN manifests :
                         manifests'[k].booking = x /\ manifests'[k].status = "declared"
    BY <1>3, <1>4 DEF DeclaredBefore
  <2>1. CASE x = b
    BY <1>3, <2>1 DEF b
  <2>2. CASE x # b
    BY <1>3, <1>4, <2>2 DEF FInv, DeclaredBefore
  <2> QED
    BY <2>1, <2>2
<1>12. ArrivalsMatchBookings'
  <2>1. {x \in DOMAIN bookings' : bookings'[x].status = "arrived"}
          = {x \in DOMAIN bookings : bookings[x].status = "arrived"}
    BY <1>4, <1>6 DEF b
  <2> QED
    BY <1>1, <2>1 DEF FInv, ArrivalsMatchBookings
<1> QED
  BY <1>6, <1>7, <1>8, <1>9, <1>10, <1>11, <1>12 DEF FInv, b

LEMMA RejectInvariant ==
    ASSUME FInv, NEW m \in DOMAIN manifests, Reject(m)
    PROVE  FInv'
<1>1. /\ manifests[m].status = "submitted"
      /\ manifests' = [manifests EXCEPT ![m].status = "rejected"]
      /\ UNCHANGED <<vars, arrivals, signed>>
  BY DEF Reject
<1>2. manifests \in Seq(ManifestRecord)
  BY DEF FInv, FlowTypeOK
<1>3. /\ manifests' \in Seq(ManifestRecord)
      /\ Len(manifests') = Len(manifests)
      /\ DOMAIN manifests' = DOMAIN manifests
      /\ \A k \in DOMAIN manifests :
            /\ manifests'[k].booking = manifests[k].booking
            /\ manifests'[k].status = IF k = m THEN "rejected" ELSE manifests[k].status
  BY <1>1, <1>2, ManifestWritten
<1>4. IInv'
  <2>1. UNCHANGED vars
    BY <1>1
  <2> QED
    BY <2>1, NextInvariant DEF FInv
<1>5. FlowTypeOK'
  BY <1>1, <1>3, <1>4 DEF FInv, FlowTypeOK, vars
<1>6. ManifestsArePaid' /\ OneCounts'
  BY <1>1, <1>3 DEF FInv, ManifestsArePaid, OneCounts, Counting, vars
<1>7. DeclaredBefore'
  BY <1>1, <1>3 DEF FInv, DeclaredBefore, vars
<1>8. ArrivalsMatchBookings'
  BY <1>1 DEF FInv, ArrivalsMatchBookings, vars
<1> QED
  BY <1>4, <1>5, <1>6, <1>7, <1>8 DEF FInv

LEMMA SignOffInvariant ==
    ASSUME FInv, NEW b \in 1 .. MaxBookings, SignOff(b)
    PROVE  FInv'
<1> DEFINE new == [booking |-> b, voyage |-> bookings[b].voyage]
<1>1. /\ b \in DOMAIN bookings /\ bookings[b].status = "manifested"
      /\ arrivals' = Append(arrivals, new)
      /\ bookings' = [bookings EXCEPT ![b].status = "arrived"]
      /\ signed' = signed \cup {b}
      /\ UNCHANGED <<now, cargo, voyages, slots, waitlist, idempotency, counter, manifests>>
  BY DEF SignOff, Known
<1>2. /\ arrivals \in Seq(ArrivalRecord)
      /\ bookings \in [1 .. counter -> BookingRecord]
      /\ DOMAIN bookings = 1 .. counter
  BY DEF FInv, IInv, FlowTypeOK, TypeOK
<1>3. new \in ArrivalRecord /\ new.booking = b
  BY <1>1, <1>2 DEF ArrivalRecord, BookingRecord
<1> HIDE DEF new
<1>4. /\ arrivals' \in Seq(ArrivalRecord)
      /\ DOMAIN arrivals = 1 .. Len(arrivals)
      /\ DOMAIN arrivals' = 1 .. Len(arrivals) + 1
      /\ Len(arrivals) \in Nat
      /\ \A a \in DOMAIN arrivals : arrivals'[a] = arrivals[a]
      /\ arrivals'[Len(arrivals) + 1] = new
  BY <1>1, <1>2, <1>3
<1>5. /\ DOMAIN bookings' = DOMAIN bookings
      /\ \A x \in DOMAIN bookings :
            bookings'[x].status = IF x = b THEN "arrived" ELSE bookings[x].status
  BY <1>1, <1>2 DEF BookingRecord
<1>6. IInv'
  BY <1>1, StatusWritten DEF FInv, Paid
<1>7. FlowTypeOK'
  BY <1>1, <1>4, <1>6 DEF FInv, FlowTypeOK, IInv
<1>8. ManifestsArePaid' /\ OneCounts'
  BY <1>1, <1>5 DEF FInv, ManifestsArePaid, OneCounts, Paid
<1>9. DeclaredBefore'
  BY <1>1, <1>5 DEF FInv, DeclaredBefore
<1>10. ArrivalsMatchBookings'
  <2>1. /\ {arrivals[a].booking : a \in DOMAIN arrivals}
             = {x \in DOMAIN bookings : bookings[x].status = "arrived"}
        /\ \A a, c \in DOMAIN arrivals : arrivals[a].booking = arrivals[c].booking => a = c
    BY DEF FInv, ArrivalsMatchBookings, IsInjective
  <2>2. \A a \in DOMAIN arrivals' : a \in DOMAIN arrivals \/ a = Len(arrivals) + 1
    BY <1>4
  <2>3. {arrivals'[a].booking : a \in DOMAIN arrivals'}
          = {arrivals[a].booking : a \in DOMAIN arrivals} \cup {b}
    BY <1>3, <1>4, <2>2
  <2>4. {x \in DOMAIN bookings' : bookings'[x].status = "arrived"}
          = {x \in DOMAIN bookings : bookings[x].status = "arrived"} \cup {b}
    BY <1>1, <1>5
  <2>5. \A a \in DOMAIN arrivals : arrivals[a].booking # b
    BY <1>1, <2>1
  <2>6. \A a, c \in DOMAIN arrivals' : arrivals'[a].booking = arrivals'[c].booking => a = c
    BY <1>3, <1>4, <2>1, <2>2, <2>5
  <2> QED
    BY <2>1, <2>3, <2>4, <2>6 DEF ArrivalsMatchBookings, IsInjective
<1> QED
  BY <1>6, <1>7, <1>8, <1>9, <1>10 DEF FInv

\* The other calls change no booking, no manifest and no arrival.
LEMMA OtherFlowInvariant ==
    ASSUME FInv, UNCHANGED <<slots, bookings, waitlist, idempotency, counter, now, cargo,
                             manifests, arrivals>>,
           voyages' \in [Voyage -> VoyageStatus \cup {"none"}],
           signed' \subseteq DOMAIN bookings
    PROVE  FInv'
<1>1. IInv'
  <2>1. /\ IInv /\ now' \in 0 .. MaxTime
        /\ cargo' \in [CargoId -> {"absent", "registered", "confirmed"}]
    BY DEF FInv, IInv, TypeOK
  <2> QED
    BY <2>1, OthersInvariant
<1>2. FlowTypeOK'
  BY <1>1 DEF FInv, FlowTypeOK, IInv
<1> QED
  BY <1>1, <1>2 DEF FInv, ManifestsArePaid, OneCounts, DeclaredBefore, ArrivalsMatchBookings

LEMMA FulfilStepInvariant == FInv /\ [FulfilNext]_fullVars => FInv'
<1> SUFFICES ASSUME FInv, [FulfilNext]_fullVars PROVE FInv'
  OBVIOUS
<1>1. /\ voyages \in [Voyage -> VoyageStatus \cup {"none"}]
      /\ signed \subseteq DOMAIN bookings
  BY DEF FInv, IInv, FlowTypeOK, TypeOK
<1>2. CASE BookingStep
  BY <1>2, BookingStepInvariant
<1>3. ASSUME NEW b \in 1 .. MaxBookings, Submit(b) PROVE FInv'
  BY <1>3, SubmitInvariant
<1>4. ASSUME NEW b \in 1 .. MaxBookings, SignOff(b) PROVE FInv'
  BY <1>4, SignOffInvariant
<1>5. ASSUME NEW b \in 1 .. MaxBookings, SignOffRepeated(b) PROVE FInv'
  BY <1>1, <1>5, OtherFlowInvariant DEF SignOffRepeated, vars, Known
<1>6. ASSUME NEW m \in DOMAIN manifests, Declare(m) PROVE FInv'
  BY <1>6, DeclareInvariant
<1>7. ASSUME NEW m \in DOMAIN manifests, Reject(m) PROVE FInv'
  BY <1>7, RejectInvariant
<1>8. ASSUME NEW v \in Voyage, MarkDelayed(v) \/ MarkDeparted(v) \/ MarkArrived(v) PROVE FInv'
  <2>1. voyages' \in [Voyage -> VoyageStatus \cup {"none"}]
    BY <1>1, <1>8 DEF MarkDelayed, MarkDeparted, MarkArrived, SetVoyage, VoyageStatus
  <2>2. /\ UNCHANGED <<slots, bookings, waitlist, idempotency, counter, now, cargo,
                       manifests, arrivals>>
        /\ signed' \subseteq DOMAIN bookings
    BY <1>1, <1>8 DEF MarkDelayed, MarkDeparted, MarkArrived, SetVoyage, flowVars
  <2> QED
    BY <2>1, <2>2, OtherFlowInvariant
<1>9. CASE UNCHANGED fullVars
  BY <1>1, <1>9, OtherFlowInvariant DEF fullVars, vars, flowVars
<1> QED
  BY <1>2, <1>3, <1>4, <1>5, <1>6, <1>7, <1>8, <1>9 DEF FulfilNext, FlowCall

LEMMA FulfilInitInvariant == FulfilInit => FInv
<1> SUFFICES ASSUME FulfilInit PROVE FInv
  OBVIOUS
<1>1. IInv
  BY InitInvariant DEF FulfilInit
<1>2. /\ manifests = <<>> /\ arrivals = <<>> /\ signed = {}
      /\ DOMAIN bookings = {}
  BY DEF FulfilInit, FlowInit, Init
<1>3. FlowTypeOK
  <2>1. /\ manifests \in Seq(ManifestRecord)
        /\ Len(manifests) = 0
        /\ arrivals \in Seq(ArrivalRecord)
    BY <1>2
  <2>2. Len(manifests) <= MaxManifests
    BY <2>1, ManifestBoundAssumption
  <2> QED
    BY <1>1, <1>2, <2>1, <2>2 DEF FlowTypeOK, IInv
<1>4. ManifestsArePaid /\ OneCounts /\ DeclaredBefore
  BY <1>2 DEF ManifestsArePaid, OneCounts, DeclaredBefore
<1>5. ArrivalsMatchBookings
  BY <1>2 DEF ArrivalsMatchBookings, IsInjective
<1> QED
  BY <1>1, <1>3, <1>4, <1>5 DEF FInv

\* The invariant holds of every behaviour.
THEOREM FulfilInvariant == FulfilSpec => []FInv
BY FulfilInitInvariant, FulfilStepInvariant, PTL DEF FulfilSpec

\* The services write the status of a booking, and nothing else of it.
LEMMA FlowKeepsRequests == FInv /\ [FulfilNext]_fullVars => RequestsKept
<1> SUFFICES ASSUME FInv, [FulfilNext]_fullVars PROVE RequestsKept
  OBVIOUS
<1>1. bookings \in [1 .. counter -> BookingRecord] /\ IInv
  BY DEF FInv, IInv, TypeOK
<1>2. CASE BookingStep
  BY <1>1, <1>2, StepKeepsRequests DEF BookingStep
<1>3. ASSUME NEW b \in DOMAIN bookings, NEW st \in Paid,
             bookings' = [bookings EXCEPT ![b].status = st]
      PROVE  RequestsKept
  BY <1>1, <1>3 DEF BookingRecord, RequestsKept, SameRequest
<1>4. ASSUME NEW b \in 1 .. MaxBookings, SignOff(b) PROVE RequestsKept
  BY <1>3, <1>4 DEF SignOff, Known, Paid
<1>5. ASSUME NEW m \in DOMAIN manifests, Declare(m) PROVE RequestsKept
  BY <1>3, <1>5 DEF Declare, Known, Paid
<1>6. ASSUME bookings' = bookings PROVE RequestsKept
  BY <1>6 DEF RequestsKept, SameRequest
<1>7. CASE \/ \E b \in 1 .. MaxBookings : Submit(b) \/ SignOffRepeated(b)
           \/ \E m \in DOMAIN manifests : Reject(m)
           \/ UNCHANGED fullVars
  BY <1>6, <1>7 DEF Submit, SignOffRepeated, Reject, fullVars, vars
<1>8. ASSUME NEW v \in Voyage, MarkDelayed(v) \/ MarkDeparted(v) \/ MarkArrived(v)
      PROVE  RequestsKept
  BY <1>6, <1>8 DEF MarkDelayed, MarkDeparted, MarkArrived, SetVoyage
<1> QED
  BY <1>2, <1>4, <1>5, <1>7, <1>8 DEF FulfilNext, FlowCall

\* Nor do they touch cargo or keys: what was checked when a booking was made stays true.
LEMMA FlowKeepsIdentity == FInv /\ JInv /\ [FulfilNext]_fullVars => JInv'
<1> SUFFICES ASSUME FInv, JInv, [FulfilNext]_fullVars PROVE JInv'
  OBVIOUS
<1>1. /\ RequestsKept /\ IInv'
      /\ counter \in Nat /\ DOMAIN bookings = 1 .. counter
  BY FulfilStepInvariant, FlowKeepsRequests, DataIsSound DEF FInv
<1>2. CASE BookingStep
  BY <1>2, NextIdentity DEF BookingStep
<1>3. ASSUME UNCHANGED <<cargo, idempotency, counter>> PROVE JInv'
  <2>1. DOMAIN bookings' = DOMAIN bookings
    BY <1>1, <1>3 DEF IInv, TypeOK
  <2>2. \A b \in DOMAIN bookings : SameRequest(b)
    BY <1>1 DEF RequestsKept
  <2>3. BookedEligibly' /\ OneBookingPerKey'
    BY <1>3, <2>1, <2>2 DEF JInv, BookedEligibly, OneBookingPerKey, SameRequest
  <2> QED
    BY <1>1, <2>3 DEF JInv
<1>4. BookingStep \/ UNCHANGED <<cargo, idempotency, counter>>
  BY DEF FulfilNext, FlowCall, Submit, SignOff, SignOffRepeated, Declare, Reject, MarkDelayed,
         MarkDeparted, MarkArrived, SetVoyage, fullVars, vars
<1> QED
  BY <1>2, <1>3, <1>4

-----------------------------------------------------------------------------
\* The theorems.

\* Every variable of the three services stays within its type, and whatever they have
\* recorded is of a booking that exists.
THEOREM FulfilTypeCorrect == FulfilSpec => []FulfilTypeOK
BY FlowIsTyped, FulfilInvariant, PTL

\* However manifests are rejected, submitted again and declared, at most one of a
\* booking counts, and none is skipped on the way to arrival.
THEOREM OneManifestAlwaysCounts == FulfilSpec => []OneManifestCounts
<1>1. FInv => OneManifestCounts
  <2> SUFFICES ASSUME FInv, NEW b \in DOMAIN bookings
               PROVE  /\ Cardinality(ManifestsOf(b, {"submitted", "declared"})) <= 1
                      /\ bookings[b].status \in {"manifested", "arrived"} =>
                            ManifestsOf(b, {"declared"}) # {}
    BY DEF OneManifestCounts
  <2> DEFINE S == ManifestsOf(b, {"submitted", "declared"})
  <2>1. \A m, k \in S : m = k
    BY DEF FInv, OneCounts, Counting, ManifestsOf
  <2>2. Cardinality(S) <= 1
    <3> HIDE DEF S
    <3>1. CASE S = {}
      BY <3>1, FS_EmptySet
    <3>2. CASE S # {}
      <4>1. PICK m \in S : TRUE
        BY <3>2
      <4>2. S = {m}
        BY <2>1, <4>1
      <4> QED
        BY <4>2, FS_Singleton
    <3> QED
      BY <3>1, <3>2
  <2>3. bookings[b].status \in {"manifested", "arrived"} => ManifestsOf(b, {"declared"}) # {}
    BY DEF FInv, DeclaredBefore, ManifestsOf
  <2> QED
    BY <2>2, <2>3
<1> QED
  BY <1>1, FulfilInvariant, PTL

\* The arrival records are those of the arrived bookings, one each.
THEOREM ArrivalsAlwaysMatch == FulfilSpec => []ArrivalsMatchBookings
<1>1. FInv => ArrivalsMatchBookings
  BY DEF FInv
<1> QED
  BY <1>1, FulfilInvariant, PTL

ArrivedKeep ==
    \A b \in DOMAIN bookings :
        bookings[b].status = "arrived" =>
            bookings'[b].status = "arrived" /\ Holding(Data, b) = Holding(Data, b)'

\* What the services do to the bookings that have paid.
LEMMA FlowKeepsPaid == FInv /\ [FulfilNext]_fullVars => [PaidKeep /\ ArrivedKeep]_vars
<1> SUFFICES ASSUME FInv, [FulfilNext]_fullVars, ~ UNCHANGED vars
             PROVE  PaidKeep /\ ArrivedKeep
  OBVIOUS
<1>1. bookings \in [1 .. counter -> BookingRecord] /\ IInv
  BY DEF FInv, IInv, TypeOK
<1>2. CASE BookingStep
  <2>1. PaidKeep
    BY <1>1, <1>2, StepKeepsPaid DEF BookingStep
  <2>2. ArrivedKeep
    <3> SUFFICES ASSUME NEW b \in DOMAIN bookings, bookings[b].status = "arrived"
                 PROVE  /\ bookings'[b].status = "arrived"
                        /\ Holding(Data, b) = Holding(Data, b)'
      BY DEF ArrivedKeep
    <3>1. bookings'[b].status = "arrived"
      BY <1>1, <1>2, StatusCourse DEF BookingStep
    <3> QED
      BY <2>1, <3>1 DEF PaidKeep, Paid
  <2> QED
    BY <2>1, <2>2
<1>3. ASSUME NEW b \in DOMAIN bookings, bookings[b].status # "arrived",
             NEW st \in Paid, bookings' = [bookings EXCEPT ![b].status = st], slots' = slots
      PROVE  PaidKeep /\ ArrivedKeep
  <2>1. \A x \in DOMAIN bookings :
           bookings'[x].status = IF x = b THEN st ELSE bookings[x].status
    BY <1>1, <1>3 DEF BookingRecord
  <2>2. \A x : Holding(Data, x) = Holding(Data, x)'
    BY <1>3 DEF Holding, Data
  <2> QED
    BY <1>3, <2>1, <2>2 DEF PaidKeep, ArrivedKeep
<1>4. ASSUME NEW b \in 1 .. MaxBookings, SignOff(b) PROVE PaidKeep /\ ArrivedKeep
  BY <1>3, <1>4 DEF SignOff, Known, Paid
<1>5. ASSUME NEW m \in DOMAIN manifests, Declare(m) PROVE PaidKeep /\ ArrivedKeep
  BY <1>3, <1>5, DeclareInvariant DEF Declare, Known, Paid
<1>6. ASSUME UNCHANGED <<slots, bookings>> PROVE PaidKeep /\ ArrivedKeep
  BY <1>6 DEF PaidKeep, ArrivedKeep, Holding, Data
<1>7. CASE \/ \E b \in 1 .. MaxBookings : Submit(b) \/ SignOffRepeated(b)
           \/ \E m \in DOMAIN manifests : Reject(m)
           \/ UNCHANGED fullVars
  BY <1>7 DEF Submit, SignOffRepeated, Reject, fullVars
<1>8. ASSUME NEW v \in Voyage, MarkDelayed(v) \/ MarkDeparted(v) \/ MarkArrived(v)
      PROVE  PaidKeep /\ ArrivedKeep
  BY <1>6, <1>8 DEF MarkDelayed, MarkDeparted, MarkArrived, SetVoyage
<1> QED
  BY <1>2, <1>4, <1>5, <1>7, <1>8 DEF FulfilNext, FlowCall

\* Also when the other services write its status, a booking that has paid keeps its
\* slots until it is cancelled.
THEOREM PaidKeepsItsSlotsThroughout == FulfilSpec => PaidKeepsItsSlots
<1>1. FulfilSpec => [][PaidKeep]_vars
  BY FlowKeepsPaid, FulfilInvariant, PTL DEF FulfilSpec
<1> QED
  BY <1>1 DEF PaidKeepsItsSlots, PaidKeep

\* Nobody on the waitlist is overtaken, also when the other services change the statuses
\* of bookings and voyages between and beside the promotions.
THEOREM PromotionThroughout == FulfilSpec => PromotionByPriority
<1>1. FInv /\ [FulfilNext]_fullVars => [LeaveInOrder]_vars
  <2> SUFFICES ASSUME FInv, [FulfilNext]_fullVars, ~ UNCHANGED vars PROVE LeaveInOrder
    OBVIOUS
  <2>1. CASE BookingStep
    BY <2>1, StepCourse DEF FInv, BookingStep, Course
  <2>2. CASE UNCHANGED waitlist
    BY <2>2 DEF LeaveInOrder
  <2>3. BookingStep \/ UNCHANGED waitlist
    BY DEF FulfilNext, FlowCall, Submit, SignOff, SignOffRepeated, Declare, Reject, MarkDelayed,
           MarkDeparted, MarkArrived, SetVoyage, fullVars, vars
  <2> QED
    BY <2>1, <2>2, <2>3
<1>2. FulfilSpec => [][LeaveInOrder]_vars
  BY <1>1, FulfilInvariant, PTL DEF FulfilSpec
<1> QED
  BY <1>2 DEF PromotionByPriority, LeaveInOrder

\* A refrigerated slot is held only for cargo that may have it, and a key leads to the one
\* booking made under it, also while manifests, sign-offs and voyages change statuses.
THEOREM IdentityThroughout == FulfilSpec => [](TemperatureControl /\ OneBookingPerKey)
<1>1. FulfilInit => JInv
  BY IdentityInit DEF FulfilInit
<1>2. JInv => TemperatureControl /\ OneBookingPerKey
  BY IdentityControls DEF JInv
<1> QED
  BY <1>1, <1>2, FlowKeepsIdentity, FulfilInvariant, PTL DEF FulfilSpec

\* An arrived booking stays arrived, with its slots: a manifest declared late, or a
\* cancellation, never reaches it.
THEOREM ArrivedIsAlwaysFinal == FulfilSpec => ArrivedIsFinal
<1>1. FInv /\ [FulfilNext]_fullVars => [ArrivedKeep]_fullVars
  <2>1. UNCHANGED vars => ArrivedKeep
    BY DEF vars, ArrivedKeep, Holding, Data
  <2> QED
    BY <2>1, FlowKeepsPaid
<1>2. FulfilSpec => [][ArrivedKeep]_fullVars
  BY <1>1, FulfilInvariant, PTL DEF FulfilSpec
<1> QED
  BY <1>2 DEF ArrivedIsFinal, ArrivedKeep
=============================================================================
