----------------------------- MODULE PortProofs -----------------------------
(***************************************************************************)
(* Theorems about the port change with two signatures and about the trucks *)
(* of a voyage, which both rest on the bookings of other services.         *)
(***************************************************************************)
EXTENDS Appointments, PortChange, FulfilmentProofs

-----------------------------------------------------------------------------
\* The port change.

\* Each pending request was made in time, and each of its signatures was sent.
RequestsAreDue ==
    \A b \in DOMAIN pending :
        /\ pending[b].requestedAt < DepartureAt[bookings[b].voyage] - PortChangeWindow
        /\ \A role \in pending[b].signed : [booking |-> b, role |-> role] \in calls

\* A change that may still come is counted as if it had been used.
ChargesBounded ==
    \A b \in 1 .. MaxBookings :
        portChanges[b] + (IF b \in DOMAIN pending THEN 1 ELSE 0) <= MaxPortChanges

\* The inductive invariant: what a signature that comes late relies on has to be
\* kept from the moment of the request.
PInv ==
    /\ FInv
    /\ PortTypeOK
    /\ ChargesBounded
    /\ RequestsAreDue

\* A step of the other services, and one that adds nothing but calls.
LEMMA OtherServicesInvariant ==
    ASSUME PInv, [FulfilNext]_fullVars, UNCHANGED <<destPort, pending, portChanges>>,
           calls' \subseteq [booking : DOMAIN bookings, role : SignatureRole],
           calls \subseteq calls'
    PROVE  PInv'
<1>1. FInv'
  BY FulfilStepInvariant DEF PInv
<1>2. RequestsKept
  BY FlowKeepsRequests DEF PInv
<1>3. \A b \in DOMAIN bookings : b \in DOMAIN bookings' /\ bookings'[b].voyage = bookings[b].voyage
  BY <1>2 DEF RequestsKept, SameRequest
<1>4. DOMAIN pending \subseteq DOMAIN bookings
  BY DEF PInv, PortTypeOK
<1>5. PortTypeOK'
  BY <1>1, <1>3, FlowIsTypedNext DEF PInv, PortTypeOK
<1>6. ChargesBounded'
  BY DEF PInv, ChargesBounded
<1>7. RequestsAreDue'
  BY <1>3, <1>4 DEF PInv, RequestsAreDue
<1> QED
  BY <1>1, <1>5, <1>6, <1>7 DEF PInv

\* A request is made in time, by a booking that has a change left.
LEMMA RequestInvariant ==
    ASSUME PInv, NEW b \in 1 .. MaxBookings, NEW p \in Port, RequestPortChange(b, p)
    PROVE  PInv'
<1> DEFINE new == [newPort |-> p, requestedAt |-> now, signed |-> {}]
<1>1. /\ b \in DOMAIN bookings /\ b \notin DOMAIN pending
      /\ portChanges[b] < MaxPortChanges
      /\ now < DepartureAt[bookings[b].voyage] - PortChangeWindow
      /\ pending' = [x \in DOMAIN pending \cup {b} |-> IF x = b THEN new ELSE pending[x]]
      /\ UNCHANGED <<fullVars, destPort, portChanges, calls>>
  BY DEF RequestPortChange, ValidatePortChange, Known, CanChangePort
<1>2. /\ DOMAIN pending' = DOMAIN pending \cup {b}
      /\ pending'[b] = new
      /\ \A x \in DOMAIN pending : pending'[x] = pending[x]
  BY <1>1
<1>3. /\ new \in PortChangeRequest /\ new.signed = {} /\ new.requestedAt = now
      /\ new.signed # SignatureRole
  BY DEF PInv, FInv, IInv, TypeOK, PortChangeRequest, SignatureRole
<1> HIDE DEF new
<1>4. FInv'
  BY <1>1, FulfilStepInvariant DEF PInv
<1>5. PortTypeOK'
  BY <1>1, <1>2, <1>3, <1>4, FlowIsTypedNext DEF PInv, PortTypeOK, fullVars, vars
<1>6. ChargesBounded'
  <2> SUFFICES ASSUME NEW x \in 1 .. MaxBookings
               PROVE  portChanges[x] + (IF x \in DOMAIN pending' THEN 1 ELSE 0) <= MaxPortChanges
    BY <1>1 DEF ChargesBounded
  <2>1. portChanges[x] \in Nat
    BY DEF PInv, PortTypeOK
  <2> QED
    BY <1>1, <1>2, <2>1 DEF PInv, ChargesBounded, MaxPortChanges
<1>7. RequestsAreDue'
  BY <1>1, <1>2, <1>3 DEF PInv, RequestsAreDue, fullVars, vars
<1> QED
  BY <1>4, <1>5, <1>6, <1>7 DEF PInv

\* What a signature does that completes the pair.
LEMMA ApprovalDiverts ==
    ASSUME PInv, NEW b, NEW role, [booking |-> b, role |-> role] \in calls,
           b \in DOMAIN pending, pending[b].signed \cup {role} = SignatureRole, Approve(b)
    PROVE  /\ b \in DOMAIN bookings
           /\ DOMAIN pending' = DOMAIN pending \ {b}
           /\ \A x \in DOMAIN pending' : pending'[x] = pending[x]
           /\ portChanges' = [portChanges EXCEPT ![b] = @ + 1]
           /\ destPort' = [destPort EXCEPT ![bookings[b].voyage] = pending[b].newPort]
           /\ pending[b].requestedAt < DepartureAt[bookings[b].voyage] - PortChangeWindow
           /\ \A r \in SignatureRole : [booking |-> b, role |-> r] \in calls
<1>1. b \in DOMAIN bookings
  BY DEF PInv, PortTypeOK
<1>2. DOMAIN pending' = DOMAIN pending \ {b} /\ \A x \in DOMAIN pending' : pending'[x] = pending[x]
  BY DEF Approve, Restrict
<1>3. \A r \in SignatureRole : r \in pending[b].signed \/ r = role
  OBVIOUS
<1> QED
  BY <1>1, <1>2, <1>3 DEF Approve, PInv, RequestsAreDue

LEMMA SignInvariant ==
    ASSUME PInv, NEW b, NEW role \in SignatureRole,
           [booking |-> b, role |-> role] \in calls, SignPortChange(b, role)
    PROVE  PInv'
<1>1. b \in DOMAIN pending /\ UNCHANGED <<fullVars, calls>>
  BY DEF SignPortChange
<1>2. FInv'
  BY <1>1, FulfilStepInvariant DEF PInv
<1>3. /\ b \in 1 .. MaxBookings /\ b \in DOMAIN bookings
      /\ bookings[b].voyage \in Voyage
      /\ pending[b] \in PortChangeRequest
      /\ portChanges \in [1 .. MaxBookings -> Nat]
      /\ destPort \in [Voyage -> Port]
  <2>1. bookings \in [1 .. counter -> BookingRecord] /\ counter \in 0 .. MaxBookings
    BY DEF PInv, FInv, IInv, TypeOK
  <2>2. b \in DOMAIN bookings
    BY <1>1 DEF PInv, PortTypeOK
  <2> QED
    BY <1>1, <2>1, <2>2, BoundAssumption DEF PInv, PortTypeOK, BookingRecord
<1>4. CASE pending[b].signed \cup {role} = SignatureRole /\ Approve(b)
  <2>1. /\ DOMAIN pending' = DOMAIN pending \ {b}
        /\ \A x \in DOMAIN pending' : pending'[x] = pending[x]
        /\ portChanges' = [portChanges EXCEPT ![b] = @ + 1]
        /\ destPort' = [destPort EXCEPT ![bookings[b].voyage] = pending[b].newPort]
    BY <1>1, <1>4, ApprovalDiverts
  <2>2. portChanges' \in [1 .. MaxBookings -> Nat] /\ destPort' \in [Voyage -> Port]
    BY <1>3, <2>1 DEF PortChangeRequest
  <2>3. PortTypeOK'
    BY <1>1, <1>2, <2>1, <2>2, FlowIsTypedNext DEF PInv, PortTypeOK, fullVars, vars
  <2>4. ChargesBounded'
    BY <1>1, <1>3, <2>1 DEF PInv, ChargesBounded, MaxPortChanges
  <2>5. RequestsAreDue'
    BY <1>1, <2>1 DEF PInv, RequestsAreDue, fullVars, vars
  <2> QED
    BY <1>2, <2>3, <2>4, <2>5 DEF PInv
<1>5. CASE /\ pending[b].signed \cup {role} # SignatureRole
           /\ pending' = [pending EXCEPT ![b].signed = @ \cup {role}]
           /\ UNCHANGED <<destPort, portChanges>>
  <2>1. /\ DOMAIN pending' = DOMAIN pending
        /\ \A x \in DOMAIN pending : x # b => pending'[x] = pending[x]
        /\ pending'[b] = [pending[b] EXCEPT !.signed = @ \cup {role}]
    BY <1>1, <1>5
  <2>2. /\ pending'[b] \in PortChangeRequest
        /\ pending'[b].signed = pending[b].signed \cup {role}
        /\ pending'[b].requestedAt = pending[b].requestedAt
    BY <1>3, <2>1 DEF PortChangeRequest
  <2>3. PortTypeOK'
    BY <1>1, <1>2, <1>5, <2>1, <2>2, FlowIsTypedNext DEF PInv, PortTypeOK, fullVars, vars
  <2>4. ChargesBounded'
    BY <1>5, <2>1 DEF PInv, ChargesBounded
  <2>5. RequestsAreDue'
    BY <1>1, <2>1, <2>2 DEF PInv, RequestsAreDue, fullVars, vars
  <2> QED
    BY <1>2, <2>3, <2>4, <2>5 DEF PInv
<1> QED
  BY <1>4, <1>5 DEF SignPortChange

LEMMA ChangeStepInvariant == PInv /\ [ChangeNext]_changeVars => PInv'
<1> SUFFICES ASSUME PInv, [ChangeNext]_changeVars PROVE PInv'
  OBVIOUS
<1>1. calls \subseteq [booking : DOMAIN bookings, role : SignatureRole]
  BY DEF PInv, PortTypeOK
<1>2. CASE FulfilNext /\ UNCHANGED portVars
  BY <1>1, <1>2, OtherServicesInvariant DEF portVars
<1>3. CASE UNCHANGED changeVars
  BY <1>1, <1>3, OtherServicesInvariant DEF changeVars, portVars
<1>4. ASSUME NEW b \in 1 .. MaxBookings, NEW p \in Port, RequestPortChange(b, p) PROVE PInv'
  BY <1>4, RequestInvariant
<1>5. ASSUME NEW b \in 1 .. MaxBookings, NEW role \in SignatureRole, CallSign(b, role) PROVE PInv'
  <2>1. b \in DOMAIN bookings
    BY <1>5 DEF CallSign, Known
  <2> QED
    BY <1>1, <1>5, <2>1, OtherServicesInvariant DEF CallSign
<1>6. ASSUME NEW c \in calls, SignPortChange(c.booking, c.role) PROVE PInv'
  <2>1. c.role \in SignatureRole /\ [booking |-> c.booking, role |-> c.role] = c
    BY <1>1
  <2> QED
    BY <1>6, <2>1, SignInvariant
<1> QED
  BY <1>2, <1>3, <1>4, <1>5, <1>6 DEF ChangeNext

\* The invariant holds of every behaviour of the port change.
THEOREM PortInvariant == ChangeSpec => []PInv
<1>1. ChangeInit => PInv
  <2> SUFFICES ASSUME ChangeInit PROVE PInv
    OBVIOUS
  <2>1. FInv
    BY FulfilInitInvariant DEF ChangeInit
  <2>2. /\ destPort = DestOf /\ DOMAIN pending = {} /\ calls = {}
        /\ portChanges = [b \in 1 .. MaxBookings |-> 0]
    BY DEF ChangeInit, PortInit
  <2>3. PortTypeOK
    BY <2>1, <2>2, PortAssumption, FlowIsTyped DEF PortTypeOK
  <2> QED
    BY <2>1, <2>2, <2>3 DEF PInv, ChargesBounded, MaxPortChanges, RequestsAreDue
<1> QED
  BY <1>1, ChangeStepInvariant, PTL DEF ChangeSpec

\* Every variable of the port change stays within its type; a pending request is of
\* a booking that exists, and lacks a signature.
THEOREM PortTypeCorrect == ChangeSpec => []PortTypeOK
<1>1. PInv => PortTypeOK
  BY DEF PInv
<1> QED
  BY <1>1, PortInvariant, PTL

\* No booking uses more than two changes, the one under way included, however late
\* signatures come and however often they are repeated.
THEOREM NeverMoreThanTwoChanges == ChangeSpec => []AtMostTwoChanges
<1>1. PInv => AtMostTwoChanges
  <2> SUFFICES ASSUME PInv PROVE AtMostTwoChanges
    OBVIOUS
  <2>1. DOMAIN bookings \subseteq 1 .. MaxBookings
    BY BoundAssumption DEF PInv, FInv, IInv, TypeOK
  <2> QED
    BY <2>1 DEF PInv, ChargesBounded, AtMostTwoChanges
<1> QED
  BY <1>1, PortInvariant, PTL

Due ==
    \A v \in Voyage :
        destPort'[v] # destPort[v] =>
            \E b \in DOMAIN pending :
                /\ Diverts(v, b)
                /\ pending[b].requestedAt < DepartureAt[v] - PortChangeWindow
                /\ \A role \in SignatureRole :
                      \E c \in calls : c.booking = b /\ c.role = role
                /\ portChanges' = [portChanges EXCEPT ![b] = @ + 1]

\* A voyage is diverted only by a request of one of its own bookings, made in time,
\* signed by both sides, and charged to that booking.
THEOREM DiversionAlwaysDue == ChangeSpec => DiversionIsDue
<1>1. PInv /\ [ChangeNext]_changeVars => Due
  <2> SUFFICES ASSUME PInv, [ChangeNext]_changeVars,
                      NEW v \in Voyage, destPort'[v] # destPort[v]
               PROVE  \E b \in DOMAIN pending :
                         /\ Diverts(v, b)
                         /\ pending[b].requestedAt < DepartureAt[v] - PortChangeWindow
                         /\ \A role \in SignatureRole :
                               \E c \in calls : c.booking = b /\ c.role = role
                         /\ portChanges' = [portChanges EXCEPT ![b] = @ + 1]
    BY DEF Due
  <2>1. PICK call \in calls : SignPortChange(call.booking, call.role)
    BY DEF ChangeNext, changeVars, portVars, RequestPortChange, CallSign
  <2> DEFINE b == call.booking
  <2>2. [booking |-> b, role |-> call.role] \in calls
    <3>1. calls \subseteq [booking : DOMAIN bookings, role : SignatureRole]
      BY DEF PInv, PortTypeOK
    <3> QED
      BY <3>1
  <2>3. b \in DOMAIN pending /\ pending[b].signed \cup {call.role} = SignatureRole /\ Approve(b)
    BY <2>1 DEF SignPortChange
  <2>4. /\ DOMAIN pending' = DOMAIN pending \ {b}
        /\ portChanges' = [portChanges EXCEPT ![b] = @ + 1]
        /\ destPort' = [destPort EXCEPT ![bookings[b].voyage] = pending[b].newPort]
        /\ pending[b].requestedAt < DepartureAt[bookings[b].voyage] - PortChangeWindow
        /\ \A r \in SignatureRole : [booking |-> b, role |-> r] \in calls
    BY <2>2, <2>3, ApprovalDiverts
  <2>5. DOMAIN destPort = Voyage
    BY DEF PInv, PortTypeOK
  <2>6. v = bookings[b].voyage /\ destPort'[v] = pending[b].newPort
    BY <2>4, <2>5
  <2>7. \A role \in SignatureRole : \E c \in calls : c.booking = b /\ c.role = role
    BY <2>4
  <2> QED
    BY <2>3, <2>4, <2>6, <2>7 DEF Diverts
<1>2. ChangeSpec => [][Due]_changeVars
  BY <1>1, PortInvariant, PTL DEF ChangeSpec
<1> QED
  BY <1>2 DEF DiversionIsDue, Due

-----------------------------------------------------------------------------
\* The queue of trucks.

\* Trucks are of bookings that exist, and no number is above the count of trucks.
TrucksAreBooked ==
    \A a \in DOMAIN appointments :
        /\ appointments[a].booking \in DOMAIN bookings
        /\ appointments[a].sequence <= Len(appointments)

OneTruck ==
    \A a, c \in DOMAIN appointments :
        /\ appointments[a].booking = appointments[c].booking
        /\ appointments[a].status \in Active
        /\ appointments[c].status \in Active
        => a = c

NumbersApart ==
    \A a, c \in DOMAIN appointments :
        /\ a # c
        /\ BookingOf(a).voyage = BookingOf(c).voyage
        /\ appointments[a].status = "scheduled"
        /\ appointments[c].status \in Active
        => appointments[a].sequence # appointments[c].sequence

\* The inductive invariant.
AInv ==
    /\ FInv
    /\ TruckTypeOK
    /\ TrucksAreBooked
    /\ OneTruck
    /\ NumbersApart

\* Trucks and their bookings are what their types say.
LEMMA TruckFacts ==
    ASSUME AInv
    PROVE  /\ appointments \in Seq(AppointmentRecord)
           /\ Len(appointments) \in Nat
           /\ DOMAIN appointments = 1 .. Len(appointments)
           /\ \A a \in DOMAIN appointments :
                 /\ appointments[a] \in AppointmentRecord
                 /\ BookingOf(a) \in BookingRecord
                 /\ BookingOf(a).submitTime \in Nat
                 /\ PriorityOf(BookingOf(a)) \in Nat
<1>1. /\ appointments \in Seq(AppointmentRecord)
      /\ Len(appointments) \in Nat
      /\ DOMAIN appointments = 1 .. Len(appointments)
      /\ \A a \in DOMAIN appointments : appointments[a] \in AppointmentRecord
  BY DEF AInv, TruckTypeOK
<1>2. ASSUME NEW a \in DOMAIN appointments
      PROVE  /\ BookingOf(a) \in BookingRecord
             /\ BookingOf(a).submitTime \in Nat
             /\ PriorityOf(BookingOf(a)) \in Nat
  <2>1. BookingOf(a) \in BookingRecord
    BY <1>2 DEF AInv, FInv, IInv, TypeOK, TrucksAreBooked, BookingOf
  <2>2. PriorityOf(BookingOf(a)) \in Nat
    BY DEF PriorityOf, Priority
  <2> QED
    BY <2>1, <2>2, TimeAssumption DEF BookingRecord
<1> QED
  BY <1>1, <1>2

\* Before orders the trucks.
LEMMA BeforeOrders ==
    ASSUME AInv, NEW a \in DOMAIN appointments, NEW b \in DOMAIN appointments,
           NEW c \in DOMAIN appointments
    PROVE  /\ ~Before(a, a)
           /\ a # b => Before(a, b) \/ Before(b, a)
           /\ Before(a, b) => ~Before(b, a)
           /\ Before(a, b) /\ Before(b, c) => Before(a, c)
<1> DEFINE D == DOMAIN appointments
           p == [x \in D |-> PriorityOf(BookingOf(x))]
           s == [x \in D |-> BookingOf(x).submitTime]
<1>1. \A x \in D : p[x] \in Nat /\ s[x] \in Nat /\ x \in Nat
  BY TruckFacts
<1>2. ASSUME NEW x \in D, NEW y \in D
      PROVE  Before(x, y) <=> \/ p[x] > p[y]
                              \/ p[x] = p[y] /\ (s[x] < s[y] \/ (s[x] = s[y] /\ x < y))
  BY DEF Before
<1> HIDE DEF p, s
<1>3. \A x \in D : ~Before(x, x)
  BY <1>1, <1>2
<1>4. /\ a # b => Before(a, b) \/ Before(b, a)
      /\ Before(a, b) => ~Before(b, a)
  BY <1>1, <1>2
<1>5. Before(a, b) /\ Before(b, c) => Before(a, c)
  BY <1>1, <1>2
<1> QED
  BY <1>3, <1>4, <1>5

LEMMA PlaceInRange ==
    ASSUME AInv, NEW S, NEW v, NEW a \in Trucks(v, S)
    PROVE  /\ Place(a, S) \in 1 .. Cardinality(Trucks(v, S))
           /\ Cardinality(Trucks(v, S)) <= Len(appointments)
           /\ Cardinality(Trucks(v, S)) \in Nat
           /\ IsFiniteSet(Trucks(v, S))
<1> DEFINE T == Trucks(v, S)
           P == {b \in Trucks(BookingOf(a).voyage, S) : Before(b, a)}
<1>1. a \in DOMAIN appointments /\ BookingOf(a).voyage = v /\ T \subseteq 1 .. Len(appointments)
  BY TruckFacts DEF Trucks
<1>2. IsFiniteSet(T) /\ Cardinality(T) <= Len(appointments) /\ Cardinality(T) \in Nat
  <2>1. /\ IsFiniteSet(1 .. Len(appointments))
        /\ Cardinality(1 .. Len(appointments)) = Len(appointments)
    BY FS_Interval, TruckFacts
  <2> QED
    BY <1>1, <2>1, FS_Subset, FS_CardinalityType
<1>3. P \subseteq T \ {a}
  BY <1>1, BeforeOrders
<1>4. IsFiniteSet(T \ {a}) /\ Cardinality(T \ {a}) = Cardinality(T) - 1
  BY <1>2, FS_RemoveElement
<1>5. IsFiniteSet(P) /\ Cardinality(P) <= Cardinality(T) - 1 /\ Cardinality(P) \in Nat
  BY <1>3, <1>4, FS_Subset, FS_CardinalityType
<1>6. Place(a, S) = Cardinality(P) + 1
  BY DEF Place
<1> HIDE DEF P, T
<1>7. Place(a, S) \in 1 .. Cardinality(T)
  BY <1>2, <1>5, <1>6
<1> QED
  BY <1>2, <1>7 DEF T

\* A truck has a smaller place than those it is before.
LEMMA PlaceFollowsOrder ==
    ASSUME AInv, NEW S, NEW v, NEW a \in Trucks(v, S), NEW b \in Trucks(v, S), Before(a, b)
    PROVE  Place(a, S) < Place(b, S)
<1> DEFINE P == {x \in Trucks(v, S) : Before(x, a)}
           Q == {x \in Trucks(v, S) : Before(x, b)}
<1>1. /\ a \in DOMAIN appointments /\ BookingOf(a).voyage = v
      /\ b \in DOMAIN appointments /\ BookingOf(b).voyage = v
      /\ Trucks(v, S) \subseteq DOMAIN appointments
  BY DEF Trucks
<1>2. P \cup {a} \subseteq Q /\ a \notin P
  BY <1>1, BeforeOrders
<1>3. IsFiniteSet(P) /\ IsFiniteSet(Q)
  BY PlaceInRange, FS_Subset
<1>4. Cardinality(P \cup {a}) = Cardinality(P) + 1
  BY <1>2, <1>3, FS_AddElement
<1>5. Cardinality(P \cup {a}) <= Cardinality(Q)
  BY <1>2, <1>3, FS_Subset
<1>6. Cardinality(P) \in Nat /\ Cardinality(Q) \in Nat
  BY <1>3, FS_CardinalityType
<1>7. Place(a, S) = Cardinality(P) + 1 /\ Place(b, S) = Cardinality(Q) + 1
  BY <1>1 DEF Place
<1> HIDE DEF P, Q
<1> QED
  BY <1>4, <1>5, <1>6, <1>7

LEMMA PlacesDiffer ==
    ASSUME AInv, NEW S, NEW v, NEW a \in Trucks(v, S), NEW b \in Trucks(v, S), a # b
    PROVE  Place(a, S) # Place(b, S)
<1>1. a \in DOMAIN appointments /\ b \in DOMAIN appointments
  BY DEF Trucks
<1>2. Before(a, b) \/ Before(b, a)
  BY <1>1, BeforeOrders
<1>3. Place(a, S) \in Nat /\ Place(b, S) \in Nat
  BY PlaceInRange
<1>4. CASE Before(a, b)
  BY <1>3, <1>4, PlaceFollowsOrder
<1>5. CASE Before(b, a)
  BY <1>3, <1>5, PlaceFollowsOrder
<1> QED
  BY <1>2, <1>4, <1>5

\* The places are the numbers from 1, none left out.
LEMMA PlacesFill ==
    ASSUME AInv, NEW S, NEW v
    PROVE  {Place(a, S) : a \in Trucks(v, S)} = 1 .. Cardinality(Trucks(v, S))
<1> DEFINE T == Trucks(v, S)
           n == Cardinality(T)
           f == [a \in T |-> Place(a, S)]
<1>1. IsFiniteSet(T) /\ n \in Nat
  <2>1. T \subseteq 1 .. Len(appointments) /\ IsFiniteSet(1 .. Len(appointments))
    BY TruckFacts, FS_Interval DEF Trucks
  <2> QED
    BY <2>1, FS_Subset, FS_CardinalityType
<1>2. f \in [T -> 1 .. n]
  BY PlaceInRange
<1>3. \A a, b \in T : f[a] = f[b] => a = b
  BY PlacesDiffer
<1>4. IsFiniteSet(1 .. n) /\ Cardinality(1 .. n) = n
  <2> HIDE DEF n
  <2> QED
    BY <1>1, FS_Interval
<1>5. f \in Injection(T, 1 .. n)
  BY <1>2, <1>3 DEF Injection, IsInjective
<1> HIDE DEF f, n, T
<1>6. f \in Surjection(T, 1 .. n)
  BY <1>4, <1>5, FS_Injection DEF n
<1>7. {f[a] : a \in T} = 1 .. n
  BY <1>2, <1>6 DEF Surjection
<1> QED
  BY <1>7 DEF f, n, T

\* The highest of some numbers, none of them above n.
LEMMA MaxOfBounded ==
    ASSUME NEW T \in SUBSET Nat, T # {}, NEW n \in Nat, \A k \in T : k <= n
    PROVE  Max(T) \in T /\ \A k \in T : k <= Max(T)
<1> DEFINE U == {m \in Nat : \A k \in T : k <= m}
<1>1. PICK m \in U : \A k \in U : m <= k
  <2>1. U \in SUBSET Nat /\ n \in U
    OBVIOUS
  <2> HIDE DEF U
  <2> QED
    BY <2>1, LeastNat
<1>2. m \in T
  <2> SUFFICES ASSUME m \notin T PROVE FALSE
    OBVIOUS
  <2>1. m \in Nat /\ \A k \in T : k \in Nat /\ k < m
    OBVIOUS
  <2>2. m - 1 \in Nat
    <3>1. PICK k \in T : TRUE
      OBVIOUS
    <3>2. k \in Nat /\ k < m
      BY <2>1, <3>1
    <3> QED
      BY <2>1, <3>2
  <2>3. m - 1 \in U
    BY <2>1, <2>2
  <2> QED
    BY <1>1, <2>3
<1>3. \E x \in T : \A y \in T : x >= y
  BY <1>2
<1>4. Max(T) \in T /\ \A y \in T : Max(T) >= y
  BY <1>3 DEF Max
<1> QED
  BY <1>4

\* The next number is above that of every truck of the voyage.
LEMMA NextSequenceIsNew ==
    ASSUME AInv, NEW v
    PROVE  /\ NextSequence(v) \in 1 .. Len(appointments) + 1
           /\ \A a \in DOMAIN appointments :
                 BookingOf(a).voyage = v => appointments[a].sequence < NextSequence(v)
<1> DEFINE T == {0} \cup {appointments[a].sequence :
                            a \in Trucks(v, {"scheduled", "rescheduled", "completed"})}
<1>1. \A a \in DOMAIN appointments :
         /\ appointments[a].sequence \in Nat
         /\ appointments[a].sequence <= Len(appointments)
         /\ appointments[a].status \in {"scheduled", "rescheduled", "completed"}
  BY TruckFacts DEF AInv, TrucksAreBooked, AppointmentRecord
<1>2. \A k \in T : k \in Nat /\ k <= Len(appointments)
  BY <1>1, TruckFacts DEF Trucks
<1>3. 0 \in T
  OBVIOUS
<1>4. \A a \in DOMAIN appointments : BookingOf(a).voyage = v => appointments[a].sequence \in T
  BY <1>1 DEF Trucks
<1>5. NextSequence(v) = Max(T) + 1
  BY DEF NextSequence
<1> HIDE DEF T
<1>6. Max(T) \in T /\ \A k \in T : k <= Max(T)
  BY <1>2, <1>3, TruckFacts, MaxOfBounded
<1> QED
  BY <1>1, <1>2, <1>4, <1>5, <1>6, TruckFacts

-----------------------------------------------------------------------------
\* The steps of the trucks.

\* Rows that are rewritten one by one are a list of the same length.
LEMMA RowsWritten ==
    ASSUME AInv, DOMAIN appointments' = DOMAIN appointments,
           appointments' = [a \in DOMAIN appointments' |-> appointments'[a]],
           \A a \in DOMAIN appointments : appointments'[a] \in AppointmentRecord
    PROVE  appointments' \in Seq(AppointmentRecord) /\ Len(appointments') = Len(appointments)
<1>1. DOMAIN appointments = 1 .. Len(appointments) /\ Len(appointments) \in Nat
  BY TruckFacts
<1>2. appointments' \in [1 .. Len(appointments) -> AppointmentRecord]
  BY <1>1
<1> QED
  BY <1>1, <1>2

\* The other variables of the trucks.
BesideTrucks ==
    /\ working' \subseteq {"reschedule", "resequence"} \X Voyage
    /\ serving' \in BOOLEAN
    /\ pass' \in {"idle", "booked"}
    /\ crashes' \in 0 .. MaxCrashes

\* No truck changes, while bookings may.
LEMMA TrucksUntouched ==
    ASSUME AInv, [FulfilNext]_fullVars, UNCHANGED appointments, BesideTrucks
    PROVE  AInv'
<1>1. FInv'
  BY FulfilStepInvariant DEF AInv
<1>2. RequestsKept
  BY FlowKeepsRequests DEF AInv
<1>3. \A a \in DOMAIN appointments :
         appointments[a].booking \in DOMAIN bookings' /\ BookingOf(a)'.voyage = BookingOf(a).voyage
  BY <1>2 DEF AInv, TrucksAreBooked, RequestsKept, SameRequest, BookingOf
<1>4. TruckTypeOK'
  BY <1>1 DEF AInv, TruckTypeOK, FInv, BesideTrucks
<1>5. TrucksAreBooked'
  BY <1>3 DEF AInv, TrucksAreBooked
<1>6. OneTruck'
  BY DEF AInv, OneTruck
<1>7. NumbersApart'
  BY <1>3 DEF AInv, NumbersApart
<1> QED
  BY <1>1, <1>4, <1>5, <1>6, <1>7 DEF AInv

LEMMA CreateAppointmentInvariant ==
    ASSUME AInv, NEW b, NEW at \in Start, CreateAppointment(b, at)
    PROVE  AInv'
<1>0. PICK n \in Nat : n = Len(appointments)
  BY TruckFacts
<1> DEFINE v == bookings[b].voyage
           new == [booking |-> b, start |-> at, status |-> "scheduled",
                   sequence |-> NextSequence(v)]
<1>1. /\ n < MaxAppointments
      /\ b \in DOMAIN bookings
      /\ \A a \in DOMAIN appointments :
            appointments[a].booking = b => appointments[a].status \notin Active
      /\ appointments' = Append(appointments, new)
      /\ UNCHANGED <<fullVars, working, serving, pass, crashes>>
  BY <1>0 DEF CreateAppointment, Known
<1>2. /\ NextSequence(v) \in 1 .. n + 1
      /\ \A a \in DOMAIN appointments :
            BookingOf(a).voyage = v => appointments[a].sequence < NextSequence(v)
  BY <1>0, NextSequenceIsNew
<1>3. new \in AppointmentRecord
  <2>1. DOMAIN bookings \subseteq 1 .. MaxBookings
    BY BoundAssumption DEF AInv, FInv, IInv, TypeOK
  <2>2. NextSequence(v) \in 1 .. MaxAppointments
    BY <1>1, <1>2, AppointmentBoundAssumption
  <2> HIDE DEF v
  <2> QED
    BY <1>1, <2>1, <2>2, StartAssumption DEF AppointmentRecord
<1>4. /\ new.booking = b /\ new.status = "scheduled" /\ new.sequence = NextSequence(v)
  OBVIOUS
<1>5. n \in Nat /\ DOMAIN appointments = 1 .. n /\ appointments \in Seq(AppointmentRecord)
  BY <1>0, TruckFacts
<1> HIDE DEF new
<1>6. /\ appointments' \in Seq(AppointmentRecord)
      /\ Len(appointments') = n + 1
      /\ DOMAIN appointments' = 1 .. n + 1
      /\ \A a \in 1 .. n : appointments'[a] = appointments[a]
      /\ appointments'[n + 1] = new
  BY <1>1, <1>3, <1>5
<1>7. UNCHANGED fullVars /\ UNCHANGED bookings
  BY <1>1 DEF fullVars, vars
<1>8. FInv'
  BY <1>7, FulfilStepInvariant DEF AInv
<1>9. \A a \in DOMAIN appointments' : a \in 1 .. n \/ a = n + 1
  BY <1>5, <1>6
<1>10. \A a \in 1 .. n : BookingOf(a)' = BookingOf(a)
  BY <1>6, <1>7 DEF BookingOf
<1>11. BookingOf(n + 1)'.voyage = v
  BY <1>4, <1>6, <1>7 DEF BookingOf
<1>12. TruckTypeOK'
  <2>1. Len(appointments') <= MaxAppointments
    BY <1>1, <1>5, <1>6, AppointmentBoundAssumption
  <2> QED
    BY <1>1, <1>6, <1>8, <2>1 DEF AInv, TruckTypeOK, FInv
<1>13. TrucksAreBooked'
  <2> SUFFICES ASSUME NEW a \in DOMAIN appointments'
               PROVE  /\ appointments'[a].booking \in DOMAIN bookings
                      /\ appointments'[a].sequence <= n + 1
    BY <1>6, <1>7 DEF TrucksAreBooked
  <2>1. CASE a \in 1 .. n
    <3>1. appointments[a].booking \in DOMAIN bookings /\ appointments[a].sequence <= n
      BY <1>0, <1>5, <2>1 DEF AInv, TrucksAreBooked
    <3>2. appointments[a].sequence \in Nat
      BY <1>5, <2>1, TruckFacts DEF AppointmentRecord
    <3> QED
      BY <1>5, <1>6, <2>1, <3>1, <3>2
  <2>2. CASE a = n + 1
    BY <1>1, <1>2, <1>4, <1>5, <1>6, <2>2
  <2> QED
    BY <1>9, <2>1, <2>2
<1>14. OneTruck'
  BY <1>1, <1>4, <1>5, <1>6, <1>9 DEF AInv, OneTruck
<1>15. NumbersApart'
  <2> SUFFICES ASSUME NEW a \in DOMAIN appointments', NEW c \in DOMAIN appointments',
                      a # c, BookingOf(a)'.voyage = BookingOf(c)'.voyage,
                      appointments'[a].status = "scheduled", appointments'[c].status \in Active
               PROVE  appointments'[a].sequence # appointments'[c].sequence
    BY DEF NumbersApart
  <2>1. \A x \in 1 .. n : appointments[x].sequence \in Nat
    BY <1>5, TruckFacts DEF AppointmentRecord
  <2>2. CASE a \in 1 .. n /\ c \in 1 .. n
    BY <1>5, <1>6, <1>10, <2>2 DEF AInv, NumbersApart
  <2>3. ASSUME NEW x \in 1 .. n, BookingOf(x)'.voyage = v
        PROVE  appointments'[x].sequence # appointments'[n + 1].sequence
    <3>1. appointments[x].sequence < NextSequence(v)
      BY <1>2, <1>5, <1>10, <2>3
    <3> QED
      BY <1>2, <1>4, <1>5, <1>6, <2>1, <2>3, <3>1
  <2> QED
    BY <1>9, <1>11, <2>2, <2>3
<1> QED
  BY <1>8, <1>12, <1>13, <1>14, <1>15 DEF AInv

\* Trucks may be renumbered, and what is left for each to do may shrink.
LEMMA RowsKept ==
    ASSUME AInv, UNCHANGED fullVars, BesideTrucks,
           appointments' \in Seq(AppointmentRecord), Len(appointments') = Len(appointments),
           \A a \in DOMAIN appointments :
              /\ appointments'[a].booking = appointments[a].booking
              /\ appointments'[a].status \in Active => appointments[a].status \in Active
              /\ appointments'[a].sequence <= Len(appointments),
           NumbersApart'
    PROVE  AInv'
<1>1. DOMAIN appointments' = DOMAIN appointments
  BY TruckFacts
<1>2. FInv'
  BY FulfilStepInvariant DEF AInv
<1>3. TruckTypeOK'
  BY <1>2 DEF AInv, TruckTypeOK, FInv, BesideTrucks
<1>4. TrucksAreBooked'
  BY <1>1 DEF AInv, TrucksAreBooked, fullVars, vars
<1>5. OneTruck'
  BY <1>1 DEF AInv, OneTruck
<1> QED
  BY <1>2, <1>3, <1>4, <1>5 DEF AInv

LEMMA CompleteAppointmentInvariant ==
    ASSUME AInv, NEW c \in DOMAIN appointments, CompleteAppointment(c)
    PROVE  AInv'
<1>1. /\ appointments' = [appointments EXCEPT ![c].status = "completed"]
      /\ UNCHANGED <<fullVars, working, serving, pass, crashes>>
  BY DEF CompleteAppointment
<1>2. ASSUME NEW a \in DOMAIN appointments
      PROVE  /\ appointments'[a] \in AppointmentRecord
             /\ appointments'[a].booking = appointments[a].booking
             /\ appointments'[a].sequence = appointments[a].sequence
             /\ appointments'[a].status = IF a = c THEN "completed" ELSE appointments[a].status
  BY <1>1, TruckFacts DEF AppointmentRecord
<1>3. appointments' \in Seq(AppointmentRecord) /\ Len(appointments') = Len(appointments)
  <2>1. /\ DOMAIN appointments' = DOMAIN appointments
        /\ appointments' = [a \in DOMAIN appointments' |-> appointments'[a]]
    BY <1>1
  <2> QED
    BY <1>2, <2>1, RowsWritten
<1>4. DOMAIN appointments' = DOMAIN appointments
  BY <1>1
<1>5. \A a \in DOMAIN appointments : BookingOf(a)' = BookingOf(a)
  BY <1>1, <1>2 DEF BookingOf, fullVars, vars
<1>6. NumbersApart'
  BY <1>2, <1>4, <1>5 DEF AInv, NumbersApart, Active
<1>7. BesideTrucks
  BY <1>1 DEF AInv, TruckTypeOK, BesideTrucks
<1>8. UNCHANGED fullVars
  BY <1>1
<1>9. \A a \in DOMAIN appointments :
         /\ appointments'[a].booking = appointments[a].booking
         /\ appointments'[a].status \in Active => appointments[a].status \in Active
         /\ appointments'[a].sequence <= Len(appointments)
  BY <1>2 DEF AInv, TrucksAreBooked, Active
<1> QED
  BY <1>3, <1>6, <1>7, <1>8, <1>9, RowsKept

\* Truck a has been re-appointed among the trucks S, or is as before.
Rewritten(a, S) ==
    /\ appointments'[a].booking = appointments[a].booking
    /\ appointments'[a].status = "rescheduled"
    /\ appointments'[a].sequence = Place(a, S)
    /\ appointments'[a].start >= now

LEMMA ReappointedRows ==
    ASSUME AInv, NEW V, NEW S, S \subseteq Active, appointments' = Reappointed(V, S)
    PROVE  /\ appointments' \in Seq(AppointmentRecord)
           /\ Len(appointments') = Len(appointments)
           /\ \A a \in DOMAIN appointments :
                 \/ (\E v \in V : a \in Trucks(v, S)) /\ Rewritten(a, S)
                 \/ (\A v \in V : a \notin Trucks(v, S)) /\ appointments'[a] = appointments[a]
<1>1. /\ DOMAIN appointments' = DOMAIN appointments
      /\ appointments' = [a \in DOMAIN appointments' |-> appointments'[a]]
  BY DEF Reappointed
<1>2. ASSUME NEW a \in DOMAIN appointments, \E v \in V : a \in Trucks(v, S)
      PROVE  Rewritten(a, S) /\ appointments'[a] \in AppointmentRecord
  <2>1. appointments'[a] = [appointments[a] EXCEPT !.status = "rescheduled",
                              !.sequence = Place(a, S), !.start = IF @ < now THEN now ELSE @]
    BY <1>2 DEF Reappointed
  <2>2. appointments[a] \in AppointmentRecord /\ now \in 0 .. MaxTime
    BY TruckFacts DEF AInv, FInv, IInv, TypeOK
  <2>3. Place(a, S) \in 1 .. MaxAppointments
    <3>1. PICK v \in V : a \in Trucks(v, S)
      BY <1>2
    <3>2. Place(a, S) \in Nat /\ 1 <= Place(a, S) /\ Place(a, S) <= Len(appointments)
      BY <3>1, PlaceInRange, TruckFacts
    <3>3. Len(appointments) <= MaxAppointments
      BY DEF AInv, TruckTypeOK
    <3> QED
      BY <3>2, <3>3, TruckFacts, AppointmentBoundAssumption
  <2> HIDE DEF Place
  <2>4. appointments[a].start \in 0 .. MaxTime
    BY <2>2 DEF AppointmentRecord
  <2>5. (IF appointments[a].start < now THEN now ELSE appointments[a].start) \in now .. MaxTime
    BY <2>2, <2>4, TimeAssumption
  <2>6. Rewritten(a, S)
    BY <2>1, <2>2, <2>5, TimeAssumption DEF Rewritten, AppointmentRecord
  <2>7. appointments'[a] \in AppointmentRecord
    BY <2>1, <2>2, <2>3, <2>5, TimeAssumption DEF AppointmentRecord
  <2> QED
    BY <2>6, <2>7
<1>3. ASSUME NEW a \in DOMAIN appointments, \A v \in V : a \notin Trucks(v, S)
      PROVE  appointments'[a] = appointments[a] /\ appointments'[a] \in AppointmentRecord
  BY <1>3, TruckFacts DEF Reappointed
<1>4. appointments' \in Seq(AppointmentRecord) /\ Len(appointments') = Len(appointments)
  BY <1>1, <1>2, <1>3, RowsWritten
<1> QED
  BY <1>2, <1>3, <1>4

LEMMA ReappointedInvariant ==
    ASSUME AInv, NEW V, NEW S, S \subseteq Active, "scheduled" \in S,
           appointments' = Reappointed(V, S), UNCHANGED fullVars, BesideTrucks
    PROVE  AInv'
<1>1. /\ appointments' \in Seq(AppointmentRecord)
      /\ Len(appointments') = Len(appointments)
      /\ \A a \in DOMAIN appointments :
            \/ (\E v \in V : a \in Trucks(v, S)) /\ Rewritten(a, S)
            \/ (\A v \in V : a \notin Trucks(v, S)) /\ appointments'[a] = appointments[a]
  BY ReappointedRows
<1>2. DOMAIN appointments' = DOMAIN appointments
  BY <1>1, TruckFacts
<1>3. ASSUME NEW a \in DOMAIN appointments
      PROVE  /\ appointments'[a].booking = appointments[a].booking
             /\ appointments'[a].status \in Active => appointments[a].status \in Active
             /\ appointments'[a].sequence <= Len(appointments)
  <2>1. CASE (\E v \in V : a \in Trucks(v, S)) /\ Rewritten(a, S)
    <3>1. PICK v \in V : a \in Trucks(v, S)
      BY <2>1
    <3>2. Place(a, S) <= Len(appointments)
      BY <3>1, PlaceInRange, TruckFacts
    <3>3. appointments[a].status \in Active
      BY <3>1 DEF Trucks
    <3> QED
      BY <2>1, <3>2, <3>3 DEF Rewritten
  <2>2. CASE appointments'[a] = appointments[a]
    BY <2>2 DEF AInv, TrucksAreBooked
  <2> QED
    BY <1>1, <2>1, <2>2
<1>4. \A a \in DOMAIN appointments : BookingOf(a)' = BookingOf(a)
  BY <1>3 DEF BookingOf, fullVars, vars
<1>5. NumbersApart'
  <2> SUFFICES ASSUME NEW a \in DOMAIN appointments, NEW c \in DOMAIN appointments,
                      a # c, BookingOf(a).voyage = BookingOf(c).voyage,
                      appointments'[a].status = "scheduled", appointments'[c].status \in Active
               PROVE  appointments'[a].sequence # appointments'[c].sequence
    BY <1>2, <1>4 DEF NumbersApart
  <2>1. (\A v \in V : a \notin Trucks(v, S)) /\ appointments'[a] = appointments[a]
    BY <1>1 DEF Rewritten
  <2>2. ~ \E v \in V : c \in Trucks(v, S)
    BY <2>1 DEF Trucks
  <2>3. appointments'[c] = appointments[c]
    BY <1>1, <2>2
  <2> QED
    BY <2>1, <2>3 DEF AInv, NumbersApart
<1> QED
  BY <1>1, <1>3, <1>5, RowsKept

LEMMA ResequencedRows ==
    ASSUME AInv, NEW v, Resequence(v)
    PROVE  /\ appointments' \in Seq(AppointmentRecord)
           /\ Len(appointments') = Len(appointments)
           /\ \A a \in DOMAIN appointments :
                 /\ appointments'[a].booking = appointments[a].booking
                 /\ appointments'[a].status = appointments[a].status
                 /\ a \in Trucks(v, Active) => appointments'[a].sequence = Place(a, Active)
                 /\ a \notin Trucks(v, Active) =>
                       appointments'[a].sequence = appointments[a].sequence
<1>1. appointments' = [a \in DOMAIN appointments |->
                         IF a \in Trucks(v, Active)
                           THEN [appointments[a] EXCEPT !.sequence = Place(a, Active)]
                           ELSE appointments[a]]
  BY DEF Resequence
<1>2. ASSUME NEW a \in DOMAIN appointments
      PROVE  /\ appointments'[a] \in AppointmentRecord
             /\ appointments'[a].booking = appointments[a].booking
             /\ appointments'[a].status = appointments[a].status
             /\ a \in Trucks(v, Active) => appointments'[a].sequence = Place(a, Active)
             /\ a \notin Trucks(v, Active) =>
                   appointments'[a].sequence = appointments[a].sequence
  <2>1. appointments[a] \in AppointmentRecord
    BY TruckFacts
  <2>2. CASE a \in Trucks(v, Active)
    <3>1. Place(a, Active) \in Nat /\ 1 <= Place(a, Active) /\ Place(a, Active) <= Len(appointments)
      BY <2>2, PlaceInRange, TruckFacts
    <3>2. Len(appointments) <= MaxAppointments
      BY DEF AInv, TruckTypeOK
    <3>3. Place(a, Active) \in 1 .. MaxAppointments
      BY <3>1, <3>2, TruckFacts, AppointmentBoundAssumption
    <3> QED
      BY <1>1, <2>1, <2>2, <3>3 DEF AppointmentRecord
  <2>3. CASE a \notin Trucks(v, Active)
    BY <1>1, <2>1, <2>3
  <2> QED
    BY <2>2, <2>3
<1>3. appointments' \in Seq(AppointmentRecord) /\ Len(appointments') = Len(appointments)
  <2>1. /\ DOMAIN appointments' = DOMAIN appointments
        /\ appointments' = [a \in DOMAIN appointments' |-> appointments'[a]]
    BY <1>1
  <2> QED
    BY <1>2, <2>1, RowsWritten
<1> QED
  BY <1>2, <1>3

LEMMA ResequenceInvariant ==
    ASSUME AInv, NEW v, Resequence(v)
    PROVE  AInv'
<1>1. /\ appointments' \in Seq(AppointmentRecord)
      /\ Len(appointments') = Len(appointments)
      /\ \A a \in DOMAIN appointments :
            /\ appointments'[a].booking = appointments[a].booking
            /\ appointments'[a].status = appointments[a].status
            /\ a \in Trucks(v, Active) => appointments'[a].sequence = Place(a, Active)
            /\ a \notin Trucks(v, Active) =>
                  appointments'[a].sequence = appointments[a].sequence
  BY ResequencedRows
<1>2. /\ DOMAIN appointments' = DOMAIN appointments
      /\ UNCHANGED <<fullVars, serving, pass, crashes>>
      /\ working' \subseteq working
  BY <1>1, TruckFacts DEF Resequence
<1>3. \A a \in DOMAIN appointments : BookingOf(a)' = BookingOf(a)
  BY <1>1, <1>2 DEF BookingOf, fullVars, vars
<1>4. \A a \in DOMAIN appointments : appointments'[a].sequence <= Len(appointments)
  <2> SUFFICES ASSUME NEW a \in DOMAIN appointments
               PROVE  appointments'[a].sequence <= Len(appointments)
    OBVIOUS
  <2>1. CASE a \in Trucks(v, Active)
    BY <1>1, <2>1, PlaceInRange, TruckFacts
  <2>2. CASE a \notin Trucks(v, Active)
    BY <1>1, <2>2 DEF AInv, TrucksAreBooked
  <2> QED
    BY <2>1, <2>2
<1>5. NumbersApart'
  <2> SUFFICES ASSUME NEW a \in DOMAIN appointments, NEW c \in DOMAIN appointments,
                      a # c, BookingOf(a).voyage = BookingOf(c).voyage,
                      appointments[a].status = "scheduled", appointments[c].status \in Active
               PROVE  appointments'[a].sequence # appointments'[c].sequence
    BY <1>1, <1>2, <1>3 DEF NumbersApart
  <2>1. CASE BookingOf(a).voyage = v
    <3>1. a \in Trucks(v, Active) /\ c \in Trucks(v, Active)
      BY <2>1 DEF Trucks, Active
    <3>2. Place(a, Active) # Place(c, Active)
      BY <3>1, PlacesDiffer
    <3> QED
      BY <1>1, <3>1, <3>2
  <2>2. CASE BookingOf(a).voyage # v
    <3>1. a \notin Trucks(v, Active) /\ c \notin Trucks(v, Active)
      BY <2>2 DEF Trucks
    <3> QED
      BY <1>1, <3>1 DEF AInv, NumbersApart
  <2> QED
    BY <2>1, <2>2
<1>6. BesideTrucks
  BY <1>2 DEF AInv, TruckTypeOK, BesideTrucks
<1> QED
  BY <1>1, <1>2, <1>4, <1>5, <1>6, RowsKept

LEMMA AptStepInvariant == AInv /\ [AptNext]_aptVars => AInv'
<1> SUFFICES ASSUME AInv, [AptNext]_aptVars PROVE AInv'
  OBVIOUS
<1>1. /\ working \subseteq {"reschedule", "resequence"} \X Voyage
      /\ serving \in BOOLEAN
      /\ pass \in {"idle", "booked"}
      /\ crashes \in 0 .. MaxCrashes
      /\ MaxCrashes \in Nat
  BY AppointmentBoundAssumption DEF AInv, TruckTypeOK
<1>2. CASE UNCHANGED aptVars \/ (Tick /\ UNCHANGED <<flowVars, truckVars>>) \/ OtherCall
  <2>1. [FulfilNext]_fullVars /\ UNCHANGED truckVars
    BY <1>2 DEF aptVars, OtherCall, FulfilNext, BookingStep, Next
  <2> QED
    BY <1>1, <2>1, TrucksUntouched DEF truckVars, BesideTrucks
<1>3. ASSUME NEW b \in 1 .. MaxBookings, NEW at \in Start, CreateAppointment(b, at) PROVE AInv'
  BY <1>3, CreateAppointmentInvariant
<1>4. ASSUME NEW a \in DOMAIN appointments, CompleteAppointment(a) PROVE AInv'
  BY <1>4, CompleteAppointmentInvariant
<1>5. ASSUME NEW v \in Voyage, DelayVoyage(v) \/ ChangeBerth(v) PROVE AInv'
  <2>1. [FulfilNext]_fullVars
    BY <1>5 DEF DelayVoyage, ChangeBerth, FulfilNext
  <2>2. UNCHANGED appointments /\ BesideTrucks
    BY <1>1, <1>5 DEF DelayVoyage, ChangeBerth, Begin, BesideTrucks
  <2> QED
    BY <2>1, <2>2, TrucksUntouched
<1>6. ASSUME NEW v \in Voyage, Reschedule(v) PROVE AInv'
  <2>1. /\ appointments' = Reappointed({v}, Active)
        /\ UNCHANGED fullVars
        /\ BesideTrucks
    BY <1>1, <1>6 DEF Reschedule, BesideTrucks
  <2> QED
    BY <2>1, ReappointedInvariant DEF Active
<1>7. ASSUME NEW v \in Voyage, Resequence(v) PROVE AInv'
  BY <1>7, ResequenceInvariant
<1>8. CASE BookingHalf
  <2>1. [FulfilNext]_fullVars
    BY <1>8 DEF BookingHalf, FulfilNext, BookingStep, Next, fullVars
  <2>2. UNCHANGED appointments /\ BesideTrucks
    BY <1>1, <1>8 DEF BookingHalf, BesideTrucks
  <2> QED
    BY <2>1, <2>2, TrucksUntouched
<1>9. CASE Reconcile
  <2>1. /\ appointments' = Reappointed(Delayed, {"scheduled"})
        /\ UNCHANGED fullVars
        /\ BesideTrucks
    BY <1>1, <1>9 DEF Reconcile, BesideTrucks
  <2> QED
    BY <2>1, ReappointedInvariant DEF Active
<1>10. CASE Crash
  <2>1. /\ crashes' = crashes + 1 /\ crashes < MaxCrashes
        /\ working' = {} /\ serving' = FALSE /\ pass' = "idle"
        /\ UNCHANGED <<fullVars, appointments>>
    BY <1>10 DEF Crash
  <2>2. crashes' \in 0 .. MaxCrashes
    BY <1>1, <2>1
  <2>3. BesideTrucks
    BY <2>1, <2>2 DEF BesideTrucks
  <2> QED
    BY <2>1, <2>3, TrucksUntouched
<1> QED
  BY <1>2, <1>3, <1>4, <1>5, <1>6, <1>7, <1>8, <1>9, <1>10 DEF AptNext, TruckCall

\* The invariant holds of every behaviour of the trucks.
THEOREM AptInvariant == AptSpec => []AInv
<1>1. AptInit => AInv
  <2> SUFFICES ASSUME AptInit PROVE AInv
    OBVIOUS
  <2>1. FInv
    BY FulfilInitInvariant DEF AptInit
  <2>2. /\ appointments = <<>> /\ working = {} /\ serving = FALSE /\ pass = "idle"
        /\ crashes = 0
    BY DEF AptInit, TruckInit
  <2>3. appointments \in Seq(AppointmentRecord) /\ Len(appointments) <= MaxAppointments
    BY <2>2, AppointmentBoundAssumption
  <2>4. TruckTypeOK
    <3>1. 0 \in 0 .. MaxCrashes
      BY AppointmentBoundAssumption
    <3> QED
      BY <2>1, <2>2, <2>3, <3>1 DEF FInv, TruckTypeOK
  <2> QED
    BY <2>1, <2>2, <2>4 DEF AInv, TrucksAreBooked, OneTruck, NumbersApart
<1> QED
  BY <1>1, AptStepInvariant, PTL DEF AptSpec

-----------------------------------------------------------------------------
\* The theorems about the trucks.

\* Every variable stays within its type; no truck's number is above the count of
\* trucks, however often they are renumbered.
THEOREM AptTypeCorrect == AptSpec => []AptTypeOK
<1>1. AInv => AptTypeOK
  BY FlowIsTyped DEF AInv, AptTypeOK, TrucksAreBooked
<1> QED
  BY <1>1, AptInvariant, PTL

\* A booking never has two trucks under way, whatever delays, crashes and repeated
\* calls come between.
THEOREM OneTruckAlways == AptSpec => []OneTruckPerBooking
<1>1. AInv => OneTruckPerBooking
  <2> SUFFICES ASSUME AInv, NEW b \in DOMAIN bookings
               PROVE  Cardinality({a \in DOMAIN appointments :
                         appointments[a].booking = b /\ appointments[a].status \in Active}) <= 1
    BY DEF OneTruckPerBooking
  <2> DEFINE S == {a \in DOMAIN appointments :
                     appointments[a].booking = b /\ appointments[a].status \in Active}
  <2>1. \A a, c \in S : a = c
    BY DEF AInv, OneTruck
  <2> HIDE DEF S
  <2>2. Cardinality(S) <= 1
    <3>1. CASE S = {}
      BY <3>1, FS_EmptySet
    <3>2. CASE S # {}
      <4>1. PICK a \in S : TRUE
        BY <3>2
      <4>2. S = {a}
        BY <2>1, <4>1
      <4>3. Cardinality({a}) = 1
        BY FS_Singleton
      <4> QED
        BY <4>2, <4>3
    <3> QED
      BY <3>1, <3>2
  <2> QED
    BY <2>2 DEF S
<1> QED
  BY <1>1, AptInvariant, PTL

\* A truck that has not been re-appointed shares its number with no other truck of
\* its voyage that is still to come.
THEOREM ScheduledNumberAlwaysUnique == AptSpec => []ScheduledNumberIsUnique
<1>1. AInv => ScheduledNumberIsUnique
  BY DEF AInv, NumbersApart, ScheduledNumberIsUnique, Trucks
<1> QED
  BY <1>1, AptInvariant, PTL

BootReappoints ==
    ~serving /\ serving' => \A v \in Delayed : Trucks(v, {"scheduled"})' = {}

\* When the process begins to serve, the trucks of delayed voyages have been
\* re-appointed, also those that a crash had left.
THEOREM BootAlwaysReappoints == AptSpec => ServesReappointed
<1>1. AInv /\ [AptNext]_aptVars => BootReappoints
  <2> SUFFICES ASSUME AInv, [AptNext]_aptVars, ~serving, serving', NEW v \in Delayed,
                      NEW a \in Trucks(v, {"scheduled"})'
               PROVE  FALSE
    BY DEF BootReappoints
  <2>1. Reconcile
    BY DEF AptNext, aptVars, truckVars, OtherCall, TruckCall, BookingHalf, Crash
  <2>2. appointments' = Reappointed(Delayed, {"scheduled"}) /\ UNCHANGED bookings
    BY <2>1 DEF Reconcile, fullVars, vars
  <2>3. /\ DOMAIN appointments' = DOMAIN appointments
        /\ \A x \in DOMAIN appointments :
              \/ Rewritten(x, {"scheduled"})
              \/ /\ \A w \in Delayed : x \notin Trucks(w, {"scheduled"})
                 /\ appointments'[x] = appointments[x]
    BY <2>2, ReappointedRows, TruckFacts DEF Active
  <2>4. /\ a \in DOMAIN appointments /\ appointments'[a].status = "scheduled"
        /\ bookings[appointments'[a].booking].voyage = v
    BY <2>2, <2>3 DEF Trucks, BookingOf
  <2>5. appointments'[a] = appointments[a] /\ a \notin Trucks(v, {"scheduled"})
    BY <2>3, <2>4 DEF Rewritten
  <2> QED
    BY <2>4, <2>5 DEF Trucks, BookingOf
<1>2. AptSpec => [][BootReappoints]_aptVars
  BY <1>1, AptInvariant, PTL DEF AptSpec
<1> QED
  BY <1>2 DEF ServesReappointed, BootReappoints

\* When the trucks of a voyage that are still to come get their places as numbers,
\* they are in order.
LEMMA PlacesAreInOrder ==
    ASSUME AInv, NEW v, UNCHANGED bookings, DOMAIN appointments' = DOMAIN appointments,
           \A a \in DOMAIN appointments :
              /\ appointments'[a].booking = appointments[a].booking
              /\ appointments'[a].status \in Active <=> appointments[a].status \in Active,
           \A a \in Trucks(v, Active) : appointments'[a].sequence = Place(a, Active)
    PROVE  InOrder(v)' /\ Trucks(v, Active)' = Trucks(v, Active)
<1> DEFINE T == Trucks(v, Active)
<1>1. \A a \in DOMAIN appointments : BookingOf(a)' = BookingOf(a)
  BY DEF BookingOf
<1>2. T' = T
  BY <1>1 DEF Trucks
<1>3. {appointments'[a].sequence : a \in T} = 1 .. Cardinality(T)
  <2>1. {appointments'[a].sequence : a \in T} = {Place(a, Active) : a \in T}
    OBVIOUS
  <2> QED
    BY <2>1, PlacesFill
<1>4. ASSUME NEW a \in T, NEW b \in T, appointments'[a].sequence < appointments'[b].sequence
      PROVE  \/ PriorityOf(BookingOf(a)') > PriorityOf(BookingOf(b)')
             \/ /\ PriorityOf(BookingOf(a)') = PriorityOf(BookingOf(b)')
                /\ BookingOf(a)'.submitTime <= BookingOf(b)'.submitTime
  <2>1. a \in DOMAIN appointments /\ b \in DOMAIN appointments
    BY DEF Trucks
  <2>2. Place(a, Active) < Place(b, Active) /\ Place(a, Active) \in Nat /\ Place(b, Active) \in Nat
    BY <1>4, PlaceInRange
  <2>3. ~Before(b, a)
    BY <2>2, PlaceFollowsOrder
  <2>4. a # b
    BY <2>2
  <2>5. Before(a, b)
    BY <2>1, <2>3, <2>4, BeforeOrders
  <2>6. /\ BookingOf(a).submitTime \in Nat /\ BookingOf(b).submitTime \in Nat
        /\ BookingOf(a)' = BookingOf(a) /\ BookingOf(b)' = BookingOf(b)
    BY <1>1, <2>1, TruckFacts
  <2>7. \/ PriorityOf(BookingOf(a)) > PriorityOf(BookingOf(b))
        \/ /\ PriorityOf(BookingOf(a)) = PriorityOf(BookingOf(b))
           /\ BookingOf(a).submitTime <= BookingOf(b).submitTime
    BY <2>5, <2>6 DEF Before
  <2> QED
    BY <2>6, <2>7
<1>5. /\ {appointments'[a].sequence : a \in T'} = 1 .. Cardinality(T')
      /\ \A a, b \in T' :
            appointments'[a].sequence < appointments'[b].sequence =>
              \/ PriorityOf(BookingOf(a)') > PriorityOf(BookingOf(b)')
              \/ /\ PriorityOf(BookingOf(a)') = PriorityOf(BookingOf(b)')
                 /\ BookingOf(a)'.submitTime <= BookingOf(b)'.submitTime
  BY <1>2, <1>3, <1>4
<1>6. InOrder(v)'
  BY <1>5 DEF InOrder, PriorityOf
<1> QED
  BY <1>2, <1>6

CoversAll ==
    \A v \in Voyage :
        /\ Reschedule(v) \/ Resequence(v) => InOrder(v)'
        /\ Reschedule(v) => \A a \in Trucks(v, Active)' : appointments'[a].start >= now

\* The second update of a delay or of a new berth plan leaves all the trucks of the
\* voyage in order, whatever has come between it and the first.
THEOREM RenumberingAlwaysCoversAll == AptSpec => RenumberingCoversAll
<1>1. AInv => CoversAll
  <2> SUFFICES ASSUME AInv, NEW v \in Voyage
               PROVE  /\ Reschedule(v) \/ Resequence(v) => InOrder(v)'
                      /\ Reschedule(v) =>
                            \A a \in Trucks(v, Active)' : appointments'[a].start >= now
    BY DEF CoversAll
  <2>1. ASSUME Reschedule(v)
        PROVE  InOrder(v)' /\ \A a \in Trucks(v, Active)' : appointments'[a].start >= now
    <3>1. appointments' = Reappointed({v}, Active) /\ UNCHANGED bookings
      BY <2>1 DEF Reschedule, fullVars, vars
    <3>2. /\ DOMAIN appointments' = DOMAIN appointments
          /\ \A a \in DOMAIN appointments :
                \/ a \in Trucks(v, Active) /\ Rewritten(a, Active)
                \/ a \notin Trucks(v, Active) /\ appointments'[a] = appointments[a]
      <4>1. /\ appointments' \in Seq(AppointmentRecord)
            /\ Len(appointments') = Len(appointments)
            /\ \A a \in DOMAIN appointments :
                  \/ (\E w \in {v} : a \in Trucks(w, Active)) /\ Rewritten(a, Active)
                  \/ /\ \A w \in {v} : a \notin Trucks(w, Active)
                     /\ appointments'[a] = appointments[a]
        BY <3>1, ReappointedRows
      <4> QED
        BY <4>1, TruckFacts
    <3>3. \A a \in DOMAIN appointments :
             /\ appointments'[a].booking = appointments[a].booking
             /\ appointments'[a].status \in Active <=> appointments[a].status \in Active
      BY <3>2 DEF Rewritten, Active, Trucks
    <3>4. \A a \in Trucks(v, Active) : a \in DOMAIN appointments /\ Rewritten(a, Active)
      BY <3>2 DEF Trucks
    <3>5. InOrder(v)' /\ Trucks(v, Active)' = Trucks(v, Active)
      BY <3>1, <3>2, <3>3, <3>4, PlacesAreInOrder DEF Rewritten
    <3> QED
      BY <3>4, <3>5 DEF Rewritten
  <2>2. ASSUME Resequence(v) PROVE InOrder(v)'
    <3>1. /\ DOMAIN appointments' = DOMAIN appointments
          /\ \A a \in DOMAIN appointments :
                /\ appointments'[a].booking = appointments[a].booking
                /\ appointments'[a].status = appointments[a].status
                /\ a \in Trucks(v, Active) => appointments'[a].sequence = Place(a, Active)
          /\ UNCHANGED bookings
      BY <2>2, ResequencedRows, TruckFacts DEF Resequence, fullVars, vars
    <3> QED
      BY <3>1, PlacesAreInOrder DEF Trucks
  <2> QED
    BY <2>1, <2>2
<1>2. AptSpec => [][CoversAll]_aptVars
  BY <1>1, AptInvariant, PTL DEF AptSpec
<1> QED
  BY <1>2 DEF RenumberingCoversAll, CoversAll
=============================================================================
