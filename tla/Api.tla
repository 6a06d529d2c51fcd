-------------------------------- MODULE Api --------------------------------
(***************************************************************************)
(* What clients are told.  A call to book or to pay is a goroutine: it     *)
(* runs the service's update, then, the lock given back, looks at the      *)
(* booking for the status code and once more for the body.  If that takes  *)
(* too long the client is told so, and the goroutine goes on; the client   *)
(* may repeat its call at any time, also while the first is still running. *)
(***************************************************************************)
EXTENDS Booking

CONSTANTS
    Call,     \* the calls ever made
    NoRequest \* the request of a call that does not book

ASSUME NoRequestAssumption == NoRequest \notin Request

\* calls[c] is a record of
\*   stage    "unused", "sent", "ran", "coded" or "over": how far the goroutine is
\*   request  what the call wants to book, or NoRequest
\*   booking  the booking it pays for, or has come to; NoBooking if none
\*   result   of the update: "none" yet, "ok", "too_late", "refused", or "unsaved"
\*   code     the status code chosen: "created" and "accepted" are 201 and 202,
\*            "fine" is 200, "failed" 500, "too_late" and "refused" are 4xx
\*   body     the booking's status in the body
\*   told     the code the client got, also "timeout", the 503 of http.TimeoutHandler
VARIABLE calls

apiVars == <<vars, calls>>

Unused ==
    [stage |-> "unused", request |-> NoRequest, booking |-> NoBooking, result |-> "none",
     code |-> "none", body |-> "none", told |-> "none"]

CallsInit == calls = [c \in Call |-> Unused]

ApiInit == Init /\ CallsInit

At(c, stage) == calls[c].stage = stage

Books(c) == calls[c].request # NoRequest

-----------------------------------------------------------------------------
\* A client calls; what it calls for is kept, so that it can be repeated.

SendBooking(c, r) ==
    /\ At(c, "unused")
    /\ calls' = [calls EXCEPT ![c].stage = "sent", ![c].request = r]
    /\ UNCHANGED vars

SendPayment(c, b) ==
    /\ At(c, "unused")
    /\ Known(b)
    /\ calls' = [calls EXCEPT ![c].stage = "sent", ![c].booking = b]
    /\ UNCHANGED vars

-----------------------------------------------------------------------------
\* The update.  Saving may fail: memory keeps the change, the client gets an error.

Ran(c, b, results) ==
    \E res \in results :
        calls' = [calls EXCEPT ![c].stage = "ran", ![c].booking = b, ![c].result = res]

Saved == {"ok", "unsaved"}

Seen(r) == r.key # NoKey /\ idempotency[r.key] # NoBooking

RunBooking(c) ==
    LET r == calls[c].request
    IN  /\ At(c, "sent") /\ Books(c)
        /\ \/ CreateBooking(r) /\ Ran(c, counter', Saved)
           \/ r.qty > 0 /\ Seen(r) /\ UNCHANGED vars /\ Ran(c, idempotency[r.key], Saved)
           \/ ~Admissible(r) /\ (r.qty > 0 => ~Seen(r)) /\ UNCHANGED vars
                /\ Ran(c, NoBooking, {"refused"})

RunPayment(c) ==
    LET b == calls[c].booking
    IN  /\ At(c, "sent") /\ ~Books(c)
        /\ \/ PayInTime(b) /\ Ran(c, b, Saved)
           \/ PayLate(b) /\ Ran(c, b, {"too_late"})
           \/ bookings[b].status = "confirmed" /\ UNCHANGED vars /\ Ran(c, b, Saved)
           \/ bookings[b].status \notin {"frozen", "confirmed"} /\ UNCHANGED vars
                /\ Ran(c, b, {"refused"})

-----------------------------------------------------------------------------
\* The answer.

\* Faulty variant: every booking made is told as 201.
CodeWithoutWaiting(c) ==
    CASE calls[c].result = "ok"      -> IF Books(c) THEN "created" ELSE "fine"
      [] calls[c].result = "unsaved" -> "failed"
      [] OTHER -> calls[c].result

\* The status code: that of a booking depends on its status when the handler looks.
CodeOf(c) ==
    CASE calls[c].result = "ok" ->
           IF Books(c)
             THEN IF bookings[calls[c].booking].status = "waitlisted" THEN "accepted" ELSE "created"
             ELSE "fine"
      [] calls[c].result = "unsaved" -> "failed"
      [] OTHER -> calls[c].result

WriteHeader(c) ==
    /\ At(c, "ran")
    /\ calls' = [calls EXCEPT ![c].stage = "coded", ![c].code = CodeOf(c)]
    /\ UNCHANGED vars

\* Encoding the booking, and the end of the handler: what it has written is sent if
\* the client has not been told of a time-out before.
WriteBody(c) ==
    /\ At(c, "coded")
    /\ calls' = [calls EXCEPT
                   ![c].stage = "over",
                   ![c].body = IF calls[c].result = "ok" THEN bookings[calls[c].booking].status
                                                         ELSE "none",
                   ![c].told = IF @ = "none" THEN calls[c].code ELSE @]
    /\ UNCHANGED vars

\* http.TimeoutHandler gives up; the handler goes on.
TimeOut(c) ==
    /\ calls[c].stage \in {"sent", "ran", "coded"}
    /\ calls[c].told = "none"
    /\ calls' = [calls EXCEPT ![c].told = "timeout"]
    /\ UNCHANGED vars

\* What happens beside these calls.
Elsewhere ==
    /\ \/ Tick \/ ReconcileExpired
       \/ \E c \in CargoId : CreateCargo(c) \/ ConfirmTemp(c)
       \/ \E v \in Voyage : CreateVoyage(v)
       \/ \E b \in 1 .. MaxBookings : Cancel(b)
    /\ UNCHANGED calls

Handler(c) == RunBooking(c) \/ RunPayment(c) \/ WriteHeader(c) \/ WriteBody(c)

ApiNext ==
    \/ Elsewhere
    \/ \E c \in Call, r \in Request : SendBooking(c, r)
    \/ \E c \in Call, b \in 1 .. MaxBookings : SendPayment(c, b)
    \/ \E c \in Call : Handler(c) \/ TimeOut(c)

ApiSpec == ApiInit /\ [][ApiNext]_apiVars

-----------------------------------------------------------------------------
\* Properties.

\* All calls with the same key come to the same booking, whatever their clients were
\* told, and whichever of them ran first: the repeated call makes no second one, also
\* when the first had been given up or could not be saved.
KeyedCallsShareABooking ==
    \A c, d \in Call :
        /\ Books(c) /\ Books(d)
        /\ calls[c].result \in Saved /\ calls[d].result \in Saved
        /\ calls[c].request.key = calls[d].request.key /\ calls[c].request.key # NoKey
        => calls[c].booking = calls[d].booking

\* An answer 201 never carries a waiting booking, although code and body are read at
\* two moments and without the lock.
CreatedIsNotWaiting ==
    \A c \in Call : calls[c].told = "created" => calls[c].body # "waitlisted"

\* A payment answered with success has been made; and one answered as too late has not
\* and never will be, by an earlier call that is still running either.
PaymentAnswersHold ==
    \A c \in Call :
        /\ calls[c].told = "fine" =>
              bookings[calls[c].booking].status \in Paid \cup {"cancelled"}
        /\ calls[c].told = "too_late" => bookings[calls[c].booking].status \notin Paid
=============================================================================
