# Verification of the Arctic dispatch centre

This directory holds a TLA+ model of the dispatch centre of `src/`: a Go server that
sells slots on voyages, freezes them while a customer pays, queues customers when a
voyage is full, brings their trucks to the port in order, lets a voyage be diverted, and
follows a paid booking through manifest declaration to sign-off at the destination. The
models are checked by TLC on small instances; every safety property that TLC checks, the
two refinements included, is also proved with TLAPS for every instance.

Every definition is translated from the Go source. `PROJECT.json` gives, under `map`,
the lines each definition stands for, under `hazards` what can go wrong in this code and
at which line, and under `runs`, `mutants` and `theorems` what is established.

## 1. The system

All state is in one value, `store.Data`, guarded by one `sync.RWMutex`. A service
operation is a function passed to `Store.Update`: it runs from its first read to its
last write under the exclusive lock, and when it returns without error the whole data is
written to a JSON file (a temporary file, then a rename). Services call one another only
in three places: `dispatch` calls `portapp` *after* its own update has ended, the
scheduler calls `booking` and then `portapp`, and `main` calls the scheduler once before
it serves.

| Component | State it keeps | Operations | What makes it correct |
|---|---|---|---|
| Booking service, `internal/booking` | bookings, slots of voyages, waitlist, idempotency table, counter of ids | `CreateBooking`, `Pay`, `Cancel`, `PromoteWaitlist`, `ReconcileExpired` | slots and bookings agree; a batch is held whole or not at all; the waitlist is exact and served by priority; a paid booking keeps its slots; a freeze ends; one booking per key |
| Domain rules, `internal/domain` | none of its own | eligibility, priority, slot transitions, port-change rules | refrigerated slots only for confirmed new-energy cargo; two changes of port at most |
| Cargo service, `internal/cargo` | cargo and its temperature confirmation | `Create`, `ConfirmTemp` | confirmation is never withdrawn |
| Manifest service, `internal/manifest` | manifests, status of their bookings | `Submit`, `Declare`, `Reject` | at most one manifest of a booking counts; only a booking with slots is declared |
| Arrival service, `internal/arrival` | arrival records, status of bookings | `SignOff` | one record per arrived booking; a successful sign-off means it has arrived |
| Dispatch service, `internal/dispatch` | voyages, pending port changes | `CreateVoyage`, `MarkDelayed`, `MarkDeparted`, `MarkArrived`, `ChangeBerth`, `RequestPortChange`, `SignPortChange` | two signatures before a change; the trucks of a delayed voyage are re-scheduled even if the server stops half way |
| Port appointments, `internal/portapp` | appointments with windows and sequence numbers | `CreateAppointment`, `CompleteAppointment`, `RescheduleForVoyage`, `ResequenceByPriority`, `Reconcile` | one active appointment per booking; sequence follows priority |
| Store, `internal/store` | the memory and the snapshot file | `Update`, `View`, `Snapshot`, `New` | what was answered with success survives a crash; a refused update changes nothing |
| Scheduler, `internal/scheduler` | a ticker | `Start`, `Stop`, `ReconcileNow` | keeps reconciling; reconciles before the server serves |
| HTTP layer, `internal/httpapi` | none | one handler per operation | the status code tells what happened; a retry after a time-out does no harm |
| Clock, configuration, `main` | the time, the parameters | | boot order: load, reconcile, serve |

The hard behaviours are these.

- **Order.** Clients, the ticker and the clock interleave freely; a pass of the scheduler
  releases any number of bookings and promotes others in the order of Go's map
  iteration, which may be any order.
- **Time.** A freeze has a window. Payment, cancellation and the pass of the scheduler
  race its end, and a booking promoted from the waitlist gets a window of its own.
- **Stale checks.** A cargo is checked when its booking is queued and gets its slot much
  later; a manifest is submitted for a confirmed booking and declared when that booking
  may have been cancelled.
- **Failure.** The write of the snapshot may fail after memory has changed, an update may
  change memory and then return an error, and the process may stop at any moment.
- **Retries.** A client repeats what it got no answer, or an error, for.

## 2. The modules

```
Domain ── Booking ──┬── BookingRefinesQuota ── (INSTANCE) SlotQuota
                    ├── BookingRecovery
                    ├── Api
                    └── Fulfilment ──┬── Appointments
                                     └── PortChange
Store ── (INSTANCE) AtomicStore
Lifecycle
MCBooking, MCFulfilment, MCRecovery, MCAppointments, MCPortChange, MCApi,
MCStore, MCLifecycle: instances for TLC;  MCPrepared: where some of them start

Booking ── BookingProofs ── CourseProofs ──┬── QuotaProofs ── LedgerProofs ── AnswerProofs
                                           └── FulfilmentProofs ── PortProofs
Store, Lifecycle ── StoreProofs
```

`LedgerProofs` also extends `BookingRefinesQuota`, `AnswerProofs` `BookingRecovery` and
`Api`, `FulfilmentProofs` `Fulfilment`, and `PortProofs` `Appointments` and `PortChange`.

The services share bookings and voyages, so `Appointments` and `PortChange` contain all
the actions of `Fulfilment`, and those of `Booking` with it. `Store` and `Lifecycle`
stand alone: they justify what the others take for granted, that an update is one action
and that a pass of the scheduler comes before the first call.

### Domain
Cargo types, slot types and statuses, and the two rules of a cargo the other components
ask for: `EligibleForSlot` and `Priority`.

### Booking: the booking service
| Variable | In the code |
|---|---|
| `now` | `clock.Now()`, in ticks |
| `cargo` | `Data.Cargo`: absent, registered, or with the supervisor's confirmation; what never changes about a cargo is the constant `CargoOf` |
| `voyages` | `Data.Voyages`: the status, or `"none"` before `CreateVoyage`; the numbers of slots are the constant `Shape` |
| `slots` | `Voyage.Slots` of every voyage: status and holder (`BookingID`) |
| `bookings` | `Data.Bookings`, keyed by the number in the id `BK-n` |
| `waitlist` | `Data.Waitlist` |
| `idempotency` | `Data.Idempotency`, the `RefID` under each key |
| `counter` | `Data.Counters["BK"]` |

The helpers (`Freeze`, `Promote`, `Release`, `ReleaseFrozen`, `Promotions`) work on the
record `Data` of the three parts that are rewritten under the lock, and an action commits
their result: so an action does all that its function does, the promotion of a waiting
customer at the end of `Cancel` included. `CreateBooking` freezes the lowest free slots
or queues the request; `Pay` is split into `PayInTime` and `PayLate`, whose effects
differ (the late one returns an error *and* releases and promotes); `ReconcileExpired`
releases all overdue bookings and then promotes once for each of them, in any order.

A request that the code refuses without changing anything, and a repeated request that
is answered from what is stored, are stuttering steps here. They matter only where an
answer is recorded, and there (`BookingRecovery`, `Fulfilment`, `Api`) they are actions.

Abstractions, each of data and not of control:

- A waitlist entry repeats fields of its booking that never change, entries are appended
  in the order of their ids, and the search prefers the earlier of two equal ones; so a
  set of ids, compared by (priority, submission time, id), stands for the slice.
- `SlotIndex`, `PaidAt`, the sales manager and the slot's own `FrozenAt` are written and
  never read by a decision, and are left out.
- A cargo or voyage id has its attributes and shape fixed beforehand; an id can be
  registered once in the code, too.
- The clock does not run backwards. (Within a process Go compares monotonic readings; a
  restart falls back on the wall clock, which is assumed to advance.)
- `MaxTime`, `MaxBookings` and, in `Fulfilment`, `MaxManifests` bound the model and have
  no counterpart in the code. The theorems hold for all their values.

### SlotQuota and BookingRefinesQuota: what the booking service promises
`SlotQuota` knows no slots, indexes, waitlist, cargo or keys: it is a ledger of claims on
pools of limited capacity. A claim waits or holds its whole quantity; it may be taken at
once only if the pool is not oversold and may wait only if it would be; a holder pays
within its window or gives everything back; places are handed only to claims waiting for
that pool, no more claims than have left it, each with a new window.
`BookingRefinesQuota` maps a slot type of a voyage to a pool and the status of a booking
to the phase of its claim, and states that `Booking` implements the ledger.

### Fulfilment: after payment
Adds the manifests, the arrival records, and the course of the voyages (`MarkDelayed`,
`MarkDeparted`, `MarkArrived`) to *all* the actions of `Booking`, interleaved with them:
the services share bookings and voyages, and each checks statuses on its own.
`signed` is a history variable: the bookings whose sign-off was answered with success.
The delay stands by itself in `FulfilNext`, because `Appointments` replaces it by the
same update with a second one to follow.

### Appointments: the trucks, and operations of two updates
| Variable | In the code |
|---|---|
| `appointments` | `Data.Appointments` in the order of their ids; voyage and priority, which the code copies from the booking, are looked up there |
| `working` | goroutines of `MarkDelayed` and `ChangeBerth` between their first update and their second |
| `serving`, `pass` | where the process is: booted or not; between the two updates of `tickOnce` or not |
| `crashes` | bound: crashes so far |

`DelayVoyage` marks the voyage, and `Reschedule` may come any time later, after other
calls, or never, when the process stops. `ChangeBerth` and `Resequence` are the same pair
for a new berth plan; the berth itself is only ever shown to clients and is not kept.
`BookingHalf` and `Reconcile` are the two updates of a pass, at boot and at each tick.
`Place` is the position `orderByPriority` gives a truck among those that are sorted: ids
are compared as strings there, which is the order of numbers up to nine appointments, the
bound of `MaxAppointments`. The end of a window follows its start and is left out. At most
one second update of a kind is under way for a voyage, a bound. The first update of a delay
or of a berth change may fail to be saved: then memory keeps the mark and there is no second
update (the other alternative of `Begin`). `Crash` keeps memory, which is exact only when
the snapshot is up to date: a late payment, whose update returns an error and is not
written, and a write that failed would be undone by the restart. `BookingRecovery` has these
restarts, without the trucks.

### PortChange: two signatures
`destPort` is the destination of each voyage, `pending` the pending request of a booking,
`portChanges` the number of changes it has used. `calls` stands for the signers: someone
sends a signature (`CallSign`) that names a booking and a role, not a request; it may come
before there is a request, and is refused, or late, twice, or in time for the booking's next
request.
`SignPortChange` looks at none of the conditions that `RequestPortChange` checks.
`MaxPortChanges` is the code's constant two; the 72 hours are `PortChangeWindow`.

### BookingRecovery: crashes and failed writes
Adds `disk` (the snapshot) and `serving` to `Booking`. An update that succeeds writes the
whole memory or fails to (`Persist`), and memory keeps the change either way; an update
whose function returns an error writes nothing (`PayTooLate`). `Restart` may happen at
any moment: memory becomes what the snapshot says, and the process reconciles before it
serves. The repeated requests, `BookAgain` and `PayAgain`, are actions here, since what
they answer and that they write matters. `booked` and `paid` are history variables: what
clients were told with success. The snapshot is the old or the new one, which `Store`
establishes. An answer lost on its way to the client is the same as none: the client then
owes and is owed nothing.

### Store and AtomicStore: why an update is one action
`Store` follows `Update`, `View`, `persist` and `load` step by step for several goroutines:
waiting for the lock, running the function, truncating the temporary file, filling it,
renaming it, failing at any of these, unlocking; and a crash between any two steps, with
the files left as they were. The data is the sequence of the changes ever made to it, so
that lost and invented data can be told apart. `Damage` is the world's part: a snapshot
that cannot be read, which the code replaces by an empty store. `Snapshot` is an update
whose function changes nothing. `base`, `acked` and `damaged` are history variables:
`acked` starts anew when the file is damaged from outside, and `damaged` holds until the
file is written again.
`AtomicStore` is what the other modules assume: an update changes memory and, if saved,
the snapshot, at once. In the refinement mapping an update happens when it has been
renamed, has failed or was refused; until then no other call can begin, since the lock is
held. `sync.RWMutex` is taken for what it promises. A viewer is modelled up to its unlock:
it takes its turn at the lock, which `EveryCallEnds` is about; what its caller reads
afterwards is not (section 4).

### Api: what clients are told
A call to book or to pay is a goroutine: `sent`, then the service's update (the very
actions of `Booking`), then the status code, then the body, each a step of its own: the
service returns a pointer into the store, and the handler reads the booking through it
after the lock is given back, once for the code and once for the body. The time-out
handler may answer 503 at any moment and the goroutine goes on. Saving may fail. Clients
may send any number of calls for the same booking or key side by side. A request that is
refused (no quantity, not eligible, unknown) ends without an effect.

### Lifecycle: boot, serve, stop
`main` from the first pass to its return, the scheduler's goroutine with its ticker of one
slot and its `select`, requests that are counted by the server or, after a time-out, no
longer, and signals, which kill a process that does not listen for them (before
`NotifyContext`, and after `stop()`). `Start` and `Stop` are called once each, as `main`
does.

### The modules of proofs
`BookingProofs` (types, slots and their holders), `CourseProofs` (what one step may do to a
booking, and what never changes about it), `QuotaProofs` (quantities, idle slots),
`LedgerProofs` (the refinement of `SlotQuota`), `FulfilmentProofs`, `PortProofs` (port
changes and trucks), `AnswerProofs` (crashes and calls) and `StoreProofs` (the store and the
end of the process): section 5.

In the modules, a definition commented as a *faulty variant* is what a plausible bug
would make of the definition that follows it. No behaviour of the model uses one; for
every property of a passing run, `PROJECT.json` (`mutants`) names a faulty variant with
which TLC finds that property violated, so that each property is known to have teeth.

## 3. The runs

| Run | Instance | What it shows |
|---|---|---|
| `contention` | one voyage of one refrigerated and two dry slots, cargo of priority 100 and of priority 10, requests for one or two slots, with and without a key, 3 bookings, window 1, 4 instants | `TypeOK`, `SlotsMatchHolders` (a slot and its holder agree), `HoldsItsQuota` (whole batch or nothing), `WaitlistIsExact`, `TemperatureControl`, `OneBookingPerKey`, `NoIdleSlot` (where all ask for single slots, none is free beside a queue), `PromotionByPriority`, `ReconcileLeavesNoneOverdue`, `ImplementsQuota` (the service implements `SlotQuota`) |
| `fulfilment` | two bookings on one voyage of two slots, 4 manifests, window 0, 3 instants | `OneManifestCounts`, `ArrivalsMatchBookings`, `ArrivedIsFinal`, `PaidKeepsItsSlots`, now that several services write the statuses; `FreezeIsSettled`: every freeze ends |
| `recovery` | one slot, two bookings, with and without a key, window 0, 3 instants, any number of crashes and failed writes | `SnapshotIsConsistent`, `PaymentSurvives`, `BookingSurvives`, `ServesReconciled` |
| `store` | two goroutines that update and one that views, 3 changes, any number of calls, crashes, failures and damaged files | `AnsweredSurvives`, `SnapshotIsPast` (never torn by the store itself, never anything memory has not been), `EveryCallEnds`, and `ImplementsAtomicStore` |
| `appointments` | two bookings of different priority on one voyage, one paid and one frozen, three appointments, window 0, 2 instants, one crash | `OneTruckPerBooking`, `ScheduledNumberIsUnique`, `RenumberingCoversAll` (the second update of a delay or a new plan covers the trucks that came since the first), `ServesReappointed`, `DelayReachesEveryTruck` |
| `port_change` | two bookings of one voyage, two ports, changes close at the last instant, any number of signatures | `AtMostTwoChanges`, `DiversionIsDue` |
| `api` | three calls, with and without a key, for one slot; 2 bookings, window 0, 2 instants | `KeyedCallsShareABooking`, `CreatedIsNotWaiting`, `PaymentAnswersHold` |
| `lifecycle` | two requests | `OrderlyEnd`, `SignalEndsIt` |
| `shared_voyage`, `late_declaration`, `refused_update`, `late_diversion` | instances as above | the disagreements of section 6 |

Each module with variables of its own has a type invariant beside these, except
`BookingRecovery`, `Api` and `Lifecycle`, whose variables are described where they are
declared.

Why the bounds are enough. Contention needs a holder, a head of the queue and one behind
it: three bookings. A batch and a part of it need two slots; a head that does not fit
needs a batch and one slot free. Two priorities, and two entries of the same priority at
different or the same instants, exercise the three levels of the promotion order. A window
of one tick and four instants let a booking be frozen, queued, promoted after an expiry,
and expire in its turn; a window of zero does the same in three. Both branches of
`Expired` at its boundary occur. Two bookings on one voyage are the smallest fleet in
which one sign-off, or one port change, can be taken for another; four manifests let one
booking be rejected and submitted again while the other proceeds. Three appointments are
the fewest with which a completed truck, a re-scheduled one and a new one meet on a
voyage, and one crash can fall between any two updates. Two updates after a third are the
fewest with which a failed write is followed by a good one and by a crash. Three calls let
one be given up, one repeat it and one pay. Voyages do not interact in the code (queue,
slots, promotion, numbers and destination are per voyage), so one voyage suffices.

Three instances start on a snapshot. In `api` and `port_change` (module `MCPrepared`) cargo
and voyage are registered and confirmed: how they came there is the subject of
`contention`. In `appointments` there are besides two bookings, the one made later of the
higher priority and not yet paid, and no further requests; a window asked for may begin
before the delay that must notice it. No manifests are submitted there or in
`port_change`. Two trucks of the same priority do not occur in `appointments`.

Symmetry is used in `api`, over the calls, which are interchangeable; in no other run,
since cargoes differ in priority and bookings are numbered, or since liveness is checked.
Deadlock is checked in every run but `lifecycle`, where the process ends: clients can
always come again, so a state without successor would be a mistake of the model.

### Fairness
- `fulfilment`: weak fairness of `Tick` (time passes) and of `ReconcileExpired` (the
  ticker of `scheduler.Start` calls it for ever, and each call gets the lock). Nothing is
  assumed of clients. A freeze whose window ends after `MaxTime` is not spoken of, as the
  model's clock stops there.
- `appointments`: weak fairness of the two halves of a pass, again the ticker. The second
  update of a delay has none: its goroutine may be stopped for ever.
- `store`: weak fairness of the steps of a goroutine that holds the lock (the system calls
  return), strong fairness of getting the lock: `sync.RWMutex` lets neither readers nor
  writers starve.
- `lifecycle`: weak fairness of what `main` and the loop do, strong fairness of `LoopEnds`,
  since `select` chooses at random among the branches that are ready. A request need never
  finish.

## 4. What is not modelled

- *The rest of the HTTP layer*: routing, decoding, and the handlers of cargo, voyages,
  manifests and ports, which have the shape of the two that are modelled.
- *Reads without the lock*. The functions passed to `View` and `Update` hand pointers to
  their callers (`internal/booking/booking.go:195`, `internal/dispatch/dispatch.go:63` and
  `:70`, `internal/cargo/cargo.go:75`, `internal/portapp/portapp.go:91`), and the handlers
  encode what they point to when the lock has been given back, beside updates. So the lock
  does not make what a client is shown one state of the data, and no property says it does.
  `Api` has two such reads, of a booking's status by the handler of `CreateBooking`, at two
  moments. They are a data race on a string of two words: the model reads the status before
  an update or after it. A mixture of two statuses is not `"waitlisted"`, so for the code it
  counts as the status after; in the body it would be no status at all, which no property
  speaks of.
- *Power loss*: the code does not call `fsync`, so a completed write may be lost or torn;
  `Damage` covers the torn file, not the loss of the newest one.
- *Panics* in a service function: `net/http` recovers the goroutine and the deferred unlock
  runs, but no function of the code is known to panic.
- *The truck of a cancelled booking*: nothing in the code sets an appointment to
  cancelled, and nothing in the model does; no property speaks of it.
- *Configuration*: read once before anything else runs, with ranges checked; no state and
  no interleaving. The parameter that matters is the constant `PaymentTimeout`.

## 5. What is proved

Eight modules prove, for every set of cargo, voyages, keys, requests, ports, goroutines and
calls, every shape of the voyages, every window and all bounds, what the runs show on
small instances. Every invariant and every action property of a passing run is a theorem,
and so are both refinements.

| Theorem | Statement | Module | Run |
|---|---|---|---|
| `TypeCorrect` | `Spec => []TypeOK` | `BookingProofs` | `contention` |
| `SlotsAlwaysMatch` | `Spec => []SlotsMatchHolders` | `BookingProofs` | `contention` |
| `WaitlistAlwaysExact` | `Spec => []WaitlistIsExact` | `BookingProofs` | `contention` |
| `TemperatureAlwaysControlled` | `Spec => []TemperatureControl` | `CourseProofs` | `contention` |
| `KeysStayUnique` | `Spec => []OneBookingPerKey` | `CourseProofs` | `contention` |
| `PaidAlwaysKeepsItsSlots` | `Spec => PaidKeepsItsSlots` | `CourseProofs` | `fulfilment` |
| `PromotionAlwaysByPriority` | `Spec => PromotionByPriority` | `CourseProofs` | `contention` |
| `ReconcileAlwaysSettles` | `Spec => ReconcileLeavesNoneOverdue` | `CourseProofs` | `contention` |
| `QuotasAlwaysHold` | `Spec => []HoldsItsQuota` | `QuotaProofs` | `contention` |
| `NeverIdle` | `Spec => []NoIdleSlot` | `QuotaProofs` | `contention` |
| `PoolsNeverOversold` | `Spec => []Quota!WithinCapacity(Ledger)` | `LedgerProofs` | |
| `BookingImplementsQuota` | `Spec => ImplementsQuota` | `LedgerProofs` | `contention` |
| `FulfilInvariant` | `FulfilSpec => []FInv` | `FulfilmentProofs` | |
| `FulfilTypeCorrect` | `FulfilSpec => []FulfilTypeOK` | `FulfilmentProofs` | `fulfilment` |
| `OneManifestAlwaysCounts` | `FulfilSpec => []OneManifestCounts` | `FulfilmentProofs` | `fulfilment` |
| `ArrivalsAlwaysMatch` | `FulfilSpec => []ArrivalsMatchBookings` | `FulfilmentProofs` | `fulfilment` |
| `PaidKeepsItsSlotsThroughout` | `FulfilSpec => PaidKeepsItsSlots` | `FulfilmentProofs` | `fulfilment` |
| `ArrivedIsAlwaysFinal` | `FulfilSpec => ArrivedIsFinal` | `FulfilmentProofs` | `fulfilment` |
| `PromotionThroughout` | `FulfilSpec => PromotionByPriority` | `FulfilmentProofs` | |
| `IdentityThroughout` | `FulfilSpec => [](TemperatureControl /\ OneBookingPerKey)` | `FulfilmentProofs` | |
| `PortTypeCorrect` | `ChangeSpec => []PortTypeOK` | `PortProofs` | `port_change` |
| `NeverMoreThanTwoChanges` | `ChangeSpec => []AtMostTwoChanges` | `PortProofs` | `port_change` |
| `DiversionAlwaysDue` | `ChangeSpec => DiversionIsDue` | `PortProofs` | `port_change` |
| `AptTypeCorrect` | `AptSpec => []AptTypeOK` | `PortProofs` | `appointments` |
| `OneTruckAlways` | `AptSpec => []OneTruckPerBooking` | `PortProofs` | `appointments` |
| `ScheduledNumberAlwaysUnique` | `AptSpec => []ScheduledNumberIsUnique` | `PortProofs` | `appointments` |
| `BootAlwaysReappoints` | `AptSpec => ServesReappointed` | `PortProofs` | `appointments` |
| `RenumberingAlwaysCoversAll` | `AptSpec => RenumberingCoversAll` | `PortProofs` | `appointments` |
| `SnapshotAlwaysConsistent` | `RecoverySpec => []SnapshotIsConsistent` | `AnswerProofs` | `recovery` |
| `PaymentAlwaysSurvives` | `RecoverySpec => []PaymentSurvives` | `AnswerProofs` | `recovery` |
| `BookingAlwaysSurvives` | `RecoverySpec => []BookingSurvives` | `AnswerProofs` | `recovery` |
| `AlwaysServesReconciled` | `RecoverySpec => ServesReconciled` | `AnswerProofs` | `recovery` |
| `KeyedCallsAlwaysShare` | `ApiSpec => []KeyedCallsShareABooking` | `AnswerProofs` | `api` |
| `CreatedNeverWaits` | `ApiSpec => []CreatedIsNotWaiting` | `AnswerProofs` | `api` |
| `PaymentAnswersAlwaysHold` | `ApiSpec => []PaymentAnswersHold` | `AnswerProofs` | `api` |
| `CallsKeepTheLedger` | `ApiSpec => ImplementsQuota` | `AnswerProofs` | |
| `StoreTypeCorrect` | `StoreSpec => []StoreTypeOK` | `StoreProofs` | `store` |
| `AnsweredAlwaysSurvives` | `StoreSpec => []AnsweredSurvives` | `StoreProofs` | `store` |
| `SnapshotAlwaysPast` | `StoreSpec => []SnapshotIsPast` | `StoreProofs` | `store` |
| `StoreImplementsAtomicStore` | `StoreSpec => ImplementsAtomicStore` | `StoreProofs` | `store` |
| `EndIsAlwaysOrderly` | `LifeSpec => []OrderlyEnd` | `StoreProofs` | `lifecycle` |

### From which assumptions
Those the modules state, and no other; TLC evaluates them in the runs.

- `Booking`: `CargoAssumption`, `ShapeAssumption` and `RequestAssumption` give cargo, slots
  and requests their types, `KeyAssumption` says that the empty key is none,
  `TimeAssumption` and `BoundAssumption` that the window and the bounds are naturals.
- `Fulfilment`: `ManifestBoundAssumption`, a bound. `Api`: `NoRequestAssumption`, that no
  request is the mark for none. `PortChange`: `PortAssumption`, the types of ports, dates
  and limits.
- `Appointments`: `StartAssumption` types the windows; `AppointmentBoundAssumption` allows
  nine appointments, as far as the order of ids as strings is that of their numbers. The
  theorems about trucks say nothing beyond that.
- `Store`: `GoroutineAssumption` (one goroutine does not both update and view),
  `ChangeBoundAssumption` and `ContentsAssumption` (an absent and a torn file are neither
  data nor the same).

### Along which argument
*Slots and holders.* The inductive invariant is
`IInv == TypeOK /\ SlotsMatchHolders /\ WaitlistIsExact`. The second part, which matters
most, is not inductive alone. Slots and holders stay in step when a booking is promoted
only because that booking holds nothing yet; it holds nothing because it is on the waitlist
and the waitlist has none but waitlisted bookings. And a number just handed out holds
nothing because every holder and every waiting booking is one of `1 .. counter`, which is
`TypeOK`. The proof follows the code: each helper under the lock is shown to take sound data
to sound data (`FreezeSound`, `PromoteSound`, `ReleaseSound`, `EnterSound`), each action is
a composition of helpers (`CreateBookingInvariant`, `PayInTimeInvariant`,
`PayLateInvariant`, `CancelInvariant`, `ReconcileInvariant`, `PromoteWaitlistInvariant`),
and `OthersInvariant` covers the rest. A pass of the scheduler makes as many promotions as
it released bookings: `PromotionsSeries` unfolds the recursive function of `Promotions` into
a series of data, and `PromotionsStay` carries along it whatever one promotion keeps. The
library's induction theorems are not within the provers' reach, so both argue from the least
counterexample (`LeastNat`, from the well-foundedness of the naturals).

*The course of a booking.* `StepCourse` says of one step what it may do to a booking that
exists: nothing, promote it (with a window that opens now), let it be paid (frozen slots
become allocated), or let it leave; and that those who leave the waitlist are ahead of those
who stay. It rests on `Advances`, what promotions do to data, which is transitive
(`AdvancesCompose`), and so holds of a whole pass. The action properties of `Booking` are
read off it, and the services that share its bookings use it in place of the actions.

*Identities.* `JInv` adds to `IInv` the invariant `BookedEligibly` (every booking for
refrigerated slots, waiting or not, is for eligible cargo) and `OneBookingPerKey`.
`TemperatureControl` is not inductive: a promotion hands a slot to a booking that was
checked long before. It follows from `BookedEligibly`, from `SlotsMatchHolders` (the holder
asked for that type), and from the fact that neither what a booking was made for
(`StepKeepsRequests`) nor a confirmation (`ConfirmationStays`) is ever taken back.

*Quantities.* `QInv` adds `HoldsItsQuota` to `IInv`. The heart is `FirstCounts`: the first k
free slots of a voyage, taken by index, are k slots, when there are so many; again by the
least counterexample, adding one slot at a time. `FreezeQuota` needs besides that the slots
chosen were nobody's and that the booking held none, which is `IInv`; a release takes back
everything because all slots of a frozen booking are frozen, which is `IInv` again
(`ReleaseFrozenQuota`).

*No idle slot.* `NInv` adds to `QInv` that the voyage of every booking exists (`Sailing`) and
`Roomy`: where customers ask for single slots, nobody waits beside a free one. In the midst
of a pass that is false, since everything overdue is released before the first promotion.
`Room(d, v, t, m)` generalises it: either nobody waits or at most m slots are free. A
release of m bookings makes room for m (`ReleaseRoom`), a promotion in the pool takes one
away (`PromoteRoom`), and the pass has one promotion for each (`PromotionsRoom`), because
the order enumerates all that was released (`OrderIsComplete`). That the queue has a head
whenever it is not empty is `BestExists`.

*The ledger.* No invariant beyond `QInv` is needed, but a count is: `SlotQuota` adds up the
claims of a pool, one by one in an order nobody chose, and `UsedCounts` shows that the sum is
the number of slots that are not free; hence `NeverOversold`, and hence a booking that does
not fit is a claim that would oversell. A cancellation, a late payment and a pass are one
`HandOver` (`HandsOverPlaces`): in each pool no more is promoted than left, which for a pass
is again a count along the series of its promotions (`PromotionsTake`) against an
enumeration without repetition.

*Several services.* `FInv` adds to `IInv` that who has a manifest has paid or was cancelled
since (`ManifestsArePaid`), that one manifest of a booking counts, that what is manifested or
arrived has a declared one (`DeclaredBefore`), and `ArrivalsMatchBookings`. That manifests and arrival
records refer to bookings that exist, as `FulfilTypeOK` says, follows from the first and the
last of these (`FlowIsTyped`). An arrived
booking has its one counting manifest declared already, and this alone keeps a late
declaration away from it. The services write one status and leave the slots as they are:
`StatusWritten` shows that slots and holders stay in step all the same, also when a cancelled
booking is declared (section 6); that is why `FInv` builds on `IInv` and not on `QInv`, whose
quantities that declaration breaks. Cargo, keys and what a booking was made for they leave
alone, so `JInv` holds here too (`FlowKeepsIdentity`).

*Port changes and trucks.* `PInv` adds to `FInv` that a pending request counts as if it had
been used (`ChargesBounded`), and that it was made in time and has only signatures that were
sent (`RequestsAreDue`): what a signature that comes late relies on has to be kept from the
moment of the request. `AInv` adds that trucks belong to bookings that exist and have numbers
within their count (`TrucksAreBooked`, a part of `AptTypeOK`), that a booking has one
active truck, and that a scheduled truck shares its number with no other active truck of the
voyage (`NumbersApart`). Numbers given anew are positions: `Place` counts the trucks before
one, and `PlaceFollowsOrder`, `PlacesDiffer` and `PlacesFill` show that the positions follow
the order, without repetition and without gap.

*Crashes and calls.* `KInv` joins `JInv` and `HoldsItsQuota`. `RInv` says it of memory *and*
of the snapshot (`Good`), and of both that what was answered is there. The two are not
ordered in time, since a failed write leaves a change in memory alone, and so each part is
carried separately; `RestartRestores` says that a good snapshot is a good memory. `CInv` adds
to `KInv`, for each call, that its fields go with its state (`Orderly`) and that what it led
to still stands, as far as it lasts (`Lasting`): a paid booking has paid or was cancelled, a
key keeps its booking. Every step of a call is a step of the service or leaves it alone
(`CallsMakeSteps`), so that the ledger of `SlotQuota` is kept under calls as well.

*The store.* `SInv` says that only one goroutine is past the lock and nobody reads beside it
(`OneWrites`), how far memory, temporary file and snapshot are at each step of a save
(`SavingProceeds`), that only damage from outside tears the snapshot (`FileIsWhole`), and
that it is a past of memory. For `ImplementsAtomicStore`
the data seen through the refinement mapping is that of memory, or of what it was before the
update in progress (`SeenFollows`); each step of the protocol then is a step of `AtomicStore`
or a stutter. `LInv` says where in the life of the process a pass may be half done and
requests may be running.

### What is only model-checked
Liveness: `FreezeIsSettled`, `DelayReachesEveryTruck`, `EveryCallEnds` and `SignalEndsIt`
rest on fairness, hence on `ENABLED`, which is out of this prover's reach. That some
behaviours happen at all (a pass of several bookings, a call given up and repeated) is
shown by TLC only, which fires every action in the runs.

## 6. Where code and text disagree

1. **`shared_voyage`.** `SignOff` looks for an earlier arrival by voyage, not by booking
   (`internal/arrival/arrival.go:34`), before it checks anything. The second booking of a
   voyage is answered with success and never arrives;
   `shared_voyage_signoff_test.go:14` states the opposite.
2. **`late_declaration`.** `Declare` sets its booking to manifested whatever the booking's
   status (`internal/manifest/manifest.go:87`): a cancelled booking, whose slots are gone,
   becomes manifested and can then be signed off.
3. **`refused_update`.** The comment of `Store.Update` says that an error leaves the prior
   state intact. It does on disk; in memory the late payment has already released slots
   and promoted a customer (`internal/booking/booking.go:135`). A crash before the next
   successful update takes that back. If the comment means the file alone, the wording is at
   fault and not the code.
4. **`late_diversion`.** The README and `internal/domain/booking.go:35` allow no port
   change later than 72 hours before departure. Only the request is checked: the change is
   applied when the second signature comes, which may be after the deadline
   (`internal/dispatch/dispatch.go:185`).

Five more behaviours are in the models as they are in the code, and no run is kept for
them:

- a released batch is followed by one promotion, so its other slots stay free beside the
  queue until something else is released (`internal/booking/booking.go:234`); `NoIdleSlot`
  is stated for single slots for that reason;
- a repeated `Submit` is an error once the manifest is declared, since the booking's status
  is checked before the manifest is looked for (`internal/manifest/manifest.go:41`), though
  its comment calls it idempotent;
- a pass numbers the trucks that are new on a delayed voyage from 1 beside those
  re-scheduled before (`internal/portapp/portapp.go:162`), so that numbers of re-scheduled
  trucks may collide and lose the order of priority; `ScheduledNumberIsUnique` is stated
  for the others for that reason;
- a berth change whose second update is lost, by a crash or because the first could not be
  saved, leaves the trucks in their old order, and no pass looks for them
  (`internal/dispatch/dispatch.go:145`). `README.md:33-34` says of a restart that it
  reconciles "any appointment left mid-flight by a crash", under the heading of ship delays;
  `ServesReappointed` shows it of delays, and `RenumberingCoversAll` speaks of a renumbering
  that takes place;
- a repeated signature for a request that has been applied counts for the booking's next
  one, to a port its signer was never shown (`internal/domain/booking.go:134`);
  `DiversionIsDue` asks for a signature of either role, not for one of this request, for
  that reason.

## 7. The plan

The components of the code that keep state are modelled, and the safety properties of all
runs are proved. What is left:

1. To carry more theorems of `Booking` over to the specifications that contain its actions:
   `IdentityThroughout` and `PromotionThroughout` under `AptSpec` and `ChangeSpec`. (Not
   `HoldsItsQuota` or `ImplementsQuota` under `FulfilSpec`, where the declaration of a cancelled
   booking would sell its slots twice.)
2. To show that memory and snapshot of `BookingRecovery` follow `AtomicStore`, which `Store`
   implements; that the two fit together is argued in section 2 only.
3. `PromotionByPriority` and `NoIdleSlot` under `RecoverySpec`, across restarts.
