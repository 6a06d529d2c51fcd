----------------------------- MODULE Lifecycle -----------------------------
(***************************************************************************)
(* The life of the process: main loads the store and makes a pass, starts  *)
(* the scheduler's loop and the server, and on a signal shuts the server   *)
(* down, stops the loop and returns.  Passes, requests and signals come    *)
(* when they like; what a request or a pass does is in the other modules.  *)
(***************************************************************************)
EXTENDS Naturals

CONSTANT Request \* requests ever made

\* A request is "late" when its client has been told 503 and the handler goes on, which
\* the server no longer counts.
VARIABLES
    main,     \* "booting", "serving", "draining", "stopping", "returned" or "killed"
    stopped,  \* the context of NotifyContext is done
    loop,     \* the scheduler's goroutine: "none", "selecting", "passing" or "ended"
    half,     \* of a pass under way, in main or in the loop: "bookings", "appointments"
              \* or "none"
    due,      \* the ticker's channel holds a tick
    requests, \* [Request -> "none", "running", "late" or "over"]
    expired   \* Shutdown gave up waiting

lifeVars == <<main, stopped, loop, half, due, requests, expired>>

LifeInit ==
    /\ main = "booting"
    /\ stopped = FALSE
    /\ loop = "none"
    /\ half = "bookings"
    /\ due = FALSE
    /\ requests = [q \in Request |-> "none"]
    /\ expired = FALSE

Running == main \notin {"returned", "killed"}

-----------------------------------------------------------------------------
\* The two updates of a pass, one after the other.

NextHalf ==
    /\ Running
    /\ half = "bookings"
    /\ half' = "appointments"
    /\ UNCHANGED <<main, stopped, loop, due, requests, expired>>

\* ReconcileNow returns in main: the loop is started, and the server.
BootEnds ==
    /\ main = "booting" /\ half = "appointments"
    /\ main' = "serving"
    /\ half' = "none"
    /\ loop' = "selecting"
    /\ UNCHANGED <<stopped, due, requests, expired>>

-----------------------------------------------------------------------------
\* The loop.

\* The ticker's channel holds one tick and drops the others.
TickerFires ==
    /\ Running /\ loop \in {"selecting", "passing"}
    /\ due' = TRUE
    /\ UNCHANGED <<main, stopped, loop, half, requests, expired>>

PassBegins ==
    /\ Running /\ loop = "selecting" /\ due
    /\ due' = FALSE
    /\ loop' = "passing"
    /\ half' = "bookings"
    /\ UNCHANGED <<main, stopped, requests, expired>>

PassEnds ==
    /\ Running /\ loop = "passing" /\ half = "appointments"
    /\ loop' = "selecting"
    /\ half' = "none"
    /\ UNCHANGED <<main, stopped, due, requests, expired>>

\* Faulty variant: a tick that is due comes first.
LoopEndsWhenIdle ==
    /\ Running /\ loop = "selecting" /\ stopped /\ ~due
    /\ loop' = "ended"
    /\ UNCHANGED <<main, stopped, half, due, requests, expired>>

\* When a tick is due and the context is done, select takes either.
LoopEnds ==
    /\ Running /\ loop = "selecting" /\ stopped
    /\ loop' = "ended"
    /\ UNCHANGED <<main, stopped, half, due, requests, expired>>

-----------------------------------------------------------------------------
\* Requests.

Accept(q) ==
    /\ main = "serving" /\ requests[q] = "none"
    /\ requests' = [requests EXCEPT ![q] = "running"]
    /\ UNCHANGED <<main, stopped, loop, half, due, expired>>

TimeOut(q) ==
    /\ Running /\ requests[q] = "running"
    /\ requests' = [requests EXCEPT ![q] = "late"]
    /\ UNCHANGED <<main, stopped, loop, half, due, expired>>

Finish(q) ==
    /\ Running /\ requests[q] \in {"running", "late"}
    /\ requests' = [requests EXCEPT ![q] = "over"]
    /\ UNCHANGED <<main, stopped, loop, half, due, expired>>

-----------------------------------------------------------------------------
\* The end.

\* A signal asks a serving process to stop, and kills one that does not listen for
\* it: before NotifyContext, and after stop() has given the default back.
Signal ==
    /\ \/ main = "serving" /\ stopped' = TRUE /\ UNCHANGED main
       \/ main \in {"booting", "draining", "stopping"} /\ main' = "killed" /\ UNCHANGED stopped
    /\ UNCHANGED <<loop, half, due, requests, expired>>

\* log.Fatalf, when the server cannot listen; or a crash.
Die ==
    /\ Running
    /\ main' = "killed"
    /\ UNCHANGED <<stopped, loop, half, due, requests, expired>>

Drain ==
    /\ main = "serving" /\ stopped
    /\ main' = "draining"
    /\ UNCHANGED <<stopped, loop, half, due, requests, expired>>

\* Faulty variant: Shutdown is not waited for.
DrainedAtOnce ==
    /\ main = "draining"
    /\ main' = "stopping"
    /\ UNCHANGED <<stopped, loop, half, due, requests, expired>>

\* Shutdown returns when no counted request is left, or after ten seconds.
Drained ==
    /\ main = "draining"
    /\ main' = "stopping"
    /\ \/ \A q \in Request : requests[q] # "running" /\ UNCHANGED expired
       \/ expired' = TRUE
    /\ UNCHANGED <<stopped, loop, half, due, requests>>

\* Stop returns when the loop has ended (its context is done already).
Return ==
    /\ main = "stopping" /\ loop = "ended"
    /\ main' = "returned"
    /\ UNCHANGED <<stopped, loop, half, due, requests, expired>>

LoopStep == NextHalf \/ PassBegins \/ PassEnds

LifeNext ==
    \/ BootEnds \/ TickerFires \/ LoopStep \/ LoopEnds
    \/ \E q \in Request : Accept(q) \/ TimeOut(q) \/ Finish(q)
    \/ Signal \/ Die \/ Drain \/ Drained \/ Return

\* The goroutines go on.  select takes a branch that is ready again and again in the
\* end, since it chooses at random; a request need not finish.
LifeFairness ==
    /\ WF_lifeVars(BootEnds) /\ WF_lifeVars(LoopStep) /\ SF_lifeVars(LoopEnds)
    /\ WF_lifeVars(Drain) /\ WF_lifeVars(Drained) /\ WF_lifeVars(Return)

LifeSpec == LifeInit /\ [][LifeNext]_lifeVars /\ LifeFairness

-----------------------------------------------------------------------------
\* Properties.

\* When main returns, no pass is half done, and no request is running that the server
\* still counts, unless the ten seconds were not enough.  One that was timed out before
\* may be cut short.
OrderlyEnd ==
    main = "returned" =>
        /\ half = "none"
        /\ expired \/ \A q \in Request : requests[q] # "running"

\* A signal ends the process, though ticks keep coming and requests hang.
SignalEndsIt == stopped ~> ~Running
=============================================================================
