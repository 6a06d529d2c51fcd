----------------------------- MODULE SlotQuota -----------------------------
(***************************************************************************)
(* What the booking service promises, without slots, indexes, waitlist or  *)
(* idempotency table: a ledger of claims on pools of limited capacity.     *)
(*                                                                         *)
(* A claim waits or holds its whole quantity; a holder either pays within  *)
(* its window or gives everything back; places are handed on only to       *)
(* claims that waited for that pool; and no pool is ever oversold.         *)
(***************************************************************************)
EXTENDS Integers, FiniteSetsExt

CONSTANTS
    Pool,       \* pools of interchangeable places
    Capacity,   \* Capacity[p]: the number of places of p
    Window,     \* ticks a holder has for paying
    MaxClaims,  \* bound: claims ever made
    LastTick    \* bound: last tick of the clock

VARIABLES
    clock,  \* the time
    ledger  \* claim number -> [pool, qty, phase, since]

quotaVars == <<clock, ledger>>

Phase == {"waiting", "holding", "paid", "gone"}

Used(l, p) ==
    MapThenSumSet(LAMBDA i : l[i].qty,
                  {i \in DOMAIN l : l[i].pool = p /\ l[i].phase \in {"holding", "paid"}})

\* No pool is oversold.
WithinCapacity(l) == \A p \in Pool : Used(l, p) <= Capacity[p]

QuotaInit == clock = 0 /\ ledger = <<>>

Advance ==
    /\ clock < LastTick
    /\ clock' = clock + 1
    /\ UNCHANGED ledger

\* The next claim: it holds its places at once if there are enough, or waits.
Claim ==
    /\ Cardinality(DOMAIN ledger) < MaxClaims
    /\ LET i == Cardinality(DOMAIN ledger) + 1
       IN  /\ DOMAIN ledger' = 1 .. i
           /\ \A j \in DOMAIN ledger : ledger'[j] = ledger[j]
           /\ ledger'[i].pool \in Pool
           /\ ledger'[i].qty > 0
           /\ \/ ledger'[i].phase = "holding" /\ ledger'[i].since = clock
              \/ /\ ledger'[i].phase = "waiting"
                 /\ Used(ledger, ledger'[i].pool) + ledger'[i].qty > Capacity[ledger'[i].pool]
    /\ WithinCapacity(ledger')
    /\ UNCHANGED clock

Pay ==
    /\ \E i \in DOMAIN ledger :
          /\ ledger[i].phase = "holding"
          /\ clock - ledger[i].since <= Window
          /\ ledger' = [ledger EXCEPT ![i].phase = "paid"]
    /\ UNCHANGED clock

MayLeave(out) ==
    \/ \E i \in out : out = {i} /\ ledger[i].phase \in {"holding", "paid"}
    \/ \A i \in out : ledger[i].phase = "holding" /\ clock - ledger[i].since > Window

\* Claims leave, at most one at the customer's wish or any number whose window is
\* over, and in each pool at most as many waiting claims as left it take over,
\* with a window of their own.  When none leaves, one may be taken in.
HandOver ==
    /\ \E out, in \in SUBSET DOMAIN ledger :
          /\ out \cup in # {}
          /\ MayLeave(out)
          /\ \A i \in in : ledger[i].phase = "waiting"
          /\ IF out = {}
               THEN Cardinality(in) = 1
               ELSE \A p \in Pool : Cardinality({i \in in : ledger[i].pool = p})
                                      <= Cardinality({i \in out : ledger[i].pool = p})
          /\ ledger' = [i \in DOMAIN ledger |->
                          IF i \in out THEN [ledger[i] EXCEPT !.phase = "gone"]
                          ELSE IF i \in in
                            THEN [ledger[i] EXCEPT !.phase = "holding", !.since = clock]
                            ELSE ledger[i]]
    /\ WithinCapacity(ledger')
    /\ UNCHANGED clock

QuotaNext == Advance \/ Claim \/ Pay \/ HandOver

QuotaSpec == QuotaInit /\ [][QuotaNext]_quotaVars
=============================================================================
