---------------------------- MODULE LedgerProofs ----------------------------
(***************************************************************************)
(* The proof that the booking service keeps the ledger of SlotQuota: the   *)
(* slots that are not free are as many as the claims of the ledger add up  *)
(* to, so that no pool is oversold, and a pass hands on places only to     *)
(* claims that waited for the pool they came free in, and never to more.   *)
(***************************************************************************)
EXTENDS QuotaProofs, BookingRefinesQuota

-----------------------------------------------------------------------------
\* The slots of a pool.

PoolSlots(v, t) == {s \in Slot : s[1] = v /\ SlotTypeOf(s) = t}

TakenSlots(d, v, t) == {s \in PoolSlots(v, t) : d.slots[s].status # "free"}

\* A pool has as many slots as the voyage was provisioned with.
LEMMA PoolSize ==
    ASSUME NEW v \in Voyage, NEW t \in SlotType
    PROVE  Cardinality(PoolSlots(v, t)) = Shape[v][t] /\ IsFiniteSet(PoolSlots(v, t))
<1> DEFINE R == Shape[v].refrigerated
           D == Shape[v].dry
           lo == IF t = "refrigerated" THEN 0 ELSE R
           hi == IF t = "refrigerated" THEN R - 1 ELSE R + D - 1
           f == [i \in lo .. hi |-> <<v, i>>]
<1>1. R \in Nat /\ D \in Nat /\ Shape[v] \in [refrigerated : Nat, dry : Nat]
  BY ShapeAssumption
<1>2. t = "refrigerated" \/ t = "dry"
  BY DEF SlotType
<1>3. ASSUME NEW i \in lo .. hi PROVE <<v, i>> \in PoolSlots(v, t)
  <2>1. i \in 0 .. R + D - 1
    BY <1>1, <1>2
  <2>2. <<v, i>> \in {v} \X (0 .. Shape[v].refrigerated + Shape[v].dry - 1)
    BY <2>1
  <2>3. <<v, i>> \in Slot
    BY <2>2 DEF Slot
  <2>4. SlotTypeOf(<<v, i>>) = t
    BY <1>1, <1>2 DEF SlotTypeOf
  <2> QED
    BY <2>3, <2>4 DEF PoolSlots
<1>4. ASSUME NEW s \in PoolSlots(v, t) PROVE s[2] \in lo .. hi /\ s = <<v, s[2]>>
  <2>1. /\ s \in Slot /\ s[1] = v /\ SlotTypeOf(s) = t
        /\ s[2] \in 0 .. R + D - 1 /\ s = <<v, s[2]>>
    BY SlotParts DEF PoolSlots
  <2>2. s[2] < R <=> t = "refrigerated"
    BY <1>2, <2>1 DEF SlotTypeOf
  <2> QED
    BY <1>1, <1>2, <2>1, <2>2
<1>5. lo \in Int /\ hi \in Int /\ hi - lo + 1 = Shape[v][t] /\ hi - lo + 1 >= 0
  BY <1>1, <1>2
<1> HIDE DEF lo, hi
<1>6. f \in Bijection(lo .. hi, PoolSlots(v, t))
  <2>1. f \in [lo .. hi -> PoolSlots(v, t)]
    BY <1>3
  <2>2. IsInjective(f)
    BY DEF IsInjective
  <2>3. \A s \in PoolSlots(v, t) : \E i \in lo .. hi : f[i] = s
    BY <1>4
  <2> QED
    BY <2>1, <2>2, <2>3 DEF Bijection, Injection, Surjection
<1>7. IsFiniteSet(lo .. hi) /\ Cardinality(lo .. hi) = hi - lo + 1
  BY <1>5, FS_Interval
<1> QED
  BY <1>5, <1>6, <1>7, FS_Bijection DEF ExistsBijection

\* What is not free is taken.
LEMMA TakenOrFree ==
    ASSUME NEW d, NEW v \in Voyage, NEW t \in SlotType
    PROVE  /\ Cardinality(FreeSlots(d, v, t)) + Cardinality(TakenSlots(d, v, t)) = Shape[v][t]
           /\ Cardinality(FreeSlots(d, v, t)) \in Nat
           /\ Cardinality(TakenSlots(d, v, t)) \in Nat
<1> DEFINE F == FreeSlots(d, v, t)
           T == TakenSlots(d, v, t)
           P == PoolSlots(v, t)
<1>1. F \cup T = P /\ F \cap T = {} /\ F \in SUBSET P /\ T \in SUBSET P
  BY DEF FreeSlots, TakenSlots, PoolSlots
<1>2. IsFiniteSet(P) /\ Cardinality(P) = Shape[v][t]
  BY PoolSize
<1> HIDE DEF F, T, P
<1>3. IsFiniteSet(F) /\ IsFiniteSet(T)
  BY <1>1, <1>2, FS_Subset
<1>4. Cardinality(F) \in Nat /\ Cardinality(T) \in Nat
  BY <1>3, FS_CardinalityType
<1>5. Cardinality(F \cup T) = Cardinality(F) + Cardinality(T) - Cardinality(F \cap T)
  BY <1>3, FS_Union
<1>6. Cardinality(F \cap T) = 0
  BY <1>1, FS_EmptySet
<1>7. Cardinality(F) + Cardinality(T) = Cardinality(P)
  <2>1. Cardinality(P) = Cardinality(F) + Cardinality(T) - Cardinality(F \cap T)
    BY <1>1, <1>5
  <2> QED
    BY <1>4, <1>6, <2>1
<1> QED
  BY <1>2, <1>4, <1>7 DEF F, T

-----------------------------------------------------------------------------
\* The sum of the claims.

\* The claims that SlotQuota adds up.
Claims(p) ==
    {i \in DOMAIN Ledger : Ledger[i].pool = p /\ Ledger[i].phase \in {"holding", "paid"}}

\* The slots held by the bookings in T.
HeldBy(T) == {s \in Slot : slots[s].holder \in T}

LEMMA ClaimsAre ==
    ASSUME QInv, NEW v, NEW t
    PROVE  Claims(<<v, t>>) = {i \in DOMAIN bookings : /\ bookings[i].voyage = v
                                                        /\ bookings[i].slotType = t
                                                        /\ bookings[i].status \in Live}
<1>1. DOMAIN Ledger = DOMAIN bookings
  BY DEF Ledger
<1>2. ASSUME NEW i \in DOMAIN bookings
      PROVE  /\ Ledger[i].pool = <<v, t>> <=> bookings[i].voyage = v /\ bookings[i].slotType = t
             /\ Ledger[i].phase \in {"holding", "paid"} <=> bookings[i].status \in Live
  <2>1. Ledger[i].pool = <<bookings[i].voyage, bookings[i].slotType>>
        /\ Ledger[i].phase = PhaseOf(bookings[i])
    BY DEF Ledger
  <2>2. PhaseOf(bookings[i]) \in {"holding", "paid"} <=> bookings[i].status \in Live
    BY DEF PhaseOf, Live, Paid
  <2> QED
    BY <2>1, <2>2
<1> QED
  BY <1>1, <1>2 DEF Claims

\* The bookings in T hold as many slots as they asked for together, and SlotQuota's
\* sum of their claims is that number, in whatever order it is added up.
LEMMA UsedCounts ==
    ASSUME QInv, NEW v \in Voyage, NEW t \in SlotType
    PROVE  Quota!Used(Ledger, <<v, t>>) = Cardinality(TakenSlots(Data, v, t))
<1> DEFINE S == Claims(<<v, t>>)
           pick(T) == CHOOSE x \in T : TRUE
           Is(g) == g = [T \in SUBSET S |->
                           IF T = {} THEN 0 ELSE Ledger[pick(T)].qty + g[T \ {pick(T)}]]
           sum == CHOOSE g : Is(g)
           f == [T \in SUBSET S |-> Cardinality(HeldBy(T))]
<1>1. Quota!Used(Ledger, <<v, t>>) = sum[S]
  BY DEF Quota!Used, Quota!MapThenSumSet, Quota!MapThenFoldSet, Claims
<1>2. /\ S = {i \in DOMAIN bookings : /\ bookings[i].voyage = v
                                      /\ bookings[i].slotType = t
                                      /\ bookings[i].status \in Live}
      /\ DOMAIN bookings = 1 .. counter /\ counter \in Nat
  BY ClaimsAre, DataIsSound DEF QInv
<1>3. ASSUME NEW i \in S
      PROVE  /\ Ledger[i].qty \in Nat
             /\ Cardinality(HeldBy({i})) = Ledger[i].qty
  <2>1. Ledger[i].qty = bookings[i].qty /\ i \in DOMAIN bookings /\ bookings[i].status \in Live
    BY <1>2 DEF Ledger
  <2>2. bookings[i].qty \in Nat
    BY <2>1 DEF QInv, IInv, TypeOK, BookingRecord
  <2>3. HeldBy({i}) = Holding(Data, i)
    BY DEF HeldBy, Holding, Data
  <2>4. Cardinality(Holding(Data, i)) = bookings[i].qty
    BY <2>1 DEF QInv, HoldsItsQuota, Quotas, Data
  <2> QED
    BY <2>1, <2>2, <2>3, <2>4
<1>4. ASSUME NEW s \in Slot, slots[s].holder \in S
      PROVE  s \in TakenSlots(Data, v, t)
  <2>1. SlotAgrees(Data, s) /\ HolderAskedFor(Data, s)
    BY DEF QInv, IInv, SlotsMatchHolders, SlotsMatch
  <2>2. slots[s].status # "free"
    <3>1. slots[s].holder # 0
      BY <1>2, <1>4
    <3> QED
      BY <2>1, <3>1 DEF SlotAgrees, NoBooking, Data
  <2> QED
    BY <1>2, <1>4, <2>1, <2>2 DEF HolderAskedFor, TakenSlots, PoolSlots, Data
<1>5. HeldBy(S) = TakenSlots(Data, v, t)
  <2>1. ASSUME NEW s \in TakenSlots(Data, v, t) PROVE slots[s].holder \in S
    <3>1. s \in Slot /\ s[1] = v /\ SlotTypeOf(s) = t /\ slots[s].status # "free"
      BY DEF TakenSlots, PoolSlots, Data
    <3>2. SlotAgrees(Data, s) /\ HolderAskedFor(Data, s) /\ slots[s].status \in SlotStatus
      BY <3>1 DEF QInv, IInv, SlotsMatchHolders, SlotsMatch, TypeOK
    <3>3. slots[s].holder \in DOMAIN bookings /\ bookings[slots[s].holder].status \in Live
      BY <3>1, <3>2 DEF SlotAgrees, SlotStatus, Live, Paid, Data
    <3> QED
      BY <1>2, <3>1, <3>2, <3>3 DEF HolderAskedFor, Data
  <2> HIDE DEF S
  <2> QED
    BY <1>4, <2>1 DEF HeldBy, TakenSlots, PoolSlots
<1>6. IsFiniteSet(S)
  <2>1. S \in SUBSET (1 .. counter)
    BY <1>2
  <2>2. IsFiniteSet(1 .. counter)
    BY <1>2, FS_Interval
  <2> HIDE DEF S
  <2> QED
    BY <2>1, <2>2, FS_Subset
<1> HIDE DEF S
<1>7. \A T \in SUBSET S : IsFiniteSet(HeldBy(T))
  <2> SUFFICES ASSUME NEW T \in SUBSET S PROVE IsFiniteSet(HeldBy(T))
    OBVIOUS
  <2>1. HeldBy(T) \in SUBSET Slot
    BY DEF HeldBy
  <2>2. \A s \in HeldBy(T) : s[1] = v
    BY <1>4 DEF HeldBy, TakenSlots, PoolSlots
  <2> QED
    BY <2>1, <2>2, SlotsFinite
<1>8. ASSUME NEW T \in SUBSET S, T # {}
      PROVE  /\ pick(T) \in T
             /\ f[T] = Ledger[pick(T)].qty + f[T \ {pick(T)}]
  <2> DEFINE x == pick(T)
  <2>1. x \in T
    BY <1>8
  <2> HIDE DEF x
  <2>2. {x} \in SUBSET S /\ T \ {x} \in SUBSET S
    BY <2>1
  <2>3. HeldBy(T) = HeldBy({x}) \cup HeldBy(T \ {x})
    BY <2>1 DEF HeldBy
  <2>4. HeldBy({x}) \cap HeldBy(T \ {x}) = {}
    BY DEF HeldBy
  <2>5. IsFiniteSet(HeldBy({x})) /\ IsFiniteSet(HeldBy(T \ {x}))
    BY <1>7, <2>2
  <2>6. Cardinality(HeldBy(T)) = Cardinality(HeldBy({x})) + Cardinality(HeldBy(T \ {x}))
                                   - Cardinality(HeldBy({x}) \cap HeldBy(T \ {x}))
    BY <2>3, <2>5, FS_Union
  <2>7. Cardinality(HeldBy({x}) \cap HeldBy(T \ {x})) = 0
    BY <2>4, FS_EmptySet
  <2>8. Cardinality(HeldBy({x})) = Ledger[x].qty /\ Ledger[x].qty \in Nat
    BY <1>3, <2>2
  <2>9. Cardinality(HeldBy(T \ {x})) \in Nat
    BY <2>5, FS_CardinalityType
  <2>10. f[T] = Ledger[x].qty + f[T \ {x}]
    BY <2>2, <2>6, <2>7, <2>8, <2>9
  <2> QED
    BY <2>1, <2>10 DEF x
<1>9. f[{}] = 0
  <2>1. HeldBy({}) = {}
    BY DEF HeldBy
  <2> QED
    BY <2>1, FS_EmptySet
<1>10. Is(f)
  <2>1. \A T \in SUBSET S :
           f[T] = IF T = {} THEN 0 ELSE Ledger[pick(T)].qty + f[T \ {pick(T)}]
    BY <1>8, <1>9
  <2>2. f = [T \in SUBSET S |-> f[T]]
    OBVIOUS
  <2> HIDE DEF f, pick
  <2> QED
    BY <2>1, <2>2
<1>11. Is(sum)
  BY <1>10
<1>12. sum[{}] = 0
       /\ \A T \in SUBSET S : T # {} => sum[T] = Ledger[pick(T)].qty + sum[T \ {pick(T)}]
  BY <1>11
<1> HIDE DEF sum, Is, f
<1>13. \A T \in SUBSET S : sum[T] = f[T]
  <2> DEFINE Bad == {Cardinality(T) : T \in {U \in SUBSET S : sum[U] # f[U]}}
  <2> SUFFICES ASSUME NEW T \in SUBSET S, sum[T] # f[T] PROVE FALSE
    OBVIOUS
  <2>1. \A U \in SUBSET S : IsFiniteSet(U) /\ Cardinality(U) \in Nat
    BY <1>6, FS_Subset, FS_CardinalityType
  <2>2. Bad \in SUBSET Nat /\ Bad # {}
    BY <2>1
  <2>3. PICK m \in Bad : \A k \in Bad : m <= k
    <3> HIDE DEF Bad
    <3> QED
      BY <2>2, LeastNat
  <2>4. PICK U \in SUBSET S : sum[U] # f[U] /\ Cardinality(U) = m
    BY <2>3
  <2>5. U # {}
    BY <1>9, <1>12, <2>4
  <2> DEFINE x == pick(U)
             W == U \ {x}
  <2>6. x \in U /\ sum[U] = Ledger[x].qty + sum[W] /\ f[U] = Ledger[x].qty + f[W]
    BY <1>8, <1>12, <2>5
  <2> HIDE DEF x
  <2>7. Cardinality(W) = Cardinality(U) - 1
    BY <2>1, <2>6, FS_RemoveElement
  <2>8. W \in SUBSET S /\ sum[W] # f[W]
    BY <2>4, <2>6
  <2>9. Cardinality(W) \in Bad
    BY <2>8
  <2> HIDE DEF Bad, W
  <2>10. m <= Cardinality(W)
    BY <2>3, <2>9
  <2>11. m \in Nat
    BY <2>2, <2>3
  <2> QED
    BY <2>4, <2>7, <2>10, <2>11
<1>14. sum[S] = Cardinality(HeldBy(S))
  BY <1>13 DEF f
<1> QED
  BY <1>1, <1>5, <1>14

\* Used, as what is left.
LEMMA UsedAndFree ==
    ASSUME QInv, NEW v \in Voyage, NEW t \in SlotType
    PROVE  /\ Quota!Used(Ledger, <<v, t>>) \in Nat
           /\ Quota!Used(Ledger, <<v, t>>) + Cardinality(FreeSlots(Data, v, t)) = Shape[v][t]
           /\ Cardinality(FreeSlots(Data, v, t)) \in Nat
<1>1. Quota!Used(Ledger, <<v, t>>) = Cardinality(TakenSlots(Data, v, t))
  BY UsedCounts
<1>2. /\ Cardinality(FreeSlots(Data, v, t)) + Cardinality(TakenSlots(Data, v, t)) = Shape[v][t]
      /\ Cardinality(FreeSlots(Data, v, t)) \in Nat
      /\ Cardinality(TakenSlots(Data, v, t)) \in Nat
  BY TakenOrFree
<1> QED
  BY <1>1, <1>2

\* No pool is ever oversold.
LEMMA NeverOversold == QInv => Quota!WithinCapacity(Ledger)
<1> SUFFICES ASSUME QInv, NEW v \in Voyage, NEW t \in SlotType
             PROVE  Quota!Used(Ledger, <<v, t>>) <= Shape[v][t]
  BY DEF Quota!WithinCapacity
<1> QED
  BY UsedAndFree

-----------------------------------------------------------------------------
\* Counting promotions.

\* Those of one pool who left the waitlist of d.
Left(d, e, v, t) ==
    {b \in d.waitlist \ e.waitlist : d.bookings[b].voyage = v /\ d.bookings[b].slotType = t}

\* A promotion takes one from the waitlist at most, of the pool it is made for.
LEMMA PromoteTakesOne ==
    ASSUME NEW n \in Nat, NEW d \in DataType(n), NEW v, NEW t
    PROVE  \E b : \A a \in d.waitlist \ Promote(d, v, t).waitlist :
                     a = b /\ d.bookings[a].voyage = v /\ d.bookings[a].slotType = t
<1> DEFINE ready == {b \in Best(d, v, t) : voyages[v] # "none" /\ Fits(d, b)}
           b == CHOOSE b \in ready : TRUE
           e == Promote(d, v, t)
<1>1. CASE ready = {}
  <2>1. e = d
    BY <1>1 DEF Promote
  <2> QED
    BY <2>1
<1>2. CASE ready # {}
  <2>1. e = [Freeze(d, b) EXCEPT !.waitlist = @ \ {b}]
    BY <1>2 DEF Promote
  <2>2. b \in ready
    BY <1>2
  <2>3. d.bookings[b].voyage = v /\ d.bookings[b].slotType = t
    BY <2>2 DEF Best, Queue
  <2> HIDE DEF b, ready
  <2>4. e.waitlist = d.waitlist \ {b}
    BY <2>1 DEF Freeze, DataType
  <2> HIDE DEF e
  <2> QED
    BY <2>3, <2>4 DEF e
<1> QED
  BY <1>1, <1>2

\* The waitlist is finite.
LEMMA LeftFinite ==
    ASSUME NEW n \in Nat, NEW d \in DataType(n), NEW e, NEW v, NEW t
    PROVE  IsFiniteSet(Left(d, e, v, t)) /\ Cardinality(Left(d, e, v, t)) \in Nat
<1>1. Left(d, e, v, t) \in SUBSET (1 .. n) /\ IsFiniteSet(1 .. n)
  BY FS_Interval DEF Left, DataType
<1> QED
  BY <1>1, FS_Subset, FS_CardinalityType

\* As many leave the waitlist, of each pool, as promotions are made for it.
LEMMA PromotionsTake ==
    ASSUME now \in 0 .. MaxTime, NEW n \in Nat, NEW d \in DataType(n), Sound(d),
           NEW v, NEW t, NEW order, Len(order) \in Nat
    PROVE  Cardinality(Left(d, Promotions(d, order), v, t))
             <= Cardinality({j \in 1 .. Len(order) : /\ d.bookings[order[j]].voyage = v
                                                     /\ d.bookings[order[j]].slotType = t})
<1> DEFINE Here(j) == /\ d.bookings[order[j]].voyage = v
                      /\ d.bookings[order[j]].slotType = t
           Past(k) == {j \in 1 .. k : Here(j)}
<1>0. PICK f : Series(f, d, order) /\ Promotions(d, order) = f[Len(order)]
  BY PromotionsSeries
<1>1. /\ f[0] = d
      /\ \A k \in 1 .. Len(order) :
            f[k] = Promote(f[k - 1], d.bookings[order[k]].voyage,
                                     d.bookings[order[k]].slotType)
      /\ Promotions(d, order) = f[Len(order)]
  BY <1>0 DEF Series
<1>2. \A k \in Nat : IsFiniteSet(Past(k)) /\ Cardinality(Past(k)) \in Nat
  <2> SUFFICES ASSUME NEW k \in Nat PROVE IsFiniteSet(Past(k)) /\ Cardinality(Past(k)) \in Nat
    OBVIOUS
  <2>1. IsFiniteSet(1 .. k)
    <3>1. k \in Int /\ 1 \in Int
      OBVIOUS
    <3> QED
      BY ONLY <3>1, FS_Interval
  <2>2. Past(k) \in SUBSET (1 .. k)
    OBVIOUS
  <2> HIDE DEF Past
  <2> QED
    BY <2>1, <2>2, FS_Subset, FS_CardinalityType
<1> DEFINE Fine(k) == /\ f[k] \in DataType(n) /\ Sound(f[k]) /\ Advances(d, f[k])
                      /\ Cardinality(Left(d, f[k], v, t)) <= Cardinality(Past(k))
           Bad == {k \in 0 .. Len(order) : ~Fine(k)}
<1>3. Fine(0)
  <2>1. Advances(d, d)
    BY DEF Advances, Stays, LeftInOrder
  <2>2. Left(d, d, v, t) = {}
    BY DEF Left
  <2>3. Cardinality(Left(d, d, v, t)) = 0
    BY <2>2, FS_EmptySet
  <2>4. Cardinality(Past(0)) \in Nat
    BY <1>2
  <2> HIDE DEF Past
  <2>5. 0 <= Cardinality(Past(0))
    BY <2>4
  <2> QED
    BY <1>1, <2>1, <2>3, <2>5
<1>4. ASSUME NEW k \in 1 .. Len(order), Fine(k - 1) PROVE Fine(k)
  <2> DEFINE x == d.bookings[order[k]].voyage
             y == d.bookings[order[k]].slotType
             e == f[k - 1]
             L(j) == Left(d, f[j], v, t)
  <2>1. f[k] = Promote(e, x, y)
    BY <1>1
  <2>2. /\ e \in DataType(n) /\ Sound(e) /\ Advances(d, e)
        /\ Cardinality(L(k - 1)) <= Cardinality(Past(k - 1))
    BY <1>4
  <2> HIDE DEF Fine, e
  <2>3. f[k] \in DataType(n) /\ Sound(f[k])
    BY <2>1, <2>2, PromoteSound
  <2>4. Advances(d, f[k])
    <3>1. Advances(e, Promote(e, x, y))
      BY <2>2, PromoteAdvances
    <3> QED
      BY <2>1, <2>2, <2>3, <3>1, AdvancesCompose
  <2>5. SameAsked(d, e)
    BY <2>2, AdvancesAsked
  <2>6. PICK b : \A a \in e.waitlist \ f[k].waitlist :
                    a = b /\ e.bookings[a].voyage = x /\ e.bookings[a].slotType = y
    <3>1. \E b : \A a \in e.waitlist \ Promote(e, x, y).waitlist :
                   a = b /\ e.bookings[a].voyage = x /\ e.bookings[a].slotType = y
      <4> HIDE DEF x, y
      <4> QED
        BY <2>2, PromoteTakesOne
    <3>2. \E b : \A a \in e.waitlist \ f[k].waitlist :
                   a = b /\ e.bookings[a].voyage = x /\ e.bookings[a].slotType = y
      <4> HIDE DEF x, y
      <4> QED
        BY <2>1, <3>1
    <3> QED
      BY <3>2
  <2>7. \A a \in e.waitlist \ f[k].waitlist :
           a = b /\ d.bookings[a].voyage = x /\ d.bookings[a].slotType = y
    <3>1. \A a \in e.waitlist : a \in DOMAIN d.bookings
      BY <2>2 DEF DataType
    <3> QED
      BY <2>5, <2>6, <3>1 DEF SameAsked
  <2>8. \A a \in L(k) : a \in L(k - 1) \/ (a \in e.waitlist \ f[k].waitlist)
    BY DEF Left, e
  <2>9. k - 1 \in Nat /\ k \in Nat
    OBVIOUS
  <2>10. /\ IsFiniteSet(L(k)) /\ Cardinality(L(k)) \in Nat
         /\ IsFiniteSet(L(k - 1)) /\ Cardinality(L(k - 1)) \in Nat
    BY LeftFinite
  <2>11. CASE Here(k)
    <3>1. Past(k) = Past(k - 1) \cup {k} /\ k \notin Past(k - 1)
      BY <2>9, <2>11
    <3> HIDE DEF Past, Here, L
    <3>2. Cardinality(Past(k)) = Cardinality(Past(k - 1)) + 1
      <4>1. IsFiniteSet(Past(k - 1))
        BY <1>2, <2>9
      <4>2. Cardinality(Past(k - 1) \cup {k}) = Cardinality(Past(k - 1)) + 1
        BY <3>1, <4>1, FS_AddElement
      <4> QED
        BY <3>1, <4>2
    <3>3. L(k) \in SUBSET (L(k - 1) \cup {b})
      BY <2>7, <2>8
    <3>4. /\ IsFiniteSet(L(k - 1) \cup {b})
          /\ Cardinality(L(k - 1) \cup {b}) =
               IF b \in L(k - 1) THEN Cardinality(L(k - 1)) ELSE Cardinality(L(k - 1)) + 1
      BY <2>10, FS_AddElement
    <3>5. Cardinality(L(k)) <= Cardinality(L(k - 1) \cup {b})
      BY <3>3, <3>4, FS_Subset
    <3>6. Cardinality(Past(k - 1)) \in Nat
      BY <1>2, <2>9
    <3>7. Cardinality(L(k)) <= Cardinality(Past(k))
      BY <2>2, <2>10, <3>2, <3>4, <3>5, <3>6
    <3> QED
      BY <2>3, <2>4, <3>7 DEF Fine, L
  <2>12. CASE ~Here(k)
    <3>1. Past(k) = Past(k - 1)
      BY <2>9, <2>12
    <3> HIDE DEF Past
    <3>2. \A a \in L(k) : d.bookings[a].voyage = v /\ d.bookings[a].slotType = t
      BY DEF Left
    <3>3. L(k) \in SUBSET L(k - 1)
      <4> HIDE DEF L
      <4> QED
        BY <2>7, <2>8, <2>12, <3>2
    <3> HIDE DEF L, Here
    <3>4. Cardinality(L(k)) <= Cardinality(L(k - 1))
      BY <2>10, <3>3, FS_Subset
    <3>5. Cardinality(Past(k - 1)) \in Nat
      BY <1>2, <2>9
    <3>6. Cardinality(L(k)) <= Cardinality(Past(k))
      BY <2>2, <2>10, <3>1, <3>4, <3>5
    <3> QED
      BY <2>3, <2>4, <3>6 DEF Fine, L
  <2> QED
    BY <2>11, <2>12
<1> HIDE DEF Fine
<1>5. Bad = {}
  <2> SUFFICES ASSUME Bad # {} PROVE FALSE
    OBVIOUS
  <2>1. Bad \in SUBSET Nat
    OBVIOUS
  <2>2. PICK m \in Bad : \A k \in Bad : m <= k
    <3> HIDE DEF Bad
    <3> QED
      BY <2>1, LeastNat
  <2>3. m \in 0 .. Len(order) /\ ~Fine(m)
    OBVIOUS
  <2>4. m # 0
    BY <1>3, <2>3
  <2>5. m - 1 \in 0 .. Len(order) /\ m \in 1 .. Len(order)
    BY <2>3, <2>4
  <2>6. Fine(m - 1)
    <3>1. m - 1 \notin Bad
      <4> HIDE DEF Bad
      <4> QED
        BY <2>2, <2>3, <2>5
    <3> QED
      BY <2>5, <3>1
  <2> QED
    BY <1>4, <2>3, <2>5, <2>6
<1>6. Fine(Len(order))
  <2>1. Len(order) \in 0 .. Len(order)
    OBVIOUS
  <2> QED
    BY <1>5, <2>1
<1> QED
  BY <1>1, <1>6 DEF Fine

-----------------------------------------------------------------------------
\* The steps of the ledger.

\* What a pool loses to customers who were waiting, it got from bookings that left.
Covered(out) ==
    \A v \in Voyage, t \in SlotType :
        Cardinality(Left(Data, Data', v, t))
          <= Cardinality({b \in out : bookings[b].voyage = v /\ bookings[b].slotType = t})

\* An entry of the ledger, field by field.
LEMMA Entry ==
    ASSUME NEW i \in DOMAIN bookings
    PROVE  /\ i \in DOMAIN Ledger
           /\ Ledger[i] = [pool  |-> <<bookings[i].voyage, bookings[i].slotType>>,
                           qty   |-> bookings[i].qty,
                           phase |-> PhaseOf(bookings[i]),
                           since |-> bookings[i].frozenAt]
BY DEF Ledger

\* The phases of the statuses.
LEMMA Phases ==
    ASSUME NEW bk
    PROVE  /\ bk.status = "waitlisted" => PhaseOf(bk) = "waiting"
           /\ bk.status = "frozen" => PhaseOf(bk) = "holding"
           /\ bk.status \in Paid => PhaseOf(bk) = "paid"
           /\ bk.status \in {"released", "cancelled"} => PhaseOf(bk) = "gone"
BY DEF PhaseOf, Paid

\* SlotQuota counts as its implementation does.
LEMMA SameCount == ASSUME NEW S PROVE Quota!Cardinality(S) = Cardinality(S)
BY DEF Quota!Cardinality, Cardinality

\* The bookings that are promoted where those in out leave.
Taking(out) == {b \in DOMAIN bookings \ out : Promoted(Data, Data', b)}

\* The ledger when some bookings leave and others are promoted: those were waiting,
\* and have left the waitlist.
LEMMA LedgerMoves ==
    ASSUME QInv, QInv', now' = now, NEW out \in SUBSET DOMAIN bookings,
           NEW st \in {"released", "cancelled"}, Hands(Data, Data', out, st)
    PROVE  /\ Taking(out) \in SUBSET DOMAIN bookings
           /\ \A i \in Taking(out) : /\ Ledger[i].phase = "waiting"
                                     /\ i \in waitlist \ waitlist'
           /\ Ledger' = [i \in DOMAIN Ledger |->
                           IF i \in out THEN [Ledger[i] EXCEPT !.phase = "gone"]
                           ELSE IF i \in Taking(out)
                             THEN [Ledger[i] EXCEPT !.phase = "holding", !.since = now]
                             ELSE Ledger[i]]
<1> DEFINE in == {b \in DOMAIN bookings \ out : Promoted(Data, Data', b)}
<1>1. /\ DOMAIN bookings' = DOMAIN bookings
      /\ \A b \in out : bookings'[b] = [bookings[b] EXCEPT !.status = st]
      /\ \A b \in DOMAIN bookings \ out : Stays(Data, Data', b) \/ Promoted(Data, Data', b)
  BY DEF Hands, Data
<1>2. /\ DOMAIN Ledger = DOMAIN bookings /\ DOMAIN Ledger' = DOMAIN bookings
      /\ \A b \in DOMAIN bookings : bookings[b] \in BookingRecord
  BY <1>1, DataIsSound DEF Ledger, QInv, IInv, TypeOK
<1>3. \A i \in in : bookings[i].status = "waitlisted"
  BY DEF Promoted, Data
<1>4. \A i \in in : Ledger[i].phase = "waiting"
  BY <1>2, <1>3, Entry, Phases
<1>5. ASSUME NEW i \in DOMAIN bookings
      PROVE  Ledger'[i] = IF i \in out THEN [Ledger[i] EXCEPT !.phase = "gone"]
                          ELSE IF i \in in
                            THEN [Ledger[i] EXCEPT !.phase = "holding", !.since = now]
                            ELSE Ledger[i]
  <2>1. Ledger[i] = [pool  |-> <<bookings[i].voyage, bookings[i].slotType>>,
                     qty   |-> bookings[i].qty,
                     phase |-> PhaseOf(bookings[i]),
                     since |-> bookings[i].frozenAt]
    BY Entry
  <2>2. Ledger'[i] = [pool  |-> <<bookings'[i].voyage, bookings'[i].slotType>>,
                      qty   |-> bookings'[i].qty,
                      phase |-> PhaseOf(bookings'[i]),
                      since |-> bookings'[i].frozenAt]
    BY <1>1 DEF Ledger
  <2>3. bookings[i] \in BookingRecord
    BY <1>2
  <2>4. CASE i \in out
    <3>1. /\ bookings'[i].voyage = bookings[i].voyage
          /\ bookings'[i].slotType = bookings[i].slotType
          /\ bookings'[i].qty = bookings[i].qty
          /\ bookings'[i].frozenAt = bookings[i].frozenAt
          /\ bookings'[i].status = st
      BY <1>1, <2>3, <2>4 DEF BookingRecord
    <3>2. PhaseOf(bookings'[i]) = "gone"
      BY <3>1, Phases
    <3> QED
      BY <2>1, <2>2, <2>4, <3>1, <3>2
  <2>5. CASE i \in in
    <3>1. bookings'[i] = [bookings[i] EXCEPT !.status = "frozen", !.frozenAt = now]
      BY <2>5 DEF Promoted, Data
    <3>2. /\ bookings'[i].voyage = bookings[i].voyage
          /\ bookings'[i].slotType = bookings[i].slotType
          /\ bookings'[i].qty = bookings[i].qty
          /\ bookings'[i].frozenAt = now
          /\ bookings'[i].status = "frozen"
      BY <2>3, <3>1 DEF BookingRecord
    <3>3. PhaseOf(bookings'[i]) = "holding"
      BY <3>2, Phases
    <3>4. Ledger'[i] = [pool  |-> <<bookings[i].voyage, bookings[i].slotType>>,
                        qty   |-> bookings[i].qty,
                        phase |-> "holding",
                        since |-> now]
      BY <2>2, <3>2, <3>3
    <3>5. [Ledger[i] EXCEPT !.phase = "holding", !.since = now]
            = [pool  |-> <<bookings[i].voyage, bookings[i].slotType>>,
               qty   |-> bookings[i].qty,
               phase |-> "holding",
               since |-> now]
      <4> DEFINE a == [Ledger[i] EXCEPT !.phase = "holding", !.since = now]
      <4>1. Ledger[i] \in [pool  : {<<bookings[i].voyage, bookings[i].slotType>>},
                           qty   : {bookings[i].qty},
                           phase : {PhaseOf(bookings[i])},
                           since : {bookings[i].frozenAt}]
        BY <2>1
      <4>2. a \in [pool  : {<<bookings[i].voyage, bookings[i].slotType>>},
                   qty   : {bookings[i].qty},
                   phase : {"holding"},
                   since : {now}]
        BY <4>1
      <4> HIDE DEF a
      <4>3. a = [pool  |-> <<bookings[i].voyage, bookings[i].slotType>>,
                 qty   |-> bookings[i].qty,
                 phase |-> "holding",
                 since |-> now]
        BY <4>2
      <4> QED
        BY <4>3 DEF a
    <3>6. i \notin out
      BY <2>5
    <3> HIDE DEF in
    <3> QED
      BY <2>5, <3>4, <3>5, <3>6
  <2>6. CASE i \notin out /\ i \notin in
    <3>1. bookings'[i] = bookings[i]
      BY <1>1, <2>6 DEF Stays, Data
    <3> QED
      BY <2>1, <2>2, <2>6, <3>1
  <2> QED
    BY <2>4, <2>5, <2>6
<1>6. Ledger' = [i \in DOMAIN Ledger |->
                   IF i \in out THEN [Ledger[i] EXCEPT !.phase = "gone"]
                   ELSE IF i \in in
                     THEN [Ledger[i] EXCEPT !.phase = "holding", !.since = now]
                     ELSE Ledger[i]]
  <2> DEFINE L == Ledger'
  <2>1. L = [i \in DOMAIN bookings |-> L[i]]
    BY <1>1 DEF Ledger
  <2> HIDE DEF in, L
  <2> QED
    BY <1>2, <1>5, <2>1 DEF L
<1>7. in \in SUBSET DOMAIN bookings /\ in = Taking(out)
  BY DEF Taking
<1>8. ASSUME NEW i \in in PROVE i \in waitlist \ waitlist'
  <2>1. i \in waitlist
    BY <1>3 DEF QInv, IInv, WaitlistIsExact, Waitlisted, Data
  <2>2. bookings'[i].status = "frozen"
    <3>1. bookings'[i] = [bookings[i] EXCEPT !.status = "frozen", !.frozenAt = now]
      BY DEF Promoted, Data
    <3> QED
      BY <1>2, <3>1 DEF BookingRecord
  <2>3. i \notin waitlist'
    BY <2>2 DEF QInv, IInv, WaitlistIsExact, Waitlisted, Data
  <2> QED
    BY <2>1, <2>3
<1> HIDE DEF in
<1> QED
  BY <1>4, <1>6, <1>7, <1>8

\* Bookings that leave and bookings that are promoted hand over places.
LEMMA HandsOverPlaces ==
    ASSUME QInv, QInv', now' = now, NEW out \in SUBSET DOMAIN bookings,
           NEW st \in {"released", "cancelled"}, Hands(Data, Data', out, st),
           out # {}, Quota!MayLeave(out), Covered(out)
    PROVE  Quota!HandOver
<1> DEFINE in == Taking(out)
<1>1. /\ in \in SUBSET DOMAIN bookings
      /\ \A i \in in : Ledger[i].phase = "waiting" /\ i \in waitlist \ waitlist'
      /\ Ledger' = [i \in DOMAIN Ledger |->
                      IF i \in out THEN [Ledger[i] EXCEPT !.phase = "gone"]
                      ELSE IF i \in in
                        THEN [Ledger[i] EXCEPT !.phase = "holding", !.since = now]
                        ELSE Ledger[i]]
  BY LedgerMoves
<1> HIDE DEF in
<1>2. DOMAIN Ledger = DOMAIN bookings
  BY DEF Ledger
<1>3. ASSUME NEW p \in Voyage \X SlotType
      PROVE  Cardinality({i \in in : Ledger[i].pool = p})
               <= Cardinality({i \in out : Ledger[i].pool = p})
  <2>1. PICK v \in Voyage, t \in SlotType : p = <<v, t>>
    OBVIOUS
  <2>2. \A i \in DOMAIN bookings :
           Ledger[i].pool = p <=> bookings[i].voyage = v /\ bookings[i].slotType = t
    <3> SUFFICES ASSUME NEW i \in DOMAIN bookings
                 PROVE  Ledger[i].pool = p <=> bookings[i].voyage = v /\ bookings[i].slotType = t
      OBVIOUS
    <3>1. Ledger[i].pool = <<bookings[i].voyage, bookings[i].slotType>>
      BY DEF Ledger
    <3> QED
      BY <2>1, <3>1
  <2>3. {i \in out : Ledger[i].pool = p}
          = {b \in out : bookings[b].voyage = v /\ bookings[b].slotType = t}
    BY <2>2
  <2>4. {i \in in : Ledger[i].pool = p} \in SUBSET Left(Data, Data', v, t)
    <3> SUFFICES ASSUME NEW i \in in, bookings[i].voyage = v, bookings[i].slotType = t
                 PROVE  i \in Left(Data, Data', v, t)
      BY <1>1, <2>2
    <3> QED
      BY <1>1 DEF Left, Data
  <2>5. IsFiniteSet(Left(Data, Data', v, t)) /\ Cardinality(Left(Data, Data', v, t)) \in Nat
    BY DataIsSound, LeftFinite DEF QInv
  <2>6. Cardinality({i \in in : Ledger[i].pool = p}) <= Cardinality(Left(Data, Data', v, t))
        /\ Cardinality({i \in in : Ledger[i].pool = p}) \in Nat
    <3> DEFINE P == {i \in in : Ledger[i].pool = p}
    <3> HIDE DEF P
    <3> SUFFICES Cardinality(P) <= Cardinality(Left(Data, Data', v, t)) /\ Cardinality(P) \in Nat
      BY DEF P
    <3>1. P \in SUBSET Left(Data, Data', v, t)
      BY <2>4 DEF P
    <3> QED
      BY <2>5, <3>1, FS_Subset, FS_CardinalityType
  <2>7. Cardinality(Left(Data, Data', v, t))
          <= Cardinality({b \in out : bookings[b].voyage = v /\ bookings[b].slotType = t})
    BY DEF Covered
  <2>8. Cardinality({b \in out : bookings[b].voyage = v /\ bookings[b].slotType = t}) \in Nat
    <3> DEFINE O == {b \in out : bookings[b].voyage = v /\ bookings[b].slotType = t}
    <3>1. O \in SUBSET (1 .. counter) /\ IsFiniteSet(1 .. counter)
      BY DataIsSound, FS_Interval DEF QInv
    <3> HIDE DEF O
    <3>2. Cardinality(O) \in Nat
      BY <3>1, FS_Subset, FS_CardinalityType
    <3> QED
      BY <3>2 DEF O
  <2> DEFINE A == {i \in in : Ledger[i].pool = p}
             B == Left(Data, Data', v, t)
             C == {b \in out : bookings[b].voyage = v /\ bookings[b].slotType = t}
  <2>9. /\ Cardinality(A) <= Cardinality(B) /\ Cardinality(B) <= Cardinality(C)
        /\ Cardinality(A) \in Nat /\ Cardinality(B) \in Nat /\ Cardinality(C) \in Nat
    BY <2>5, <2>6, <2>7, <2>8
  <2> HIDE DEF A, B, C
  <2>10. Cardinality(A) <= Cardinality(C)
    BY <2>9
  <2> QED
    BY <2>3, <2>10 DEF A, C
<1>4. Quota!WithinCapacity(Ledger)'
  <2>1. (QInv => Quota!WithinCapacity(Ledger))'
    BY NeverOversold, PTL
  <2> QED
    BY <2>1
<1>5. out \in SUBSET DOMAIN Ledger /\ in \in SUBSET DOMAIN Ledger /\ out \cup in # {}
  BY <1>1, <1>2
<1>6. \A p \in Voyage \X SlotType :
          Quota!Cardinality({i \in in : Ledger[i].pool = p})
            <= Quota!Cardinality({i \in out : Ledger[i].pool = p})
  BY <1>3, SameCount
<1> QED
  BY <1>1, <1>4, <1>5, <1>6 DEF Quota!HandOver

\* What leaves leaves the waitlist as it was.
LEMMA ReleaseKeepsWaitlist ==
    ASSUME NEW n \in Nat, NEW d \in DataType(n), NEW out, NEW st, NEW which
    PROVE  Release(d, out, st, which).waitlist = d.waitlist
BY DEF Release, DataType

\* One booking leaves, and one promotion is made for the pool it was in.
LEMMA OneCovers ==
    ASSUME IInv, NEW b \in DOMAIN bookings, NEW d \in DataType(counter), Sound(d),
           d.waitlist = waitlist, SameAsked(Data, d),
           Data' = Promote(d, bookings[b].voyage, bookings[b].slotType)
    PROVE  Covered({b})
<1> DEFINE x == bookings[b].voyage
           y == bookings[b].slotType
<1>1. now \in 0 .. MaxTime /\ counter \in Nat /\ \A a \in waitlist : a \in DOMAIN bookings
  BY DataIsSound DEF IInv, TypeOK
<1>2. PICK w : \A a \in d.waitlist \ Data'.waitlist :
                 a = w /\ d.bookings[a].voyage = x /\ d.bookings[a].slotType = y
  <2>1. \E w : \A a \in d.waitlist \ Promote(d, x, y).waitlist :
                 a = w /\ d.bookings[a].voyage = x /\ d.bookings[a].slotType = y
    <3> HIDE DEF x, y
    <3> QED
      BY <1>1, PromoteTakesOne
  <2> QED
    BY <2>1
<1>3. \A a \in waitlist \ waitlist' :
        a = w /\ bookings[a].voyage = x /\ bookings[a].slotType = y
  <2>1. Data'.waitlist = waitlist'
    BY DEF Data
  <2>2. \A a \in DOMAIN bookings : /\ d.bookings[a].voyage = bookings[a].voyage
                                   /\ d.bookings[a].slotType = bookings[a].slotType
    BY DEF SameAsked, Data
  <2> HIDE DEF x, y
  <2> QED
    BY <1>1, <1>2, <2>1, <2>2
<1> HIDE DEF x, y
<1> SUFFICES ASSUME NEW v \in Voyage, NEW t \in SlotType
             PROVE  Cardinality(Left(Data, Data', v, t))
                      <= Cardinality({a \in {b} : /\ bookings[a].voyage = v
                                                  /\ bookings[a].slotType = t})
  BY DEF Covered
<1> DEFINE L == Left(Data, Data', v, t)
           O == {a \in {b} : bookings[a].voyage = v /\ bookings[a].slotType = t}
<1>4. L = {a \in waitlist \ waitlist' : bookings[a].voyage = v /\ bookings[a].slotType = t}
  BY DEF Left, Data
<1>5. CASE x = v /\ y = t
  <2>1. O = {b} /\ L \in SUBSET {w}
    BY <1>3, <1>4, <1>5 DEF x, y
  <2>2. IsFiniteSet({w}) /\ Cardinality({w}) = 1 /\ Cardinality({b}) = 1
    BY FS_Singleton
  <2> HIDE DEF L, O
  <2>3. Cardinality(L) <= Cardinality({w})
    BY <2>1, <2>2, FS_Subset
  <2>4. Cardinality(L) <= Cardinality(O)
    BY <2>1, <2>2, <2>3
  <2> QED
    BY <2>4 DEF L, O
<1>6. CASE ~(x = v /\ y = t)
  <2>1. L = {}
    BY <1>3, <1>4, <1>6
  <2>2. O \in SUBSET {b} /\ IsFiniteSet({b})
    BY FS_Singleton
  <2> HIDE DEF L, O
  <2>3. Cardinality(L) = 0 /\ Cardinality(O) \in Nat
    BY <2>1, <2>2, FS_EmptySet, FS_Subset, FS_CardinalityType
  <2>4. Cardinality(L) <= Cardinality(O)
    BY <2>3
  <2> QED
    BY <2>4 DEF L, O
<1> QED
  BY <1>5, <1>6

\* A cancellation hands over what the booking held.
LEMMA CancelHandsOver ==
    ASSUME QInv, QInv', NEW b, Cancel(b)
    PROVE  Quota!HandOver
<1> DEFINE d == Release(Data, {b}, "cancelled", SlotStatus)
<1>1. /\ Data \in DataType(counter) /\ Sound(Data) /\ counter \in Nat /\ IInv
      /\ now' = now /\ DOMAIN bookings = 1 .. counter
  BY DataIsSound DEF QInv, Cancel
<1>2. /\ b \in DOMAIN bookings /\ {b} \in SUBSET (1 .. counter)
      /\ bookings[b].status \in {"frozen", "confirmed", "manifested"}
      /\ Hands(Data, Data', {b}, "cancelled")
  BY <1>1, CancelHands
<1>3. d \in DataType(counter) /\ Sound(d)
  <2>1. \A s \in Slot : Data.slots[s].status \in SlotStatus
    BY <1>1 DEF DataType
  <2>2. \A a \in {b} : Data.bookings[a].status # "waitlisted"
    BY <1>2 DEF Data
  <2> QED
    BY <1>1, <1>2, <2>1, <2>2, ReleaseSound
<1>4. d.waitlist = waitlist /\ SameAsked(Data, d)
  <2>1. d.waitlist = Data.waitlist
    BY <1>1, ReleaseKeepsWaitlist
  <2> QED
    BY <1>1, <1>2, <2>1, ReleaseAsked DEF Data
<1>5. Data' = Promote(d, bookings[b].voyage, bookings[b].slotType)
  <2> DEFINE e == Promote(d, bookings[b].voyage, bookings[b].slotType)
  <2>1. Commit(e)
    BY DEF Cancel
  <2>2. e \in DataType(counter)
    <3> HIDE DEF d
    <3>1. now \in 0 .. MaxTime
      BY <1>1 DEF IInv, TypeOK
    <3> QED
      BY <1>1, <1>3, <3>1, PromoteSound
  <2> HIDE DEF e
  <2>3. Data' = e
    BY <2>1, <2>2, DataNext
  <2> QED
    BY <2>3 DEF e
<1> HIDE DEF d
<1>6. Covered({b})
  BY <1>1, <1>2, <1>3, <1>4, <1>5, OneCovers
<1>7. Quota!MayLeave({b})
  <2>1. Ledger[b].phase = PhaseOf(bookings[b])
    BY <1>2 DEF Ledger
  <2>2. PhaseOf(bookings[b]) \in {"holding", "paid"}
    BY <1>2, Phases DEF Paid
  <2> QED
    BY <2>1, <2>2 DEF Quota!MayLeave
<1> QED
  BY <1>1, <1>2, <1>6, <1>7, HandsOverPlaces

\* So does a payment that comes too late.
LEMMA PayLateHandsOver ==
    ASSUME QInv, QInv', NEW b, PayLate(b)
    PROVE  Quota!HandOver
<1> DEFINE d == ReleaseFrozen(Data, {b})
<1>1. /\ Data \in DataType(counter) /\ Sound(Data) /\ counter \in Nat /\ IInv
      /\ now' = now /\ DOMAIN bookings = 1 .. counter
  BY DataIsSound DEF QInv, PayLate
<1>2. /\ b \in DOMAIN bookings /\ {b} \in SUBSET (1 .. counter)
      /\ bookings[b].status = "frozen" /\ now - bookings[b].frozenAt > PaymentTimeout
      /\ Hands(Data, Data', {b}, "released")
  BY <1>1, PayLateHands DEF Expired
<1>3. d \in DataType(counter) /\ Sound(d)
  BY <1>1, <1>2, ReleaseFrozenSound
<1>4. d.waitlist = waitlist /\ SameAsked(Data, d)
  <2>1. d.waitlist = Data.waitlist
    BY <1>1, ReleaseKeepsWaitlist DEF ReleaseFrozen
  <2>2. SameAsked(Data, d)
    BY <1>1, <1>2, ReleaseAsked DEF ReleaseFrozen
  <2> QED
    BY <2>1, <2>2 DEF Data
<1>5. Data' = Promote(d, bookings[b].voyage, bookings[b].slotType)
  <2> DEFINE e == Promote(d, bookings[b].voyage, bookings[b].slotType)
  <2>1. Commit(e)
    BY DEF PayLate
  <2>2. e \in DataType(counter)
    <3> HIDE DEF d
    <3>1. now \in 0 .. MaxTime
      BY <1>1 DEF IInv, TypeOK
    <3> QED
      BY <1>1, <1>3, <3>1, PromoteSound
  <2> HIDE DEF e
  <2>3. Data' = e
    BY <2>1, <2>2, DataNext
  <2> QED
    BY <2>3 DEF e
<1> HIDE DEF d
<1>6. Covered({b})
  BY <1>1, <1>2, <1>3, <1>4, <1>5, OneCovers
<1>7. Quota!MayLeave({b})
  <2>1. Ledger[b].phase = PhaseOf(bookings[b]) /\ Ledger[b].since = bookings[b].frozenAt
    BY <1>2 DEF Ledger
  <2>2. PhaseOf(bookings[b]) = "holding"
    BY <1>2, Phases
  <2> QED
    BY <1>2, <2>1, <2>2 DEF Quota!MayLeave
<1> QED
  BY <1>1, <1>2, <1>6, <1>7, HandsOverPlaces

\* A pass releases what is overdue, and makes one promotion for each: in every pool
\* no more is promoted than was released.
LEMMA ReconcileHandsOver ==
    ASSUME QInv, QInv', ReconcileExpired
    PROVE  Quota!HandOver
<1> DEFINE d == ReleaseFrozen(Data, Overdue)
<1>1. /\ Data \in DataType(counter) /\ Sound(Data) /\ counter \in Nat /\ IInv
      /\ now \in 0 .. MaxTime /\ now' = now /\ DOMAIN bookings = 1 .. counter
  BY DataIsSound DEF QInv, IInv, TypeOK, ReconcileExpired
<1>2. /\ Overdue \in SUBSET DOMAIN bookings /\ Overdue \in SUBSET (1 .. counter)
      /\ \A b \in Overdue : /\ bookings[b].status = "frozen"
                            /\ now - bookings[b].frozenAt > PaymentTimeout
      /\ Hands(Data, Data', Overdue, "released")
      /\ Overdue # {}
  BY <1>1, ReconcileHands DEF Expired, ReconcileExpired
<1>3. d \in DataType(counter) /\ Sound(d)
  BY <1>1, <1>2, ReleaseFrozenSound
<1>4. d.waitlist = waitlist /\ SameAsked(Data, d)
  <2>1. d.waitlist = Data.waitlist
    BY <1>1, ReleaseKeepsWaitlist DEF ReleaseFrozen
  <2>2. SameAsked(Data, d)
    BY <1>1, <1>2, ReleaseAsked DEF ReleaseFrozen
  <2> QED
    BY <2>1, <2>2 DEF Data
<1>5. PICK order \in SetToSeqs(Overdue) : Commit(Promotions(d, order))
  BY DEF ReconcileExpired
<1>6. /\ Len(order) \in Nat /\ IsFiniteSet(Overdue)
      /\ order \in [1 .. Len(order) -> Overdue] /\ IsInjective(order)
  <2>1. IsFiniteSet(Overdue) /\ Cardinality(Overdue) \in Nat
    <3>1. IsFiniteSet(1 .. counter)
      BY <1>1, FS_Interval
    <3> QED
      BY <1>2, <3>1, FS_Subset, FS_CardinalityType
  <2>2. order \in [1 .. Cardinality(Overdue) -> Overdue] /\ IsInjective(order)
    BY <1>5 DEF SetToSeqs, IsInjective
  <2>3. Len(order) = Cardinality(Overdue)
    BY <2>1, <2>2
  <2> QED
    BY <2>1, <2>2, <2>3
<1> HIDE DEF d
<1>7. Data' = Promotions(d, order)
  <2> DEFINE e == Promotions(d, order)
  <2>1. Commit(e)
    BY <1>5
  <2>2. e \in DataType(counter)
    BY <1>1, <1>3, <1>6, PromotionsSound
  <2> HIDE DEF e
  <2>3. Data' = e
    BY <2>1, <2>2, DataNext
  <2> QED
    BY <2>3 DEF e
<1>8. Covered(Overdue)
  <2> SUFFICES ASSUME NEW v \in Voyage, NEW t \in SlotType
               PROVE  Cardinality(Left(Data, Data', v, t))
                        <= Cardinality({b \in Overdue : /\ bookings[b].voyage = v
                                                        /\ bookings[b].slotType = t})
    BY DEF Covered
  <2> DEFINE L == Left(Data, Data', v, t)
             J == {j \in 1 .. Len(order) : /\ d.bookings[order[j]].voyage = v
                                           /\ d.bookings[order[j]].slotType = t}
             O == {b \in Overdue : bookings[b].voyage = v /\ bookings[b].slotType = t}
             f == [j \in J |-> order[j]]
  <2>1. \A a \in DOMAIN bookings : /\ d.bookings[a].voyage = bookings[a].voyage
                                   /\ d.bookings[a].slotType = bookings[a].slotType
    BY <1>4 DEF SameAsked, Data
  <2>2. L = Left(d, Promotions(d, order), v, t)
    <3>1. \A a \in waitlist : a \in DOMAIN bookings
      BY <1>1 DEF IInv, TypeOK
    <3>2. Left(d, Data', v, t) = Left(Data, Data', v, t)
      BY <1>4, <2>1, <3>1 DEF Left, Data
    <3> QED
      BY <1>7, <3>2
  <2>3. Cardinality(Left(d, Promotions(d, order), v, t)) <= Cardinality(J)
    BY <1>1, <1>3, <1>6, PromotionsTake
  <2>4. IsFiniteSet(Left(d, Promotions(d, order), v, t))
        /\ Cardinality(Left(d, Promotions(d, order), v, t)) \in Nat
    BY <1>1, <1>3, LeftFinite
  <2>5. f \in Injection(J, O)
    <3>1. \A j \in J : order[j] \in O
      BY <1>2, <1>6, <2>1
    <3>2. \A i, j \in J : order[i] = order[j] => i = j
      BY <1>6 DEF IsInjective
    <3> HIDE DEF J, O
    <3> QED
      BY <3>1, <3>2 DEF Injection, IsInjective
  <2>6. O \in SUBSET Overdue /\ J \in SUBSET (1 .. Len(order)) /\ IsFiniteSet(1 .. Len(order))
    BY <1>6, FS_Interval
  <2> HIDE DEF J, O, f, L
  <2>7. /\ IsFiniteSet(O) /\ Cardinality(O) \in Nat
        /\ IsFiniteSet(J) /\ Cardinality(J) \in Nat
    BY <1>6, <2>6, FS_Subset, FS_CardinalityType
  <2>8. Cardinality(J) <= Cardinality(O)
    BY <2>5, <2>7, FS_Injection
  <2>9. Cardinality(L) <= Cardinality(O)
    BY <2>2, <2>3, <2>4, <2>7, <2>8
  <2> QED
    BY <2>9 DEF L, O
<1>9. Quota!MayLeave(Overdue)
  <2>1. \A b \in Overdue : Ledger[b].phase = "holding" /\ Ledger[b].since = bookings[b].frozenAt
    <3> SUFFICES ASSUME NEW b \in Overdue
                 PROVE  Ledger[b].phase = "holding" /\ Ledger[b].since = bookings[b].frozenAt
      OBVIOUS
    <3>1. Ledger[b].phase = PhaseOf(bookings[b]) /\ Ledger[b].since = bookings[b].frozenAt
      BY <1>2 DEF Ledger
    <3> QED
      BY <1>2, <3>1, Phases
  <2> QED
    BY <1>2, <2>1 DEF Quota!MayLeave
<1> QED
  BY <1>1, <1>2, <1>8, <1>9, HandsOverPlaces

\* The exported promotion takes in one who waited, or nobody.
LEMMA PromoteWaitlistTakesIn ==
    ASSUME QInv, QInv', NEW x, NEW y, PromoteWaitlist(x, y)
    PROVE  Quota!HandOver \/ UNCHANGED Quota!quotaVars
<1>1. /\ Data \in DataType(counter) /\ Sound(Data) /\ counter \in Nat /\ IInv
      /\ now \in 0 .. MaxTime /\ now' = now
  BY DataIsSound DEF QInv, IInv, TypeOK, PromoteWaitlist
<1>2. Hands(Data, Data', {}, "released") /\ {} \in SUBSET DOMAIN bookings
  BY <1>1, PromoteWaitlistAdvances DEF Advances, Hands
<1> DEFINE in == Taking({})
<1>3. /\ in \in SUBSET DOMAIN bookings
      /\ \A i \in in : Ledger[i].phase = "waiting" /\ i \in waitlist \ waitlist'
      /\ Ledger' = [i \in DOMAIN Ledger |->
                      IF i \in {} THEN [Ledger[i] EXCEPT !.phase = "gone"]
                      ELSE IF i \in in
                        THEN [Ledger[i] EXCEPT !.phase = "holding", !.since = now]
                        ELSE Ledger[i]]
  BY <1>1, <1>2, LedgerMoves
<1>4. PICK w : \A a \in waitlist \ waitlist' : a = w
  <2>1. PICK w : \A a \in Data.waitlist \ Promote(Data, x, y).waitlist : a = w
    BY <1>1, PromoteTakesOne
  <2>2. Data.waitlist = waitlist /\ Promote(Data, x, y).waitlist = waitlist'
    BY DEF PromoteWaitlist, Commit, Data
  <2> QED
    BY <2>1, <2>2
<1> HIDE DEF in
<1>5. CASE in = {}
  <2>1. Ledger = [i \in DOMAIN Ledger |-> Ledger[i]]
    BY DEF Ledger
  <2>2. Ledger' = Ledger
    BY <1>3, <1>5, <2>1
  <2> QED
    BY <1>1, <2>2 DEF Quota!quotaVars
<1>6. CASE in # {}
  <2>1. in = {w}
    BY <1>3, <1>4, <1>6
  <2>2. Quota!Cardinality(in) = 1
    BY <2>1, FS_Singleton, SameCount
  <2>3. Quota!WithinCapacity(Ledger)'
    <3>1. (QInv => Quota!WithinCapacity(Ledger))'
      BY NeverOversold, PTL
    <3> QED
      BY <3>1
  <2>4. in \in SUBSET DOMAIN Ledger /\ {} \in SUBSET DOMAIN Ledger /\ {} \cup in # {}
    BY <1>3, <1>6 DEF Ledger
  <2>5. Quota!MayLeave({})
    BY DEF Quota!MayLeave
  <2>6. Quota!HandOver
    BY <1>1, <1>3, <2>2, <2>3, <2>4, <2>5 DEF Quota!HandOver
  <2> QED
    BY <2>6
<1> QED
  BY <1>5, <1>6

\* A payment that comes in time.
LEMMA PayInTimePays ==
    ASSUME QInv, NEW b, PayInTime(b)
    PROVE  Quota!Pay
<1>1. /\ b \in DOMAIN bookings /\ bookings[b].status = "frozen"
      /\ now \in Nat /\ now' = now /\ PaymentTimeout \in Nat
      /\ bookings[b] \in BookingRecord /\ bookings[b].frozenAt \in Nat
      /\ ~(now - bookings[b].frozenAt > PaymentTimeout)
      /\ bookings' = [bookings EXCEPT ![b].status = "confirmed"]
  BY DataIsSound, TimeAssumption
     DEF QInv, IInv, TypeOK, BookingRecord, PayInTime, Known, Expired
<1>2. DOMAIN Ledger = DOMAIN bookings /\ DOMAIN bookings' = DOMAIN bookings
  BY <1>1 DEF Ledger
<1>3. /\ Ledger[b].phase = "holding"
      /\ now - Ledger[b].since <= PaymentTimeout
  <2>1. Ledger[b].phase = PhaseOf(bookings[b]) /\ Ledger[b].since = bookings[b].frozenAt
    BY <1>1 DEF Ledger
  <2> QED
    BY <1>1, <2>1, Phases
<1>4. ASSUME NEW i \in DOMAIN bookings
      PROVE  Ledger'[i] = [Ledger EXCEPT ![b].phase = "paid"][i]
  <2>1. Ledger'[i] = [pool  |-> <<bookings'[i].voyage, bookings'[i].slotType>>,
                      qty   |-> bookings'[i].qty,
                      phase |-> PhaseOf(bookings'[i]),
                      since |-> bookings'[i].frozenAt]
    BY <1>2 DEF Ledger
  <2>2. Ledger[i] = [pool  |-> <<bookings[i].voyage, bookings[i].slotType>>,
                     qty   |-> bookings[i].qty,
                     phase |-> PhaseOf(bookings[i]),
                     since |-> bookings[i].frozenAt]
    BY Entry
  <2>3. CASE i = b
    <3>1. /\ bookings'[i].voyage = bookings[i].voyage
          /\ bookings'[i].slotType = bookings[i].slotType
          /\ bookings'[i].qty = bookings[i].qty
          /\ bookings'[i].frozenAt = bookings[i].frozenAt
          /\ bookings'[i].status = "confirmed"
      BY <1>1, <2>3 DEF BookingRecord
    <3>2. PhaseOf(bookings'[i]) = "paid"
      BY <3>1, Phases DEF Paid
    <3>3. [Ledger EXCEPT ![b].phase = "paid"][i] = [Ledger[i] EXCEPT !.phase = "paid"]
      BY <1>2, <2>3
    <3> QED
      BY <2>1, <2>2, <3>1, <3>2, <3>3
  <2>4. CASE i # b
    <3>1. bookings'[i] = bookings[i]
      BY <1>1, <2>4
    <3>2. [Ledger EXCEPT ![b].phase = "paid"][i] = Ledger[i]
      BY <1>2, <2>4
    <3> QED
      BY <2>1, <2>2, <3>1, <3>2
  <2> QED
    BY <2>3, <2>4
<1>5. Ledger' = [Ledger EXCEPT ![b].phase = "paid"]
  <2> DEFINE L == Ledger'
             M == [Ledger EXCEPT ![b].phase = "paid"]
  <2>1. L = [i \in DOMAIN bookings |-> L[i]]
    BY <1>2 DEF Ledger
  <2>2. M = [i \in DOMAIN bookings |-> M[i]]
    BY <1>2
  <2>3. \A i \in DOMAIN bookings : L[i] = M[i]
    BY <1>4
  <2> HIDE DEF L, M
  <2>4. L = M
    BY <2>1, <2>2, <2>3
  <2> QED
    BY <2>4 DEF L, M
<1> QED
  BY <1>1, <1>2, <1>3, <1>5 DEF Quota!Pay

\* A new booking is the next claim.
LEMMA CreateBookingClaims ==
    ASSUME QInv, QInv', NEW r \in Request, CreateBooking(r)
    PROVE  Quota!Claim
<1> DEFINE b == counter + 1
           v == r.voyage
           t == r.slotType
<1>1. /\ counter \in Nat /\ DOMAIN bookings = 1 .. counter /\ b \in Nat /\ IInv
      /\ b <= MaxBookings /\ MaxBookings \in Nat /\ now' = now
      /\ v \in Voyage /\ t \in SlotType /\ r.qty \in Nat /\ r.qty > 0
  BY DataIsSound, RequestAssumption, BoundAssumption
     DEF QInv, CreateBooking, Admissible, BookingRequest
<1>2. /\ DOMAIN bookings' = 1 .. b
      /\ \A x \in 1 .. counter : bookings'[x] = bookings[x]
      /\ bookings'[b].voyage = v
      /\ bookings'[b].slotType = t
      /\ bookings'[b].qty = r.qty
      /\ \/ bookings'[b].status = "frozen" /\ bookings'[b].frozenAt = now
         \/ /\ bookings'[b].status = "waitlisted"
            /\ ~(r.qty <= Cardinality(FreeSlots(Data, v, t)))
  BY <1>1, CreateBookingMakes
<1>3. Quota!Cardinality(DOMAIN Ledger) = counter
  <2>1. DOMAIN Ledger = 1 .. counter
    BY <1>1 DEF Ledger
  <2>2. Cardinality(1 .. counter) = counter
    BY <1>1, FS_Interval
  <2> QED
    BY <2>1, <2>2, SameCount
<1>4. DOMAIN Ledger' = 1 .. b /\ \A j \in DOMAIN Ledger : Ledger'[j] = Ledger[j]
  <2>1. DOMAIN Ledger' = 1 .. b /\ DOMAIN Ledger = 1 .. counter
    BY <1>1, <1>2 DEF Ledger
  <2>2. ASSUME NEW j \in 1 .. counter PROVE Ledger'[j] = Ledger[j]
    <3>1. j \in 1 .. b /\ bookings'[j] = bookings[j]
      BY <1>1, <1>2
    <3> QED
      BY <1>1, <1>2, <3>1 DEF Ledger
  <2> QED
    BY <2>1, <2>2
<1>5. /\ Ledger'[b].pool = <<v, t>>
      /\ Ledger'[b].qty = r.qty
      /\ Ledger'[b].phase = PhaseOf(bookings'[b])
      /\ Ledger'[b].since = bookings'[b].frozenAt
  <2>1. b \in DOMAIN bookings'
    BY <1>1, <1>2
  <2>2. Ledger'[b] = [pool  |-> <<bookings'[b].voyage, bookings'[b].slotType>>,
                      qty   |-> bookings'[b].qty,
                      phase |-> PhaseOf(bookings'[b]),
                      since |-> bookings'[b].frozenAt]
    BY <2>1 DEF Ledger
  <2> HIDE DEF b, v, t
  <2> QED
    BY <1>2, <2>2
<1>6. \/ Ledger'[b].phase = "holding" /\ Ledger'[b].since = now
      \/ /\ Ledger'[b].phase = "waiting"
         /\ Quota!Used(Ledger, <<v, t>>) + r.qty > Shape[v][t]
  <2>1. CASE bookings'[b].status = "frozen" /\ bookings'[b].frozenAt = now
    BY <1>5, <2>1, Phases
  <2>2. CASE /\ bookings'[b].status = "waitlisted"
             /\ ~(r.qty <= Cardinality(FreeSlots(Data, v, t)))
    <3>1. /\ Quota!Used(Ledger, <<v, t>>) \in Nat
          /\ Quota!Used(Ledger, <<v, t>>) + Cardinality(FreeSlots(Data, v, t)) = Shape[v][t]
      BY <1>1, UsedAndFree
    <3>2. Cardinality(FreeSlots(Data, v, t)) \in Nat
      BY <1>1, TakenOrFree
    <3>3. Quota!Used(Ledger, <<v, t>>) + r.qty > Shape[v][t]
      <4> HIDE DEF v, t
      <4> QED
        BY <1>1, <2>2, <3>1, <3>2
    <3>4. PhaseOf(bookings'[b]) = "waiting"
      BY <2>2, Phases
    <3> QED
      BY <1>5, <3>3, <3>4
  <2> QED
    BY <1>2, <2>1, <2>2
<1>7. Quota!WithinCapacity(Ledger)'
  <2>1. (QInv => Quota!WithinCapacity(Ledger))'
    BY NeverOversold, PTL
  <2> QED
    BY <2>1
<1>8. [p \in Voyage \X SlotType |-> Shape[p[1]][p[2]]][<<v, t>>] = Shape[v][t]
      /\ <<v, t>> \in Voyage \X SlotType
  BY <1>1
<1> HIDE DEF v, t
<1> QED
  BY <1>1, <1>3, <1>4, <1>5, <1>6, <1>7, <1>8 DEF Quota!Claim

-----------------------------------------------------------------------------
\* The refinement.

LEMMA LedgerInit == Init => Quota!QuotaInit
<1> SUFFICES ASSUME Init PROVE Quota!QuotaInit
  OBVIOUS
<1>1. now = 0 /\ bookings = <<>>
  BY DEF Init
<1>2. Ledger = <<>>
  BY <1>1 DEF Ledger
<1> QED
  BY <1>1, <1>2 DEF Quota!QuotaInit

LEMMA LedgerStep == QInv /\ [Next]_vars => [Quota!QuotaNext]_(Quota!quotaVars)
<1> SUFFICES ASSUME QInv, [Next]_vars PROVE Quota!QuotaNext \/ UNCHANGED Quota!quotaVars
  OBVIOUS
<1> DEFINE Implemented == Quota!QuotaNext \/ UNCHANGED Quota!quotaVars
<1>1. QInv'
  BY NextQuota
<1>2. ASSUME UNCHANGED <<now, bookings>> PROVE Implemented
  BY <1>2 DEF Quota!quotaVars, Ledger
<1>3. ASSUME Tick PROVE Implemented
  <2>1. Ledger' = Ledger
    BY <1>3 DEF Tick, Ledger
  <2> QED
    BY <1>3, <2>1 DEF Tick, Quota!Advance, Quota!QuotaNext
<1>4. ASSUME NEW c \in CargoId, CreateCargo(c) \/ ConfirmTemp(c) PROVE Implemented
  BY <1>2, <1>4 DEF CreateCargo, ConfirmTemp
<1>5. ASSUME NEW v \in Voyage, CreateVoyage(v) PROVE Implemented
  BY <1>2, <1>5 DEF CreateVoyage
<1>6. ASSUME NEW r \in Request, CreateBooking(r) PROVE Implemented
  BY <1>1, <1>6, CreateBookingClaims DEF Quota!QuotaNext
<1>7. ASSUME NEW b, PayInTime(b) PROVE Implemented
  BY <1>7, PayInTimePays DEF Quota!QuotaNext
<1>8. ASSUME NEW b, PayLate(b) PROVE Implemented
  BY <1>1, <1>8, PayLateHandsOver DEF Quota!QuotaNext
<1>9. ASSUME NEW b, Cancel(b) PROVE Implemented
  BY <1>1, <1>9, CancelHandsOver DEF Quota!QuotaNext
<1>10. ASSUME NEW v, NEW t, PromoteWaitlist(v, t) PROVE Implemented
  BY <1>1, <1>10, PromoteWaitlistTakesIn DEF Quota!QuotaNext
<1>11. ASSUME ReconcileExpired PROVE Implemented
  BY <1>1, <1>11, ReconcileHandsOver DEF Quota!QuotaNext
<1>12. ASSUME UNCHANGED vars PROVE Implemented
  BY <1>2, <1>12 DEF vars
<1> HIDE DEF Implemented
<1>13. Implemented
  <2>1. CASE ServiceCall
    BY <2>1, <1>4, <1>5, <1>6, <1>7, <1>8, <1>9, <1>10 DEF ServiceCall
  <2> QED
    BY <2>1, <1>3, <1>11, <1>12 DEF Next
<1> QED
  BY <1>13 DEF Implemented

\* No pool of slots is ever oversold: whatever is frozen or paid for a slot type of
\* a voyage adds up to no more than the voyage was provisioned with.
THEOREM PoolsNeverOversold == Spec => []Quota!WithinCapacity(Ledger)
<1>1. Spec => Init /\ [][Next]_vars
  BY DEF Spec
<1> QED
  BY <1>1, InitQuota, NextQuota, NeverOversold, PTL

\* The booking service keeps the ledger of SlotQuota: however slots, waitlist and
\* freezes are shuffled, no pool is oversold, payment is taken inside its window
\* only, and places are handed on to those who queued for them, never more than
\* came free.
THEOREM BookingImplementsQuota == Spec => ImplementsQuota
<1>1. Init => QInv
  BY InitQuota
<1>2. QInv /\ [Next]_vars => QInv'
  BY NextQuota
<1>3. Init => Quota!QuotaInit
  BY LedgerInit
<1>4. QInv /\ [Next]_vars => [Quota!QuotaNext]_(Quota!quotaVars)
  BY LedgerStep
<1> QED
  BY <1>1, <1>2, <1>3, <1>4, PTL DEF Spec, ImplementsQuota, Quota!QuotaSpec
=============================================================================
