--------------------------- MODULE ExchangeProofs ---------------------------
(***************************************************************************)
(* Theorems about Exchange, for any accounts, series, calls, batch size    *)
(* and fees: plans and their events, exposure, the margin an account       *)
(* reserves.  MoneyProofs has those about its money.                       *)
(***************************************************************************)
EXTENDS Exchange, SumProofs, FiniteSetTheorems, SequenceTheorems, TLAPS

(* A record with the fields of a settlement plan, whatever their values. *)
Shaped(plan) ==
    plan = [settlement |-> plan.settlement, positions |-> plan.positions,
            cursor |-> plan.cursor, status |-> plan.status,
            fee |-> plan.fee, insurance_fee |-> plan.insurance_fee]

(* A plan whose cursor is within its snapshots, at their end if finalised. *)
PlanOK(plan) ==
    /\ Shaped(plan)
    /\ Len(plan.positions) \in Nat
    /\ plan.cursor \in 0..Len(plan.positions)
    /\ plan.status = "Finalised" => plan.cursor = Len(plan.positions)

PlansOK == \A s \in DOMAIN settlement_plans : PlanOK(settlement_plans[s])

(* Suspended methods hold one of the clients' requests. *)
CallsOK ==
    /\ DOMAIN call = CallId
    /\ \A c \in CallId : call[c] # None => call[c].req \in Request

FinitePositions == IsFiniteSet(DOMAIN positions)

PlanInv == CallsOK /\ FinitePositions /\ PlansOK

Shapes(S, P, C, T, F, I) ==
    [settlement : S, positions : P, cursor : C, status : T, fee : F, insurance_fee : I]

LEMMA ShapeOf ==
    ASSUME NEW S, NEW P, NEW C, NEW T, NEW F, NEW I, NEW plan \in Shapes(S, P, C, T, F, I)
    PROVE  Shaped(plan)
BY DEF Shaped, Shapes

LEMMA ShapeKept ==
    ASSUME NEW S, NEW P, NEW C, NEW T, NEW F, NEW I, NEW plan \in Shapes(S, P, C, T, F, I),
           NEW c \in C, NEW t \in T
    PROVE  [plan EXCEPT !.cursor = c, !.status = t] \in Shapes(S, P, C, T, F, I)
BY DEF Shapes

(* Moving a plan's cursor and status leaves it a plan. *)
Moved(plan, c, t) == [plan EXCEPT !.cursor = c, !.status = t]

LEMMA MovedFields ==
    ASSUME NEW plan, Shaped(plan), NEW c, NEW t
    PROVE  /\ Shaped(Moved(plan, c, t))
           /\ Moved(plan, c, t).positions = plan.positions
           /\ Moved(plan, c, t).cursor = c
           /\ Moved(plan, c, t).status = t
<1> DEFINE S == {plan.settlement}
           P == {plan.positions}
           C == {plan.cursor, c}
           T == {plan.status, t}
           F == {plan.fee}
           I == {plan.insurance_fee}
           new == [plan EXCEPT !.cursor = c, !.status = t]
<1>1. plan \in Shapes(S, P, C, T, F, I)
    BY DEF Shaped, Shapes
<1>2. c \in C /\ t \in T
    OBVIOUS
<1> HIDE DEF S, P, C, T, F, I
<1>3. new \in Shapes(S, P, C, T, F, I)
    BY <1>1, <1>2, ShapeKept
<1>4. new.positions = plan.positions /\ new.cursor = c /\ new.status = t
    BY <1>1 DEF Shapes
<1>5. new = Moved(plan, c, t)
    BY DEF Moved
<1> HIDE DEF new
<1>6. Shaped(new)
    BY <1>3, ShapeOf
<1> QED BY <1>4, <1>5, <1>6

LEMMA SameShaped ==
    ASSUME NEW plan, Shaped(plan)
    PROVE  plan = [plan EXCEPT !.cursor = plan.cursor, !.status = plan.status]
BY DEF Shaped

-----------------------------------------------------------------------------
(* Chunks. *)

LEMMA RoundUp ==
    ASSUME NEW c \in Nat, NEW b \in Nat \ {0}
    PROVE  (c \div b + 1) * b \in Nat /\ (c \div b + 1) * b > c
<1> DEFINE q == c \div b
           r == c % b
<1>1. q \in Nat /\ r \in 0..(b - 1) /\ c = b * q + r
    OBVIOUS
<1>2. (q + 1) * b = b * q + b
    BY <1>1
<1>3. b * q \in Nat
    BY <1>1
<1> QED BY <1>1, <1>2, <1>3

(* A chunk ends after it starts, and within the snapshots. *)
LEMMA ChunkEndType ==
    ASSUME NEW plan, PlanOK(plan)
    PROVE  ChunkEnd(plan) \in plan.cursor..Len(plan.positions)
<1> DEFINE n == Len(plan.positions)
           m == (plan.cursor \div Batch + 1) * Batch
<1>1. n \in Nat /\ plan.cursor \in 0..n
    BY DEF PlanOK
<1>2. m \in Nat /\ m > plan.cursor
    <2>1. Batch \in Nat \ {0} /\ plan.cursor \in Nat
        BY <1>1, SettlementAssumption
    <2> QED BY <2>1, RoundUp
<1> HIDE DEF n, m
<1>3. \E x \in {n, m} : \A y \in {n, m} : x <= y
    BY <1>1, <1>2
<1>4. Min({n, m}) \in {n, m} /\ \A y \in {n, m} : Min({n, m}) <= y
    BY <1>3 DEF Min
<1>5. Min({n, m}) \in plan.cursor..n
    BY <1>1, <1>2, <1>4
<1> QED BY <1>5 DEF ChunkEnd, n, m

(* What Advance makes of its plan. *)
Advanced(plan) ==
    Moved(plan, ChunkEnd(plan), IF Completes(plan) THEN "Finalised" ELSE "Executing")

(* Applying a chunk keeps a plan well-formed. *)
LEMMA AdvancePlan ==
    ASSUME NEW s \in SeriesId, NEW plan, PlanOK(plan), PlansOK,
           NEW released, NEW armed, Advance(s, plan, released, armed)
    PROVE  /\ PlansOK'
           /\ DOMAIN settlement_plans' = DOMAIN settlement_plans \cup {s}
           /\ \A x \in DOMAIN settlement_plans \ {s} :
                 settlement_plans'[x] = settlement_plans[x]
           /\ settlement_plans'[s] = Advanced(plan)
<1> DEFINE new == Advanced(plan)
<1>1. settlement_plans' = Put(settlement_plans, s, new)
    BY DEF Advance, Advanced, Moved
<1>2. Shaped(new) /\ new.positions = plan.positions /\ new.cursor = ChunkEnd(plan)
      /\ new.status = IF Completes(plan) THEN "Finalised" ELSE "Executing"
    BY MovedFields DEF Advanced, PlanOK
<1> HIDE DEF new
<1>3. PlanOK(new)
    BY <1>2, ChunkEndType DEF PlanOK, Completes
<1>4. /\ DOMAIN settlement_plans' = DOMAIN settlement_plans \cup {s}
      /\ \A x \in DOMAIN settlement_plans \ {s} : settlement_plans'[x] = settlement_plans[x]
      /\ settlement_plans'[s] = new
    BY <1>1 DEF Put
<1>5. PlansOK'
    BY <1>3, <1>4 DEF PlansOK, PlanOK
<1> QED BY <1>4, <1>5 DEF new

(* Settlement snapshots a finite set of positions into a sequence. *)
LEMMA NewPlanOK ==
    ASSUME FinitePositions, NEW s, NEW input
    PROVE  PlanOK(NewPlan(s, input)) /\ NewPlan(s, input).cursor = 0
<1> DEFINE K == PositionsOf(s)
           keys == SetToSeq(K)
           snaps == Snapshots(s, input)
<1>1. IsFiniteSet(K)
    BY FS_Subset DEF PositionsOf, FinitePositions
<1>2. Cardinality(K) \in Nat /\ ExistsBijection(1..Cardinality(K), K)
    BY <1>1, FS_CardinalityType
<1>3. PICK f \in Bijection(1..Cardinality(K), K) : TRUE
    BY <1>2 DEF ExistsBijection
<1>4. f \in [1..Cardinality(K) -> K] /\ IsInjective(f)
    BY <1>3 DEF Bijection, Injection, IsInjective
<1>5. keys \in [1..Cardinality(K) -> K]
    BY <1>4 DEF SetToSeq
<1>6. keys \in Seq(K) /\ Len(keys) = Cardinality(K)
    BY <1>2, <1>5
<1>7. snaps = [i \in 1..Cardinality(K) |-> Snapshot(keys[i], input)]
    BY <1>6 DEF Snapshots
<1> HIDE DEF keys, snaps, K
<1>8. Len(snaps) = Cardinality(K)
    BY <1>2, <1>7
<1>9. Shaped(NewPlan(s, input)) /\ NewPlan(s, input).positions = snaps /\ NewPlan(s, input).cursor = 0
      /\ NewPlan(s, input).status = "Executing"
    BY DEF NewPlan, snaps, Shaped
<1> QED BY <1>2, <1>8, <1>9 DEF PlanOK

-----------------------------------------------------------------------------
(* What a method's effect does to the keys of positions. *)

(* A complete set has finitely many keys. *)
LEMMA SetKeysFinite ==
    ASSUME NEW r, r.series \in SeriesId
    PROVE  IsFiniteSet(SetKeys(r)) /\ \A k \in SetKeys(r) : k[2] = r.series
<1> DEFINE O == Listing[r.series].outcomes
           f == [k \in SetKeys(r) |-> k[3]]
<1>1. IsFiniteSet(O)
    BY BookAssumption
<1>2. \A k \in SetKeys(r) : k = <<r.user, r.series, k[3]>> /\ k[3] \in O
    BY DEF SetKeys
<1>3. f \in Injection(SetKeys(r), O)
    BY <1>2 DEF Injection, IsInjective
<1>4. IsFiniteSet(SetKeys(r))
    BY <1>1, <1>3, FS_Injection
<1> QED BY <1>2, <1>4

(* A trade opens at most the two parties' positions in the trade's series. *)
LEMMA TradeKeys ==
    ASSUME NEW t, ApplyTrade(t)
    PROVE  \E K : /\ IsFiniteSet(K) /\ \A k \in K : k[2] = t.series
                  /\ DOMAIN positions' \subseteq DOMAIN positions \cup K
<1> DEFINE b == BuyerLeg(t).key
           s == SellerLeg(t).key
<1>1. b[2] = t.series /\ s[2] = t.series
    BY DEF BuyerLeg, SellerLeg, Leg
<1>2. DOMAIN positions' = DOMAIN positions \cup {b, s}
    BY DEF ApplyTrade, Put
<1>3. IsFiniteSet({b} \cup {s})
    BY FS_Singleton, FS_AddElement
<1>4. {b} \cup {s} = {b, s}
    OBVIOUS
<1> QED BY <1>1, <1>2, <1>3, <1>4

(* The effect of a method opens finitely many positions, in its series. *)
LEMMA PerformKeys ==
    ASSUME NEW r \in Request, NEW seen, Perform(r, seen)
    PROVE  \E K : /\ IsFiniteSet(K) /\ \A k \in K : k[2] = SeriesOf(r)
                  /\ DOMAIN positions' \subseteq DOMAIN positions \cup K
<1> DEFINE Grows(K) == /\ IsFiniteSet(K) /\ \A k \in K : k[2] = SeriesOf(r)
                       /\ DOMAIN positions' \subseteq DOMAIN positions \cup K
<1>1. ASSUME UNCHANGED positions PROVE Grows({})
    BY <1>1, FS_EmptySet
<1>2. r \in Requests
    BY TradingAssumption
<1>3. CASE r.op = "limit"
    BY <1>1, <1>3 DEF Perform, PlaceOrder, tradeState, book
<1>4. CASE r.op = "market"
    <2>1. FillOrder(r, seen)
        BY <1>4 DEF Perform
    <2>2. CASE FillAllowed(r, seen)
        <3> DEFINE t == FillTrade(r, limit_orders[r.order])
        <3>1. ApplyTrade(t)
            BY <2>1, <2>2 DEF FillOrder
        <3>2. t.series = SeriesOf(r)
            BY <1>4 DEF FillTrade, SeriesOf
        <3> QED BY <3>1, <3>2, TradeKeys
    <2> QED BY <1>1, <2>1, <2>2 DEF FillOrder, tradeState, book
<1>5. CASE r.op = "matched"
    <2> DEFINE t == [series |-> r.series, outcome |-> r.outcome, trade |-> r.trade,
                     buyer |-> r.buyer, seller |-> r.seller, qty |-> r.qty,
                     price |-> r.price, b_unblock |-> r.b_unblock, s_unblock |-> r.s_unblock]
    <2>1. MatchedTrade(r)
        BY <1>5 DEF Perform
    <2>2. CASE TradeAllowed(t)
        <3>1. ApplyTrade(t)
            BY <2>1, <2>2 DEF MatchedTrade
        <3>2. t.series = SeriesOf(r)
            BY <1>5 DEF SeriesOf
        <3> QED BY <3>1, <3>2, TradeKeys
    <2> QED BY <1>1, <2>1, <2>2 DEF MatchedTrade, tradeState, book
<1>6. CASE r.op = "mint"
    <2>1. MintSet(r) /\ r.series = SeriesOf(r) /\ r.series \in SeriesId
        BY <1>2, <1>6 DEF Perform, SeriesOf, Requests
    <2>2. CASE MintAllowed(r)
        BY <2>1, <2>2, SetKeysFinite DEF MintSet
    <2> QED BY <1>1, <2>1, <2>2 DEF MintSet, tradeState, book
<1>7. CASE r.op = "redeem"
    <2>1. RedeemSet(r)
        BY <1>7 DEF Perform
    <2>2. DOMAIN positions' = DOMAIN positions
        BY <2>1 DEF RedeemSet, tradeState, book
    <2> QED BY <2>2, FS_EmptySet
<1>8. CASE r.op = "accept"
    <2> DEFINE k == <<r.user, r.series, r.outcome>>
    <2>1. AcceptTransfer(r) /\ r.series = SeriesOf(r)
        BY <1>8 DEF Perform, SeriesOf
    <2>2. DOMAIN positions' \subseteq DOMAIN positions \cup {k}
        BY <2>1 DEF AcceptTransfer, Put, tradeState, book
    <2>3. IsFiniteSet({k})
        BY FS_Singleton
    <2>4. \A j \in {k} : j[2] = SeriesOf(r)
        BY <2>1
    <2> QED BY <2>2, <2>3, <2>4
<1> QED BY <1>2, <1>3, <1>4, <1>5, <1>6, <1>7, <1>8 DEF Requests

(* Every action keeps the positions finite and the suspended calls clients'
   requests. *)
LEMMA ContinueKeeps ==
    ASSUME PlanInv, NEW c \in CallId, NEW r \in Request, NEW s, NEW seen,
           Continue(c, r, s, seen)
    PROVE  CallsOK' /\ FinitePositions'
<1>1. \/ UNCHANGED tradeState
      \/ Perform(r, seen)
    BY DEF Continue
<1>2. FinitePositions'
    <2>1. CASE UNCHANGED tradeState
        BY <2>1 DEF tradeState, book, PlanInv, FinitePositions
    <2>2. CASE Perform(r, seen)
        <3>1. PICK K : IsFiniteSet(K) /\ DOMAIN positions' \subseteq DOMAIN positions \cup K
            BY <2>2, PerformKeys
        <3>2. IsFiniteSet(DOMAIN positions \cup K)
            BY <3>1, FS_Union DEF PlanInv, FinitePositions
        <3> QED BY <3>1, <3>2, FS_Subset DEF FinitePositions
    <2> QED BY <1>1, <2>1, <2>2
<1>3. CallsOK'
    <2>1. CASE Return(c)
        BY <2>1 DEF Return, PlanInv, CallsOK
    <2>2. CASE Await(c, r, s, seen, "access")
        BY <2>2 DEF Await, PlanInv, CallsOK
    <2> QED BY <2>1, <2>2 DEF Continue
<1> QED BY <1>2, <1>3

-----------------------------------------------------------------------------
(* The steps, sorted by what they do to plans. *)

(* Trading never touches a plan. *)
LEMMA TradingKeeps ==
    ASSUME PlanInv, TradingNext
    PROVE  CallsOK' /\ FinitePositions' /\ UNCHANGED settlement_plans
<1> USE DEF PlanInv
<1>1. ASSUME NEW c \in CallId, NEW r \in Request, Submit(c, r)
      PROVE  CallsOK' /\ FinitePositions' /\ UNCHANGED settlement_plans
    <2>1. CASE SeriesOf(r) \in series_cache
        BY <1>1, <2>1, ContinueKeeps DEF Submit
    <2>2. CASE SeriesOf(r) \notin series_cache
        <3>1. FinitePositions' /\ UNCHANGED settlement_plans
            BY <1>1, <2>2 DEF Submit, tradeState, book, FinitePositions
        <3>2. CallsOK'
            BY <1>1, <2>2 DEF Submit, Await, CallsOK
        <3> QED BY <3>1, <3>2
    <2> QED BY <2>1, <2>2
<1>2. ASSUME NEW c \in CallId, RegistryAnswers(c)
      PROVE  CallsOK' /\ FinitePositions' /\ UNCHANGED settlement_plans
    <2>1. call[c].req \in Request
        BY <1>2 DEF RegistryAnswers, CallsOK
    <2> QED BY <1>2, <2>1, ContinueKeeps DEF RegistryAnswers
<1>3. ASSUME NEW c \in CallId, AccessGranted(c)
      PROVE  CallsOK' /\ FinitePositions' /\ UNCHANGED settlement_plans
    <2>1. call[c].req \in Request
        BY <1>3 DEF AccessGranted, CallsOK
    <2>2. PICK K : IsFiniteSet(K) /\ DOMAIN positions' \subseteq DOMAIN positions \cup K
        BY <1>3, <2>1, PerformKeys DEF AccessGranted
    <2>3. FinitePositions'
        BY <2>2, FS_Union, FS_Subset DEF FinitePositions
    <2>4. CallsOK'
        BY <1>3 DEF AccessGranted, Return, CallsOK
    <2> QED BY <1>3, <2>3, <2>4 DEF AccessGranted
<1>4. ASSUME NEW c \in CallId, RegistryRefuses(c)
      PROVE  CallsOK' /\ FinitePositions' /\ UNCHANGED settlement_plans
    BY <1>4 DEF RegistryRefuses, Return, CallsOK, FinitePositions, tradeState, book
<1>5. ASSUME NEW id, CancelOrder(id)
      PROVE  CallsOK' /\ FinitePositions' /\ UNCHANGED settlement_plans
    BY <1>5 DEF CancelOrder, tradingVars, CallsOK, FinitePositions
<1>6. ASSUME NEW id, NEW k, FreezePosition(id, k)
      PROVE  CallsOK' /\ FinitePositions' /\ UNCHANGED settlement_plans
    <2>1. DOMAIN positions' \subseteq DOMAIN positions
        BY <1>6 DEF FreezePosition, Without, Restrict
    <2>2. FinitePositions'
        BY <2>1, FS_Subset DEF FinitePositions
    <2> QED BY <1>6, <2>2 DEF FreezePosition, CallsOK
<1>7. ASSUME NEW s \in SeriesId, WindowMoves(s)
      PROVE  CallsOK' /\ FinitePositions' /\ UNCHANGED settlement_plans
    BY <1>7 DEF WindowMoves, CallsOK, FinitePositions, tradeState, book
<1> QED BY <1>1, <1>2, <1>3, <1>4, <1>5, <1>6, <1>7 DEF TradingNext

(* A step of settlement leaves every plan alone, writes the missing rows of
   old ones, opens one, or advances one. *)
Quiet == UNCHANGED <<positions, limit_orders, series_cache, settlement_plans, settled_events>>

Opens(s, input) ==
    /\ NotSettled(s)
    /\ positions' = Without(positions, PositionsOf(s))
    /\ limit_orders' = Without(limit_orders, OrdersOf(s))
    /\ \E released, armed : Advance(s, NewPlan(s, input), released, armed)

Resumes(s) ==
    /\ s \in InFlight
    /\ UNCHANGED <<positions, limit_orders>>
    /\ \E released, armed : Advance(s, settlement_plans[s], released, armed)

LEMMA SettlementSteps ==
    ASSUME SettlementNext
    PROVE  \/ Quiet
           \/ \E D : BackfillSettlementEvents(D)
           \/ \E s \in SeriesId : Resumes(s) \/ \E input : Opens(s, input)
<1>1. ASSUME NEW s \in SeriesId, NEW input, SettleSeries(s, input)
      PROVE  Opens(s, input)
    BY <1>1 DEF SettleSeries, Opens
<1>2. ASSUME NEW s \in SeriesId, NEW input, NEW armed, ResumeSettlement(s, input, armed)
      PROVE  Resumes(s)
    BY <1>2 DEF ResumeSettlement, Resumes
<1>3. ASSUME NEW s \in SeriesId, TimerFires(s)
      PROVE  Quiet \/ Resumes(s)
    BY <1>2, <1>3 DEF TimerFires, Quiet, book
<1>4. ASSUME NEW s \in SeriesId, TimerTraps(s)
      PROVE  Quiet
    BY <1>4 DEF TimerTraps, Quiet, book
<1>5. ASSUME Heartbeat
      PROVE  Quiet
    BY <1>5 DEF Heartbeat, Quiet, book
<1> QED BY <1>1, <1>2, <1>3, <1>4, <1>5 DEF SettlementNext

(* The invariant of plans. *)
LEMMA InitPlanInv ==
    ASSUME Init
    PROVE  PlanInv
<1>1. CallsOK
    BY DEF Init, TradingInit, CallsOK
<1>2. FinitePositions
    BY FS_EmptySet DEF Init, BookInit, EmptyMap, FinitePositions
<1>3. PlansOK
    <2> SUFFICES ASSUME NEW s \in DOMAIN LegacyPlans
                 PROVE  PlanOK(LegacyPlans[s])
        BY DEF Init, SettlementInit, PlansOK
    <2> DEFINE plan == LegacyPlans[s]
    <2>1. /\ plan \in SettlementPlan
          /\ plan.cursor <= Len(plan.positions)
          /\ plan.status = "Finalised" => plan.cursor = Len(plan.positions)
        BY SettlementAssumption
    <2> HIDE DEF plan
    <2>2. plan.positions \in Seq(SettlementPosition) /\ plan.cursor \in Nat
        BY <2>1 DEF SettlementPlan
    <2>3. Shaped(plan)
        BY <2>1 DEF SettlementPlan, Shaped
    <2>4. PlanOK(plan)
        BY <2>1, <2>2, <2>3 DEF PlanOK
    <2> QED BY <2>4 DEF plan
<1> QED BY <1>1, <1>2, <1>3 DEF PlanInv

LEMMA NextPlanInv ==
    ASSUME PlanInv, [Next]_vars
    PROVE  PlanInv' /\ PlansKept
<1>1. ASSUME UNCHANGED settlement_plans
      PROVE  PlansOK' /\ PlansKept
    <2>1. PlansOK'
        BY <1>1 DEF PlanInv, PlansOK, PlanOK
    <2>2. ASSUME NEW s \in DOMAIN settlement_plans PROVE PlanKept(s)
        <3> DEFINE plan == settlement_plans[s]
        <3>1. PlanOK(plan)
            BY DEF PlanInv, PlansOK
        <3> HIDE DEF plan
        <3>2. Shaped(plan) /\ plan.cursor >= plan.cursor
            BY <3>1 DEF PlanOK
        <3>3. plan = [plan EXCEPT !.cursor = plan.cursor, !.status = plan.status]
            BY <3>2, SameShaped
        <3> QED BY <1>1, <3>2, <3>3 DEF PlanKept, plan
    <2> QED BY <2>1, <2>2 DEF PlansKept
<1>2. CASE TradingNext
    BY <1>1, <1>2, TradingKeeps DEF PlanInv
<1>3. CASE SettlementNext /\ UNCHANGED tradingVars
    <2>1. CallsOK'
        BY <1>3 DEF tradingVars, PlanInv, CallsOK
    <2>2. CASE Quiet
        BY <1>1, <2>1, <2>2 DEF Quiet, PlanInv, FinitePositions
    <2>6. ASSUME NEW D, BackfillSettlementEvents(D) PROVE PlanInv' /\ PlansKept
        BY <1>1, <2>1, <2>6 DEF BackfillSettlementEvents, book, PlanInv, FinitePositions
    <2>3. ASSUME NEW s \in SeriesId, NEW plan, PlanOK(plan), NEW released, NEW armed,
                 Advance(s, plan, released, armed),
                 s \in DOMAIN settlement_plans =>
                     s \in InFlight /\ plan = settlement_plans[s]
          PROVE  PlansOK' /\ PlansKept
        <3>1. PlansOK'
            BY <2>3, AdvancePlan DEF PlanInv
        <3>2. ASSUME NEW x \in DOMAIN settlement_plans PROVE PlanKept(x)
            <4>1. PlanOK(settlement_plans[x])
                BY DEF PlanInv, PlansOK
            <4>2. CASE x # s
                <5> DEFINE old == settlement_plans[x]
                <5>1. Shaped(old) /\ old.cursor >= old.cursor
                    BY <4>1 DEF PlanOK
                <5>2. settlement_plans'[x] = old /\ x \in DOMAIN settlement_plans'
                    BY <2>3, <4>2, AdvancePlan DEF PlanInv
                <5> HIDE DEF old
                <5>3. old = [old EXCEPT !.cursor = old.cursor, !.status = old.status]
                    BY <5>1, SameShaped
                <5> QED BY <5>1, <5>2, <5>3 DEF PlanKept, old
            <4>3. CASE x = s
                <5>1. plan = settlement_plans[s] /\ plan.status # "Finalised"
                    BY <2>3, <4>3 DEF InFlight, Finalised, NotSettled
                <5> DEFINE new == Advanced(plan)
                           t == IF Completes(plan) THEN "Finalised" ELSE "Executing"
                <5>2. settlement_plans'[s] = new /\ s \in DOMAIN settlement_plans'
                    BY <2>3, AdvancePlan DEF PlanInv
                <5>3. new.cursor = ChunkEnd(plan) /\ new.status = t
                    BY <2>3, MovedFields DEF Advanced, PlanOK
                <5>5. new = [plan EXCEPT !.cursor = new.cursor, !.status = new.status]
                    BY <5>3 DEF Advanced, Moved
                <5>4. ChunkEnd(plan) >= plan.cursor
                    BY <2>3, ChunkEndType DEF PlanOK
                <5> HIDE DEF new
                <5> QED BY <4>3, <5>1, <5>2, <5>3, <5>4, <5>5 DEF PlanKept
            <4> QED BY <4>2, <4>3
        <3> QED BY <3>1, <3>2 DEF PlansKept
    <2>4. ASSUME NEW s \in SeriesId, Resumes(s) PROVE PlanInv' /\ PlansKept
        <3>1. PlanOK(settlement_plans[s])
            BY <2>4 DEF Resumes, InFlight, PlanInv, PlansOK
        <3>2. PlansOK' /\ PlansKept
            BY <2>3, <2>4, <3>1 DEF Resumes
        <3> QED BY <2>1, <2>4, <3>2 DEF Resumes, PlanInv, FinitePositions
    <2>5. ASSUME NEW s \in SeriesId, NEW input, Opens(s, input) PROVE PlanInv' /\ PlansKept
        <3>1. PlanOK(NewPlan(s, input))
            BY NewPlanOK DEF PlanInv
        <3>2. PlansOK' /\ PlansKept
            BY <2>3, <2>5, <3>1 DEF Opens, NotSettled
        <3>3. DOMAIN positions' \subseteq DOMAIN positions
            BY <2>5 DEF Opens, Without, Restrict
        <3>4. FinitePositions'
            BY <3>3, FS_Subset DEF PlanInv, FinitePositions
        <3> QED BY <2>1, <3>2, <3>4 DEF PlanInv
    <2> QED BY <1>3, <2>2, <2>4, <2>5, <2>6, SettlementSteps
<1>4. CASE Upgrade
    BY <1>1, <1>4 DEF Upgrade, PlanInv, CallsOK, FinitePositions, book
<1>5. CASE UNCHANGED vars
    BY <1>1, <1>5 DEF vars, book, tradingVars, PlanInv, CallsOK, FinitePositions
<1> QED BY <1>2, <1>3, <1>4, <1>5 DEF Next

(* settle_series_inner, its timers and retries: whatever calls interleave, a
   plan keeps its input, snapshots and fees, its cursor never goes back, and
   a finalised plan is final. *)
THEOREM PlansFinal == Spec => PlansAreFinal
<1>1. Init => PlanInv
    BY InitPlanInv
<1>2. PlanInv /\ [Next]_vars => PlanInv'
    BY NextPlanInv
<1>3. PlanInv /\ [Next]_vars => [PlansKept]_vars
    BY NextPlanInv
<1> QED BY <1>1, <1>2, <1>3, PTL DEF Spec, PlansAreFinal

-----------------------------------------------------------------------------
(* Settled rows.  A series' rows run from some plan position, 1 if this
   version opened the plan, to its cursor. *)

Applied(s) == IF s \in DOMAIN settlement_plans THEN settlement_plans[s].cursor ELSE 0

Rows(a, b) == [i \in 1..(b - a) |-> a + i]

RowsFrom(s, a) ==
    /\ settled_events[s] = Rows(a, Applied(s))
    /\ a <= Applied(s)
    /\ s \notin DOMAIN LegacyPlans => a = 0

EventsOK ==
    /\ DOMAIN settled_events = SeriesId
    /\ \A s \in SeriesId : \E a \in Nat : RowsFrom(s, a)

LEMMA RowsSeq ==
    ASSUME NEW a \in Nat, NEW b \in Nat, a <= b
    PROVE  Rows(a, b) \in Seq(Nat) /\ Len(Rows(a, b)) = b - a /\ IsInjective(Rows(a, b))
<1>1. b - a \in Nat
    OBVIOUS
<1>2. Rows(a, b) \in Seq(Nat) /\ Len(Rows(a, b)) = b - a
    BY <1>1 DEF Rows
<1>3. IsInjective(Rows(a, b))
    BY <1>1 DEF Rows, IsInjective
<1> QED BY <1>2, <1>3

LEMMA RowsConcat ==
    ASSUME NEW a \in Nat, NEW b \in Nat, NEW c \in Nat, a <= b, b <= c
    PROVE  Rows(a, b) \o Rows(b, c) = Rows(a, c)
<1> DEFINE x == Rows(a, b)
           y == Rows(b, c)
           z == Rows(a, c)
<1>0. a <= c
    OBVIOUS
<1>1. /\ x \in Seq(Nat) /\ Len(x) = b - a
      /\ y \in Seq(Nat) /\ Len(y) = c - b
      /\ z \in Seq(Nat) /\ Len(z) = c - a
    <2>1. x \in Seq(Nat) /\ Len(x) = b - a
        BY RowsSeq
    <2>2. y \in Seq(Nat) /\ Len(y) = c - b
        BY RowsSeq
    <2>3. z \in Seq(Nat) /\ Len(z) = c - a
        BY <1>0, RowsSeq
    <2> QED BY <2>1, <2>2, <2>3
<1>2. /\ \A i \in 1..(b - a) : x[i] = a + i
      /\ \A i \in 1..(c - b) : y[i] = b + i
      /\ \A i \in 1..(c - a) : z[i] = a + i
    BY DEF Rows
<1> HIDE DEF x, y, z
<1>3. x \o y \in Seq(Nat) /\ Len(x \o y) = Len(z)
    BY <1>1
<1>4. ASSUME NEW i \in 1..Len(z) PROVE (x \o y)[i] = z[i]
    <2>1. (x \o y)[i] = IF i <= Len(x) THEN x[i] ELSE y[i - Len(x)]
        BY SMTT(30), <1>1
    <2>2. CASE i <= b - a
        BY <1>1, <1>2, <2>1, <2>2
    <2>3. CASE i > b - a
        <3>1. i - (b - a) \in 1..(c - b)
            BY <1>1, <2>3
        <3>2. y[i - (b - a)] = b + (i - (b - a))
            BY <1>2, <3>1
        <3> QED BY <1>1, <1>2, <2>1, <2>3, <3>2
    <2> QED BY <1>1, <2>2, <2>3
<1>5. x \o y = z
    BY <1>1, <1>3, <1>4, SeqEqual
<1> QED BY <1>5 DEF x, y, z

(* A chunk writes the rows from the cursor to its end. *)
LEMMA ChunkRows ==
    ASSUME NEW plan, PlanOK(plan)
    PROVE  ChunkEvents(plan) = Rows(plan.cursor, ChunkEnd(plan))
<1> DEFINE b == plan.cursor
           c == ChunkEnd(plan)
<1>1. b \in Nat /\ c \in Nat /\ b <= c
    BY ChunkEndType DEF PlanOK
<1>2. Chunk(plan) = (b + 1)..c
    BY DEF Chunk
<1>3. ChunkEvents(plan) = [i \in 1..Cardinality(Chunk(plan)) |-> b + i]
    BY DEF ChunkEvents
<1> HIDE DEF b, c
<1>4. b + 1 \in Int /\ c \in Int
    BY <1>1
<1>5. Cardinality((b + 1)..c) = IF b + 1 > c THEN 0 ELSE c - (b + 1) + 1
    BY <1>4, FS_Interval
<1>6. Cardinality(Chunk(plan)) = c - b
    BY <1>1, <1>2, <1>5
<1> QED BY <1>3, <1>6 DEF Rows, b, c

EventInv == PlanInv /\ EventsOK

LEMMA AdvanceRows ==
    ASSUME EventInv, NEW s \in SeriesId, NEW plan, PlanOK(plan), plan.cursor = Applied(s),
           NEW released, NEW armed, Advance(s, plan, released, armed)
    PROVE  EventsOK'
<1>0. /\ DOMAIN settlement_plans' = DOMAIN settlement_plans \cup {s}
      /\ \A x \in DOMAIN settlement_plans \ {s} : settlement_plans'[x] = settlement_plans[x]
      /\ settlement_plans'[s] = Advanced(plan)
    BY AdvancePlan DEF EventInv, PlanInv
<1>1. DOMAIN settled_events' = SeriesId
      /\ settled_events'[s] = settled_events[s] \o ChunkEvents(plan)
      /\ \A x \in SeriesId \ {s} : settled_events'[x] = settled_events[x]
    BY DEF Advance, EventInv, EventsOK
<1>2. ASSUME NEW x \in SeriesId, x # s
      PROVE  \E a \in Nat : RowsFrom(x, a)'
    <2>1. Applied(x)' = Applied(x)
        BY <1>0, <1>2 DEF Applied
    <2>2. settled_events'[x] = settled_events[x]
        BY <1>1, <1>2
    <2> QED BY <2>1, <2>2 DEF EventInv, EventsOK, RowsFrom
<1>3. \E a \in Nat : RowsFrom(s, a)'
    <2>1. PICK a \in Nat : RowsFrom(s, a)
        BY DEF EventInv, EventsOK
    <2> DEFINE b == plan.cursor
               c == ChunkEnd(plan)
    <2>2. b \in Nat /\ c \in Nat /\ b <= c
        BY ChunkEndType DEF PlanOK
    <2>3. Applied(s)' = c
        <3>1. Advanced(plan).cursor = c
            BY MovedFields DEF Advanced, PlanOK
        <3> QED BY <1>0, <3>1 DEF Applied
    <2>4. settled_events[s] = Rows(a, b) /\ a <= b
        BY <2>1 DEF RowsFrom
    <2>5. settled_events'[s] = Rows(a, b) \o Rows(b, c)
        BY <1>1, <2>4, ChunkRows
    <2> HIDE DEF b, c
    <2>6. a <= c
        BY <2>2, <2>4
    <2>7. settled_events'[s] = Rows(a, c)
        BY <2>2, <2>4, <2>5, RowsConcat
    <2>8. RowsFrom(s, a)'
        BY <2>1, <2>3, <2>6, <2>7 DEF RowsFrom
    <2> QED BY <2>8
<1> QED BY <1>1, <1>2, <1>3 DEF EventsOK

LEMMA NextEventInv ==
    ASSUME EventInv, [Next]_vars
    PROVE  EventInv'
<1> SUFFICES EventsOK'
    BY NextPlanInv DEF EventInv
<1>2. ASSUME UNCHANGED <<settlement_plans, settled_events>>
      PROVE  EventsOK'
    BY <1>2 DEF EventInv, EventsOK, RowsFrom, Applied
<1>3. ASSUME NEW D, BackfillSettlementEvents(D)
      PROVE  EventsOK'
    <2>1. DOMAIN settled_events' = SeriesId /\ UNCHANGED settlement_plans
        BY <1>3 DEF BackfillSettlementEvents
    <2>2. ASSUME NEW s \in SeriesId
          PROVE  \E a \in Nat : RowsFrom(s, a)'
        <3>1. PICK a \in Nat : RowsFrom(s, a)
            BY DEF EventInv, EventsOK
        <3>2. Applied(s)' = Applied(s)
            BY <2>1 DEF Applied
        <3>3. CASE settled_events'[s] = settled_events[s]
            BY <3>1, <3>2, <3>3 DEF RowsFrom
        <3>4. CASE settled_events'[s] # settled_events[s]
            <4> DEFINE n == Len(settlement_plans[s].positions)
            <4>1. Finalised(s) /\ settled_events'[s] = [i \in 1..n |-> i]
                BY <1>3, <3>4 DEF BackfillSettlementEvents
            <4>2. s \in DOMAIN settlement_plans /\ settlement_plans[s].status = "Finalised"
                BY <4>1 DEF Finalised, NotSettled
            <4>3. n \in Nat /\ Applied(s) = n
                BY <4>2 DEF EventInv, PlanInv, PlansOK, PlanOK, Applied
            <4> HIDE DEF n
            <4>4. Rows(0, n) = [i \in 1..n |-> i]
                BY <4>3 DEF Rows
            <4>5. RowsFrom(s, 0)'
                BY <3>2, <4>1, <4>3, <4>4 DEF RowsFrom
            <4> QED BY <4>5
        <3> QED BY <3>3, <3>4
    <2> QED BY <2>1, <2>2 DEF EventsOK
<1>4. ASSUME NEW s \in SeriesId, Resumes(s)
      PROVE  EventsOK'
    <2>1. PlanOK(settlement_plans[s]) /\ settlement_plans[s].cursor = Applied(s)
        BY <1>4 DEF Resumes, InFlight, EventInv, PlanInv, PlansOK, Applied
    <2> QED BY <1>4, <2>1, AdvanceRows DEF Resumes
<1>5. ASSUME NEW s \in SeriesId, NEW input, Opens(s, input)
      PROVE  EventsOK'
    <2>1. PlanOK(NewPlan(s, input)) /\ NewPlan(s, input).cursor = Applied(s)
        BY <1>5, NewPlanOK DEF Opens, NotSettled, EventInv, PlanInv, Applied
    <2> QED BY <1>5, <2>1, AdvanceRows DEF Opens
<1>6. CASE TradingNext /\ UNCHANGED settlementVars
    BY <1>2, <1>6, TradingKeeps DEF settlementVars, EventInv
<1>7. CASE SettlementNext
    BY <1>2, <1>3, <1>4, <1>5, <1>7, SettlementSteps DEF Quiet
<1>8. CASE Upgrade
    BY <1>2, <1>8 DEF Upgrade
<1>9. CASE UNCHANGED vars
    BY <1>2, <1>9 DEF vars, settlementVars
<1> QED BY <1>6, <1>7, <1>8, <1>9 DEF Next

(* apply_settlement_accounting_logic and backfill_settlement_events: no plan
   position has two Settled rows, and a plan this version finalised has all. *)
THEOREM EventsWrittenOnce == Spec => []EventsOnce
<1>1. Init => EventInv
    <2> SUFFICES ASSUME Init PROVE EventsOK
        BY InitPlanInv DEF EventInv
    <2>1. DOMAIN settled_events = SeriesId /\ \A s \in SeriesId : settled_events[s] = <<>>
        BY DEF Init, SettlementInit
    <2>2. ASSUME NEW s \in SeriesId PROVE RowsFrom(s, Applied(s)) /\ Applied(s) \in Nat
        <3>1. Applied(s) \in Nat
            BY InitPlanInv DEF PlanInv, PlansOK, PlanOK, Applied
        <3>2. Rows(Applied(s), Applied(s)) = <<>>
            BY <3>1 DEF Rows
        <3>3. s \notin DOMAIN LegacyPlans => Applied(s) = 0
            BY DEF Init, SettlementInit, Applied
        <3> QED BY <2>1, <3>1, <3>2, <3>3 DEF RowsFrom
    <2> QED BY <2>1, <2>2 DEF EventsOK
<1>2. EventInv /\ [Next]_vars => EventInv'
    BY NextEventInv
<1>3. EventInv => EventsOnce
    <2> SUFFICES ASSUME EventInv, NEW s \in SeriesId
                 PROVE  /\ IsInjective(settled_events[s])
                        /\ Finalised(s) /\ s \notin DOMAIN LegacyPlans =>
                              Len(settled_events[s]) = Len(settlement_plans[s].positions)
        BY DEF EventsOnce
    <2>1. PICK a \in Nat : RowsFrom(s, a)
        BY DEF EventInv, EventsOK
    <2>2. Applied(s) \in Nat
        BY DEF EventInv, PlanInv, PlansOK, PlanOK, Applied
    <2>3. settled_events[s] = Rows(a, Applied(s)) /\ a <= Applied(s)
        BY <2>1 DEF RowsFrom
    <2>4. IsInjective(settled_events[s]) /\ Len(settled_events[s]) = Applied(s) - a
        BY <2>2, <2>3, RowsSeq
    <2>5. ASSUME Finalised(s), s \notin DOMAIN LegacyPlans
          PROVE  Applied(s) - a = Len(settlement_plans[s].positions)
        BY <2>1, <2>2, <2>5 DEF RowsFrom, Finalised, NotSettled, EventInv, PlanInv, PlansOK,
                                PlanOK, Applied
    <2> QED BY <2>4, <2>5
<1> QED BY <1>1, <1>2, <1>3, PTL DEF Spec

-----------------------------------------------------------------------------
(* Exposure, when no method awaits: every series is cached from the start
   and none is restricted, so a call is one step. *)

NoAwaits == Cached = SeriesId /\ \A s \in SeriesId : ~Listing[s].restricted

OrdersOK ==
    \A id \in DOMAIN limit_orders :
        "series" \in DOMAIN limit_orders[id] /\ limit_orders[id].series \in SeriesId

OpenCached == \A s \in SeriesId : NotSettled(s) => s \in series_cache

Idle == \A c \in CallId : call[c] = None

(* A plan closes a series for good, and only a series without one is traded. *)
SerialInv == PlanInv /\ Idle /\ OrdersOK /\ OpenCached /\ SettledHasNoExposure

(* The effect of a method puts orders on its series only. *)
LEMMA PerformOrders ==
    ASSUME OrdersOK, NEW r \in Request, NEW seen, SeriesOf(r) \in SeriesId, Perform(r, seen)
    PROVE  /\ OrdersOK'
           /\ \A id \in DOMAIN limit_orders' :
                 \/ limit_orders'[id].series = SeriesOf(r)
                 \/ /\ id \in DOMAIN limit_orders
                    /\ limit_orders'[id].series = limit_orders[id].series
<1> DEFINE Goal == /\ OrdersOK'
                   /\ \A id \in DOMAIN limit_orders' :
                         \/ limit_orders'[id].series = SeriesOf(r)
                         \/ /\ id \in DOMAIN limit_orders
                            /\ limit_orders'[id].series = limit_orders[id].series
<1>1. ASSUME UNCHANGED limit_orders PROVE Goal
    BY <1>1 DEF OrdersOK
<1>2. CASE UNCHANGED tradeState
    BY <1>1, <1>2 DEF tradeState, book
<1>3. CASE r.op = "limit"
    <2> DEFINE new == [creator |-> r.user, series |-> r.series, outcome |-> r.outcome,
                       side |-> r.side, qty |-> r.qty, price |-> r.price,
                       blocked |-> OrderMargin(r.series, r.price, r.side, r.qty)]
    <2>1. PlaceOrder(r) /\ r.series = SeriesOf(r)
        BY <1>3 DEF Perform, SeriesOf
    <2>2. CASE limit_orders' = Put(limit_orders, r.order, new)
        <3>1. "series" \in DOMAIN new /\ new.series = SeriesOf(r)
            BY <2>1
        <3> HIDE DEF new
        <3> QED BY <2>2, <3>1 DEF Put, OrdersOK
    <2> QED BY <1>2, <2>1, <2>2 DEF PlaceOrder
<1>4. CASE r.op = "market"
    <2> DEFINE id0 == r.order
               order == limit_orders[id0]
               left == order.qty - FillQty(r, order)
               new == [order EXCEPT !.qty = left, !.blocked = RemainingBlocked(r, order)]
    <2>1. FillOrder(r, seen)
        BY <1>4 DEF Perform
    <2>2. CASE FillAllowed(r, seen)
        <3>1. id0 \in DOMAIN limit_orders
            BY <2>2 DEF FillAllowed
        <3>2. \/ limit_orders' = Without(limit_orders, {id0})
              \/ limit_orders' = [limit_orders EXCEPT ![id0] = new]
            BY <2>1, <2>2 DEF FillOrder
        <3>3. "series" \in DOMAIN new /\ new.series = order.series
            BY <3>1 DEF OrdersOK
        <3> HIDE DEF new
        <3> QED BY <3>1, <3>2, <3>3 DEF Without, Restrict, OrdersOK
    <2> QED BY <1>2, <2>1, <2>2 DEF FillOrder
<1>5. CASE r.op \in {"matched", "mint", "redeem", "accept"}
    <2>1. UNCHANGED limit_orders
        BY <1>5 DEF Perform, MatchedTrade, MintSet, RedeemSet, AcceptTransfer, tradeState, book
    <2> QED BY <1>1, <2>1
<1>6. r \in Requests
    BY TradingAssumption
<1> QED BY <1>3, <1>4, <1>5, <1>6 DEF Requests

(* A submitted call runs to its end, on a series without a plan. *)
LEMMA SubmitSerial ==
    ASSUME NoAwaits, SerialInv, NEW c \in CallId, NEW r \in Request, Submit(c, r)
    PROVE  /\ Idle' /\ NotSettled(SeriesOf(r))
           /\ \/ UNCHANGED tradeState
              \/ SeriesOf(r) \in SeriesId /\ \E seen : Perform(r, seen)
<1>1. r \in Requests
    BY TradingAssumption
<1>2. SeriesOf(r) \in SeriesId
    <2>1. CASE r.op = "market"
        BY <2>1 DEF Submit, Receivable, SeriesOf, SerialInv, OrdersOK
    <2>2. CASE r.op # "market"
        BY <1>1, <2>2 DEF SeriesOf, Requests
    <2> QED BY <2>1, <2>2
<1>3. NotSettled(SeriesOf(r)) /\ SeriesOf(r) \in series_cache
    BY <1>2 DEF Submit, SerialInv, OpenCached
<1>4. Continue(c, r, SeriesOf(r), SeenBy(r))
    BY <1>3 DEF Submit
<1>5. ~AsksAccess(r, SeriesOf(r))
    BY <1>2 DEF NoAwaits, AsksAccess
<1>6. Return(c) /\ (UNCHANGED tradeState \/ Perform(r, SeenBy(r)))
    BY <1>4, <1>5 DEF Continue
<1>7. Idle'
    BY <1>6 DEF Return, SerialInv, Idle, PlanInv, CallsOK
<1>8. \/ UNCHANGED tradeState
      \/ SeriesOf(r) \in SeriesId /\ \E seen : Perform(r, seen)
    <2>1. CASE UNCHANGED tradeState
        BY <2>1
    <2>2. CASE Perform(r, SeenBy(r))
        <3>1. \E seen : Perform(r, seen)
            BY <2>2
        <3> QED BY <1>2, <3>1
    <2> QED BY <1>6, <2>1, <2>2
<1> QED BY <1>3, <1>7, <1>8

LEMMA TradingSerial ==
    ASSUME NoAwaits, SerialInv, TradingNext
    PROVE  SerialInv'
<1>1. PlanInv' /\ UNCHANGED settlement_plans
    <2>1. CallsOK' /\ FinitePositions' /\ UNCHANGED settlement_plans
        BY TradingKeeps DEF SerialInv
    <2>2. PlansOK'
        BY <2>1 DEF SerialInv, PlanInv, PlansOK, PlanOK
    <2> QED BY <2>1, <2>2 DEF PlanInv
<1>2. ASSUME UNCHANGED series_cache, Idle', OrdersOK',
             \A k \in DOMAIN positions' :
                 k \in DOMAIN positions \/ NotSettled(k[2]),
             \A id \in DOMAIN limit_orders' :
                 \/ NotSettled(limit_orders'[id].series)
                 \/ /\ id \in DOMAIN limit_orders
                    /\ limit_orders'[id].series = limit_orders[id].series
      PROVE  SerialInv'
    <2>1. OpenCached'
        BY <1>1, <1>2 DEF SerialInv, OpenCached, NotSettled
    <2>2. SettledHasNoExposure'
        BY <1>1, <1>2 DEF SerialInv, SettledHasNoExposure, NotSettled, PositionsOf, OrdersOf
    <2> QED BY <1>1, <1>2, <2>1, <2>2 DEF SerialInv
<1>3. ASSUME NEW c \in CallId, NEW r \in Request, Submit(c, r)
      PROVE  SerialInv'
    <2>1. Idle' /\ NotSettled(SeriesOf(r)) /\ UNCHANGED series_cache
          /\ (UNCHANGED tradeState \/ (SeriesOf(r) \in SeriesId /\ \E seen : Perform(r, seen)))
        BY <1>3, SubmitSerial DEF Submit
    <2>2. CASE UNCHANGED tradeState
        BY <1>2, <2>1, <2>2 DEF tradeState, book, SerialInv, OrdersOK
    <2>3. ASSUME SeriesOf(r) \in SeriesId, NEW seen, Perform(r, seen)
          PROVE  SerialInv'
        <3>1. \A k \in DOMAIN positions' : k \in DOMAIN positions \/ k[2] = SeriesOf(r)
            BY <2>3, PerformKeys
        <3>2. /\ OrdersOK'
              /\ \A id \in DOMAIN limit_orders' :
                    \/ limit_orders'[id].series = SeriesOf(r)
                    \/ /\ id \in DOMAIN limit_orders
                       /\ limit_orders'[id].series = limit_orders[id].series
            BY <2>3, PerformOrders DEF SerialInv
        <3> QED BY <1>2, <2>1, <3>1, <3>2
    <2> QED BY <2>1, <2>2, <2>3
<1>4. ASSUME NEW c \in CallId, RegistryAnswers(c) \/ AccessGranted(c) \/ RegistryRefuses(c)
      PROVE  FALSE
    BY <1>4 DEF RegistryAnswers, AccessGranted, RegistryRefuses, SerialInv, Idle
<1>5. ASSUME NEW id, CancelOrder(id)
      PROVE  SerialInv'
    <2>1. UNCHANGED <<series_cache, positions, call>>
          /\ limit_orders' = Without(limit_orders, {id})
        BY <1>5 DEF CancelOrder, tradingVars
    <2> QED BY <1>2, <2>1 DEF Without, Restrict, SerialInv, Idle, OrdersOK
<1>6. ASSUME NEW id, NEW k, FreezePosition(id, k)
      PROVE  SerialInv'
    <2>1. UNCHANGED <<series_cache, limit_orders, call>>
          /\ positions' = Without(positions, {k})
        BY <1>6 DEF FreezePosition
    <2> QED BY <1>2, <2>1 DEF Without, Restrict, SerialInv, Idle, OrdersOK
<1>7. ASSUME NEW s \in SeriesId, WindowMoves(s)
      PROVE  SerialInv'
    BY <1>2, <1>7 DEF WindowMoves, tradeState, book, SerialInv, Idle, OrdersOK
<1> QED BY <1>3, <1>4, <1>5, <1>6, <1>7 DEF TradingNext

(* A step of a plan keeps other series as they are, and its own closed. *)
LEMMA AdvanceSerial ==
    ASSUME SerialInv, NEW s \in SeriesId, NEW plan, PlanOK(plan), NEW released, NEW armed,
           Advance(s, plan, released, armed),
           \A k \in DOMAIN positions' : k \in DOMAIN positions /\ k[2] # s,
           DOMAIN limit_orders' \subseteq DOMAIN limit_orders,
           \A id \in DOMAIN limit_orders' :
               limit_orders'[id] = limit_orders[id] /\ limit_orders[id].series # s
    PROVE  OrdersOK' /\ OpenCached' /\ SettledHasNoExposure'
<1>1. DOMAIN settlement_plans' = DOMAIN settlement_plans \cup {s}
    BY AdvancePlan DEF SerialInv, PlanInv
<1>2. series_cache' = series_cache \/ series_cache' = series_cache \ {s}
    BY DEF Advance
<1>3. OrdersOK'
    BY DEF SerialInv, OrdersOK
<1>4. OpenCached'
    BY <1>1, <1>2 DEF SerialInv, OpenCached, NotSettled
<1>5. SettledHasNoExposure'
    BY <1>1 DEF SerialInv, SettledHasNoExposure, PositionsOf, OrdersOf
<1> QED BY <1>3, <1>4, <1>5

LEMMA NextSerialInv ==
    ASSUME NoAwaits, SerialInv, [Next]_vars
    PROVE  SerialInv'
<1>1. PlanInv'
    BY NextPlanInv DEF SerialInv
<1>2. ASSUME UNCHANGED <<positions, limit_orders, series_cache, settlement_plans>>
      PROVE  OrdersOK' /\ OpenCached' /\ SettledHasNoExposure'
    BY <1>2 DEF SerialInv, OrdersOK, OpenCached, NotSettled, SettledHasNoExposure,
                PositionsOf, OrdersOf
<1>3. CASE TradingNext
    BY <1>3, TradingSerial
<1>4. CASE SettlementNext /\ UNCHANGED tradingVars
    <2>1. Idle'
        BY <1>4 DEF tradingVars, SerialInv, Idle
    <2>2. CASE Quiet
        BY <1>1, <1>2, <2>1, <2>2 DEF Quiet, SerialInv
    <2>3. ASSUME NEW D, BackfillSettlementEvents(D) PROVE SerialInv'
        BY <1>1, <1>2, <2>1, <2>3 DEF BackfillSettlementEvents, book, SerialInv
    <2>4. ASSUME NEW s \in SeriesId, Resumes(s) PROVE SerialInv'
        <3>1. s \in DOMAIN settlement_plans /\ PlanOK(settlement_plans[s])
            BY <2>4 DEF Resumes, InFlight, SerialInv, PlanInv, PlansOK
        <3>2. /\ UNCHANGED <<positions, limit_orders>>
              /\ \A k \in DOMAIN positions : k[2] # s
              /\ \A id \in DOMAIN limit_orders : limit_orders[id].series # s
            BY <2>4, <3>1 DEF Resumes, SerialInv, SettledHasNoExposure, PositionsOf, OrdersOf
        <3>3. OrdersOK' /\ OpenCached' /\ SettledHasNoExposure'
            BY <2>4, <3>1, <3>2, AdvanceSerial DEF Resumes
        <3> QED BY <1>1, <2>1, <3>3 DEF SerialInv
    <2>5. ASSUME NEW s \in SeriesId, NEW input, Opens(s, input) PROVE SerialInv'
        <3>1. PlanOK(NewPlan(s, input))
            BY NewPlanOK DEF SerialInv, PlanInv
        <3>2. \A k \in DOMAIN positions' : k \in DOMAIN positions /\ k[2] # s
            BY <2>5 DEF Opens, Without, Restrict, PositionsOf
        <3>3. /\ DOMAIN limit_orders' \subseteq DOMAIN limit_orders
              /\ \A id \in DOMAIN limit_orders' :
                    limit_orders'[id] = limit_orders[id] /\ limit_orders[id].series # s
            BY <2>5 DEF Opens, Without, Restrict, OrdersOf
        <3>4. OrdersOK' /\ OpenCached' /\ SettledHasNoExposure'
            BY <2>5, <3>1, <3>2, <3>3, AdvanceSerial DEF Opens
        <3> QED BY <1>1, <2>1, <3>4 DEF SerialInv
    <2> QED BY <1>4, <2>2, <2>3, <2>4, <2>5, SettlementSteps
<1>5. CASE Upgrade
    <2>1. Idle'
        BY <1>5 DEF Upgrade, Idle
    <2> QED BY <1>1, <1>2, <1>5, <2>1 DEF Upgrade, book, SerialInv
<1>6. CASE UNCHANGED vars
    <2>1. Idle'
        BY <1>6 DEF vars, tradingVars, SerialInv, Idle
    <2> QED BY <1>1, <1>2, <1>6, <2>1 DEF vars, book, SerialInv
<1> QED BY <1>3, <1>4, <1>5, <1>6 DEF Next

LEMMA InitSerialInv == NoAwaits /\ Init => SerialInv
<1> SUFFICES ASSUME NoAwaits, Init PROVE SerialInv
    OBVIOUS
<1>1. Idle /\ OrdersOK /\ OpenCached
    BY DEF Init, TradingInit, BookInit, EmptyMap, Idle, OrdersOK, OpenCached, NoAwaits
<1>2. SettledHasNoExposure
    BY DEF Init, BookInit, EmptyMap, SettledHasNoExposure, PositionsOf, OrdersOf
<1> QED BY <1>1, <1>2, InitPlanInv DEF SerialInv

(* assert_series_not_settled and cancel_open_limit_orders: without awaits in
   the methods, a series with a plan has neither positions nor orders. *)
THEOREM SerialSettledIsClosed ==
    ASSUME NoAwaits
    PROVE  Spec => []SettledHasNoExposure
<1>1. Init => SerialInv
    BY InitSerialInv
<1>2. SerialInv /\ [Next]_vars => SerialInv'
    BY NextSerialInv
<1>3. SerialInv => SettledHasNoExposure
    BY DEF SerialInv
<1> QED BY <1>1, <1>2, <1>3, PTL DEF Spec

-----------------------------------------------------------------------------
(* The arithmetic of contracts yields naturals. *)

LEMMA Pow10Type == \A n \in Nat : Pow10[n] \in Nat \ {0}
<1>1. Pow10 = [i \in Nat |-> IF i = 0 THEN 1 ELSE 10 * Pow10[i - 1]]
    BY PowersOfTen DEF Pow10
<1> QED BY <1>1, PowersPositive

LEMMA ScaleType ==
    ASSUME NEW v \in Nat, NEW t \in Nat, NEW s \in Nat, NEW mode
    PROVE  ScalePrice(v, t, s, mode) \in Nat
<1>1. CASE t >= s
    <2>1. t - s \in Nat
        BY <1>1
    <2>2. Pow10[t - s] \in Nat
        BY <2>1, Pow10Type
    <2> QED BY <1>1, <2>2, ProductType DEF ScalePrice
<1>2. CASE ~(t >= s)
    <2>1. s - t \in Nat
        BY <1>2
    <2>2. PICK y \in Nat \ {0} : y = Pow10[s - t]
        BY <2>1, Pow10Type
    <2>3. v + y - 1 \in Nat
        OBVIOUS
    <2>4. DivRound(v, y, mode) \in Nat
        BY <2>3, QuotientType DEF DivRound
    <2> QED BY <1>2, <2>2, <2>4 DEF ScalePrice
<1> QED BY <1>1, <1>2

LEMMA UsdType ==
    ASSUME NEW p \in Price, NEW mode
    PROVE  InUsd(p, mode) \in Nat
<1>1. p.value \in Nat /\ p.decimals \in Nat
    BY DEF Price
<1> QED BY <1>1, ScaleType, PayoffsAssumption DEF InUsd

LEMMA UnitType == Unit \in Nat \ {0}
BY Pow10Type, PayoffsAssumption DEF Unit

LEMMA LessType ==
    ASSUME NEW x \in Int, NEW y \in Int
    PROVE  /\ Less(x, y) \in Int /\ Less(x, y) >= x - y
           /\ x >= y => Less(x, y) = x - y
           /\ Less(x, y) \in Nat
BY DEF Less

LEMMA AbsType ==
    ASSUME NEW q \in Int
    PROVE  Abs(q) \in Nat
BY DEF Abs

LEMMA UnitMarginType ==
    ASSUME NEW series \in Series, NEW p \in Price, NEW q \in Int,
           HasMargin(series, q), ~series.social
    PROVE  UnitMargin(series, p, q) \in Nat
<1>1. InUsd(p, "Ceil") \in Nat
    BY UsdType
<1>2. series.payoff_type \in {"Binary", "Categorical", "Call", "Put"}
    BY DEF Series, PayoffType, Scalar
<1>3. CASE series.payoff_type = "Call"
    BY <1>1, <1>3 DEF UnitMargin
<1>4. CASE series.payoff_type = "Put"
    <2>1. q < 0 => series.strike \in Price
        BY <1>4 DEF HasMargin, Series
    <2>2. q < 0 => InUsd(series.strike, "Ceil") \in Nat
        BY <2>1, UsdType
    <2> QED BY <1>1, <1>4, <2>2 DEF UnitMargin
<1>5. CASE series.payoff_type \in {"Binary", "Categorical"}
    <2>1. Less(Unit, InUsd(p, "Ceil")) \in Nat
        <3>1. Unit \in Int /\ InUsd(p, "Ceil") \in Int
            BY <1>1, UnitType
        <3> QED BY <3>1, LessType
    <2> QED BY <1>1, <1>5, <2>1 DEF UnitMargin
<1> QED BY <1>2, <1>3, <1>4, <1>5

(* A margin is a natural, and none is needed for nothing. *)
LEMMA MarginType ==
    ASSUME NEW series \in Series, NEW p \in Price, NEW q \in Int, HasMargin(series, q)
    PROVE  RequiredMargin(series, p, q) \in Nat
<1>1. CASE series.social \/ q = 0
    BY <1>1 DEF RequiredMargin
<1>2. CASE ~(series.social \/ q = 0)
    <2>1. UnitMargin(series, p, q) \in Nat /\ Abs(q) \in Nat
        BY <1>2, UnitMarginType, AbsType
    <2> QED BY <1>2, <2>1, ProductType DEF RequiredMargin
<1> QED BY <1>1, <1>2

LEMMA UnitPayoffType ==
    ASSUME NEW series \in Series, NEW o, NEW input \in Input, HasUnitPayoff(series, input)
    PROVE  UnitPayoff(series, o, input) \in Nat
<1>1. CASE series.social
    BY <1>1 DEF UnitPayoff
<1>2. CASE ~series.social /\ series.payoff_type = "Categorical"
    BY <1>2, UnitType DEF UnitPayoff
<1>3. CASE ~series.social /\ series.payoff_type = "Binary"
    <2>1. input.price \in Price
        BY <1>3 DEF HasUnitPayoff, Input, Scalar
    <2> QED BY <1>3, <2>1, UsdType DEF UnitPayoff
<1>4. CASE ~series.social /\ series.payoff_type \in Scalar
    <2>1. input.price \in Price /\ series.strike \in Price
        BY <1>4 DEF HasUnitPayoff, Input, Scalar, Series
    <2>2. /\ input.price.value \in Nat /\ input.price.decimals \in Nat
          /\ series.strike.value \in Nat /\ series.strike.decimals \in Nat
        BY <2>1 DEF Price
    <2>3. PICK k \in Nat : k = ScalePrice(series.strike.value, input.price.decimals,
                                          series.strike.decimals, "Floor")
        BY <2>2, ScaleType
    <2>4. Less(input.price.value, k) \in Nat /\ Less(k, input.price.value) \in Nat
        <3>1. input.price.value \in Int /\ k \in Int
            BY <2>2
        <3> QED BY <3>1, LessType
    <2>5. Intrinsic(series, input.price) \in Nat
        BY <2>3, <2>4 DEF Intrinsic
    <2>6. ScalePrice(Intrinsic(series, input.price), USD_DECIMALS, input.price.decimals, "Floor")
              \in Nat
        BY <2>2, <2>5, ScaleType, PayoffsAssumption
    <2> QED BY <1>4, <2>6 DEF UnitPayoff, Scalar
<1>5. series.payoff_type \in {"Binary", "Categorical"} \cup Scalar
    BY DEF Series, PayoffType
<1> QED BY <1>1, <1>2, <1>3, <1>4, <1>5

LEMMA ValueType ==
    ASSUME NEW series \in Series, NEW o, NEW q \in Int, NEW input \in Input,
           HasUnitPayoff(series, input)
    PROVE  SettlementValue(series, o, q, input) \in Nat
<1>1. PICK x \in Nat : x = UnitPayoff(series, o, input)
    BY UnitPayoffType
<1>2. Less(Unit, x) \in Nat /\ Abs(q) \in Nat
    BY UnitType, LessType, AbsType
<1>3. Abs(q) * Less(Unit, x) \in Nat /\ Abs(q) * x \in Nat
    BY <1>2, ProductType
<1> QED BY <1>1, <1>3 DEF SettlementValue

LEMMA FeeType ==
    ASSUME NEW payoff \in Nat, NEW bps \in Nat
    PROVE  SettlementFee(payoff, bps) \in Nat
<1>1. payoff * bps \in Nat
    BY ProductType
<1> QED BY <1>1, QuotientType DEF SettlementFee

-----------------------------------------------------------------------------
(* Types.  Beside TypeOK: a resting order's margin is defined for its side,
   the orders are finite in number, and a suspended order has a quantity. *)

BalancesTyped == cash_balances \in [User -> Int] /\ reserved_margin \in [User -> Nat]

PositionsTyped ==
    /\ DOMAIN positions \subseteq PositionKey
    /\ \A k \in DOMAIN positions : positions[k] \in Position

OrderOK(order) ==
    order \in Order /\ HasMargin(Listing[order.series], Signed(order.side, order.qty))

OrdersTyped ==
    /\ DOMAIN limit_orders \subseteq OrderId /\ IsFiniteSet(DOMAIN limit_orders)
    /\ \A id \in DOMAIN limit_orders : OrderOK(limit_orders[id])

DoneTyped == executed_trades \subseteq TradeId /\ accepted_transfers \subseteq TransferId

BookTyped == BalancesTyped /\ PositionsTyped /\ OrdersTyped /\ DoneTyped

Submitted(r) == r \in Request /\ (r.op = "limit" => r.qty > 0)

CallsTyped ==
    /\ call \in [CallId -> Suspended \cup {None}]
    /\ \A c \in CallId : call[c] # None => Submitted(call[c].req)

MarketTyped ==
    /\ series_cache \subseteq SeriesId
    /\ DOMAIN frozen_transfers \subseteq TransferId
    /\ window \in [SeriesId -> {"scheduled", "trading", "expired"}]

PlansTyped ==
    /\ DOMAIN settlement_plans \subseteq SeriesId
    /\ \A s \in DOMAIN settlement_plans : settlement_plans[s] \in SettlementPlan

FundsTyped ==
    /\ treasury \in Nat /\ insurance_fund \in Nat
    /\ settled_events \in [SeriesId -> Seq(Nat)]
    /\ timers \subseteq SeriesId

TypeInv ==
    PlanInv /\ BookTyped /\ CallsTyped /\ MarketTyped /\ PlansTyped /\ FundsTyped

LEMMA TypeGives == TypeInv => TypeOK
<1> SUFFICES ASSUME TypeInv PROVE TypeOK
    OBVIOUS
<1>1. BookTypeOK
    BY DEF TypeInv, BookTyped, BalancesTyped, PositionsTyped, OrdersTyped, OrderOK, MarketTyped,
           PlansTyped, BookTypeOK
<1>2. TradingTypeOK
    BY DEF TypeInv, BookTyped, DoneTyped, MarketTyped, CallsTyped, TradingTypeOK
<1>3. ASSUME NEW s \in DOMAIN settlement_plans
      PROVE  settlement_plans[s].cursor <= Len(settlement_plans[s].positions)
    BY DEF TypeInv, PlanInv, PlansOK, PlanOK
<1>4. SettlementTypeOK
    BY <1>3 DEF TypeInv, PlansTyped, FundsTyped, SettlementTypeOK
<1> QED BY <1>1, <1>2, <1>4 DEF TypeOK

(* The margin of a key, nothing without a position. *)
LEMMA PositionType ==
    ASSUME PositionsTyped, NEW k
    PROVE  /\ PositionOf(k).net_qty \in Int /\ PositionOf(k).margin \in Nat
           /\ PositionOf(k) = [net_qty |-> PositionOf(k).net_qty, margin |-> PositionOf(k).margin]
BY DEF PositionsTyped, PositionOf, NoPosition, Position

LEMMA AdjustedType ==
    ASSUME NEW m \in Nat, NEW d \in Int
    PROVE  /\ Adjusted(m, d) \in Nat /\ Adjusted(m, d) >= m + d
           /\ m + d >= 0 => Adjusted(m, d) = m + d
BY DEF Adjusted, Less

(* The parts of a trade. *)
TradeTyped(t) ==
    /\ t.series \in SeriesId /\ t.outcome \in Outcome /\ t.trade \in TradeId
    /\ t.buyer \in User /\ t.seller \in User
    /\ t.qty \in Int /\ t.price \in Price
    /\ t.b_unblock \in Int /\ t.s_unblock \in Int

LEMMA LegType ==
    ASSUME PositionsTyped, NEW t, TradeTyped(t), NEW u \in User, NEW dq \in Int,
           NEW unblock \in Int, LegHasMargin(t, Leg(t, u, dq, unblock))
    PROVE  LET leg == Leg(t, u, dq, unblock) IN
           /\ leg.key = <<u, t.series, t.outcome>> /\ leg.key \in PositionKey
           /\ AsPosition(leg) \in Position /\ leg.cash \in Int /\ leg.reserve \in Int
           /\ leg.reserve = leg.margin - PositionOf(leg.key).margin - unblock
<1> DEFINE k == <<u, t.series, t.outcome>>
           leg == Leg(t, u, dq, unblock)
           old == PositionOf(k)
           series == Listing[t.series]
<1>1. old.net_qty \in Int /\ old.margin \in Nat
    BY PositionType
<1>2. old.net_qty + dq \in Int
    BY <1>1
<1>3. /\ leg.key = k /\ leg.old_qty = old.net_qty /\ leg.net_qty = old.net_qty + dq
      /\ leg.margin = RequiredMargin(series, t.price, old.net_qty + dq)
      /\ leg.cash = old.margin - RequiredMargin(series, t.price, old.net_qty)
      /\ leg.reserve = leg.margin - old.margin - unblock
    BY DEF Leg
<1>4. HasMargin(series, old.net_qty) /\ HasMargin(series, old.net_qty + dq)
    BY <1>3 DEF LegHasMargin
<1>5. series \in Series /\ t.price \in Price
    BY BookAssumption DEF TradeTyped
<1>6. k \in PositionKey
    BY DEF PositionKey, TradeTyped
<1> HIDE DEF k, leg, old, series
<1>7. leg.margin \in Nat /\ leg.cash \in Int
    BY <1>1, <1>2, <1>3, <1>4, <1>5, MarginType
<1>8. leg.reserve \in Int
    BY <1>1, <1>3, <1>7
<1>9. AsPosition(leg) \in Position
    BY <1>2, <1>3, <1>7 DEF AsPosition, Position
<1> QED BY <1>3, <1>6, <1>7, <1>8, <1>9 DEF leg, k, old

-----------------------------------------------------------------------------
(* What positions need of a user's margin, and how it moves when they do. *)

MarginSum(pos, u) == MapThenSumSet(LAMBDA k : pos[k].margin, {k \in DOMAIN pos : k[1] = u})

Margins(pos) == [k \in DOMAIN pos |-> pos[k].margin]
KeysOf(pos, u) == {k \in DOMAIN pos : k[1] = u}
MarginAt(pos, k) == IF k \in DOMAIN pos THEN pos[k].margin ELSE 0

HasMargins(pos) == IsFiniteSet(DOMAIN pos) /\ \A k \in DOMAIN pos : pos[k].margin \in Nat

LEMMA MarginSumIs ==
    ASSUME NEW pos, NEW u
    PROVE  MarginSum(pos, u) = SumOver(Margins(pos), KeysOf(pos, u))
<1> DEFINE S == KeysOf(pos, u)
           f == Margins(pos)
           Fold(g) == g = [s \in SUBSET S |->
                              IF s = {} THEN 0 ELSE pos[Pick(s)].margin + g[s \ {Pick(s)}]]
<1>1. \A g : Fold(g) <=> IsFold(g, f, S)
    <2>1. \A s \in SUBSET S : s # {} => f[Pick(s)] = pos[Pick(s)].margin
        BY PickIn DEF Margins, KeysOf
    <2> QED BY <2>1 DEF IsFold
<1>2. (CHOOSE g : Fold(g)) = (CHOOSE g : IsFold(g, f, S))
    <2> HIDE DEF Fold, f, S
    <2> QED BY <1>1
<1>3. MarginSum(pos, u) = (CHOOSE g : Fold(g))[S]
    BY DEF MarginSum, MapThenSumSet, MapThenFoldSet, Pick, KeysOf
<1> QED BY <1>2, <1>3, SumIsFold

LEMMA MarginTerms ==
    ASSUME NEW pos, HasMargins(pos), NEW u
    PROVE  /\ IsFiniteSet(KeysOf(pos, u)) /\ \A x \in KeysOf(pos, u) : Margins(pos)[x] \in Nat
           /\ \A x : x[1] = u => Term(Margins(pos), KeysOf(pos, u), x) = MarginAt(pos, x)
           /\ MarginSum(pos, u) \in Nat
<1>1. KeysOf(pos, u) \subseteq DOMAIN pos
    BY DEF KeysOf
<1>2. IsFiniteSet(KeysOf(pos, u)) /\ \A x \in KeysOf(pos, u) : Margins(pos)[x] \in Nat
    BY <1>1, FS_Subset DEF HasMargins, Margins, KeysOf
<1>3. MarginSum(pos, u) \in Nat
    BY <1>2, MarginSumIs, SumNat
<1>4. \A x : x[1] = u => Term(Margins(pos), KeysOf(pos, u), x) = MarginAt(pos, x)
    BY DEF Term, KeysOf, Margins, MarginAt
<1> QED BY <1>2, <1>3, <1>4

(* One position of the user changes. *)
LEMMA MarginSumMoves ==
    ASSUME NEW pos, NEW new, HasMargins(pos), HasMargins(new), NEW u, NEW k, k[1] = u,
           \A x : x[1] = u /\ x # k => MarginAt(new, x) = MarginAt(pos, x)
    PROVE  MarginSum(new, u) = MarginSum(pos, u) + (MarginAt(new, k) - MarginAt(pos, k))
<1> DEFINE f == Margins(pos)
           R == KeysOf(pos, u)
           h == Margins(new)
           T == KeysOf(new, u)
<1>1. \A x \in R \cup T : x[1] = u
    BY DEF KeysOf
<1>2. /\ IsFiniteSet(R) /\ \A x \in R : f[x] \in Int
      /\ \A x : x[1] = u => Term(f, R, x) = MarginAt(pos, x)
    BY MarginTerms
<1>3. /\ IsFiniteSet(T) /\ \A x \in T : h[x] \in Int
      /\ \A x : x[1] = u => Term(h, T, x) = MarginAt(new, x)
    BY MarginTerms
<1>4. MarginSum(pos, u) = SumOver(f, R) /\ MarginSum(new, u) = SumOver(h, T)
    BY MarginSumIs
<1> HIDE DEF f, R, h, T
<1>5. \A x \in (R \cup T) \ {k} : Term(h, T, x) = Term(f, R, x)
    BY <1>1, <1>2, <1>3
<1>6. SumOver(h, T) = SumOver(f, R) + (Term(h, T, k) - Term(f, R, k))
    BY <1>2, <1>3, <1>5, SumMoves
<1> QED BY <1>2, <1>3, <1>4, <1>6

LEMMA MarginSumSame ==
    ASSUME NEW pos, NEW new, HasMargins(pos), HasMargins(new), NEW u,
           \A x : x[1] = u => MarginAt(new, x) = MarginAt(pos, x)
    PROVE  MarginSum(new, u) = MarginSum(pos, u)
<1> DEFINE k == <<u>>
<1>1. k[1] = u
    OBVIOUS
<1> HIDE DEF k
<1>2. MarginSum(new, u) = MarginSum(pos, u) + (MarginAt(new, k) - MarginAt(pos, k))
    BY <1>1, MarginSumMoves
<1>3. MarginAt(new, k) = MarginAt(pos, k) /\ MarginAt(pos, k) \in Int
    BY <1>1 DEF HasMargins, MarginAt
<1> QED BY <1>2, <1>3, MarginTerms

(* Several positions of the user change, by g. *)
LEMMA MarginSumSplit ==
    ASSUME NEW pos, NEW new, HasMargins(pos), HasMargins(new), NEW u, NEW K, NEW g,
           IsFiniteSet(K), \A x \in K : x[1] = u /\ g[x] \in Int,
           \A x : x[1] = u => MarginAt(new, x) = MarginAt(pos, x) + Term(g, K, x)
    PROVE  MarginSum(new, u) = MarginSum(pos, u) + SumOver(g, K)
<1> DEFINE f == Margins(pos)
           R == KeysOf(pos, u)
           h == Margins(new)
           T == KeysOf(new, u)
<1>1. \A x \in R \cup K \cup T : x[1] = u
    BY DEF KeysOf
<1>2. /\ IsFiniteSet(R) /\ \A x \in R : f[x] \in Int
      /\ \A x : x[1] = u => Term(f, R, x) = MarginAt(pos, x)
    BY MarginTerms
<1>3. /\ IsFiniteSet(T) /\ \A x \in T : h[x] \in Int
      /\ \A x : x[1] = u => Term(h, T, x) = MarginAt(new, x)
    BY MarginTerms
<1>4. MarginSum(pos, u) = SumOver(f, R) /\ MarginSum(new, u) = SumOver(h, T)
    BY MarginSumIs
<1> HIDE DEF f, R, h, T
<1>5. \A x \in R \cup K \cup T : Term(h, T, x) = Term(f, R, x) + Term(g, K, x)
    BY <1>1, <1>2, <1>3
<1>6. SumOver(h, T) = SumOver(f, R) + SumOver(g, K)
    BY <1>2, <1>3, <1>5, SumSplit
<1> QED BY <1>4, <1>6

-----------------------------------------------------------------------------
(* What resting orders block of a user's margin. *)

BlockedIn(orders, S) == MapThenSumSet(LAMBDA id : orders[id].blocked, S)

OrdersBy(orders, u) == {id \in DOMAIN orders : orders[id].creator = u}
BlockedSum(orders, u) == BlockedIn(orders, OrdersBy(orders, u))

Blocks(orders) == [id \in DOMAIN orders |-> orders[id].blocked]
BlockedAt(orders, u, id) == IF id \in OrdersBy(orders, u) THEN orders[id].blocked ELSE 0

HasBlocks(orders) ==
    IsFiniteSet(DOMAIN orders) /\ \A id \in DOMAIN orders : orders[id].blocked \in Nat

LEMMA BlockedIs ==
    ASSUME NEW orders, NEW S, S \subseteq DOMAIN orders
    PROVE  BlockedIn(orders, S) = SumOver(Blocks(orders), S)
<1> DEFINE f == Blocks(orders)
           Fold(g) == g = [s \in SUBSET S |->
                              IF s = {} THEN 0 ELSE orders[Pick(s)].blocked + g[s \ {Pick(s)}]]
<1>1. \A g : Fold(g) <=> IsFold(g, f, S)
    <2>1. \A s \in SUBSET S : s # {} => f[Pick(s)] = orders[Pick(s)].blocked
        BY PickIn DEF Blocks
    <2> QED BY <2>1 DEF IsFold
<1>2. (CHOOSE g : Fold(g)) = (CHOOSE g : IsFold(g, f, S))
    <2> HIDE DEF Fold, f
    <2> QED BY <1>1
<1>3. BlockedIn(orders, S) = (CHOOSE g : Fold(g))[S]
    BY DEF BlockedIn, MapThenSumSet, MapThenFoldSet, Pick
<1> QED BY <1>2, <1>3, SumIsFold

LEMMA BlockedTerms ==
    ASSUME NEW orders, HasBlocks(orders), NEW u
    PROVE  /\ IsFiniteSet(OrdersBy(orders, u))
           /\ \A id \in OrdersBy(orders, u) : Blocks(orders)[id] \in Nat
           /\ \A id : Term(Blocks(orders), OrdersBy(orders, u), id) = BlockedAt(orders, u, id)
           /\ BlockedSum(orders, u) = SumOver(Blocks(orders), OrdersBy(orders, u))
           /\ BlockedSum(orders, u) \in Nat
<1>1. OrdersBy(orders, u) \subseteq DOMAIN orders
    BY DEF OrdersBy
<1>2. /\ IsFiniteSet(OrdersBy(orders, u))
      /\ \A id \in OrdersBy(orders, u) : Blocks(orders)[id] \in Nat
    BY <1>1, FS_Subset DEF HasBlocks, Blocks
<1>3. BlockedSum(orders, u) = SumOver(Blocks(orders), OrdersBy(orders, u))
    BY <1>1, BlockedIs DEF BlockedSum
<1>4. \A id : Term(Blocks(orders), OrdersBy(orders, u), id) = BlockedAt(orders, u, id)
    BY <1>1 DEF Term, Blocks, BlockedAt
<1> QED BY <1>2, <1>3, <1>4, SumNat

(* One order changes. *)
LEMMA BlockedMoves ==
    ASSUME NEW orders, NEW new, HasBlocks(orders), HasBlocks(new), NEW u, NEW id,
           \A x : x # id => BlockedAt(new, u, x) = BlockedAt(orders, u, x)
    PROVE  BlockedSum(new, u)
             = BlockedSum(orders, u) + (BlockedAt(new, u, id) - BlockedAt(orders, u, id))
<1> DEFINE f == Blocks(orders)
           R == OrdersBy(orders, u)
           h == Blocks(new)
           T == OrdersBy(new, u)
<1>1. /\ IsFiniteSet(R) /\ \A x \in R : f[x] \in Int
      /\ \A x : Term(f, R, x) = BlockedAt(orders, u, x)
      /\ BlockedSum(orders, u) = SumOver(f, R)
    BY BlockedTerms
<1>2. /\ IsFiniteSet(T) /\ \A x \in T : h[x] \in Int
      /\ \A x : Term(h, T, x) = BlockedAt(new, u, x)
      /\ BlockedSum(new, u) = SumOver(h, T)
    BY BlockedTerms
<1> HIDE DEF f, R, h, T
<1>3. \A x \in (R \cup T) \ {id} : Term(h, T, x) = Term(f, R, x)
    BY <1>1, <1>2
<1>4. SumOver(h, T) = SumOver(f, R) + (Term(h, T, id) - Term(f, R, id))
    BY <1>1, <1>2, <1>3, SumMoves
<1> QED BY <1>1, <1>2, <1>4

(* The orders of S leave the book. *)
LEMMA BlockedLeaves ==
    ASSUME NEW orders, HasBlocks(orders), NEW u, NEW S, S \subseteq DOMAIN orders
    PROVE  LET rest == Without(orders, S)
               gone == {id \in S : orders[id].creator = u}
           IN  /\ HasBlocks(rest) /\ BlockedIn(orders, gone) \in Nat
               /\ BlockedSum(orders, u) = BlockedSum(rest, u) + BlockedIn(orders, gone)
<1> DEFINE rest == Without(orders, S)
           gone == {id \in S : orders[id].creator = u}
           f == Blocks(rest)
           R == OrdersBy(rest, u)
           h == Blocks(orders)
           T == OrdersBy(orders, u)
<1>1. DOMAIN rest = DOMAIN orders \ S /\ \A x \in DOMAIN rest : rest[x] = orders[x]
    BY DEF Without, Restrict
<1>2. HasBlocks(rest)
    BY <1>1, FS_Subset DEF HasBlocks
<1>3. gone \subseteq DOMAIN orders /\ IsFiniteSet(gone) /\ \A x \in gone : h[x] \in Nat
    BY FS_Subset DEF HasBlocks, Blocks
<1>4. BlockedIn(orders, gone) = SumOver(h, gone)
    BY <1>3, BlockedIs
<1>5. BlockedIn(orders, gone) \in Nat
    BY <1>3, <1>4, SumNat
<1>6. /\ IsFiniteSet(R) /\ \A x \in R : f[x] \in Int
      /\ BlockedSum(rest, u) = SumOver(f, R)
    <2> HIDE DEF rest
    <2> QED BY <1>2, BlockedTerms
<1>7. /\ IsFiniteSet(T) /\ \A x \in T : h[x] \in Int
      /\ BlockedSum(orders, u) = SumOver(h, T)
    BY BlockedTerms
<1>8. \A x \in R \cup gone \cup T : Term(h, T, x) = Term(f, R, x) + Term(h, gone, x)
    <2>1. R = T \ gone /\ gone \subseteq T /\ \A x \in R : f[x] = h[x]
        BY <1>1, <1>3 DEF OrdersBy, Blocks
    <2> HIDE DEF R, T, gone, f, h
    <2> QED BY <1>3, <1>6, <1>7, <2>1 DEF Term
<1> HIDE DEF rest, gone, f, R, h, T
<1>9. SumOver(h, T) = SumOver(f, R) + SumOver(h, gone)
    BY <1>3, <1>6, <1>7, <1>8, SumSplit
<1>10. BlockedSum(orders, u) = BlockedSum(rest, u) + BlockedIn(orders, gone)
    BY <1>4, <1>6, <1>7, <1>9
<1> QED BY <1>2, <1>5, <1>10 DEF rest, gone

-----------------------------------------------------------------------------
(* What the positions of a plan bring a user, in a field of theirs. *)

Brings(plan, field) == [i \in DOMAIN plan.positions |-> plan.positions[i][field]]
Of(plan, I, u) == {i \in I : plan.positions[i].user = u}

LEMMA SumForIs ==
    ASSUME NEW plan, NEW I, I \subseteq DOMAIN plan.positions, NEW u, NEW field
    PROVE  SumFor(plan, I, u, field) = SumOver(Brings(plan, field), Of(plan, I, u))
<1> DEFINE S == Of(plan, I, u)
           f == Brings(plan, field)
           Fold(g) == g = [s \in SUBSET S |->
                              IF s = {} THEN 0
                              ELSE plan.positions[Pick(s)][field] + g[s \ {Pick(s)}]]
<1>1. \A g : Fold(g) <=> IsFold(g, f, S)
    <2>1. \A s \in SUBSET S : s # {} => f[Pick(s)] = plan.positions[Pick(s)][field]
        BY PickIn DEF Brings, Of
    <2> QED BY <2>1 DEF IsFold
<1>2. (CHOOSE g : Fold(g)) = (CHOOSE g : IsFold(g, f, S))
    <2> HIDE DEF Fold, f, S
    <2> QED BY <1>1
<1>3. SumFor(plan, I, u, field) = (CHOOSE g : Fold(g))[S]
    BY DEF SumFor, MapThenSumSet, MapThenFoldSet, Pick, Of
<1> QED BY <1>2, <1>3, SumIsFold

(* A well-formed plan of typed snapshots. *)
PlanTyped(plan) == PlanOK(plan) /\ plan \in SettlementPlan

LEMMA SnapshotType ==
    ASSUME NEW plan, PlanTyped(plan)
    PROVE  /\ Len(plan.positions) \in Nat /\ DOMAIN plan.positions = 1..Len(plan.positions)
           /\ plan.cursor \in Nat /\ plan.cursor <= Len(plan.positions)
           /\ \A i \in 1..Len(plan.positions) : /\ plan.positions[i] \in SettlementPosition
                                                /\ plan.positions[i]["margin"] \in Nat
                                                /\ plan.positions[i]["cashflow"] \in Int
<1>1. plan.positions \in Seq(SettlementPosition)
    BY DEF PlanTyped, SettlementPlan
<1>2. plan.cursor \in Nat /\ plan.cursor <= Len(plan.positions)
    BY DEF PlanTyped, PlanOK
<1>3. DOMAIN plan.positions = 1..Len(plan.positions) /\ Len(plan.positions) \in Nat
    BY <1>1
<1>4. \A i \in 1..Len(plan.positions) : plan.positions[i] \in SettlementPosition
    BY <1>1
<1>5. \A p \in SettlementPosition : p["margin"] \in Nat /\ p["cashflow"] \in Int
    BY DEF SettlementPosition
<1> QED BY <1>2, <1>3, <1>4, <1>5

LEMMA BringsType ==
    ASSUME NEW plan, PlanTyped(plan), NEW I \in SUBSET (1..Len(plan.positions)), NEW u
    PROVE  /\ IsFiniteSet(Of(plan, I, u)) /\ I \subseteq DOMAIN plan.positions
           /\ \A i \in Of(plan, I, u) : /\ Brings(plan, "margin")[i] \in Nat
                                        /\ Brings(plan, "cashflow")[i] \in Int
<1> DEFINE n == Len(plan.positions)
<1>1. n \in Nat /\ DOMAIN plan.positions = 1..n
      /\ \A i \in 1..n : plan.positions[i]["margin"] \in Nat
                         /\ plan.positions[i]["cashflow"] \in Int
    BY SnapshotType
<1>2. IsFiniteSet(1..n)
    BY <1>1, FS_Interval
<1>3. Of(plan, I, u) \subseteq I
    BY DEF Of
<1> HIDE DEF n
<1>4. IsFiniteSet(Of(plan, I, u))
    <2>1. Of(plan, I, u) \subseteq 1..n
        BY <1>3 DEF n
    <2> QED BY <1>2, <2>1, FS_Subset
<1> QED BY <1>1, <1>3, <1>4 DEF Brings, n

LEMMA SumForType ==
    ASSUME NEW plan, PlanTyped(plan), NEW I \in SUBSET (1..Len(plan.positions)), NEW u
    PROVE  SumFor(plan, I, u, "margin") \in Nat /\ SumFor(plan, I, u, "cashflow") \in Int
<1>1. SumOver(Brings(plan, "margin"), Of(plan, I, u)) \in Nat
    BY BringsType, SumNat
<1>2. SumOver(Brings(plan, "cashflow"), Of(plan, I, u)) \in Int
    BY BringsType, SumType
<1> QED BY <1>1, <1>2, BringsType, SumForIs

(* What is left of a plan to apply, and what it needs of a user's margin. *)
Rest(plan) == (plan.cursor + 1)..Len(plan.positions)
RestSum(plan, u) == SumFor(plan, Rest(plan), u, "margin")

LEMMA AdvancedTyped ==
    ASSUME NEW plan, PlanTyped(plan)
    PROVE  PlanTyped(Advanced(plan)) /\ Rest(Advanced(plan)) = (ChunkEnd(plan) + 1)..Len(plan.positions)
           /\ Advanced(plan).positions = plan.positions
           /\ (Completes(plan) => Advanced(plan).status = "Finalised")
           /\ (~Completes(plan) => Advanced(plan).status = "Executing")
<1> DEFINE t == IF Completes(plan) THEN "Finalised" ELSE "Executing"
           new == Advanced(plan)
<1>1. Shaped(plan) /\ ChunkEnd(plan) \in plan.cursor..Len(plan.positions)
      /\ Len(plan.positions) \in Nat /\ plan.cursor \in 0..Len(plan.positions)
    BY ChunkEndType DEF PlanTyped, PlanOK
<1>2. /\ Shaped(new) /\ new.positions = plan.positions
      /\ new.cursor = ChunkEnd(plan) /\ new.status = t
    BY <1>1, MovedFields DEF Advanced
<1>3. ChunkEnd(plan) \in Nat /\ t \in {"Executing", "Finalised"}
    BY <1>1
<1>4. plan \in Shapes(Input, Seq(SettlementPosition), Nat, {"Executing", "Finalised"}, Nat, Nat)
    BY DEF PlanTyped, SettlementPlan, Shapes
<1>5. new = [plan EXCEPT !.cursor = ChunkEnd(plan), !.status = t]
    BY DEF Advanced, Moved
<1> HIDE DEF t, new
<1>6. new \in Shapes(Input, Seq(SettlementPosition), Nat, {"Executing", "Finalised"}, Nat, Nat)
    BY <1>3, <1>4, <1>5, ShapeKept
<1>7. new \in SettlementPlan
    BY <1>6 DEF Shapes, SettlementPlan
<1>8. PlanOK(new)
    BY <1>1, <1>2 DEF PlanOK, t, Completes
<1> QED BY <1>2, <1>7, <1>8 DEF PlanTyped, Rest, t, new

(* A chunk takes its part of what is left. *)
LEMMA ChunkSplits ==
    ASSUME NEW plan, PlanTyped(plan), NEW u
    PROVE  /\ SumFor(plan, Chunk(plan), u, "margin") \in Nat
           /\ SumFor(plan, Chunk(plan), u, "cashflow") \in Int
           /\ RestSum(plan, u) \in Nat /\ RestSum(Advanced(plan), u) \in Nat
           /\ RestSum(plan, u)
                = SumFor(plan, Chunk(plan), u, "margin") + RestSum(Advanced(plan), u)
           /\ Completes(plan) => RestSum(Advanced(plan), u) = 0
<1> DEFINE new == Advanced(plan)
           n == Len(plan.positions)
           I == Rest(plan)
           C == Chunk(plan)
           R == Rest(new)
           f == Brings(plan, "margin")
<1>1. /\ n \in Nat /\ ChunkEnd(plan) \in plan.cursor..n
      /\ plan.cursor \in Nat /\ plan.cursor <= n
    BY SnapshotType, ChunkEndType DEF PlanTyped
<1>2. R = (ChunkEnd(plan) + 1)..n /\ new.positions = plan.positions /\ PlanTyped(new)
    BY AdvancedTyped
<1>3. I = C \cup R /\ C \cap R = {} /\ C \in SUBSET (1..n) /\ R \in SUBSET (1..n)
      /\ I \in SUBSET (1..n) /\ (Completes(plan) => R = {})
    <2>1. /\ I = (plan.cursor + 1)..n /\ C = (plan.cursor + 1)..ChunkEnd(plan)
          /\ Completes(plan) => ChunkEnd(plan) = n
        BY DEF Rest, Chunk, Completes
    <2>2. R = (ChunkEnd(plan) + 1)..n
        BY <1>2
    <2> HIDE DEF I, C, R, n, new
    <2> QED BY <1>1, <2>1, <2>2
<1>4. SumFor(new, R, u, "margin") = SumFor(plan, R, u, "margin")
    BY <1>2 DEF SumFor
<1> HIDE DEF new, n, I, C, R, f
<1>5. /\ SumFor(plan, C, u, "margin") \in Nat /\ SumFor(plan, C, u, "cashflow") \in Int
      /\ SumFor(plan, R, u, "margin") \in Nat /\ SumFor(plan, I, u, "margin") \in Nat
    BY <1>3, SumForType DEF n
<1>6. /\ SumFor(plan, C, u, "margin") = SumOver(f, Of(plan, C, u))
      /\ SumFor(plan, R, u, "margin") = SumOver(f, Of(plan, R, u))
      /\ SumFor(plan, I, u, "margin") = SumOver(f, Of(plan, I, u))
    BY <1>3, BringsType, SumForIs DEF n, f
<1>7. /\ IsFiniteSet(Of(plan, C, u)) /\ \A i \in Of(plan, C, u) : f[i] \in Int
      /\ IsFiniteSet(Of(plan, R, u)) /\ \A i \in Of(plan, R, u) : f[i] \in Int
      /\ IsFiniteSet(Of(plan, I, u)) /\ \A i \in Of(plan, I, u) : f[i] \in Int
    <2>1. ASSUME NEW J \in SUBSET (1..n)
          PROVE  IsFiniteSet(Of(plan, J, u)) /\ \A i \in Of(plan, J, u) : f[i] \in Int
        BY BringsType DEF n, f
    <2> QED BY <1>3, <2>1
<1>8. /\ Of(plan, I, u) = Of(plan, C, u) \cup Of(plan, R, u)
      /\ Of(plan, C, u) \cap Of(plan, R, u) = {}
      /\ R = {} => Of(plan, R, u) = {}
    BY <1>3 DEF Of
<1>9. SumOver(f, Of(plan, I, u)) = SumOver(f, Of(plan, C, u)) + SumOver(f, Of(plan, R, u))
    <2> DEFINE i == Of(plan, I, u)
               c == Of(plan, C, u)
               r == Of(plan, R, u)
    <2> HIDE DEF i, c, r
    <2>1. \A x \in c \cup r \cup i : Term(f, i, x) = Term(f, c, x) + Term(f, r, x)
        BY <1>7, <1>8 DEF Term, i, c, r
    <2>2. SumOver(f, i) = SumOver(f, c) + SumOver(f, r)
        BY <1>7, <2>1, SumSplit DEF i, c, r
    <2> QED BY <2>2 DEF i, c, r
<1>10. Completes(plan) => SumOver(f, Of(plan, R, u)) = 0
    BY <1>3, <1>8, SumEmpty
<1>11. RestSum(plan, u) = SumFor(plan, I, u, "margin")
       /\ RestSum(new, u) = SumFor(plan, R, u, "margin")
    BY <1>4 DEF RestSum, I, R
<1> QED BY <1>5, <1>6, <1>9, <1>10, <1>11 DEF C, new

(* What the plans in flight still need of a user's margin. *)
OpenPlans(plans) == {s \in DOMAIN plans : plans[s].status # "Finalised"}
PlanSum(plans, u) == MapThenSumSet(LAMBDA s : RestSum(plans[s], u), OpenPlans(plans))

Rests(plans, u) == [s \in DOMAIN plans |-> RestSum(plans[s], u)]
RestAt(plans, u, s) == IF s \in OpenPlans(plans) THEN RestSum(plans[s], u) ELSE 0

HasPlans(plans) ==
    IsFiniteSet(OpenPlans(plans)) /\ \A s \in DOMAIN plans : PlanTyped(plans[s])

LEMMA PlanSumIs ==
    ASSUME NEW plans, NEW u
    PROVE  PlanSum(plans, u) = SumOver(Rests(plans, u), OpenPlans(plans))
<1> DEFINE S == OpenPlans(plans)
           f == Rests(plans, u)
           Fold(g) == g = [s \in SUBSET S |->
                              IF s = {} THEN 0
                              ELSE RestSum(plans[Pick(s)], u) + g[s \ {Pick(s)}]]
<1>1. \A g : Fold(g) <=> IsFold(g, f, S)
    <2>1. \A s \in SUBSET S : s # {} => f[Pick(s)] = RestSum(plans[Pick(s)], u)
        BY PickIn DEF Rests, OpenPlans
    <2> QED BY <2>1 DEF IsFold
<1>2. (CHOOSE g : Fold(g)) = (CHOOSE g : IsFold(g, f, S))
    <2> HIDE DEF Fold, f, S
    <2> QED BY <1>1
<1>3. PlanSum(plans, u) = (CHOOSE g : Fold(g))[S]
    BY DEF PlanSum, MapThenSumSet, MapThenFoldSet, Pick
<1> QED BY <1>2, <1>3, SumIsFold

LEMMA PlanTerms ==
    ASSUME NEW plans, HasPlans(plans), NEW u
    PROVE  /\ \A s \in OpenPlans(plans) : Rests(plans, u)[s] \in Nat
           /\ \A s : Term(Rests(plans, u), OpenPlans(plans), s) = RestAt(plans, u, s)
           /\ \A s : RestAt(plans, u, s) \in Nat
           /\ PlanSum(plans, u) \in Nat
<1>1. \A s \in DOMAIN plans : RestSum(plans[s], u) \in Nat
    BY ChunkSplits DEF HasPlans
<1>2. OpenPlans(plans) \subseteq DOMAIN plans
    BY DEF OpenPlans
<1>3. \A s \in OpenPlans(plans) : Rests(plans, u)[s] \in Nat
    BY <1>1, <1>2 DEF Rests
<1>4. \A s : Term(Rests(plans, u), OpenPlans(plans), s) = RestAt(plans, u, s)
    BY <1>2 DEF Term, Rests, RestAt
<1>5. PlanSum(plans, u) \in Nat
    BY <1>3, PlanSumIs, SumNat DEF HasPlans
<1>6. \A s : RestAt(plans, u, s) \in Nat
    BY <1>1, <1>2 DEF RestAt
<1> QED BY <1>3, <1>4, <1>5, <1>6

(* One plan changes. *)
LEMMA PlanSumMoves ==
    ASSUME NEW plans, NEW new, HasPlans(plans), HasPlans(new), NEW u, NEW s,
           \A x : x # s => RestAt(new, u, x) = RestAt(plans, u, x)
    PROVE  PlanSum(new, u) = PlanSum(plans, u) + (RestAt(new, u, s) - RestAt(plans, u, s))
<1> DEFINE f == Rests(plans, u)
           R == OpenPlans(plans)
           h == Rests(new, u)
           T == OpenPlans(new)
<1>1. /\ IsFiniteSet(R) /\ \A x \in R : f[x] \in Int
      /\ \A x : Term(f, R, x) = RestAt(plans, u, x)
      /\ PlanSum(plans, u) = SumOver(f, R)
    BY PlanTerms, PlanSumIs DEF HasPlans
<1>2. /\ IsFiniteSet(T) /\ \A x \in T : h[x] \in Int
      /\ \A x : Term(h, T, x) = RestAt(new, u, x)
      /\ PlanSum(new, u) = SumOver(h, T)
    BY PlanTerms, PlanSumIs DEF HasPlans
<1> HIDE DEF f, R, h, T
<1>3. \A x \in (R \cup T) \ {s} : Term(h, T, x) = Term(f, R, x)
    BY <1>1, <1>2
<1>4. SumOver(h, T) = SumOver(f, R) + (Term(h, T, s) - Term(f, R, s))
    BY <1>1, <1>2, <1>3, SumMoves
<1> QED BY <1>1, <1>2, <1>4

(* A plan gets what Advance makes of it. *)
LEMMA PlanAdvances ==
    ASSUME NEW plans, HasPlans(plans), NEW s, NEW plan, PlanTyped(plan)
    PROVE  LET new == Put(plans, s, Advanced(plan)) IN
           /\ HasPlans(new)
           /\ \A u : PlanSum(new, u) = PlanSum(plans, u)
                        + (RestSum(Advanced(plan), u) - RestAt(plans, u, s))
<1> DEFINE new == Put(plans, s, Advanced(plan))
<1>1. /\ DOMAIN new = DOMAIN plans \cup {s}
      /\ \A x \in DOMAIN plans \ {s} : new[x] = plans[x]
      /\ new[s] = Advanced(plan)
    BY DEF Put
<1>2. PlanTyped(Advanced(plan))
      /\ (Advanced(plan).status = "Finalised" => Completes(plan))
    BY AdvancedTyped
<1> HIDE DEF new
<1>3. HasPlans(new)
    <2>1. \A x \in DOMAIN new : PlanTyped(new[x])
        BY <1>1, <1>2 DEF HasPlans
    <2>2. OpenPlans(new) \subseteq OpenPlans(plans) \cup {s}
        BY <1>1 DEF OpenPlans
    <2>3. IsFiniteSet(OpenPlans(plans) \cup {s})
        BY FS_AddElement DEF HasPlans
    <2>4. IsFiniteSet(OpenPlans(new))
        BY <2>2, <2>3, FS_Subset
    <2> QED BY <2>1, <2>4 DEF HasPlans
<1>4. ASSUME NEW u
      PROVE  PlanSum(new, u) = PlanSum(plans, u)
                + (RestSum(Advanced(plan), u) - RestAt(plans, u, s))
    <2>1. ASSUME NEW x, x # s PROVE RestAt(new, u, x) = RestAt(plans, u, x)
        BY <1>1, <2>1 DEF RestAt, OpenPlans
    <2>2. RestAt(new, u, s) = RestSum(Advanced(plan), u)
        <3>1. Completes(plan) => RestSum(Advanced(plan), u) = 0
            BY ChunkSplits
        <3> QED BY <1>1, <1>2, <3>1 DEF RestAt, OpenPlans
    <2> QED BY <1>3, <2>1, <2>2, PlanSumMoves
<1> QED BY <1>3, <1>4 DEF new

-----------------------------------------------------------------------------
(* The plan a settlement opens: its snapshots are those of the positions. *)

IsOrder(keys, n, s) ==
    /\ keys \in [1..n -> PositionsOf(s)]
    /\ \A i \in 1..n, j \in 1..n : keys[i] = keys[j] => i = j
    /\ \A k \in PositionsOf(s) : \E i \in 1..n : keys[i] = k

LEMMA SnapshotKeys ==
    ASSUME FinitePositions, NEW s, NEW input
    PROVE  \E n \in Nat : \E keys :
               /\ IsOrder(keys, n, s)
               /\ NewPlan(s, input).positions = [i \in 1..n |-> Snapshot(keys[i], input)]
               /\ Len(NewPlan(s, input).positions) = n
<1> DEFINE K == PositionsOf(s)
           m == Cardinality(K)
           keys == SetToSeq(K)
           snaps == Snapshots(s, input)
<1>1. IsFiniteSet(K)
    BY FS_Subset DEF PositionsOf, FinitePositions
<1>2. m \in Nat /\ ExistsBijection(1..m, K)
    BY <1>1, FS_CardinalityType
<1>3. PICK f \in Bijection(1..m, K) : TRUE
    BY <1>2 DEF ExistsBijection
<1>4. /\ f \in [1..m -> K] /\ IsInjective(f)
      /\ \A k \in K : \E i \in 1..m : f[i] = k
    BY <1>3 DEF Bijection, Injection, Surjection, IsInjective
<1>5. keys \in [1..m -> K] /\ IsInjective(keys)
    BY <1>4 DEF SetToSeq
<1>6. keys \in Seq(K) /\ Len(keys) = m
    BY <1>2, <1>5
<1>7. snaps = [i \in 1..m |-> Snapshot(keys[i], input)]
    BY <1>6 DEF Snapshots
<1> HIDE DEF keys, snaps
<1>8. Len(snaps) = m
    BY <1>2, <1>7
<1>9. NewPlan(s, input).positions = snaps
    BY DEF NewPlan, snaps
<1>10. \A i \in 1..m, j \in 1..m : keys[i] = keys[j] => i = j
    BY <1>5 DEF IsInjective
<1>11. \A k \in K : \E i \in 1..m : keys[i] = k
    <2> DEFINE R == {keys[i] : i \in 1..m}
    <2>1. keys \in Bijection(1..m, R)
        <3>1. keys \in [1..m -> R]
            BY <1>5
        <3> QED BY <1>10, <3>1 DEF Bijection, Injection, Surjection, IsInjective
    <2>2. IsFiniteSet(1..m) /\ Cardinality(1..m) = m
        BY <1>2, FS_Interval
    <2>3. IsFiniteSet(R) /\ Cardinality(R) = m
        <3>1. ExistsBijection(1..m, R)
            BY <2>1 DEF ExistsBijection
        <3> HIDE DEF R
        <3> QED BY <2>2, <3>1, FS_Bijection
    <2>4. R \subseteq K
        BY <1>5
    <2> HIDE DEF R
    <2>5. R = K
        BY <1>1, <2>3, <2>4, FS_Subset
    <2> QED BY <2>5 DEF R
<1>12. IsOrder(keys, m, s)
    BY <1>5, <1>10, <1>11 DEF IsOrder
<1> QED BY <1>2, <1>7, <1>8, <1>9, <1>12

(* Total fees are sums of the positions' fees. *)
LEMMA TotalFeeType ==
    ASSUME FinitePositions, PositionsTyped, NEW s \in SeriesId, NEW input \in Input,
           Payable(s, input), NEW bps \in Nat
    PROVE  TotalFee(s, input, bps) \in Nat
<1> DEFINE S == PositionsOf(s)
           Fee(k) == SettlementFee(SettlementValue(Listing[s], k[3], positions[k].net_qty, input), bps)
           f == [k \in S |-> Fee(k)]
           Fold(g) == g = [t \in SUBSET S |->
                              IF t = {} THEN 0 ELSE Fee(Pick(t)) + g[t \ {Pick(t)}]]
<1>1. \A g : Fold(g) <=> IsFold(g, f, S)
    <2>1. \A t \in SUBSET S : t # {} => f[Pick(t)] = Fee(Pick(t))
        BY PickIn
    <2> HIDE DEF f, Fee, S
    <2> QED BY <2>1 DEF IsFold
<1>2. (CHOOSE g : Fold(g)) = (CHOOSE g : IsFold(g, f, S))
    <2> HIDE DEF Fold, f, S
    <2> QED BY <1>1
<1>3. TotalFee(s, input, bps) = (CHOOSE g : Fold(g))[S]
    BY DEF TotalFee, MapThenSumSet, MapThenFoldSet, Pick
<1>4. IsFiniteSet(S)
    BY FS_Subset DEF PositionsOf, FinitePositions
<1>5. ASSUME NEW k \in S PROVE f[k] \in Nat
    <2>1. k \in DOMAIN positions /\ S # {}
        BY DEF PositionsOf
    <2>2. positions[k].net_qty \in Int
        BY <2>1 DEF PositionsTyped, Position
    <2>3. Listing[s] \in Series /\ HasUnitPayoff(Listing[s], input)
        BY <2>1, BookAssumption DEF Payable
    <2>4. SettlementValue(Listing[s], k[3], positions[k].net_qty, input) \in Nat
        BY <2>2, <2>3, ValueType
    <2>5. Fee(k) \in Nat
        BY <2>4, FeeType
    <2> QED BY <2>5
<1> HIDE DEF S, f, Fold
<1>6. SumOver(f, S) \in Nat
    BY <1>4, <1>5, SumNat
<1> QED BY <1>2, <1>3, <1>6, SumIsFold

LEMMA NewPlanTyped ==
    ASSUME FinitePositions, PositionsTyped, NEW s \in SeriesId, NEW input \in Input,
           Payable(s, input)
    PROVE  PlanTyped(NewPlan(s, input))
<1> DEFINE plan == NewPlan(s, input)
<1>0. PICK n \in Nat : \E keys :
          /\ IsOrder(keys, n, s)
          /\ NewPlan(s, input).positions = [i \in 1..n |-> Snapshot(keys[i], input)]
          /\ Len(NewPlan(s, input).positions) = n
    BY SnapshotKeys
<1>2. PICK keys :
          /\ IsOrder(keys, n, s)
          /\ plan.positions = [i \in 1..n |-> Snapshot(keys[i], input)]
    BY <1>0
<1>1. keys \in [1..n -> PositionsOf(s)] /\ plan.positions = [i \in 1..n |-> Snapshot(keys[i], input)]
    BY <1>2 DEF IsOrder
<1>3. ASSUME NEW k \in PositionsOf(s) PROVE Snapshot(k, input) \in SettlementPosition
    <2> DEFINE value == SettlementValue(Listing[k[2]], k[3], positions[k].net_qty, input)
    <2>1. k \in DOMAIN positions /\ k[2] = s /\ PositionsOf(s) # {}
        BY DEF PositionsOf
    <2>2. positions[k].net_qty \in Int /\ positions[k].margin \in Nat /\ k \in PositionKey
        BY <2>1 DEF PositionsTyped, Position
    <2>3. Listing[k[2]] \in Series /\ HasUnitPayoff(Listing[k[2]], input)
        BY <2>1, BookAssumption DEF Payable
    <2>4. value \in Nat
        BY <2>2, <2>3, ValueType
    <2> HIDE DEF value
    <2>5. SettlementFee(value, INSURANCE_BPS) \in Nat /\ SettlementFee(value, PROTOCOL_BPS) \in Nat
        BY <2>4, FeeType, SettlementAssumption
    <2>6. k[1] \in User /\ k[3] \in Outcome
        BY <2>2 DEF PositionKey
    <2>7. value - positions[k].margin - SettlementFee(value, INSURANCE_BPS)
            - SettlementFee(value, PROTOCOL_BPS) \in Int
        BY <2>2, <2>4, <2>5
    <2> QED BY <2>2, <2>6, <2>7 DEF Snapshot, SettlementPosition, value
<1>4. plan.positions \in Seq(SettlementPosition)
    <2>1. \A i \in 1..n : plan.positions[i] \in SettlementPosition
        BY <1>1, <1>3
    <2> HIDE DEF plan
    <2> QED BY <1>1, <1>2, <2>1
<1>5. TotalFee(s, input, PROTOCOL_BPS) \in Nat /\ TotalFee(s, input, INSURANCE_BPS) \in Nat
    BY TotalFeeType, SettlementAssumption
<1>6. plan = [settlement |-> input, positions |-> Snapshots(s, input), cursor |-> 0,
              status |-> "Executing", fee |-> TotalFee(s, input, PROTOCOL_BPS),
              insurance_fee |-> TotalFee(s, input, INSURANCE_BPS)]
    BY DEF NewPlan
<1> HIDE DEF plan
<1>7. plan \in SettlementPlan
    BY <1>4, <1>5, <1>6 DEF SettlementPlan
<1>8. PlanOK(plan)
    BY NewPlanOK DEF plan
<1> QED BY <1>7, <1>8 DEF PlanTyped, plan

(* The margins of a user's positions in the series move into the plan. *)
LEMMA OpenedMargin ==
    ASSUME FinitePositions, PositionsTyped, NEW s \in SeriesId, NEW input \in Input,
           Payable(s, input), NEW u
    PROVE  /\ FinitePositions /\ HasMargins(Without(positions, PositionsOf(s)))
           /\ MarginSum(positions, u) = MarginSum(Without(positions, PositionsOf(s)), u)
                                          + RestSum(NewPlan(s, input), u)
<1>0. PICK n \in Nat : \E keys :
          /\ IsOrder(keys, n, s)
          /\ NewPlan(s, input).positions = [i \in 1..n |-> Snapshot(keys[i], input)]
          /\ Len(NewPlan(s, input).positions) = n
    BY SnapshotKeys
<1>2. PICK keys :
          /\ IsOrder(keys, n, s)
          /\ NewPlan(s, input).positions = [i \in 1..n |-> Snapshot(keys[i], input)]
          /\ Len(NewPlan(s, input).positions) = n
    BY <1>0
<1> DEFINE plan == NewPlan(s, input)
           S == Of(plan, 1..n, u)
           f == Brings(plan, "margin")
           gone == {k \in PositionsOf(s) : k[1] = u}
           rest == Without(positions, PositionsOf(s))
           p == Margins(rest)
           R == KeysOf(rest, u)
           h == Margins(positions)
           T == KeysOf(positions, u)
<1>1. PlanTyped(plan) /\ plan.cursor = 0
    BY NewPlanTyped, NewPlanOK
<1>3. /\ keys \in [1..n -> PositionsOf(s)]
      /\ \A i \in 1..n, j \in 1..n : keys[i] = keys[j] => i = j
      /\ \A k \in PositionsOf(s) : \E i \in 1..n : keys[i] = k
      /\ plan.positions = [i \in 1..n |-> Snapshot(keys[i], input)]
      /\ Len(plan.positions) = n
    BY <1>2 DEF IsOrder
<1>4. RestSum(plan, u) = SumOver(f, S)
    <2>1. Rest(plan) = 1..n
        BY <1>1, <1>3 DEF Rest
    <2>2. 1..n \subseteq DOMAIN plan.positions
        BY <1>3
    <2> HIDE DEF plan
    <2> QED BY <2>1, <2>2, SumForIs DEF RestSum
<1>5. IsFiniteSet(S) /\ \A i \in S : f[i] \in Int
    <2>1. 1..n \in SUBSET (1..Len(plan.positions))
        BY <1>3
    <2> HIDE DEF plan
    <2>2. /\ IsFiniteSet(Of(plan, 1..n, u))
          /\ \A i \in Of(plan, 1..n, u) : Brings(plan, "margin")[i] \in Nat
        BY <1>1, <2>1, BringsType
    <2> QED BY <2>2
<1>6. \A i \in 1..n : /\ plan.positions[i].user = keys[i][1]
                      /\ plan.positions[i]["margin"] = positions[keys[i]].margin
                      /\ keys[i] \in DOMAIN positions
    <2>1. \A k : /\ Snapshot(k, input).user = k[1]
                 /\ Snapshot(k, input)["margin"] = positions[k].margin
        BY DEF Snapshot
    <2> HIDE DEF plan
    <2> QED BY <1>3, <2>1 DEF PositionsOf
<1>7. S = {i \in 1..n : keys[i][1] = u} /\ \A i \in S : h[keys[i]] = f[i]
    BY <1>3, <1>6 DEF Of, Brings, Margins
<1>8. (\A i \in S : keys[i] \in gone) /\ \A k \in gone : \E i \in S : keys[i] = k
    BY <1>3, <1>7
<1> HIDE DEF S, f, plan
<1>9. SumOver(f, S) = SumOver(h, gone)
    <2>1. \A i \in S, j \in S : keys[i] = keys[j] => i = j
        BY <1>3, <1>7
    <2> HIDE DEF h, gone, R, T, p, rest
    <2>2. Renames(keys, f, S, h, gone)
        BY <1>7, <1>8, <2>1 DEF Renames
    <2> QED BY <1>5, <2>2, SumRenamed
<1>10. DOMAIN rest = DOMAIN positions \ PositionsOf(s)
       /\ \A x \in DOMAIN rest : rest[x] = positions[x]
    BY DEF Without, Restrict
<1>11. HasMargins(positions)
    BY DEF HasMargins, FinitePositions, PositionsTyped, Position
<1>12. HasMargins(rest)
    BY <1>10, <1>11, FS_Subset DEF HasMargins
<1>13. gone \subseteq DOMAIN positions
    BY DEF PositionsOf
<1>14. IsFiniteSet(gone) /\ \A x \in gone : h[x] \in Int
    BY <1>11, <1>13, FS_Subset DEF HasMargins, Margins
<1>15. /\ IsFiniteSet(R) /\ \A x \in R : p[x] \in Int
       /\ MarginSum(rest, u) = SumOver(p, R)
    <2> HIDE DEF rest
    <2> QED BY <1>12, MarginTerms, MarginSumIs
<1>16. /\ IsFiniteSet(T) /\ \A x \in T : h[x] \in Int
       /\ MarginSum(positions, u) = SumOver(h, T)
    BY <1>11, MarginTerms, MarginSumIs
<1>17. \A x \in R \cup gone \cup T : Term(h, T, x) = Term(p, R, x) + Term(h, gone, x)
    <2>1. R = T \ gone /\ gone \subseteq T /\ \A x \in R : p[x] = h[x]
        BY <1>10, <1>13 DEF KeysOf, Margins
    <2> HIDE DEF R, T, gone, p, h
    <2> QED BY <1>14, <1>15, <1>16, <2>1 DEF Term
<1> HIDE DEF rest, gone, p, R, h, T
<1>18. SumOver(h, T) = SumOver(p, R) + SumOver(h, gone)
    BY <1>14, <1>15, <1>16, <1>17, SumSplit
<1> QED BY <1>4, <1>8, <1>9, <1>12, <1>15, <1>16, <1>18 DEF rest, plan

-----------------------------------------------------------------------------
(* What a method's effect does to the book: it stays typed, and the reserved
   margin of every user moves by no less than what their positions and
   orders need, if tight by exactly as much. *)

BookMargin(u) == MarginSum(positions, u) + BlockedSum(limit_orders, u)

Follows(u, tight) ==
    \E d \in Int : /\ reserved_margin'[u] = Adjusted(reserved_margin[u], d)
                   /\ BookMargin(u)' <= BookMargin(u) + d
                   /\ tight => BookMargin(u)' = BookMargin(u) + d

BookOK == BookTyped /\ FinitePositions

Effect(tight) == BookOK' /\ \A u \in User : Follows(u, tight)

LEMMA BookSums ==
    ASSUME BookOK
    PROVE  /\ HasMargins(positions) /\ HasBlocks(limit_orders)
           /\ \A u : MarginSum(positions, u) \in Nat /\ BlockedSum(limit_orders, u) \in Nat
           /\ \A u : BookMargin(u) \in Nat
           /\ \A u \in User : reserved_margin[u] \in Nat /\ cash_balances[u] \in Int
<1>1. HasMargins(positions) /\ HasBlocks(limit_orders)
    BY DEF BookOK, BookTyped, FinitePositions, PositionsTyped, Position, HasMargins,
           OrdersTyped, OrderOK, Order, HasBlocks
<1>2. \A u : MarginSum(positions, u) \in Nat /\ BlockedSum(limit_orders, u) \in Nat
    BY <1>1, MarginTerms, BlockedTerms
<1>3. \A u \in User : reserved_margin[u] \in Nat /\ cash_balances[u] \in Int
    BY DEF BookOK, BookTyped, BalancesTyped
<1> QED BY <1>1, <1>2, <1>3 DEF BookMargin

LEMMA NoEffect ==
    ASSUME BookOK, UNCHANGED <<cash_balances, reserved_margin, positions, limit_orders,
                               executed_trades, accepted_transfers>>
    PROVE  Effect(TRUE)
<1>1. BookOK'
    BY DEF BookOK, BookTyped, BalancesTyped, FinitePositions, PositionsTyped, OrdersTyped, DoneTyped
<1>2. ASSUME NEW u \in User PROVE Follows(u, TRUE)
    <2>1. BookMargin(u)' = BookMargin(u) /\ BookMargin(u) \in Nat /\ reserved_margin[u] \in Nat
        BY BookSums DEF BookMargin
    <2>2. Adjusted(reserved_margin[u], 0) = reserved_margin[u]
        BY <2>1 DEF Adjusted, Less
    <2> QED BY <2>1, <2>2 DEF Follows
<1> QED BY <1>1, <1>2 DEF Effect

LEMMA NoTradeState ==
    ASSUME BookOK, UNCHANGED tradeState
    PROVE  Effect(TRUE)
BY NoEffect DEF tradeState, book

LEMMA AnyEffect ==
    ASSUME Effect(TRUE), NEW tight
    PROVE  Effect(tight)
<1>1. \A u \in User : Follows(u, TRUE) => Follows(u, tight)
    BY DEF Follows
<1> QED BY <1>1 DEF Effect

(* submit_limit_order's end blocks the order's margin. *)
LEMMA PlaceEffect ==
    ASSUME BookOK, NEW r, Submitted(r), r.op = "limit", PlaceOrder(r)
    PROVE  Effect(r.order \notin DOMAIN limit_orders)
<1> DEFINE blocked == OrderMargin(r.series, r.price, r.side, r.qty)
           new == [creator |-> r.user, series |-> r.series, outcome |-> r.outcome,
                   side |-> r.side, qty |-> r.qty, price |-> r.price, blocked |-> blocked]
           id == r.order
<1>1. /\ r.user \in User /\ r.series \in SeriesId /\ r.order \in OrderId
      /\ r.outcome \in Outcome /\ r.side \in {"Buy", "Sell"} /\ r.qty \in Nat /\ r.price \in Price
      /\ r.qty > 0
    BY TradingAssumption DEF Submitted, Requests
<1>2. CASE ~OrderAllowed(r)
    BY <1>2, NoTradeState, AnyEffect DEF PlaceOrder
<1>3. CASE OrderAllowed(r)
    <2>1. /\ reserved_margin' = [reserved_margin EXCEPT ![r.user] = @ + blocked]
          /\ limit_orders' = Put(limit_orders, id, new)
          /\ UNCHANGED <<cash_balances, positions, executed_trades, accepted_transfers>>
        BY <1>3 DEF PlaceOrder
    <2>2. HasMargin(Listing[r.series], Signed(r.side, r.qty)) /\ Signed(r.side, r.qty) \in Int
        BY <1>1, <1>3 DEF OrderAllowed, Signed
    <2>3. blocked \in Nat
        BY <1>1, <2>2, MarginType, BookAssumption DEF OrderMargin
    <2>4. OrderOK(new)
        BY <1>1, <2>2, <2>3 DEF OrderOK, Order
    <2>5. new.creator = r.user /\ new.blocked = blocked
        OBVIOUS
    <2> HIDE DEF blocked, new
    <2>6. /\ DOMAIN limit_orders' = DOMAIN limit_orders \cup {id}
          /\ limit_orders'[id] = new
          /\ \A x \in DOMAIN limit_orders \ {id} : limit_orders'[x] = limit_orders[x]
        BY <2>1 DEF Put
    <2>7. OrdersTyped'
        <3>1. IsFiniteSet(DOMAIN limit_orders')
            BY <2>6, FS_AddElement DEF BookOK, BookTyped, OrdersTyped
        <3>2. \A x \in DOMAIN limit_orders' : OrderOK(limit_orders'[x])
            BY <2>4, <2>6 DEF BookOK, BookTyped, OrdersTyped
        <3> QED BY <1>1, <2>6, <3>1, <3>2 DEF BookOK, BookTyped, OrdersTyped
    <2>8. BalancesTyped'
        BY <1>1, <2>1, <2>3 DEF BookOK, BookTyped, BalancesTyped
    <2>9. BookOK'
        BY <2>1, <2>7, <2>8 DEF BookOK, BookTyped, FinitePositions, PositionsTyped, DoneTyped
    <2>10. ASSUME NEW u \in User PROVE Follows(u, id \notin DOMAIN limit_orders)
        <3> DEFINE d == IF u = r.user THEN blocked ELSE 0
        <3>1. HasBlocks(limit_orders) /\ reserved_margin[u] \in Nat /\ BookMargin(u) \in Nat
              /\ MarginSum(positions, u) \in Nat /\ BlockedSum(limit_orders, u) \in Nat
            BY BookSums
        <3>2. HasBlocks(limit_orders')
            BY <2>9 DEF BookOK, BookTyped, OrdersTyped, OrderOK, Order, HasBlocks
        <3>3. \A x : x # id => BlockedAt(limit_orders', u, x) = BlockedAt(limit_orders, u, x)
            BY <2>6 DEF BlockedAt, OrdersBy
        <3>4. BlockedAt(limit_orders', u, id) = d
            BY <2>5, <2>6 DEF BlockedAt, OrdersBy
        <3>5. BlockedAt(limit_orders, u, id) \in Nat
              /\ (id \notin DOMAIN limit_orders => BlockedAt(limit_orders, u, id) = 0)
            BY <3>1 DEF BlockedAt, OrdersBy, HasBlocks
        <3>6. BlockedSum(limit_orders', u)
                = BlockedSum(limit_orders, u) + (d - BlockedAt(limit_orders, u, id))
            BY <3>1, <3>2, <3>3, <3>4, BlockedMoves
        <3>7. d \in Nat /\ reserved_margin'[u] = reserved_margin[u] + d
            BY <1>1, <2>1, <2>3, <3>1 DEF BookOK, BookTyped, BalancesTyped
        <3> HIDE DEF d
        <3>8. Adjusted(reserved_margin[u], d) = reserved_margin[u] + d
            BY <3>1, <3>7 DEF Adjusted, Less
        <3>9. BookMargin(u)' = MarginSum(positions, u) + BlockedSum(limit_orders', u)
            BY <2>1 DEF BookMargin
        <3> QED BY <3>1, <3>5, <3>6, <3>7, <3>8, <3>9 DEF Follows, BookMargin
    <2> QED BY <2>9, <2>10 DEF Effect
<1> QED BY <1>2, <1>3

(* What a trade changes of a party's position margin, and releases. *)
PartyMargin(leg) == leg.margin - PositionOf(leg.key).margin

TradeMargin(t, u) ==
    IF u = t.buyer THEN PartyMargin(BuyerLeg(t))
    ELSE IF u = t.seller THEN PartyMargin(SellerLeg(t)) ELSE 0

TradeReleases(t, u) ==
    IF u = t.buyer THEN t.b_unblock ELSE IF u = t.seller THEN t.s_unblock ELSE 0

LEMMA PartyLegs ==
    ASSUME BookOK, NEW t, TradeTyped(t), TradeAllowed(t)
    PROVE  /\ LET b == BuyerLeg(t) IN
              /\ b.key = <<t.buyer, t.series, t.outcome>> /\ b.key \in PositionKey
              /\ AsPosition(b) \in Position /\ b.cash \in Int /\ b.reserve \in Int
              /\ b.reserve = PartyMargin(b) - t.b_unblock
           /\ LET s == SellerLeg(t) IN
              /\ s.key = <<t.seller, t.series, t.outcome>> /\ s.key \in PositionKey
              /\ AsPosition(s) \in Position /\ s.cash \in Int /\ s.reserve \in Int
              /\ s.reserve = PartyMargin(s) - t.s_unblock
<1>1. LegHasMargin(t, BuyerLeg(t)) /\ LegHasMargin(t, SellerLeg(t))
    BY DEF TradeAllowed
<1>2. PositionsTyped
    BY DEF BookOK, BookTyped
<1>3. t.buyer \in User /\ t.seller \in User /\ t.qty \in Int /\ -t.qty \in Int
      /\ t.b_unblock \in Int /\ t.s_unblock \in Int
    BY DEF TradeTyped
<1>4. LET b == Leg(t, t.buyer, t.qty, t.b_unblock) IN
      /\ b.key = <<t.buyer, t.series, t.outcome>> /\ b.key \in PositionKey
      /\ AsPosition(b) \in Position /\ b.cash \in Int /\ b.reserve \in Int
      /\ b.reserve = b.margin - PositionOf(b.key).margin - t.b_unblock
    BY <1>1, <1>2, <1>3, LegType DEF BuyerLeg
<1>5. LET s == Leg(t, t.seller, -t.qty, t.s_unblock) IN
      /\ s.key = <<t.seller, t.series, t.outcome>> /\ s.key \in PositionKey
      /\ AsPosition(s) \in Position /\ s.cash \in Int /\ s.reserve \in Int
      /\ s.reserve = s.margin - PositionOf(s.key).margin - t.s_unblock
    BY <1>1, <1>2, <1>3, LegType DEF SellerLeg
<1> QED BY <1>4, <1>5 DEF BuyerLeg, SellerLeg, PartyMargin

LEMMA PositionMargins ==
    ASSUME BookOK, NEW k
    PROVE  PositionOf(k).margin = MarginAt(positions, k) /\ MarginAt(positions, k) \in Nat
BY PositionType DEF BookOK, BookTyped, PositionOf, NoPosition, MarginAt

(* execute_trade_impl: both parties' positions and reserved margins. *)
LEMMA TradeEffect ==
    ASSUME BookOK, NEW t, TradeTyped(t), TradeAllowed(t), ApplyTrade(t)
    PROVE  /\ BalancesTyped' /\ PositionsTyped' /\ FinitePositions'
           /\ executed_trades' \subseteq TradeId
           /\ \A u \in User :
                 /\ TradeMargin(t, u) \in Int /\ TradeReleases(t, u) \in Int
                 /\ reserved_margin'[u]
                      = Adjusted(reserved_margin[u], TradeMargin(t, u) - TradeReleases(t, u))
                 /\ MarginSum(positions', u) = MarginSum(positions, u) + TradeMargin(t, u)
<1> DEFINE b == BuyerLeg(t)
           s == SellerLeg(t)
<1>1. /\ b.key = <<t.buyer, t.series, t.outcome>> /\ b.key \in PositionKey
      /\ AsPosition(b) \in Position /\ b.cash \in Int /\ b.reserve \in Int
      /\ b.reserve = PartyMargin(b) - t.b_unblock
      /\ s.key = <<t.seller, t.series, t.outcome>> /\ s.key \in PositionKey
      /\ AsPosition(s) \in Position /\ s.cash \in Int /\ s.reserve \in Int
      /\ s.reserve = PartyMargin(s) - t.s_unblock
    BY PartyLegs
<1>2. /\ t.buyer \in User /\ t.seller \in User /\ t.buyer # t.seller /\ t.trade \in TradeId
      /\ t.b_unblock \in Int /\ t.s_unblock \in Int
    BY DEF TradeTyped, TradeAllowed
<1>3. /\ cash_balances' = [cash_balances EXCEPT ![t.buyer] = @ - b.cash,
                                                ![t.seller] = @ - s.cash]
      /\ reserved_margin' = [reserved_margin EXCEPT
                                ![t.buyer] = Adjusted(@, b.reserve),
                                ![t.seller] = Adjusted(@, s.reserve)]
      /\ positions' = Put(Put(positions, b.key, AsPosition(b)), s.key, AsPosition(s))
      /\ executed_trades' = executed_trades \cup {t.trade}
    BY DEF ApplyTrade
<1>4. /\ AsPosition(b).margin = b.margin /\ b.margin \in Nat
      /\ AsPosition(s).margin = s.margin /\ s.margin \in Nat
    BY <1>1 DEF AsPosition, Position
<1>5. b.key # s.key /\ b.key[1] = t.buyer /\ s.key[1] = t.seller
    BY <1>1, <1>2
<1>6. /\ PositionOf(b.key).margin = MarginAt(positions, b.key)
      /\ PositionOf(s.key).margin = MarginAt(positions, s.key)
      /\ MarginAt(positions, b.key) \in Nat /\ MarginAt(positions, s.key) \in Nat
    BY PositionMargins
<1>7. /\ PartyMargin(b) = b.margin - MarginAt(positions, b.key)
      /\ PartyMargin(s) = s.margin - MarginAt(positions, s.key)
    BY <1>6 DEF PartyMargin
<1>8. \A u : /\ u = t.buyer => /\ TradeMargin(t, u) = PartyMargin(b)
                               /\ TradeReleases(t, u) = t.b_unblock
             /\ u = t.seller => /\ TradeMargin(t, u) = PartyMargin(s)
                                /\ TradeReleases(t, u) = t.s_unblock
             /\ u # t.buyer /\ u # t.seller => TradeMargin(t, u) = 0 /\ TradeReleases(t, u) = 0
    BY <1>2 DEF TradeMargin, TradeReleases
<1> HIDE DEF b, s
<1>9. /\ DOMAIN positions' = DOMAIN positions \cup {b.key, s.key}
      /\ positions'[b.key] = AsPosition(b) /\ positions'[s.key] = AsPosition(s)
      /\ \A k \in DOMAIN positions \ {b.key, s.key} : positions'[k] = positions[k]
    BY <1>3, <1>5 DEF Put
<1>10. PositionsTyped'
    BY <1>1, <1>9 DEF BookOK, BookTyped, PositionsTyped
<1>11. FinitePositions'
    <2>1. IsFiniteSet({b.key} \cup {s.key})
        BY FS_Singleton, FS_AddElement
    <2>2. {b.key} \cup {s.key} = {b.key, s.key}
        OBVIOUS
    <2>3. IsFiniteSet(DOMAIN positions \cup {b.key, s.key})
        BY <2>1, <2>2, FS_Union DEF BookOK, FinitePositions
    <2> QED BY <1>9, <2>3 DEF FinitePositions
<1>12. \A u \in User : reserved_margin[u] \in Nat /\ cash_balances[u] \in Int
    BY BookSums
<1>13. /\ reserved_margin'[t.buyer] = Adjusted(reserved_margin[t.buyer], b.reserve)
       /\ reserved_margin'[t.seller] = Adjusted(reserved_margin[t.seller], s.reserve)
       /\ \A u \in User \ {t.buyer, t.seller} : reserved_margin'[u] = reserved_margin[u]
       /\ cash_balances'[t.buyer] = cash_balances[t.buyer] - b.cash
       /\ cash_balances'[t.seller] = cash_balances[t.seller] - s.cash
       /\ \A u \in User \ {t.buyer, t.seller} : cash_balances'[u] = cash_balances[u]
       /\ DOMAIN reserved_margin' = User /\ DOMAIN cash_balances' = User
       /\ reserved_margin' = [u \in User |-> reserved_margin'[u]]
       /\ cash_balances' = [u \in User |-> cash_balances'[u]]
    BY <1>2, <1>3 DEF BookOK, BookTyped, BalancesTyped
<1>14. \A u \in User : Adjusted(reserved_margin[u], 0) = reserved_margin[u]
    BY <1>12 DEF Adjusted, Less
<1>15. ASSUME NEW u \in User
       PROVE  /\ TradeMargin(t, u) \in Int /\ TradeReleases(t, u) \in Int
              /\ reserved_margin'[u]
                   = Adjusted(reserved_margin[u], TradeMargin(t, u) - TradeReleases(t, u))
              /\ cash_balances'[u] \in Int
    <2>1. CASE u = t.buyer
        BY <1>1, <1>2, <1>4, <1>6, <1>7, <1>8, <1>12, <1>13, <2>1
    <2>2. CASE u = t.seller
        BY <1>1, <1>2, <1>4, <1>6, <1>7, <1>8, <1>12, <1>13, <2>2
    <2>3. CASE u # t.buyer /\ u # t.seller
        BY <1>8, <1>12, <1>13, <1>14, <2>3
    <2> QED BY <2>1, <2>2, <2>3
<1>16. BalancesTyped'
    <2>1. ASSUME NEW u \in User PROVE reserved_margin'[u] \in Nat
        <3>1. TradeMargin(t, u) - TradeReleases(t, u) \in Int
            BY <1>15
        <3> QED BY <1>12, <1>15, <3>1, AdjustedType
    <2> QED BY <1>13, <1>15, <2>1 DEF BalancesTyped
<1>17. executed_trades' \subseteq TradeId
    BY <1>2, <1>3 DEF BookOK, BookTyped, DoneTyped
<1>18. HasMargins(positions) /\ HasMargins(positions')
    BY <1>10, <1>11, BookSums DEF HasMargins, FinitePositions, PositionsTyped, Position
<1>19. ASSUME NEW u \in User
       PROVE  MarginSum(positions', u) = MarginSum(positions, u) + TradeMargin(t, u)
    <2>1. /\ MarginAt(positions', b.key) = b.margin /\ MarginAt(positions', s.key) = s.margin
          /\ \A k : k # b.key /\ k # s.key => MarginAt(positions', k) = MarginAt(positions, k)
        BY <1>4, <1>9 DEF MarginAt
    <2>2. CASE u = t.buyer
        <3>1. \A k : k[1] = u /\ k # b.key => MarginAt(positions', k) = MarginAt(positions, k)
            BY <1>2, <1>5, <2>1, <2>2
        <3>2. MarginSum(positions', u) = MarginSum(positions, u)
                  + (MarginAt(positions', b.key) - MarginAt(positions, b.key))
            BY <1>5, <1>18, <2>2, <3>1, MarginSumMoves
        <3> QED BY <1>7, <1>8, <2>1, <2>2, <3>2
    <2>3. CASE u = t.seller
        <3>1. \A k : k[1] = u /\ k # s.key => MarginAt(positions', k) = MarginAt(positions, k)
            BY <1>2, <1>5, <2>1, <2>3
        <3>2. MarginSum(positions', u) = MarginSum(positions, u)
                  + (MarginAt(positions', s.key) - MarginAt(positions, s.key))
            BY <1>5, <1>18, <2>3, <3>1, MarginSumMoves
        <3> QED BY <1>7, <1>8, <2>1, <2>3, <3>2
    <2>4. CASE u # t.buyer /\ u # t.seller
        <3>1. \A k : k[1] = u => MarginAt(positions', k) = MarginAt(positions, k)
            BY <1>5, <2>1, <2>4
        <3>2. MarginSum(positions', u) = MarginSum(positions, u)
            BY <1>18, <3>1, MarginSumSame
        <3>3. MarginSum(positions, u) \in Nat
            BY BookSums
        <3> QED BY <1>8, <2>4, <3>2, <3>3
    <2> QED BY <2>2, <2>3, <2>4
<1> QED BY <1>10, <1>11, <1>15, <1>16, <1>17, <1>19

(* submit_matched_trade.  The releases are the caller's. *)
LEMMA MatchedEffect ==
    ASSUME BookOK, NEW r, Submitted(r), r.op = "matched", MatchedTrade(r)
    PROVE  BookOK' /\ (r.b_unblock = 0 /\ r.s_unblock = 0 => Effect(TRUE))
<1> DEFINE t == [series |-> r.series, outcome |-> r.outcome, trade |-> r.trade,
                 buyer |-> r.buyer, seller |-> r.seller, qty |-> r.qty, price |-> r.price,
                 b_unblock |-> r.b_unblock, s_unblock |-> r.s_unblock]
<1>1. /\ r.series \in SeriesId /\ r.outcome \in Outcome /\ r.trade \in TradeId
      /\ r.buyer \in User /\ r.seller \in User /\ r.qty \in Nat /\ r.price \in Price
      /\ r.b_unblock \in Nat /\ r.s_unblock \in Nat
    BY TradingAssumption DEF Submitted, Requests
<1>2. TradeTyped(t)
    BY <1>1 DEF TradeTyped
<1>3. CASE ~TradeAllowed(t)
    <2>1. Effect(TRUE)
        BY <1>3, NoTradeState DEF MatchedTrade
    <2> QED BY <2>1 DEF Effect
<1>4. CASE TradeAllowed(t)
    <2>1. ApplyTrade(t) /\ UNCHANGED <<limit_orders, accepted_transfers>>
        BY <1>4 DEF MatchedTrade
    <2>2. \A u : r.b_unblock = 0 /\ r.s_unblock = 0 => TradeReleases(t, u) = 0
        BY DEF TradeReleases
    <2> HIDE DEF t
    <2>3. /\ BalancesTyped' /\ PositionsTyped' /\ FinitePositions'
          /\ executed_trades' \subseteq TradeId
          /\ \A u \in User :
                /\ TradeMargin(t, u) \in Int /\ TradeReleases(t, u) \in Int
                /\ reserved_margin'[u]
                     = Adjusted(reserved_margin[u], TradeMargin(t, u) - TradeReleases(t, u))
                /\ MarginSum(positions', u) = MarginSum(positions, u) + TradeMargin(t, u)
        BY <1>2, <1>4, <2>1, TradeEffect
    <2>4. BookOK'
        BY <2>1, <2>3 DEF BookOK, BookTyped, OrdersTyped, DoneTyped
    <2>5. ASSUME r.b_unblock = 0, r.s_unblock = 0, NEW u \in User PROVE Follows(u, TRUE)
        <3>1. TradeReleases(t, u) = 0
            BY <2>2, <2>5
        <3>2. MarginSum(positions, u) \in Nat /\ BlockedSum(limit_orders, u) \in Nat
            BY BookSums
        <3>3. BookMargin(u)' = MarginSum(positions', u) + BlockedSum(limit_orders, u)
            BY <2>1 DEF BookMargin
        <3>4. BookMargin(u)' = BookMargin(u) + TradeMargin(t, u)
            BY <2>3, <3>2, <3>3 DEF BookMargin
        <3>5. TradeMargin(t, u) \in Int
              /\ reserved_margin'[u] = Adjusted(reserved_margin[u], TradeMargin(t, u))
            BY <2>3, <3>1
        <3>6. BookMargin(u) \in Nat
            BY BookSums
        <3> QED BY <3>4, <3>5, <3>6 DEF Follows
    <2> QED BY <2>4, <2>5 DEF Effect
<1> QED BY <1>3, <1>4

(* The part of an order a fill leaves on the book. *)
LEMMA FillParts ==
    ASSUME NEW r, Submitted(r), r.op = "market", r.qty # 0, NEW order, OrderOK(order)
    PROVE  LET q == FillQty(r, order)
               left == order.qty - q
           IN  /\ q \in Nat /\ left \in Nat /\ RemainingBlocked(r, order) \in Nat
               /\ left = 0 => RemainingBlocked(r, order) = 0
               /\ HasMargin(Listing[order.series], Signed(order.side, left))
<1> DEFINE q == FillQty(r, order)
           left == order.qty - q
<1>1. /\ order.qty \in Nat /\ order.qty > 0 /\ order.side \in {"Buy", "Sell"}
      /\ order.series \in SeriesId /\ order.price \in Price
      /\ HasMargin(Listing[order.series], Signed(order.side, order.qty))
    BY DEF OrderOK, Order
<1>2. r.qty = None \/ r.qty \in Nat
    BY TradingAssumption DEF Submitted, Requests
<1>3. q \in Nat /\ left \in Nat
    BY <1>1, <1>2 DEF FillQty
<1>4. RemainingBlocked(r, order)
        = RequiredMargin(Listing[order.series], order.price, Signed(order.side, left))
    BY DEF RemainingBlocked, OrderMargin
<1> HIDE DEF q, left
<1>5. Signed(order.side, left) \in Int /\ (left = 0 => Signed(order.side, left) = 0)
      /\ (Signed(order.side, left) < 0 => Signed(order.side, order.qty) < 0)
    BY <1>1, <1>3 DEF Signed
<1>6. HasMargin(Listing[order.series], Signed(order.side, left))
    BY <1>1, <1>5 DEF HasMargin
<1>7. RemainingBlocked(r, order) \in Nat
    BY <1>1, <1>4, <1>5, <1>6, MarginType, BookAssumption
<1>8. left = 0 => RemainingBlocked(r, order) = 0
    BY <1>4, <1>5 DEF RequiredMargin
<1> QED BY <1>3, <1>6, <1>7, <1>8 DEF q, left

(* submit_market_order: the creator's reserved margin moves from the order
   to the position. *)
LEMMA FillEffect ==
    ASSUME BookOK, NEW r, Submitted(r), r.op = "market", NEW seen, FillOrder(r, seen)
    PROVE  Effect(TRUE)
<1> DEFINE id == r.order
           order == limit_orders[id]
           t == FillTrade(r, order)
           left == order.qty - FillQty(r, order)
           kept == RemainingBlocked(r, order)
           new == [order EXCEPT !.qty = left, !.blocked = kept]
<1>1. CASE ~FillAllowed(r, seen)
    BY <1>1, NoTradeState DEF FillOrder
<1>2. CASE FillAllowed(r, seen)
    <2>1. /\ ApplyTrade(t) /\ UNCHANGED accepted_transfers
          /\ limit_orders' = IF left = 0 THEN Without(limit_orders, {id})
                             ELSE [limit_orders EXCEPT ![id] = new]
        BY <1>2 DEF FillOrder
    <2>2. r.qty # 0 /\ id \in DOMAIN limit_orders /\ TradeAllowed(t) /\ kept <= order.blocked
        BY <1>2 DEF FillAllowed
    <2>3. OrderOK(order)
        BY <2>2 DEF BookOK, BookTyped, OrdersTyped
    <2>4. /\ FillQty(r, order) \in Nat /\ left \in Nat /\ kept \in Nat
          /\ left = 0 => kept = 0
          /\ HasMargin(Listing[order.series], Signed(order.side, left))
        <3> HIDE DEF order
        <3> QED BY <2>2, <2>3, FillParts
    <2>5. order \in Order /\ order.blocked \in Nat /\ order.creator \in User
        BY <2>3 DEF OrderOK, Order
    <2>6. r.trade \in TradeId /\ r.user \in User
        BY TradingAssumption DEF Submitted, Requests
    <2>7. TradeTyped(t)
        <3>1. order.series \in SeriesId /\ order.outcome \in Outcome /\ order.price \in Price
            BY <2>5 DEF Order
        <3> QED BY <2>4, <2>5, <2>6, <3>1 DEF TradeTyped, FillTrade
    <2>8. t.buyer # t.seller
        BY <2>2 DEF TradeAllowed
    <2>9. \A u : TradeReleases(t, u) = IF u = order.creator THEN order.blocked - kept ELSE 0
        <3>1. /\ t.buyer = IF order.side = "Buy" THEN order.creator ELSE r.user
              /\ t.seller = IF order.side = "Buy" THEN r.user ELSE order.creator
              /\ t.b_unblock = IF order.side = "Buy" THEN order.blocked - kept ELSE 0
              /\ t.s_unblock = IF order.side = "Buy" THEN 0 ELSE order.blocked - kept
            BY DEF FillTrade
        <3> HIDE DEF t, kept, order
        <3> QED BY <2>8, <3>1 DEF TradeReleases
    <2>10. left # 0 => OrderOK(new)
        <3>1. order \in [creator : User, series : SeriesId, outcome : Outcome, side : {"Buy", "Sell"},
                         qty : Nat \ {0}, price : Price, blocked : Nat]
            BY <2>5 DEF Order
        <3> HIDE DEF order, left, kept
        <3>2. ASSUME left # 0 PROVE new \in Order
            BY <2>4, <3>1, <3>2 DEF Order
        <3>3. new.series = order.series /\ new.side = order.side /\ new.price = order.price
              /\ (left # 0 => new.qty = left)
            BY <2>4, <3>1
        <3> HIDE DEF new
        <3> QED BY <2>4, <3>2, <3>3 DEF OrderOK
    <2>11. new.creator = order.creator /\ new.blocked = kept
        BY <2>5 DEF Order
    <2> HIDE DEF t, left, kept, new
    <2>12. /\ BalancesTyped' /\ PositionsTyped' /\ FinitePositions'
           /\ executed_trades' \subseteq TradeId
           /\ \A u \in User :
                 /\ TradeMargin(t, u) \in Int /\ TradeReleases(t, u) \in Int
                 /\ reserved_margin'[u]
                      = Adjusted(reserved_margin[u], TradeMargin(t, u) - TradeReleases(t, u))
                 /\ MarginSum(positions', u) = MarginSum(positions, u) + TradeMargin(t, u)
        BY <2>1, <2>2, <2>7, TradeEffect
    <2>13. /\ left = 0 => DOMAIN limit_orders' = DOMAIN limit_orders \ {id}
           /\ left # 0 => DOMAIN limit_orders' = DOMAIN limit_orders /\ limit_orders'[id] = new
           /\ \A x \in DOMAIN limit_orders \ {id} : limit_orders'[x] = limit_orders[x]
           /\ DOMAIN limit_orders' \subseteq DOMAIN limit_orders
        BY <2>1, <2>2 DEF Without, Restrict
    <2>14. OrdersTyped'
        <3>1. IsFiniteSet(DOMAIN limit_orders')
            BY <2>13, FS_Subset DEF BookOK, BookTyped, OrdersTyped
        <3>2. \A x \in DOMAIN limit_orders' : OrderOK(limit_orders'[x])
            BY <2>10, <2>13 DEF BookOK, BookTyped, OrdersTyped
        <3> QED BY <2>13, <3>1, <3>2 DEF BookOK, BookTyped, OrdersTyped
    <2>15. BookOK'
        BY <2>1, <2>12, <2>14 DEF BookOK, BookTyped, DoneTyped
    <2>16. ASSUME NEW u \in User PROVE Follows(u, TRUE)
        <3> DEFINE d == TradeMargin(t, u) - TradeReleases(t, u)
        <3>1. HasBlocks(limit_orders) /\ BookMargin(u) \in Nat
              /\ MarginSum(positions, u) \in Nat /\ BlockedSum(limit_orders, u) \in Nat
            BY BookSums
        <3>2. HasBlocks(limit_orders')
            BY <2>15 DEF BookOK, BookTyped, OrdersTyped, OrderOK, Order, HasBlocks
        <3>3. \A x : x # id => BlockedAt(limit_orders', u, x) = BlockedAt(limit_orders, u, x)
            BY <2>13 DEF BlockedAt, OrdersBy
        <3>4. BlockedAt(limit_orders', u, id) = IF u = order.creator THEN kept ELSE 0
            BY <2>2, <2>4, <2>11, <2>13 DEF BlockedAt, OrdersBy
        <3>5. BlockedAt(limit_orders, u, id) = IF u = order.creator THEN order.blocked ELSE 0
            BY <2>2 DEF BlockedAt, OrdersBy
        <3>6. BlockedSum(limit_orders', u) = BlockedSum(limit_orders, u)
                + (BlockedAt(limit_orders', u, id) - BlockedAt(limit_orders, u, id))
            BY <3>1, <3>2, <3>3, BlockedMoves
        <3> HIDE DEF order
        <3>7. BlockedSum(limit_orders', u) = BlockedSum(limit_orders, u) - TradeReleases(t, u)
            BY <2>4, <2>5, <2>9, <3>1, <3>4, <3>5, <3>6
        <3>8. /\ TradeMargin(t, u) \in Int /\ TradeReleases(t, u) \in Int
              /\ reserved_margin'[u] = Adjusted(reserved_margin[u], d)
              /\ MarginSum(positions', u) = MarginSum(positions, u) + TradeMargin(t, u)
            BY <2>12
        <3>9. BookMargin(u)' = MarginSum(positions', u) + BlockedSum(limit_orders', u)
            BY DEF BookMargin
        <3>10. d \in Int /\ BookMargin(u)' = BookMargin(u) + d
            BY <3>1, <3>7, <3>8, <3>9 DEF BookMargin
        <3> HIDE DEF d
        <3> QED BY <3>1, <3>8, <3>10 DEF Follows
    <2> QED BY <2>15, <2>16 DEF Effect
<1> QED BY <1>1, <1>2

(* cancel_limit_order unblocks the order's margin. *)
LEMMA CancelEffect ==
    ASSUME BookOK, NEW id, CancelOrder(id)
    PROVE  Effect(TRUE)
<1> DEFINE order == limit_orders[id]
<1>1. /\ id \in DOMAIN limit_orders
      /\ reserved_margin' = [reserved_margin EXCEPT ![order.creator] = Less(@, order.blocked)]
      /\ limit_orders' = Without(limit_orders, {id})
      /\ UNCHANGED <<cash_balances, positions, executed_trades, accepted_transfers>>
    BY DEF CancelOrder, tradingVars
<1>2. order.creator \in User /\ order.blocked \in Nat
    BY <1>1 DEF BookOK, BookTyped, OrdersTyped, OrderOK, Order
<1>3. /\ DOMAIN limit_orders' = DOMAIN limit_orders \ {id}
      /\ \A x \in DOMAIN limit_orders' : limit_orders'[x] = limit_orders[x]
    BY <1>1 DEF Without, Restrict
<1>4. OrdersTyped'
    <2>1. IsFiniteSet(DOMAIN limit_orders')
        BY <1>3, FS_Subset DEF BookOK, BookTyped, OrdersTyped
    <2> QED BY <1>3, <2>1 DEF BookOK, BookTyped, OrdersTyped, OrderOK
<1>5. \A u \in User : reserved_margin[u] \in Nat /\ cash_balances[u] \in Int
    BY BookSums
<1>6. BalancesTyped'
    <2>1. Less(reserved_margin[order.creator], order.blocked) \in Nat
        <3> HIDE DEF order
        <3>1. reserved_margin[order.creator] \in Int /\ order.blocked \in Int
            BY <1>2, <1>5
        <3> QED BY <3>1, LessType
    <2> QED BY <1>1, <2>1 DEF BookOK, BookTyped, BalancesTyped
<1>7. BookOK'
    BY <1>1, <1>4, <1>6 DEF BookOK, BookTyped, FinitePositions, PositionsTyped, DoneTyped
<1>8. ASSUME NEW u \in User PROVE Follows(u, TRUE)
    <2> DEFINE d == IF u = order.creator THEN -order.blocked ELSE 0
    <2>1. HasBlocks(limit_orders) /\ BookMargin(u) \in Nat
          /\ MarginSum(positions, u) \in Nat /\ BlockedSum(limit_orders, u) \in Nat
        BY BookSums
    <2>2. HasBlocks(limit_orders')
        BY <1>7 DEF BookOK, BookTyped, OrdersTyped, OrderOK, Order, HasBlocks
    <2>3. \A x : x # id => BlockedAt(limit_orders', u, x) = BlockedAt(limit_orders, u, x)
        BY <1>3 DEF BlockedAt, OrdersBy
    <2>4. BlockedAt(limit_orders', u, id) = 0 /\ BlockedAt(limit_orders, u, id) = -d
        BY <1>1, <1>2, <1>3 DEF BlockedAt, OrdersBy
    <2>5. BlockedSum(limit_orders', u) = BlockedSum(limit_orders, u)
            + (BlockedAt(limit_orders', u, id) - BlockedAt(limit_orders, u, id))
        BY <2>1, <2>2, <2>3, BlockedMoves
    <2>6. reserved_margin'[u] = Adjusted(reserved_margin[u], d)
        BY <1>1, <1>2, <1>5 DEF Adjusted, Less, BookOK, BookTyped, BalancesTyped
    <2>7. d \in Int
        BY <1>2
    <2> HIDE DEF d
    <2>8. BookMargin(u)' = MarginSum(positions, u) + BlockedSum(limit_orders', u)
        BY <1>1 DEF BookMargin
    <2> QED BY <2>1, <2>4, <2>5, <2>6, <2>7, <2>8 DEF Follows, BookMargin
<1> QED BY <1>7, <1>8 DEF Effect

(* freeze_position_for_transfer takes the position, not its margin. *)
LEMMA FreezeEffect ==
    ASSUME BookOK, NEW id, NEW k, FreezePosition(id, k)
    PROVE  Effect(FALSE)
<1>1. /\ k \in DOMAIN positions /\ positions' = Without(positions, {k})
      /\ UNCHANGED <<cash_balances, reserved_margin, limit_orders, executed_trades,
                     accepted_transfers>>
    BY DEF FreezePosition
<1>2. /\ DOMAIN positions' = DOMAIN positions \ {k}
      /\ \A x \in DOMAIN positions' : positions'[x] = positions[x]
    BY <1>1 DEF Without, Restrict
<1>3. PositionsTyped' /\ FinitePositions'
    BY <1>2, FS_Subset DEF BookOK, BookTyped, PositionsTyped, FinitePositions
<1>4. BookOK'
    BY <1>1, <1>3 DEF BookOK, BookTyped, BalancesTyped, OrdersTyped, DoneTyped
<1>5. ASSUME NEW u \in User PROVE Follows(u, FALSE)
    <2>1. HasMargins(positions) /\ BookMargin(u) \in Nat /\ reserved_margin[u] \in Nat
          /\ MarginSum(positions, u) \in Nat /\ BlockedSum(limit_orders, u) \in Nat
        BY BookSums
    <2>2. HasMargins(positions')
        BY <1>3 DEF HasMargins, FinitePositions, PositionsTyped, Position
    <2>3. \A x : x # k => MarginAt(positions', x) = MarginAt(positions, x)
        BY <1>2 DEF MarginAt
    <2>4. MarginAt(positions', k) = 0 /\ MarginAt(positions, k) \in Nat
        BY <1>1, <1>2, <2>1 DEF MarginAt, HasMargins
    <2>5. MarginSum(positions', u) <= MarginSum(positions, u)
        <3>1. CASE k[1] = u
            <4>1. MarginSum(positions', u) = MarginSum(positions, u)
                    + (MarginAt(positions', k) - MarginAt(positions, k))
                BY <2>1, <2>2, <2>3, <3>1, MarginSumMoves
            <4> QED BY <2>1, <2>4, <4>1
        <3>2. CASE k[1] # u
            <4>1. \A x : x[1] = u => MarginAt(positions', x) = MarginAt(positions, x)
                BY <2>3, <3>2
            <4>2. MarginSum(positions', u) = MarginSum(positions, u)
                BY <2>1, <2>2, <4>1, MarginSumSame
            <4> QED BY <2>1, <4>2
        <3> QED BY <3>1, <3>2
    <2>6. Adjusted(reserved_margin[u], 0) = reserved_margin[u]
        BY <2>1 DEF Adjusted, Less
    <2>7. MarginSum(positions', u) \in Nat
        BY <2>2, MarginTerms
    <2>8. BookMargin(u)' = MarginSum(positions', u) + BlockedSum(limit_orders, u)
        BY <1>1 DEF BookMargin
    <2>9. BookMargin(u)' <= BookMargin(u) + 0
        BY <2>1, <2>5, <2>7, <2>8 DEF BookMargin
    <2> QED BY <1>1, <2>6, <2>9 DEF Follows
<1> QED BY <1>4, <1>5 DEF Effect

(* accept_position_transfer: when no margin can be computed the quantity
   moves alone. *)
LEMMA AcceptEffect ==
    ASSUME BookOK, NEW r, Submitted(r), r.op = "accept", AcceptTransfer(r)
    PROVE  Effect(TRUE)
<1> DEFINE k == <<r.user, r.series, r.outcome>>
           old == PositionOf(k)
           qty == old.net_qty + r.qty
           margin == RequiredMargin(Listing[r.series], r.price, qty)
           accepted == HasMargin(Listing[r.series], qty)
           new == [net_qty |-> qty, margin |-> IF accepted THEN margin ELSE old.margin]
           d == IF accepted THEN margin - old.margin ELSE 0
<1>1. /\ r.user \in User /\ r.series \in SeriesId /\ r.outcome \in Outcome
      /\ r.qty \in Int /\ r.price \in Price /\ r.transfer \in TransferId
    BY TradingAssumption DEF Submitted, Requests
<1>2. /\ positions' = Put(positions, k, new)
      /\ IF accepted
         THEN /\ reserved_margin' = [reserved_margin EXCEPT ![r.user] =
                                        Adjusted(@, margin - old.margin)]
              /\ accepted_transfers' = accepted_transfers \cup {r.transfer}
         ELSE UNCHANGED <<reserved_margin, accepted_transfers>>
      /\ UNCHANGED <<cash_balances, limit_orders, executed_trades>>
    BY DEF AcceptTransfer
<1>3. old.net_qty \in Int /\ old.margin \in Nat /\ old.margin = MarginAt(positions, k)
    BY PositionType, PositionMargins DEF BookOK, BookTyped
<1>4. k \in PositionKey /\ k[1] = r.user
    BY <1>1 DEF PositionKey
<1> HIDE DEF k, old
<1>5. qty \in Int
    BY <1>1, <1>3
<1>6. accepted => margin \in Nat
    BY <1>1, <1>5, MarginType, BookAssumption
<1> HIDE DEF qty, margin, accepted
<1>7. new \in Position /\ new.margin = IF accepted THEN margin ELSE old.margin
    BY <1>3, <1>5, <1>6 DEF Position
<1> HIDE DEF new
<1>8. /\ DOMAIN positions' = DOMAIN positions \cup {k} /\ positions'[k] = new
      /\ \A x \in DOMAIN positions \ {k} : positions'[x] = positions[x]
    BY <1>2 DEF Put
<1>9. PositionsTyped' /\ FinitePositions'
    <2>1. PositionsTyped'
        BY <1>4, <1>7, <1>8 DEF BookOK, BookTyped, PositionsTyped
    <2>2. IsFiniteSet(DOMAIN positions \cup {k})
        BY FS_AddElement DEF BookOK, FinitePositions
    <2> QED BY <1>8, <2>1, <2>2 DEF FinitePositions
<1>10. d \in Int /\ (accepted => d = margin - old.margin) /\ (~accepted => d = 0)
    BY <1>3, <1>6
<1> HIDE DEF d
<1>11. \A u \in User : reserved_margin[u] \in Nat /\ cash_balances[u] \in Int
    BY BookSums
<1>12. \A u \in User : reserved_margin'[u] = IF u = r.user THEN Adjusted(reserved_margin[u], d)
                                                           ELSE reserved_margin[u]
    <2>1. \A u \in User : Adjusted(reserved_margin[u], 0) = reserved_margin[u]
        BY <1>11 DEF Adjusted, Less
    <2> QED BY <1>1, <1>2, <1>10, <2>1 DEF BookOK, BookTyped, BalancesTyped
<1>13. BalancesTyped'
    <2>1. \A u \in User : reserved_margin'[u] \in Nat
        BY <1>10, <1>11, <1>12, AdjustedType
    <2>2. DOMAIN reserved_margin' = User /\ reserved_margin' = [u \in User |-> reserved_margin'[u]]
        BY <1>1, <1>2 DEF BookOK, BookTyped, BalancesTyped
    <2> QED BY <1>2, <2>1, <2>2 DEF BookOK, BookTyped, BalancesTyped
<1>14. BookOK'
    BY <1>1, <1>2, <1>9, <1>13 DEF BookOK, BookTyped, OrdersTyped, DoneTyped
<1>15. ASSUME NEW u \in User PROVE Follows(u, TRUE)
    <2>1. HasMargins(positions) /\ BookMargin(u) \in Nat
          /\ MarginSum(positions, u) \in Nat /\ BlockedSum(limit_orders, u) \in Nat
        BY BookSums
    <2>2. HasMargins(positions')
        BY <1>9 DEF HasMargins, FinitePositions, PositionsTyped, Position
    <2>3. \A x : x # k => MarginAt(positions', x) = MarginAt(positions, x)
        BY <1>8 DEF MarginAt
    <2>4. MarginAt(positions', k) - MarginAt(positions, k) = d
        BY <1>3, <1>6, <1>7, <1>8, <1>10 DEF MarginAt
    <2>5. BookMargin(u)' = MarginSum(positions', u) + BlockedSum(limit_orders, u)
        BY <1>2 DEF BookMargin
    <2>6. CASE u = r.user
        <3>1. MarginSum(positions', u) = MarginSum(positions, u)
                + (MarginAt(positions', k) - MarginAt(positions, k))
            BY <1>4, <2>1, <2>2, <2>3, <2>6, MarginSumMoves
        <3>2. BookMargin(u)' = BookMargin(u) + d
            BY <1>10, <2>1, <2>4, <2>5, <3>1 DEF BookMargin
        <3> QED BY <1>10, <1>12, <2>1, <2>6, <3>2 DEF Follows
    <2>7. CASE u # r.user
        <3>1. \A x : x[1] = u => MarginAt(positions', x) = MarginAt(positions, x)
            BY <1>4, <2>3, <2>7
        <3>2. MarginSum(positions', u) = MarginSum(positions, u)
            BY <2>1, <2>2, <3>1, MarginSumSame
        <3>3. Adjusted(reserved_margin[u], 0) = reserved_margin[u]
            BY <1>11 DEF Adjusted, Less
        <3>4. BookMargin(u)' = BookMargin(u) + 0
            BY <2>1, <2>5, <3>2 DEF BookMargin
        <3> QED BY <1>12, <2>1, <2>7, <3>3, <3>4 DEF Follows
    <2> QED BY <2>6, <2>7
<1> QED BY <1>14, <1>15 DEF Effect

-----------------------------------------------------------------------------
(* Complete sets. *)

LEMMA ShareType ==
    ASSUME NEW c \in Nat, NEW n \in Nat \ {0}
    PROVE  /\ c \div n \in Nat /\ n * (c \div n) \in Nat /\ n * (c \div n) <= c
           /\ \A x \in Nat : c = n * x => c \div n = x
<1> DEFINE q == c \div n
           r == c % n
<1>1. q \in Nat /\ r \in 0..(n - 1) /\ c = n * q + r
    OBVIOUS
<1>2. n * q \in Nat
    BY <1>1
<1>3. ASSUME NEW x \in Nat, c = n * x PROVE q = x
    <2>1. CASE x > q
        <3>1. x - q - 1 \in Nat /\ n * (x - q - 1) \in Nat
            BY <1>1, <2>1, ProductType
        <3>2. n * x = n * (x - q - 1) + n * q + n
            BY <1>1
        <3> QED BY <1>1, <1>2, <1>3, <3>1, <3>2
    <2>2. CASE q > x
        <3>1. q - x - 1 \in Nat /\ n * (q - x - 1) \in Nat
            BY <1>1, <2>2, ProductType
        <3>2. n * q = n * (q - x - 1) + n * x + n
            BY <1>1
        <3> QED BY <1>1, <1>2, <1>3, <3>1, <3>2
    <2> QED BY <1>1, <2>1, <2>2
<1> QED BY <1>1, <1>2, <1>3

LEMMA PartType ==
    ASSUME NEW m \in Nat, NEW n \in Nat \ {0}, NEW q \in Nat, q <= n
    PROVE  (m \div n) * q \in Nat /\ (m \div n) * q <= m
<1> DEFINE a == m \div n
<1>1. a \in Nat /\ n * a \in Nat /\ n * a <= m
    BY ShareType
<1> HIDE DEF a
<1>2. n - q \in Nat /\ a * (n - q) \in Nat /\ a * q \in Nat
    BY <1>1, ProductType
<1>3. n * a = a * q + a * (n - q)
    BY <1>1
<1> QED BY <1>1, <1>2, <1>3 DEF a

(* The cost of a complete set divides among its positions without rest. *)
EvenSet(r) == \E share \in Nat : SetCost(r) = Cardinality(SetKeys(r)) * share

LEMMA SetKeysType ==
    ASSUME NEW r, r.user \in User, r.series \in SeriesId
    PROVE  /\ IsFiniteSet(SetKeys(r)) /\ SetKeys(r) \subseteq PositionKey
           /\ \A k \in SetKeys(r) : k[1] = r.user
<1>1. Listing[r.series].outcomes \subseteq Outcome
    BY BookAssumption DEF Series, Outcome
<1>2. \A k \in SetKeys(r) : k \in PositionKey /\ k[1] = r.user
    BY <1>1 DEF SetKeys, PositionKey
<1> QED BY <1>2, SetKeysFinite

(* mint_complete_set_logic: the positions' shares are rounded down, the
   reserved margin is not. *)
LEMMA MintEffect ==
    ASSUME BookOK, NEW r, Submitted(r), r.op = "mint", MintSet(r)
    PROVE  Effect(EvenSet(r))
<1> DEFINE K == SetKeys(r)
           n == Cardinality(K)
           c == SetCost(r)
           share == c \div n
           g == [k \in K |-> share]
<1>1. r.user \in User /\ r.series \in SeriesId /\ r.qty \in Nat
    BY TradingAssumption DEF Submitted, Requests
<1>2. CASE ~MintAllowed(r)
    BY <1>2, NoTradeState, AnyEffect DEF MintSet
<1>3. CASE MintAllowed(r)
    <2>1. /\ reserved_margin' = [reserved_margin EXCEPT ![r.user] = @ + c]
          /\ positions' = [k \in DOMAIN positions \cup K |->
                 IF k \in K THEN [net_qty |-> PositionOf(k).net_qty + r.qty,
                                  margin |-> PositionOf(k).margin + share]
                 ELSE positions[k]]
          /\ UNCHANGED <<cash_balances, limit_orders, executed_trades, accepted_transfers>>
        BY <1>3 DEF MintSet
    <2>2. IsFiniteSet(K) /\ K \subseteq PositionKey /\ \A k \in K : k[1] = r.user
        BY <1>1, SetKeysType
    <2>3. n \in Nat \ {0}
        BY <1>3, <2>2, FS_CardinalityType, FS_EmptySet DEF MintAllowed
    <2>4. c \in Nat
        BY <1>1, UnitType, ProductType DEF SetCost
    <2>5. /\ share \in Nat /\ n * share \in Nat /\ n * share <= c
          /\ EvenSet(r) => n * share = c
        <3>1. EvenSet(r) <=> \E x \in Nat : c = n * x
            BY DEF EvenSet
        <3> HIDE DEF n, c
        <3> QED BY <2>3, <2>4, <3>1, ShareType
    <2>6. SumOver(g, K) = n * share
        <3>1. \A k \in K : g[k] = share
            OBVIOUS
        <3> HIDE DEF g, share
        <3> QED BY <2>2, <2>5, <3>1, SumConst
    <2>7. /\ \A k : k \in K => Term(g, K, k) = share
          /\ \A k : k \notin K => Term(g, K, k) = 0
          /\ \A k \in K : g[k] \in Int
        BY <2>5 DEF Term
    <2> HIDE DEF K, n, c, share, g
    <2>8. \A k : PositionOf(k).net_qty \in Int /\ PositionOf(k).margin \in Nat
        BY PositionType DEF BookOK, BookTyped
    <2>9. /\ DOMAIN positions' = DOMAIN positions \cup K
          /\ \A k \in K : /\ positions'[k] \in Position
                          /\ positions'[k].margin = PositionOf(k).margin + share
          /\ \A k \in DOMAIN positions \ K : positions'[k] = positions[k]
        BY <1>1, <2>1, <2>5, <2>8 DEF Position
    <2>10. PositionsTyped' /\ FinitePositions'
        <3>1. PositionsTyped'
            BY <2>2, <2>9 DEF BookOK, BookTyped, PositionsTyped
        <3>2. IsFiniteSet(DOMAIN positions \cup K)
            BY <2>2, FS_Union DEF BookOK, FinitePositions
        <3> QED BY <2>9, <3>1, <3>2 DEF FinitePositions
    <2>11. BalancesTyped'
        BY <1>1, <2>1, <2>4 DEF BookOK, BookTyped, BalancesTyped
    <2>12. BookOK'
        BY <2>1, <2>10, <2>11 DEF BookOK, BookTyped, OrdersTyped, DoneTyped
    <2>13. \A k : MarginAt(positions', k) = MarginAt(positions, k) + Term(g, K, k)
        <3>1. \A k : PositionOf(k).margin = MarginAt(positions, k)
                     /\ MarginAt(positions, k) \in Nat
            BY PositionMargins
        <3> QED BY <2>7, <2>9, <3>1 DEF MarginAt
    <2>14. ASSUME NEW u \in User PROVE Follows(u, EvenSet(r))
        <3> DEFINE d == IF u = r.user THEN c ELSE 0
                   grown == IF u = r.user THEN n * share ELSE 0
        <3>1. HasMargins(positions) /\ BookMargin(u) \in Nat /\ reserved_margin[u] \in Nat
              /\ MarginSum(positions, u) \in Nat /\ BlockedSum(limit_orders, u) \in Nat
            BY BookSums
        <3>2. HasMargins(positions')
            BY <2>10 DEF HasMargins, FinitePositions, PositionsTyped, Position
        <3>3. MarginSum(positions', u) = MarginSum(positions, u) + grown
            <4>1. CASE u = r.user
                BY <2>2, <2>6, <2>7, <2>13, <3>1, <3>2, <4>1, MarginSumSplit
            <4>2. CASE u # r.user
                <5>1. \A k : k[1] = u => k \notin K
                    BY <2>2, <4>2
                <5>2. \A k : k[1] = u => MarginAt(positions', k) = MarginAt(positions, k)
                    <6>1. \A k : MarginAt(positions, k) \in Nat
                        BY PositionMargins
                    <6> QED BY <2>7, <2>13, <5>1, <6>1
                <5>3. MarginSum(positions', u) = MarginSum(positions, u)
                    BY <3>1, <3>2, <5>2, MarginSumSame
                <5> QED BY <3>1, <4>2, <5>3
            <4> QED BY <4>1, <4>2
        <3>4. /\ d \in Nat /\ grown \in Nat /\ grown <= d
              /\ EvenSet(r) => grown = d
            BY <2>4, <2>5
        <3>5. reserved_margin'[u] = reserved_margin[u] + d
            BY <1>1, <2>1, <2>4, <3>1 DEF BookOK, BookTyped, BalancesTyped
        <3> HIDE DEF d, grown
        <3>6. Adjusted(reserved_margin[u], d) = reserved_margin[u] + d
            BY <3>1, <3>4 DEF Adjusted, Less
        <3>7. BookMargin(u)' = MarginSum(positions', u) + BlockedSum(limit_orders, u)
            BY <2>1 DEF BookMargin
        <3>8. BookMargin(u)' = BookMargin(u) + grown
            BY <3>1, <3>3, <3>4, <3>7 DEF BookMargin
        <3>9. BookMargin(u)' <= BookMargin(u) + d /\ (EvenSet(r) => BookMargin(u)' = BookMargin(u) + d)
            BY <3>1, <3>4, <3>8
        <3> QED BY <3>4, <3>5, <3>6, <3>9 DEF Follows
    <2> QED BY <2>12, <2>14 DEF Effect
<1> QED BY <1>2, <1>3

(* redeem_complete_set_logic frees no more than the positions give up. *)
LEMMA RedeemEffect ==
    ASSUME BookOK, NEW r, Submitted(r), r.op = "redeem", RedeemSet(r)
    PROVE  Effect(TRUE)
<1> DEFINE K == SetKeys(r)
           g == [k \in K |-> Redeemed(r, k)]
           Fold(h) == h = [s \in SUBSET K |->
                              IF s = {} THEN 0 ELSE Redeemed(r, Pick(s)) + h[s \ {Pick(s)}]]
           freed == MapThenSumSet(LAMBDA k : Redeemed(r, k), K)
<1>1. r.user \in User /\ r.series \in SeriesId /\ r.qty \in Nat
    BY TradingAssumption DEF Submitted, Requests
<1>2. CASE ~RedeemAllowed(r)
    BY <1>2, NoTradeState DEF RedeemSet
<1>3. CASE RedeemAllowed(r)
    <2>1. /\ reserved_margin' = [reserved_margin EXCEPT ![r.user] = Less(@, freed)]
          /\ positions' = [k \in DOMAIN positions |->
                 IF k \in K THEN [net_qty |-> positions[k].net_qty - r.qty,
                                  margin |-> positions[k].margin - Redeemed(r, k)]
                 ELSE positions[k]]
          /\ UNCHANGED <<cash_balances, limit_orders, executed_trades, accepted_transfers>>
        BY <1>3 DEF RedeemSet
    <2>2. IsFiniteSet(K) /\ K \subseteq PositionKey /\ \A k \in K : k[1] = r.user
        BY <1>1, SetKeysType
    <2>3. freed = SumOver(g, K)
        <3>1. \A h : Fold(h) <=> IsFold(h, g, K)
            <4>1. \A s \in SUBSET K : s # {} => g[Pick(s)] = Redeemed(r, Pick(s))
                BY PickIn
            <4> HIDE DEF K, g
            <4> QED BY <4>1 DEF IsFold
        <3>2. (CHOOSE h : Fold(h)) = (CHOOSE h : IsFold(h, g, K))
            <4> HIDE DEF Fold, g, K
            <4> QED BY <3>1
        <3>3. freed = (CHOOSE h : Fold(h))[K]
            BY DEF MapThenSumSet, MapThenFoldSet, Pick
        <3> HIDE DEF Fold, g, K, freed
        <3> QED BY <3>2, <3>3, SumIsFold
    <2>4. \A k \in K : k \in DOMAIN positions /\ positions[k].net_qty >= r.qty
        <3>1. r.qty > 0 /\ \A k \in K : PositionOf(k).net_qty >= r.qty
            BY <1>3 DEF RedeemAllowed
        <3> HIDE DEF K
        <3> QED BY <1>1, <3>1 DEF PositionOf, NoPosition
    <2>5. \A k \in DOMAIN positions : positions[k].net_qty \in Int /\ positions[k].margin \in Nat
        BY DEF BookOK, BookTyped, PositionsTyped, Position
    <2>6. \A k \in K : Redeemed(r, k) \in Nat /\ Redeemed(r, k) <= positions[k].margin
        <3>1. r.qty > 0
            BY <1>3 DEF RedeemAllowed
        <3> HIDE DEF K
        <3>2. \A k \in K : /\ positions[k].margin \in Nat /\ positions[k].net_qty \in Nat \ {0}
                           /\ r.qty <= positions[k].net_qty
            BY <1>1, <2>4, <2>5, <3>1
        <3> QED BY <1>1, <3>2, PartType DEF Redeemed
    <2>7. /\ \A k : k \in K => Term(g, K, k) = Redeemed(r, k)
          /\ \A k : k \notin K => Term(g, K, k) = 0
          /\ \A k \in K : g[k] \in Nat
        BY <2>6 DEF Term
    <2> HIDE DEF K, g, Fold, freed
    <2>8. freed \in Nat
        BY <2>2, <2>3, <2>7, SumNat
    <2>9. /\ DOMAIN positions' = DOMAIN positions
          /\ \A k \in K : /\ positions'[k] \in Position
                          /\ positions'[k].margin = positions[k].margin - Redeemed(r, k)
          /\ \A k \in DOMAIN positions \ K : positions'[k] = positions[k]
        <3>1. \A k \in K : positions[k].net_qty - r.qty \in Int
                           /\ positions[k].margin - Redeemed(r, k) \in Nat
            BY <1>1, <2>4, <2>5, <2>6
        <3> QED BY <2>1, <2>4, <3>1 DEF Position
    <2>10. PositionsTyped' /\ FinitePositions'
        BY <2>4, <2>9 DEF BookOK, BookTyped, PositionsTyped, FinitePositions
    <2>11. BalancesTyped'
        <3>1. ASSUME NEW u \in User PROVE Less(reserved_margin[u], freed) \in Nat
            <4>1. reserved_margin[u] \in Int /\ freed \in Int
                BY <2>8, BookSums
            <4> QED BY <4>1, LessType
        <3> QED BY <1>1, <2>1, <3>1 DEF BookOK, BookTyped, BalancesTyped
    <2>12. BookOK'
        BY <2>1, <2>10, <2>11 DEF BookOK, BookTyped, OrdersTyped, DoneTyped
    <2>13. \A k : MarginAt(positions, k) = MarginAt(positions', k) + Term(g, K, k)
        BY <2>4, <2>5, <2>6, <2>7, <2>9 DEF MarginAt
    <2>14. ASSUME NEW u \in User PROVE Follows(u, TRUE)
        <3> DEFINE lost == IF u = r.user THEN freed ELSE 0
        <3>1. HasMargins(positions) /\ BookMargin(u) \in Nat /\ reserved_margin[u] \in Nat
              /\ MarginSum(positions, u) \in Nat /\ BlockedSum(limit_orders, u) \in Nat
            BY BookSums
        <3>2. HasMargins(positions')
            BY <2>10 DEF HasMargins, FinitePositions, PositionsTyped, Position
        <3>9. MarginSum(positions', u) \in Nat
            BY <3>2, MarginTerms
        <3>3. MarginSum(positions, u) = MarginSum(positions', u) + lost
            <4>1. CASE u = r.user
                <5>1. \A k \in K : k[1] = u /\ g[k] \in Int
                    BY <2>2, <2>7, <4>1
                <5>2. MarginSum(positions, u) = MarginSum(positions', u) + SumOver(g, K)
                    BY <2>2, <2>13, <3>1, <3>2, <5>1, MarginSumSplit
                <5> QED BY <2>3, <4>1, <5>2
            <4>2. CASE u # r.user
                <5>1. \A k : k[1] = u => k \notin K
                    BY <2>2, <4>2
                <5>2. \A k : k[1] = u => MarginAt(positions', k) = MarginAt(positions, k)
                    BY <2>9, <5>1 DEF MarginAt
                <5>3. MarginSum(positions', u) = MarginSum(positions, u)
                    BY <3>1, <3>2, <5>2, MarginSumSame
                <5> QED BY <3>1, <4>2, <5>3
            <4> QED BY <4>1, <4>2
        <3>4. lost \in Nat
            BY <2>8
        <3>5. reserved_margin'[u] = IF u = r.user THEN Less(reserved_margin[u], freed)
                                    ELSE reserved_margin[u]
            BY <1>1, <2>1 DEF BookOK, BookTyped, BalancesTyped
        <3>6. reserved_margin'[u] = Adjusted(reserved_margin[u], -lost)
            BY <2>8, <3>1, <3>5 DEF Adjusted, Less
        <3> HIDE DEF lost
        <3>7. BookMargin(u)' = MarginSum(positions', u) + BlockedSum(limit_orders, u)
            BY <2>1 DEF BookMargin
        <3>8. BookMargin(u)' = BookMargin(u) + -lost /\ -lost \in Int
            BY <3>1, <3>3, <3>4, <3>7, <3>9 DEF BookMargin
        <3>10. BookMargin(u)' <= BookMargin(u) + -lost
            BY <3>1, <3>4, <3>8
        <3> QED BY <3>6, <3>8, <3>10 DEF Follows
    <2> QED BY <2>12, <2>14 DEF Effect
<1> QED BY <1>2, <1>3

(* The effect of a method, whose releases of margin are not the caller's. *)
NoUnblocks == \A r \in Request : r.op = "matched" => r.b_unblock = 0 /\ r.s_unblock = 0

Exact(r) ==
    /\ r.op = "limit" => r.order \notin DOMAIN limit_orders
    /\ r.op = "mint" => EvenSet(r)

LEMMA PerformEffect ==
    ASSUME BookOK, NEW r, Submitted(r), NEW seen, Perform(r, seen)
    PROVE  BookOK' /\ (NoUnblocks => Effect(Exact(r)))
<1>1. r \in Requests /\ r \in Request
    BY TradingAssumption DEF Submitted
<1>2. CASE r.op = "limit"
    <2>1. PlaceOrder(r)
        BY <1>2 DEF Perform
    <2>2. Effect(r.order \notin DOMAIN limit_orders)
        BY <1>2, <2>1, PlaceEffect
    <2>3. Exact(r) <=> r.order \notin DOMAIN limit_orders
        BY <1>2 DEF Exact
    <2> QED BY <2>2, <2>3 DEF Effect, Follows
<1>3. CASE r.op = "market"
    BY <1>3, FillEffect, AnyEffect DEF Perform, Effect
<1>4. CASE r.op = "matched"
    <2>1. MatchedTrade(r)
        BY <1>4 DEF Perform
    <2>2. NoUnblocks => Effect(TRUE)
        BY <1>1, <1>4, <2>1, MatchedEffect DEF NoUnblocks
    <2> QED BY <1>4, <2>1, <2>2, MatchedEffect, AnyEffect
<1>5. CASE r.op = "mint"
    <2>1. MintSet(r)
        BY <1>5 DEF Perform
    <2>2. Effect(EvenSet(r))
        BY <1>5, <2>1, MintEffect
    <2>3. Exact(r) <=> EvenSet(r)
        BY <1>5 DEF Exact
    <2> QED BY <2>2, <2>3 DEF Effect, Follows
<1>6. CASE r.op = "redeem"
    BY <1>6, RedeemEffect, AnyEffect DEF Perform, Effect
<1>7. CASE r.op = "accept"
    BY <1>7, AcceptEffect, AnyEffect DEF Perform, Effect
<1> QED BY <1>1, <1>2, <1>3, <1>4, <1>5, <1>6, <1>7 DEF Requests

-----------------------------------------------------------------------------
(* Types: the methods. *)

LEMMA CallMoves ==
    ASSUME CallsTyped, NEW c \in CallId
    PROVE  /\ Return(c) => CallsTyped'
           /\ \A r, s, seen, at :
                 Submitted(r) /\ s \in SeriesId /\ seen \in Order \cup {None}
                 /\ at \in {"registry", "access"} /\ Await(c, r, s, seen, at) => CallsTyped'
<1>1. ASSUME Return(c) PROVE CallsTyped'
    BY <1>1 DEF Return, CallsTyped, Submitted
<1>2. ASSUME NEW r, NEW s, NEW seen, NEW at, Submitted(r), s \in SeriesId,
             seen \in Order \cup {None}, at \in {"registry", "access"}, Await(c, r, s, seen, at)
      PROVE  CallsTyped'
    <2> DEFINE new == [req |-> r, series |-> s, seen |-> seen, at |-> at]
    <2>1. new \in Suspended /\ new.req = r
        BY <1>2 DEF Suspended, Submitted
    <2>2. call' = [call EXCEPT ![c] = new]
        BY <1>2 DEF Await
    <2> HIDE DEF new
    <2>3. call' \in [CallId -> Suspended \cup {None}]
        BY <2>1, <2>2 DEF CallsTyped
    <2>4. ASSUME NEW x \in CallId, call'[x] # None PROVE Submitted(call'[x].req)
        BY <1>2, <2>1, <2>2, <2>4 DEF CallsTyped
    <2>5. \A x \in CallId : call'[x] # None => Submitted(call[x].req)'
        BY <2>4 DEF Submitted
    <2> QED BY <2>3, <2>5 DEF CallsTyped
<1> QED BY <1>1, <1>2

LEMMA ContinueTyped ==
    ASSUME BookOK, CallsTyped, NEW c \in CallId, NEW r, Submitted(r), NEW s \in SeriesId,
           NEW seen \in Order \cup {None}, Continue(c, r, s, seen)
    PROVE  BookOK' /\ CallsTyped'
<1>1. BookOK'
    <2>1. UNCHANGED tradeState \/ Perform(r, seen)
        BY DEF Continue
    <2>2. UNCHANGED tradeState => BookOK'
        BY NoTradeState DEF Effect
    <2>3. Perform(r, seen) => BookOK'
        BY PerformEffect
    <2> QED BY <2>1, <2>2, <2>3
<1>2. CallsTyped'
    <2>1. Return(c) \/ Await(c, r, s, seen, "access")
        BY DEF Continue
    <2> QED BY <2>1, CallMoves
<1> QED BY <1>1, <1>2

(* A request that is received is well-formed. *)
LEMMA ReceivedTyped ==
    ASSUME BookOK, NEW r \in Request, Receivable(r)
    PROVE  Submitted(r) /\ SeriesOf(r) \in SeriesId /\ SeenBy(r) \in Order \cup {None}
<1>1. r \in Requests
    BY TradingAssumption
<1>2. CASE r.op = "market"
    <2>1. limit_orders[r.order] \in Order
        BY <1>2 DEF Receivable, BookOK, BookTyped, OrdersTyped, OrderOK
    <2> QED BY <1>2, <2>1 DEF SeriesOf, SeenBy, Order, Submitted
<1>3. CASE r.op # "market"
    <2>1. SeriesOf(r) \in SeriesId
        BY <1>1, <1>3 DEF SeriesOf, Requests
    <2>2. r.op = "limit" => r.qty > 0
        BY DEF Receivable
    <2> QED BY <1>3, <2>1, <2>2 DEF SeenBy, Submitted
<1> QED BY <1>2, <1>3

(* The steps of trading. *)
TradeInv == BookOK /\ CallsTyped /\ MarketTyped

LEMMA TradingTyped ==
    ASSUME TradeInv, TradingNext
    PROVE  TradeInv'
<1> USE DEF TradeInv
<1>0. /\ \A c \in CallId : call[c] # None =>
              /\ Submitted(call[c].req) /\ call[c].req \in Request
              /\ call[c].series \in SeriesId /\ call[c].seen \in Order \cup {None}
      /\ UNCHANGED <<series_cache, frozen_transfers, window>> => MarketTyped'
      /\ UNCHANGED call => CallsTyped'
    BY DEF CallsTyped, Suspended, MarketTyped, Submitted
<1>1. ASSUME NEW c \in CallId, NEW r \in Request, Submit(c, r)
      PROVE  TradeInv'
    <2>1. Submitted(r) /\ SeriesOf(r) \in SeriesId /\ SeenBy(r) \in Order \cup {None}
        BY <1>1, ReceivedTyped DEF Submit
    <2>2. MarketTyped'
        BY <1>0, <1>1 DEF Submit
    <2>3. CASE SeriesOf(r) \in series_cache
        <3>1. Continue(c, r, SeriesOf(r), SeenBy(r))
            BY <1>1, <2>3 DEF Submit
        <3> QED BY <2>1, <2>2, <3>1, ContinueTyped
    <2>4. CASE SeriesOf(r) \notin series_cache
        <3>1. Await(c, r, SeriesOf(r), SeenBy(r), "registry") /\ UNCHANGED tradeState
            BY <1>1, <2>4 DEF Submit
        <3>2. CallsTyped'
            BY <2>1, <3>1, CallMoves
        <3> QED BY <2>2, <3>1, <3>2, NoTradeState DEF Effect
    <2> QED BY <2>3, <2>4
<1>2. ASSUME NEW c \in CallId, RegistryAnswers(c)
      PROVE  TradeInv'
    <2>1. /\ Submitted(call[c].req) /\ call[c].series \in SeriesId
          /\ call[c].seen \in Order \cup {None}
          /\ Continue(c, call[c].req, call[c].series, call[c].seen)
        BY <1>0, <1>2 DEF RegistryAnswers
    <2>2. MarketTyped'
        BY <1>2, <2>1 DEF RegistryAnswers, MarketTyped
    <2> QED BY <2>1, <2>2, ContinueTyped
<1>3. ASSUME NEW c \in CallId, AccessGranted(c)
      PROVE  TradeInv'
    <2>1. Submitted(call[c].req) /\ Perform(call[c].req, call[c].seen) /\ Return(c)
        BY <1>0, <1>3 DEF AccessGranted
    <2>2. MarketTyped'
        BY <1>0, <1>3 DEF AccessGranted
    <2>3. CallsTyped'
        BY <2>1, CallMoves
    <2> QED BY <2>1, <2>2, <2>3, PerformEffect
<1>4. ASSUME NEW c \in CallId, RegistryRefuses(c)
      PROVE  TradeInv'
    <2>1. Return(c) /\ UNCHANGED tradeState /\ MarketTyped'
        BY <1>0, <1>4 DEF RegistryRefuses
    <2> QED BY <2>1, CallMoves, NoTradeState DEF Effect
<1>5. ASSUME NEW id, CancelOrder(id)
      PROVE  TradeInv'
    <2>1. MarketTyped' /\ CallsTyped'
        BY <1>0, <1>5 DEF CancelOrder, tradingVars
    <2> QED BY <1>5, <2>1, CancelEffect DEF Effect
<1>6. ASSUME NEW id \in TransferId, NEW k, FreezePosition(id, k)
      PROVE  TradeInv'
    <2>1. MarketTyped' /\ CallsTyped'
        BY <1>0, <1>6 DEF FreezePosition, Put, MarketTyped
    <2> QED BY <1>6, <2>1, FreezeEffect DEF Effect
<1>7. ASSUME NEW s \in SeriesId, WindowMoves(s)
      PROVE  TradeInv'
    <2>1. window' \in [SeriesId -> {"scheduled", "trading", "expired"}]
        BY <1>7 DEF WindowMoves, MarketTyped
    <2>2. MarketTyped' /\ CallsTyped' /\ UNCHANGED tradeState
        BY <1>0, <1>7, <2>1 DEF WindowMoves, MarketTyped
    <2> QED BY <2>2, NoTradeState DEF Effect
<1> QED BY <1>1, <1>2, <1>3, <1>4, <1>5, <1>6, <1>7 DEF TradingNext

-----------------------------------------------------------------------------
(* Types: settlement. *)

LEMMA AdvanceTyped ==
    ASSUME TypeInv, NEW s \in SeriesId, NEW plan, PlanTyped(plan),
           NEW released, \A u \in User : released[u] \in Nat,
           NEW armed, armed \subseteq SeriesId, Advance(s, plan, released, armed)
    PROVE  BalancesTyped' /\ series_cache' \subseteq SeriesId /\ PlansTyped' /\ FundsTyped'
<1> DEFINE due == [u \in User |-> released[u] + SumFor(plan, Chunk(plan), u, "margin")]
<1>1. ASSUME NEW u \in User
      PROVE  SumFor(plan, Chunk(plan), u, "margin") \in Nat
             /\ SumFor(plan, Chunk(plan), u, "cashflow") \in Int
    BY ChunkSplits
<1>2. /\ cash_balances' = [u \in User |->
              cash_balances[u] + SumFor(plan, Chunk(plan), u, "cashflow")]
      /\ reserved_margin' = [u \in User |-> Less(reserved_margin[u], due[u])]
      /\ settled_events' = [settled_events EXCEPT ![s] = @ \o ChunkEvents(plan)]
      /\ settlement_plans' = Put(settlement_plans, s, Advanced(plan))
      /\ IF Completes(plan)
         THEN /\ treasury' = treasury + plan.fee
              /\ insurance_fund' = insurance_fund + plan.insurance_fee
              /\ series_cache' = series_cache \ {s}
              /\ timers' = armed
         ELSE /\ timers' = armed \cup {s}
              /\ UNCHANGED <<treasury, insurance_fund, series_cache>>
    BY DEF Advance, Advanced, Moved
<1>3. \A u \in User : due[u] \in Nat
    BY <1>1
<1>4. \A u \in User : cash_balances[u] \in Int /\ reserved_margin[u] \in Nat
    BY DEF TypeInv, BookTyped, BalancesTyped
<1> HIDE DEF due
<1>5. BalancesTyped'
    <2>1. ASSUME NEW u \in User PROVE Less(reserved_margin[u], due[u]) \in Nat
        <3>1. reserved_margin[u] \in Int /\ due[u] \in Int
            BY <1>3, <1>4
        <3> QED BY <3>1, LessType
    <2>2. \A u \in User : cash_balances[u] + SumFor(plan, Chunk(plan), u, "cashflow") \in Int
        BY <1>1, <1>4
    <2> QED BY <1>2, <2>1, <2>2 DEF BalancesTyped
<1>6. series_cache' \subseteq SeriesId
    BY <1>2 DEF TypeInv, MarketTyped
<1>7. PlansTyped'
    <2>1. Advanced(plan) \in SettlementPlan
        BY AdvancedTyped DEF PlanTyped
    <2> HIDE DEF Advanced
    <2> QED BY <1>2, <2>1 DEF Put, TypeInv, PlansTyped
<1>8. FundsTyped'
    <2>1. plan.fee \in Nat /\ plan.insurance_fee \in Nat
        BY DEF PlanTyped, SettlementPlan
    <2>2. treasury' \in Nat /\ insurance_fund' \in Nat /\ timers' \subseteq SeriesId
        BY <1>2, <2>1 DEF TypeInv, FundsTyped
    <2>3. ChunkEvents(plan) \in Seq(Nat)
        <3>1. plan.cursor \in Nat /\ ChunkEnd(plan) \in Nat /\ plan.cursor <= ChunkEnd(plan)
            BY ChunkEndType DEF PlanTyped, PlanOK
        <3> QED BY <3>1, ChunkRows, RowsSeq DEF PlanTyped
    <2>4. settled_events[s] \in Seq(Nat)
        BY DEF TypeInv, FundsTyped
    <2>5. settled_events[s] \o ChunkEvents(plan) \in Seq(Nat)
        BY <2>3, <2>4
    <2>6. settled_events' \in [SeriesId -> Seq(Nat)]
        BY <1>2, <2>5 DEF TypeInv, FundsTyped
    <2> QED BY <2>2, <2>6 DEF FundsTyped
<1> QED BY <1>5, <1>6, <1>7, <1>8

LEMMA BlockedByType ==
    ASSUME TypeInv, NEW s, NEW u
    PROVE  LET rest == Without(limit_orders, OrdersOf(s)) IN
           /\ BlockedBy(u, s) \in Nat /\ HasBlocks(rest)
           /\ BlockedSum(limit_orders, u) = BlockedSum(rest, u) + BlockedBy(u, s)
<1>1. BookOK
    BY DEF TypeInv, PlanInv, BookOK
<1>2. HasBlocks(limit_orders)
    BY <1>1, BookSums
<1>3. OrdersOf(s) \subseteq DOMAIN limit_orders
    BY DEF OrdersOf
<1>4. BlockedBy(u, s) = BlockedIn(limit_orders, {id \in OrdersOf(s) : limit_orders[id].creator = u})
    BY DEF BlockedBy, BlockedIn
<1> QED BY <1>2, <1>3, <1>4, BlockedLeaves

(* What a step of settlement is: no book or plan changes, a plan is opened,
   or one in flight advances. *)
BookAlone == UNCHANGED <<book, series_cache, settlement_plans>>

Advances(s) ==
    /\ s \in InFlight /\ UNCHANGED <<positions, limit_orders>>
    /\ \E armed \in SUBSET SeriesId : Advance(s, settlement_plans[s], Nothing, armed)

LEMMA SettlementKinds ==
    ASSUME TypeInv, SettlementNext
    PROVE  \/ BookAlone /\ FundsTyped'
           \/ \E s \in SeriesId : Advances(s) \/ \E input \in Inputs[s] : SettleSeries(s, input)
<1>1. timers \subseteq SeriesId /\ InFlight \subseteq SeriesId
    BY DEF TypeInv, FundsTyped, InFlight, PlansTyped
<1>2. ASSUME NEW s \in SeriesId, NEW input, NEW armed \in SUBSET SeriesId,
             ResumeSettlement(s, input, armed)
      PROVE  Advances(s)
    BY <1>2 DEF ResumeSettlement, Advances
<1>3. ASSUME UNCHANGED <<treasury, insurance_fund, settled_events>>, timers' \subseteq SeriesId
      PROVE  FundsTyped'
    BY <1>3 DEF TypeInv, FundsTyped
<1>4. ASSUME NEW s \in SeriesId, TimerFires(s)
      PROVE  Advances(s) \/ (BookAlone /\ FundsTyped')
    <2>1. timers \ {s} \in SUBSET SeriesId
        BY <1>1
    <2> QED BY <1>2, <1>3, <1>4, <2>1 DEF TimerFires, BookAlone
<1>5. ASSUME NEW s \in SeriesId, TimerTraps(s)
      PROVE  BookAlone /\ FundsTyped'
    BY <1>1, <1>3, <1>5 DEF TimerTraps, BookAlone
<1>6. ASSUME Heartbeat
      PROVE  BookAlone /\ FundsTyped'
    BY <1>1, <1>3, <1>6 DEF Heartbeat, BookAlone
<1>7. ASSUME NEW D, BackfillSettlementEvents(D)
      PROVE  BookAlone /\ FundsTyped'
    <2>1. ASSUME NEW s \in SeriesId, Finalised(s)
          PROVE  [i \in 1..Len(settlement_plans[s].positions) |-> i] \in Seq(Nat)
        <3>1. Len(settlement_plans[s].positions) \in Nat
            BY <2>1 DEF TypeInv, PlanInv, PlansOK, PlanOK, Finalised, NotSettled
        <3> QED BY <3>1
    <2>2. settled_events' \in [SeriesId -> Seq(Nat)]
        BY <1>7, <2>1 DEF BackfillSettlementEvents, TypeInv, FundsTyped
    <2> QED BY <1>7, <2>2 DEF BackfillSettlementEvents, BookAlone, TypeInv, FundsTyped
<1> QED BY <1>1, <1>2, <1>4, <1>5, <1>6, <1>7 DEF SettlementNext

LEMMA SettleParts ==
    ASSUME TypeInv, NEW s \in SeriesId, NEW input \in Inputs[s], SettleSeries(s, input)
    PROVE  /\ input \in Input /\ Payable(s, input) /\ PlanTyped(NewPlan(s, input))
           /\ s \notin DOMAIN settlement_plans
           /\ positions' = Without(positions, PositionsOf(s))
           /\ limit_orders' = Without(limit_orders, OrdersOf(s))
           /\ Advance(s, NewPlan(s, input), [u \in User |-> BlockedBy(u, s)], timers)
<1>1. input \in Input
    BY SettlementAssumption
<1>2. Payable(s, input)
    BY DEF SettleSeries
<1>3. PlanTyped(NewPlan(s, input))
    BY <1>1, <1>2, NewPlanTyped DEF TypeInv, PlanInv, BookTyped
<1> QED BY <1>1, <1>2, <1>3 DEF SettleSeries, NotSettled

LEMMA AdvancesParts ==
    ASSUME TypeInv, NEW s \in SeriesId, Advances(s)
    PROVE  /\ PlanTyped(settlement_plans[s]) /\ s \in OpenPlans(settlement_plans)
           /\ \A u \in User : Nothing[u] = 0
<1>1. s \in DOMAIN settlement_plans /\ settlement_plans[s].status # "Finalised"
    BY DEF Advances, InFlight, Finalised, NotSettled
<1> QED BY <1>1 DEF TypeInv, PlanInv, PlansOK, PlansTyped, PlanTyped, OpenPlans, Nothing

LEMMA SettlementTyped ==
    ASSUME TypeInv, SettlementNext, UNCHANGED tradingVars
    PROVE  BookTyped' /\ CallsTyped' /\ MarketTyped' /\ PlansTyped' /\ FundsTyped'
<1>1. UNCHANGED <<executed_trades, frozen_transfers, accepted_transfers, window, call>>
    BY DEF tradingVars
<1>2. CallsTyped' /\ DoneTyped'
    BY <1>1 DEF TypeInv, CallsTyped, Submitted, BookTyped, DoneTyped
<1>3. CASE BookAlone /\ FundsTyped'
    BY <1>1, <1>2, <1>3 DEF BookAlone, book, TypeInv, BookTyped, BalancesTyped, PositionsTyped,
                            OrdersTyped, MarketTyped, PlansTyped
<1>4. ASSUME NEW s \in SeriesId, Advances(s)
      PROVE  BookTyped' /\ CallsTyped' /\ MarketTyped' /\ PlansTyped' /\ FundsTyped'
    <2>1. PlanTyped(settlement_plans[s]) /\ \A u \in User : Nothing[u] \in Nat
        BY <1>4, AdvancesParts
    <2>2. BalancesTyped' /\ series_cache' \subseteq SeriesId /\ PlansTyped' /\ FundsTyped'
        BY <1>4, <2>1, AdvanceTyped DEF Advances
    <2>3. PositionsTyped' /\ OrdersTyped'
        BY <1>4 DEF Advances, TypeInv, BookTyped, PositionsTyped, OrdersTyped
    <2> QED BY <1>1, <1>2, <2>2, <2>3 DEF BookTyped, MarketTyped, TypeInv
<1>5. ASSUME NEW s \in SeriesId, NEW input \in Inputs[s], SettleSeries(s, input)
      PROVE  BookTyped' /\ CallsTyped' /\ MarketTyped' /\ PlansTyped' /\ FundsTyped'
    <2> DEFINE released == [u \in User |-> BlockedBy(u, s)]
    <2>1. /\ PlanTyped(NewPlan(s, input))
          /\ positions' = Without(positions, PositionsOf(s))
          /\ limit_orders' = Without(limit_orders, OrdersOf(s))
          /\ Advance(s, NewPlan(s, input), released, timers)
        BY <1>5, SettleParts
    <2>2. (\A u \in User : released[u] \in Nat) /\ timers \subseteq SeriesId
        BY BlockedByType DEF TypeInv, FundsTyped
    <2> HIDE DEF released
    <2>3. BalancesTyped' /\ series_cache' \subseteq SeriesId /\ PlansTyped' /\ FundsTyped'
        BY <2>1, <2>2, AdvanceTyped
    <2>4. PositionsTyped'
        BY <2>1 DEF Without, Restrict, TypeInv, BookTyped, PositionsTyped
    <2>5. OrdersTyped'
        <3>1. /\ DOMAIN limit_orders' \subseteq DOMAIN limit_orders
              /\ \A id \in DOMAIN limit_orders' : limit_orders'[id] = limit_orders[id]
            BY <2>1 DEF Without, Restrict
        <3> QED BY <3>1, FS_Subset DEF TypeInv, BookTyped, OrdersTyped
    <2> QED BY <1>1, <1>2, <2>3, <2>4, <2>5 DEF BookTyped, MarketTyped, TypeInv
<1> QED BY <1>3, <1>4, <1>5, SettlementKinds

LEMMA InitTypeInv ==
    ASSUME Init
    PROVE  TypeInv
<1>1. PlanInv
    BY InitPlanInv
<1>2. BookTyped
    <2>1. positions = EmptyMap /\ limit_orders = EmptyMap /\ DOMAIN EmptyMap = {}
        BY DEF Init, BookInit, EmptyMap
    <2>2. PositionsTyped /\ OrdersTyped
        BY <2>1, FS_EmptySet DEF PositionsTyped, OrdersTyped
    <2>3. BalancesTyped /\ DoneTyped
        BY DEF Init, BookInit, TradingInit, BalancesTyped, DoneTyped
    <2> QED BY <2>2, <2>3 DEF BookTyped
<1>3. CallsTyped
    BY DEF Init, TradingInit, CallsTyped
<1>4. MarketTyped
    BY ExchangeAssumption DEF Init, TradingInit, EmptyMap, MarketTyped
<1>5. PlansTyped
    BY SettlementAssumption DEF Init, SettlementInit, PlansTyped
<1>6. FundsTyped
    BY DEF Init, SettlementInit, FundsTyped
<1> QED BY <1>1, <1>2, <1>3, <1>4, <1>5, <1>6 DEF TypeInv

LEMMA NextTypeInv ==
    ASSUME TypeInv, [Next]_vars
    PROVE  TypeInv'
<1>1. PlanInv'
    BY NextPlanInv DEF TypeInv
<1>2. CASE TradingNext /\ UNCHANGED settlementVars
    <2>1. TradeInv
        BY DEF TypeInv, PlanInv, TradeInv, BookOK
    <2>2. TradeInv'
        BY <1>2, <2>1, TradingTyped
    <2>3. UNCHANGED <<settlement_plans, treasury, insurance_fund, settled_events, timers>>
        BY <1>2, TradingKeeps DEF TypeInv, settlementVars
    <2>4. PlansTyped' /\ FundsTyped'
        BY <2>3 DEF TypeInv, PlansTyped, FundsTyped
    <2> QED BY <1>1, <2>2, <2>4 DEF TradeInv, BookOK, TypeInv
<1>3. CASE SettlementNext /\ UNCHANGED tradingVars
    BY <1>1, <1>3, SettlementTyped DEF TypeInv
<1>4. CASE Upgrade
    <2>1. BookTyped' /\ MarketTyped' /\ PlansTyped'
        BY <1>4 DEF Upgrade, book, TypeInv, BookTyped, BalancesTyped, PositionsTyped, OrdersTyped,
                    DoneTyped, MarketTyped, PlansTyped
    <2>2. CallsTyped'
        BY <1>4 DEF Upgrade, CallsTyped
    <2>3. FundsTyped'
        BY <1>4 DEF Upgrade, UpgradeTimers, InFlight, TypeInv, PlansTyped, FundsTyped
    <2> QED BY <1>1, <2>1, <2>2, <2>3 DEF TypeInv
<1>5. CASE UNCHANGED vars
    <2>1. BookTyped' /\ MarketTyped' /\ PlansTyped' /\ FundsTyped' /\ CallsTyped'
        BY <1>5 DEF vars, book, tradingVars, settlementVars, TypeInv, BookTyped, BalancesTyped,
                    PositionsTyped, OrdersTyped, DoneTyped, MarketTyped, PlansTyped, FundsTyped,
                    CallsTyped, Submitted
    <2> QED BY <1>1, <2>1 DEF TypeInv
<1> QED BY <1>2, <1>3, <1>4, <1>5 DEF Next

(* Every map of the clearing canister keeps its type, whatever calls,
   settlements, traps and upgrades do: no reserved margin and no position's
   margin, u128 in the code, is less than zero, no account, series or order
   is foreign, and every plan's cursor stays within its snapshots. *)
THEOREM TypesCorrect == Spec => []TypeOK
<1>1. Init => TypeInv
    BY InitTypeInv
<1>2. TypeInv /\ [Next]_vars => TypeInv'
    BY NextTypeInv
<1> QED BY <1>1, <1>2, TypeGives, PTL DEF Spec

-----------------------------------------------------------------------------
(* Resting orders are collateralized. *)

Collateralized(order) ==
    order.blocked = OrderMargin(order.series, order.price, order.side, order.qty)

(* A step leaves orders, removes them, or collateralizes what it writes. *)
OrdersFollow ==
    \A id \in DOMAIN limit_orders' :
        \/ id \in DOMAIN limit_orders /\ limit_orders'[id] = limit_orders[id]
        \/ Collateralized(limit_orders'[id])

LEMMA OrdersStay == UNCHANGED limit_orders => OrdersFollow
BY DEF OrdersFollow

LEMMA OrdersLeave ==
    ASSUME NEW S, limit_orders' = Without(limit_orders, S)
    PROVE  OrdersFollow
BY DEF OrdersFollow, Without, Restrict

LEMMA PerformFollows ==
    ASSUME BookOK, NEW r, Submitted(r), NEW seen, Perform(r, seen)
    PROVE  OrdersFollow
<1>1. r \in Requests
    BY TradingAssumption DEF Submitted
<1>2. UNCHANGED tradeState => OrdersFollow
    BY OrdersStay DEF tradeState, book
<1>3. CASE r.op = "limit"
    <2>1. PlaceOrder(r)
        BY <1>3 DEF Perform
    <2>2. CASE OrderAllowed(r)
        <3> DEFINE blocked == OrderMargin(r.series, r.price, r.side, r.qty)
                   new == [creator |-> r.user, series |-> r.series, outcome |-> r.outcome,
                           side |-> r.side, qty |-> r.qty, price |-> r.price, blocked |-> blocked]
        <3>1. limit_orders' = Put(limit_orders, r.order, new)
            BY <2>1, <2>2 DEF PlaceOrder
        <3>2. Collateralized(new)
            BY DEF Collateralized
        <3> HIDE DEF new
        <3> QED BY <3>1, <3>2 DEF Put, OrdersFollow
    <2> QED BY <1>2, <2>1, <2>2 DEF PlaceOrder
<1>4. CASE r.op = "market"
    <2>1. FillOrder(r, seen)
        BY <1>4 DEF Perform
    <2>2. CASE FillAllowed(r, seen)
        <3> DEFINE order == limit_orders[r.order]
                   left == order.qty - FillQty(r, order)
                   kept == RemainingBlocked(r, order)
                   new == [order EXCEPT !.qty = left, !.blocked = kept]
        <3>1. limit_orders' = IF left = 0 THEN Without(limit_orders, {r.order})
                              ELSE [limit_orders EXCEPT ![r.order] = new]
            BY <2>1, <2>2 DEF FillOrder
        <3>2. order \in Order
            BY <2>2 DEF FillAllowed, BookOK, BookTyped, OrdersTyped, OrderOK
        <3>3. kept = OrderMargin(order.series, order.price, order.side, left)
            BY DEF RemainingBlocked
        <3> HIDE DEF order, left, kept
        <3>4. /\ new.series = order.series /\ new.price = order.price /\ new.side = order.side
              /\ new.qty = left /\ new.blocked = kept
            BY <3>2 DEF Order
        <3> HIDE DEF new
        <3>5. Collateralized(new)
            BY <3>3, <3>4 DEF Collateralized
        <3>6. CASE left = 0
            BY <3>1, <3>6, OrdersLeave
        <3>7. CASE left # 0
            BY <3>1, <3>5, <3>7 DEF OrdersFollow
        <3> QED BY <3>6, <3>7
    <2> QED BY <1>2, <2>1, <2>2 DEF FillOrder
<1>5. CASE r.op = "matched"
    BY <1>2, <1>5, OrdersStay DEF Perform, MatchedTrade
<1>6. CASE r.op = "mint"
    BY <1>2, <1>6, OrdersStay DEF Perform, MintSet
<1>7. CASE r.op = "redeem"
    BY <1>2, <1>7, OrdersStay DEF Perform, RedeemSet
<1>8. CASE r.op = "accept"
    BY <1>2, <1>8, OrdersStay DEF Perform, AcceptTransfer
<1> QED BY <1>1, <1>3, <1>4, <1>5, <1>6, <1>7, <1>8 DEF Requests

LEMMA NextFollows ==
    ASSUME TypeInv, [Next]_vars
    PROVE  OrdersFollow
<1>1. BookOK
    BY DEF TypeInv, PlanInv, BookOK
<1>2. UNCHANGED tradeState => OrdersFollow
    BY OrdersStay DEF tradeState, book
<1>3. ASSUME NEW c, NEW r, Submitted(r), NEW s, NEW seen, Continue(c, r, s, seen)
      PROVE  OrdersFollow
    BY <1>1, <1>2, <1>3, PerformFollows DEF Continue
<1>4. \A c \in CallId : call[c] # None => Submitted(call[c].req)
    BY DEF TypeInv, CallsTyped
<1>5. CASE TradingNext
    <2>1. ASSUME NEW c \in CallId, NEW r \in Request, Submit(c, r) PROVE OrdersFollow
        <3>1. Submitted(r)
            BY <1>1, <2>1, ReceivedTyped DEF Submit
        <3> QED BY <1>2, <1>3, <2>1, <3>1 DEF Submit
    <2>2. ASSUME NEW c \in CallId, RegistryAnswers(c) PROVE OrdersFollow
        BY <1>3, <1>4, <2>2 DEF RegistryAnswers
    <2>3. ASSUME NEW c \in CallId, AccessGranted(c) PROVE OrdersFollow
        BY <1>1, <1>4, <2>3, PerformFollows DEF AccessGranted
    <2>4. ASSUME NEW c \in CallId, RegistryRefuses(c) PROVE OrdersFollow
        BY <1>2, <2>4 DEF RegistryRefuses
    <2>5. ASSUME NEW id, CancelOrder(id) PROVE OrdersFollow
        BY <2>5, OrdersLeave DEF CancelOrder
    <2>6. ASSUME NEW id, NEW k, FreezePosition(id, k) PROVE OrdersFollow
        BY <2>6, OrdersStay DEF FreezePosition
    <2>7. ASSUME NEW s, WindowMoves(s) PROVE OrdersFollow
        BY <1>2, <2>7 DEF WindowMoves
    <2> QED BY <1>5, <2>1, <2>2, <2>3, <2>4, <2>5, <2>6, <2>7 DEF TradingNext
<1>6. CASE SettlementNext
    <2>1. CASE BookAlone
        BY <2>1, OrdersStay DEF BookAlone, book
    <2>2. ASSUME NEW s \in SeriesId, Advances(s) PROVE OrdersFollow
        BY <2>2, OrdersStay DEF Advances
    <2>3. ASSUME NEW s \in SeriesId, NEW input \in Inputs[s], SettleSeries(s, input)
          PROVE  OrdersFollow
        BY <2>3, OrdersLeave DEF SettleSeries
    <2> QED BY <1>6, <2>1, <2>2, <2>3, SettlementKinds
<1>7. CASE Upgrade \/ UNCHANGED vars
    BY <1>7, OrdersStay DEF Upgrade, vars, book
<1> QED BY <1>5, <1>6, <1>7 DEF Next

(* submit_market_order_impl and submit_limit_order: whatever calls a fill
   races with, what is blocked for a resting order is the margin of exactly
   what is left of it. *)
THEOREM RestingOrdersCollateralized == Spec => []OrdersCollateralized
<1> DEFINE Inv == TypeInv /\ \A id \in DOMAIN limit_orders : Collateralized(limit_orders[id])
<1>1. Init => Inv
    <2> SUFFICES ASSUME Init PROVE DOMAIN limit_orders = {}
        BY InitTypeInv
    <2> QED BY DEF Init, BookInit, EmptyMap
<1>2. Inv /\ [Next]_vars => Inv'
    <2> SUFFICES ASSUME Inv, [Next]_vars PROVE Inv'
        OBVIOUS
    <2>1. TypeInv' /\ OrdersFollow
        BY NextTypeInv, NextFollows
    <2>2. ASSUME NEW id \in DOMAIN limit_orders' PROVE Collateralized(limit_orders'[id])
        BY <2>1 DEF OrdersFollow
    <2> QED BY <2>1, <2>2 DEF Collateralized, OrderMargin
<1>3. Inv => OrdersCollateralized
    BY DEF OrdersCollateralized, Collateralized
<1> HIDE DEF Inv
<1> QED BY <1>1, <1>2, <1>3, PTL DEF Spec

-----------------------------------------------------------------------------
(* Reserved margins cover what they are reserved for. *)

(* No plan in flight is left from another version: its margins would be
   reserved in accounts that the books, which start empty, do not have. *)
SettledLegacy == \A s \in DOMAIN LegacyPlans : LegacyPlans[s].status = "Finalised"

Used(u) == BookMargin(u) + PlanSum(settlement_plans, u)

LEMMA UsedIs == \A u : UsedMargin(u) = Used(u)
<1> SUFFICES ASSUME NEW u PROVE UsedMargin(u) = Used(u)
    OBVIOUS
<1>1. PositionMargin(u) = MarginSum(positions, u)
    BY DEF PositionMargin, MarginSum, MapThenSumSet, MapThenFoldSet
<1>2. OrderBlocked(u) = BlockedSum(limit_orders, u)
    BY DEF OrderBlocked, BlockedSum, BlockedIn, OrdersBy, MapThenSumSet, MapThenFoldSet
<1>3. InFlight = OpenPlans(settlement_plans)
    BY DEF InFlight, Finalised, NotSettled, OpenPlans
<1>4. PlanMargin(u) = PlanSum(settlement_plans, u)
    <2>1. \A s : SumFor(settlement_plans[s], Unapplied(s), u, "margin")
                    = RestSum(settlement_plans[s], u)
        BY DEF RestSum, Rest, Unapplied
    <2> DEFINE S == OpenPlans(settlement_plans)
               f == Rests(settlement_plans, u)
               Fold(g) == g = [t \in SUBSET S |->
                  IF t = {} THEN 0
                  ELSE SumFor(settlement_plans[Pick(t)], Unapplied(Pick(t)), u, "margin")
                         + g[t \ {Pick(t)}]]
    <2>2. \A g : Fold(g) <=> IsFold(g, f, S)
        <3>1. \A t \in SUBSET S : t # {} =>
                 f[Pick(t)] = SumFor(settlement_plans[Pick(t)], Unapplied(Pick(t)), u, "margin")
            BY <2>1, PickIn DEF Rests, OpenPlans
        <3> QED BY <3>1 DEF IsFold
    <2>3. (CHOOSE g : Fold(g)) = (CHOOSE g : IsFold(g, f, S))
        <3> HIDE DEF Fold, f, S
        <3> QED BY <2>2
    <2>4. PlanMargin(u) = (CHOOSE g : Fold(g))[S]
        BY <1>3 DEF PlanMargin, MapThenSumSet, MapThenFoldSet, Pick
    <2> QED BY <2>3, <2>4, SumIsFold, PlanSumIs
<1> HIDE DEF PositionMargin, OrderBlocked, PlanMargin, MarginSum, BlockedSum, PlanSum
<1>5. UsedMargin(u) = MarginSum(positions, u) + BlockedSum(limit_orders, u)
                        + PlanSum(settlement_plans, u)
    BY <1>1, <1>2, <1>4 DEF UsedMargin
<1> QED BY <1>5 DEF Used, BookMargin

(* A step moves a user's reserved margin by what it moves of its use. *)
UseFollows(u, tight) ==
    \E d \in Int : /\ reserved_margin'[u] = Adjusted(reserved_margin[u], d)
                   /\ Used(u)' <= Used(u) + d
                   /\ tight => Used(u)' = Used(u) + d

PlansInv == TypeInv /\ HasPlans(settlement_plans)

LEMMA UseType ==
    ASSUME PlansInv
    PROVE  /\ BookOK
           /\ \A u : /\ Used(u) \in Nat /\ PlanSum(settlement_plans, u) \in Nat
                     /\ BookMargin(u) \in Nat
                     /\ MarginSum(positions, u) \in Nat /\ BlockedSum(limit_orders, u) \in Nat
           /\ \A u \in User : reserved_margin[u] \in Nat
<1>1. BookOK
    BY DEF PlansInv, TypeInv, PlanInv, BookOK
<1>2. \A u : PlanSum(settlement_plans, u) \in Nat
    BY PlanTerms DEF PlansInv
<1> QED BY <1>1, <1>2, BookSums DEF Used

LEMMA BookMarginType == BookOK => \A u : BookMargin(u) \in Nat
BY BookSums

LEMMA BookMarginNext == (BookOK => \A u : BookMargin(u) \in Nat)'
BY BookMarginType, PTL

(* Trading leaves the plans alone. *)
LEMMA BookUse ==
    ASSUME PlansInv, NEW tight, Effect(tight), UNCHANGED settlement_plans
    PROVE  HasPlans(settlement_plans') /\ \A u \in User : UseFollows(u, tight)
<1>1. HasPlans(settlement_plans')
    BY DEF PlansInv
<1>2. ASSUME NEW u \in User PROVE UseFollows(u, tight)
    <2>1. PICK d \in Int : /\ reserved_margin'[u] = Adjusted(reserved_margin[u], d)
                           /\ BookMargin(u)' <= BookMargin(u) + d
                           /\ tight => BookMargin(u)' = BookMargin(u) + d
        BY DEF Effect, Follows
    <2> DEFINE p == PlanSum(settlement_plans, u)
               b == BookMargin(u)
    <2>2. p \in Nat /\ b \in Nat
        BY UseType
    <2>3. BookMargin(u)' \in Nat
        BY BookMarginNext DEF Effect
    <2>4. Used(u)' = BookMargin(u)' + p /\ Used(u) = b + p
        BY DEF Used
    <2> HIDE DEF p, b
    <2> QED BY <2>1, <2>2, <2>3, <2>4 DEF UseFollows, b
<1> QED BY <1>1, <1>2

(* A chunk releases what it takes off a plan. *)
LEMMA AdvanceUse ==
    ASSUME PlansInv, NEW s \in SeriesId, NEW plan, PlanTyped(plan),
           NEW released, \A u \in User : released[u] \in Nat,
           NEW armed, Advance(s, plan, released, armed)
    PROVE  /\ HasPlans(settlement_plans')
           /\ \A u \in User : \E chunk \in Nat :
                 /\ reserved_margin'[u] = Adjusted(reserved_margin[u], -(released[u] + chunk))
                 /\ PlanSum(settlement_plans', u) = PlanSum(settlement_plans, u)
                      + (RestSum(plan, u) - chunk - RestAt(settlement_plans, u, s))
<1>1. settlement_plans' = Put(settlement_plans, s, Advanced(plan))
    BY DEF Advance, Advanced, Moved
<1>2. HasPlans(settlement_plans)
    BY DEF PlansInv
<1>3. /\ HasPlans(settlement_plans')
      /\ \A u : PlanSum(settlement_plans', u) = PlanSum(settlement_plans, u)
                   + (RestSum(Advanced(plan), u) - RestAt(settlement_plans, u, s))
    BY <1>1, <1>2, PlanAdvances
<1>4. ASSUME NEW u \in User
      PROVE  \E chunk \in Nat :
                 /\ reserved_margin'[u] = Adjusted(reserved_margin[u], -(released[u] + chunk))
                 /\ PlanSum(settlement_plans', u) = PlanSum(settlement_plans, u)
                      + (RestSum(plan, u) - chunk - RestAt(settlement_plans, u, s))
    <2> DEFINE chunk == SumFor(plan, Chunk(plan), u, "margin")
    <2>1. /\ chunk \in Nat /\ RestSum(Advanced(plan), u) \in Nat
          /\ RestSum(plan, u) = chunk + RestSum(Advanced(plan), u)
        BY ChunkSplits
    <2>2. reserved_margin'[u] = Less(reserved_margin[u], released[u] + chunk)
        BY DEF Advance
    <2>3. reserved_margin[u] \in Nat /\ released[u] \in Nat
        BY UseType
    <2> HIDE DEF chunk
    <2>4. reserved_margin'[u] = Adjusted(reserved_margin[u], -(released[u] + chunk))
        BY <2>1, <2>2, <2>3 DEF Adjusted, Less
    <2>5. RestSum(Advanced(plan), u) = RestSum(plan, u) - chunk
        BY <2>1
    <2> QED BY <1>3, <2>1, <2>4, <2>5
<1> QED BY <1>3, <1>4

LEMMA AdvancesUse ==
    ASSUME PlansInv, NEW s \in SeriesId, Advances(s)
    PROVE  HasPlans(settlement_plans') /\ \A u \in User : UseFollows(u, TRUE)
<1> DEFINE plan == settlement_plans[s]
<1>1. /\ PlanTyped(plan) /\ s \in OpenPlans(settlement_plans)
      /\ \A u \in User : Nothing[u] = 0
    BY AdvancesParts DEF PlansInv
<1>2. PICK armed \in SUBSET SeriesId : Advance(s, plan, Nothing, armed)
    BY DEF Advances
<1>3. UNCHANGED <<positions, limit_orders>>
    BY DEF Advances
<1>4. /\ HasPlans(settlement_plans')
      /\ \A u \in User : \E chunk \in Nat :
            /\ reserved_margin'[u] = Adjusted(reserved_margin[u], -(Nothing[u] + chunk))
            /\ PlanSum(settlement_plans', u) = PlanSum(settlement_plans, u)
                 + (RestSum(plan, u) - chunk - RestAt(settlement_plans, u, s))
    BY <1>1, <1>2, AdvanceUse
<1>5. ASSUME NEW u \in User PROVE UseFollows(u, TRUE)
    <2>1. RestAt(settlement_plans, u, s) = RestSum(plan, u) /\ RestSum(plan, u) \in Nat
        BY <1>1, ChunkSplits DEF RestAt
    <2>2. PICK chunk \in Nat :
            /\ reserved_margin'[u] = Adjusted(reserved_margin[u], -(Nothing[u] + chunk))
            /\ PlanSum(settlement_plans', u) = PlanSum(settlement_plans, u)
                 + (RestSum(plan, u) - chunk - RestAt(settlement_plans, u, s))
        BY <1>4
    <2>3. BookMargin(u)' = BookMargin(u)
        BY <1>3 DEF BookMargin
    <2>4. PlanSum(settlement_plans, u) \in Nat /\ BookMargin(u) \in Nat
        BY UseType
    <2>5. -(Nothing[u] + chunk) = -chunk /\ -chunk \in Int
        BY <1>1
    <2>6. Used(u)' = BookMargin(u)' + PlanSum(settlement_plans', u)
          /\ Used(u) = BookMargin(u) + PlanSum(settlement_plans, u)
        BY DEF Used
    <2>7. Used(u)' = Used(u) + -chunk /\ Used(u)' <= Used(u) + -chunk
        BY <2>1, <2>2, <2>3, <2>4, <2>6
    <2> QED BY <2>2, <2>5, <2>7 DEF UseFollows
<1> QED BY <1>4, <1>5

LEMMA SettleUse ==
    ASSUME PlansInv, NEW s \in SeriesId, NEW input \in Inputs[s], SettleSeries(s, input)
    PROVE  HasPlans(settlement_plans') /\ \A u \in User : UseFollows(u, TRUE)
<1> DEFINE plan == NewPlan(s, input)
           released == [u \in User |-> BlockedBy(u, s)]
           kept == Without(positions, PositionsOf(s))
           resting == Without(limit_orders, OrdersOf(s))
<1>1. /\ input \in Input /\ Payable(s, input) /\ PlanTyped(plan)
      /\ s \notin DOMAIN settlement_plans
      /\ positions' = kept /\ limit_orders' = resting
      /\ Advance(s, plan, released, timers)
    BY SettleParts DEF PlansInv
<1>2. \A u : /\ BlockedBy(u, s) \in Nat /\ HasBlocks(resting)
             /\ BlockedSum(limit_orders, u) = BlockedSum(resting, u) + BlockedBy(u, s)
    BY BlockedByType DEF PlansInv
<1>3. \A u : /\ HasMargins(kept)
             /\ MarginSum(positions, u) = MarginSum(kept, u) + RestSum(plan, u)
    BY <1>1, OpenedMargin DEF PlansInv, TypeInv, PlanInv, BookTyped
<1>4. \A u \in User : released[u] = BlockedBy(u, s)
    OBVIOUS
<1> HIDE DEF plan, released, kept, resting
<1>5. /\ HasPlans(settlement_plans')
      /\ \A u \in User : \E chunk \in Nat :
            /\ reserved_margin'[u] = Adjusted(reserved_margin[u], -(released[u] + chunk))
            /\ PlanSum(settlement_plans', u) = PlanSum(settlement_plans, u)
                 + (RestSum(plan, u) - chunk - RestAt(settlement_plans, u, s))
    BY <1>1, <1>2, <1>4, AdvanceUse
<1>6. ASSUME NEW u \in User PROVE UseFollows(u, TRUE)
    <2>1. RestAt(settlement_plans, u, s) = 0 /\ RestSum(plan, u) \in Nat
        BY <1>1, ChunkSplits DEF RestAt, OpenPlans
    <2>2. PICK chunk \in Nat :
            /\ reserved_margin'[u] = Adjusted(reserved_margin[u], -(released[u] + chunk))
            /\ PlanSum(settlement_plans', u) = PlanSum(settlement_plans, u)
                 + (RestSum(plan, u) - chunk - RestAt(settlement_plans, u, s))
        BY <1>5
    <2>3. MarginSum(kept, u) \in Nat /\ BlockedSum(resting, u) \in Nat
        BY <1>2, <1>3, MarginTerms, BlockedTerms
    <2>4. PlanSum(settlement_plans, u) \in Nat /\ MarginSum(positions, u) \in Nat
          /\ BlockedSum(limit_orders, u) \in Nat /\ released[u] \in Nat
        BY <1>2, <1>4, UseType
    <2> DEFINE d == -(released[u] + chunk)
    <2>5. /\ Used(u)' = MarginSum(kept, u) + BlockedSum(resting, u) + PlanSum(settlement_plans', u)
          /\ Used(u) = MarginSum(positions, u) + BlockedSum(limit_orders, u)
                         + PlanSum(settlement_plans, u)
        BY <1>1 DEF Used, BookMargin
    <2>6. Used(u)' = Used(u) + d /\ Used(u)' <= Used(u) + d /\ d \in Int
        BY <1>2, <1>3, <1>4, <2>1, <2>2, <2>3, <2>4, <2>5
    <2> QED BY <2>2, <2>6 DEF UseFollows
<1> QED BY <1>5, <1>6

LEMMA LooseEffect ==
    ASSUME NEW tight, Effect(tight)
    PROVE  Effect(FALSE)
<1>1. \A u \in User : Follows(u, tight) => Follows(u, FALSE)
    BY DEF Follows
<1> QED BY <1>1 DEF Effect

LEMMA TradingEffect ==
    ASSUME NoUnblocks, TradeInv, TradingNext
    PROVE  Effect(FALSE)
<1>1. BookOK /\ \A c \in CallId : call[c] # None => Submitted(call[c].req)
    BY DEF TradeInv, CallsTyped
<1>2. UNCHANGED tradeState => Effect(FALSE)
    BY <1>1, NoTradeState, LooseEffect
<1>3. ASSUME NEW r, Submitted(r), NEW seen, Perform(r, seen) PROVE Effect(FALSE)
    BY <1>1, <1>3, PerformEffect, LooseEffect
<1>4. ASSUME NEW c, NEW r, Submitted(r), NEW s, NEW seen, Continue(c, r, s, seen)
      PROVE  Effect(FALSE)
    BY <1>2, <1>3, <1>4 DEF Continue
<1>5. ASSUME NEW c \in CallId, NEW r \in Request, Submit(c, r) PROVE Effect(FALSE)
    <2>1. Submitted(r)
        BY <1>1, <1>5, ReceivedTyped DEF Submit
    <2> QED BY <1>2, <1>4, <1>5, <2>1 DEF Submit
<1>6. ASSUME NEW c \in CallId, RegistryAnswers(c) PROVE Effect(FALSE)
    BY <1>1, <1>4, <1>6 DEF RegistryAnswers
<1>7. ASSUME NEW c \in CallId, AccessGranted(c) PROVE Effect(FALSE)
    BY <1>1, <1>3, <1>7 DEF AccessGranted
<1>8. ASSUME NEW c \in CallId, RegistryRefuses(c) PROVE Effect(FALSE)
    BY <1>2, <1>8 DEF RegistryRefuses
<1>9. ASSUME NEW id, CancelOrder(id) PROVE Effect(FALSE)
    BY <1>1, <1>9, CancelEffect, LooseEffect
<1>10. ASSUME NEW id, NEW k, FreezePosition(id, k) PROVE Effect(FALSE)
    BY <1>1, <1>10, FreezeEffect
<1>11. ASSUME NEW s, WindowMoves(s) PROVE Effect(FALSE)
    BY <1>2, <1>11 DEF WindowMoves
<1> QED BY <1>5, <1>6, <1>7, <1>8, <1>9, <1>10, <1>11 DEF TradingNext

LEMMA NoUse ==
    ASSUME PlansInv, UNCHANGED <<book, settlement_plans, executed_trades, accepted_transfers>>
    PROVE  HasPlans(settlement_plans') /\ \A u \in User : UseFollows(u, TRUE)
<1>1. BookOK /\ UNCHANGED tradeState
    BY UseType DEF tradeState
<1>2. Effect(TRUE) /\ UNCHANGED settlement_plans
    BY <1>1, NoTradeState
<1> QED BY <1>2, BookUse

(* Settlement moves margins exactly. *)
LEMMA SettlementUse ==
    ASSUME PlansInv, SettlementNext, UNCHANGED tradingVars
    PROVE  HasPlans(settlement_plans') /\ \A u \in User : UseFollows(u, TRUE)
<1>1. CASE BookAlone
    BY <1>1, NoUse DEF BookAlone, tradingVars
<1>2. ASSUME NEW s \in SeriesId, Advances(s)
      PROVE  HasPlans(settlement_plans') /\ \A u \in User : UseFollows(u, TRUE)
    BY <1>2, AdvancesUse
<1>3. ASSUME NEW s \in SeriesId, NEW input \in Inputs[s], SettleSeries(s, input)
      PROVE  HasPlans(settlement_plans') /\ \A u \in User : UseFollows(u, TRUE)
    BY <1>3, SettleUse
<1> QED BY <1>1, <1>2, <1>3, SettlementKinds DEF PlansInv

LEMMA NextUse ==
    ASSUME NoUnblocks, PlansInv, [Next]_vars
    PROVE  HasPlans(settlement_plans') /\ \A u \in User : UseFollows(u, FALSE)
<1>1. \A u : UseFollows(u, TRUE) => UseFollows(u, FALSE)
    BY DEF UseFollows
<1>2. CASE TradingNext
    <2>1. TradeInv /\ PlanInv
        BY DEF PlansInv, TypeInv, PlanInv, TradeInv, BookOK
    <2>2. Effect(FALSE) /\ UNCHANGED settlement_plans
        BY <1>2, <2>1, TradingEffect, TradingKeeps
    <2> QED BY <2>2, BookUse
<1>3. CASE SettlementNext /\ UNCHANGED tradingVars
    BY <1>1, <1>3, SettlementUse
<1>4. CASE Upgrade \/ UNCHANGED vars
    BY <1>1, <1>4, NoUse DEF Upgrade, vars, tradingVars
<1> QED BY <1>2, <1>3, <1>4 DEF Next

LEMMA InitUse ==
    ASSUME SettledLegacy, Init
    PROVE  PlansInv /\ \A u \in User : reserved_margin[u] = 0 /\ Used(u) = 0
<1>1. TypeInv
    BY InitTypeInv
<1>2. settlement_plans = LegacyPlans
    BY DEF Init, SettlementInit
<1>3. OpenPlans(settlement_plans) = {}
    BY <1>2 DEF SettledLegacy, OpenPlans
<1>4. HasPlans(settlement_plans)
    BY <1>1, <1>3, FS_EmptySet DEF TypeInv, PlanInv, PlansOK, PlansTyped, PlanTyped, HasPlans
<1>5. \A u : PlanSum(settlement_plans, u) = 0
    BY <1>3, PlanSumIs, SumEmpty
<1>6. DOMAIN positions = {} /\ DOMAIN limit_orders = {}
    BY DEF Init, BookInit, EmptyMap
<1>7. \A u : MarginSum(positions, u) = 0
    <2>1. \A u : KeysOf(positions, u) = {}
        BY <1>6 DEF KeysOf
    <2> QED BY <2>1, MarginSumIs, SumEmpty
<1>8. \A u : BlockedSum(limit_orders, u) = 0
    <2>1. \A u : OrdersBy(limit_orders, u) = {} /\ {} \subseteq DOMAIN limit_orders
        BY <1>6 DEF OrdersBy
    <2>2. BlockedIn(limit_orders, {}) = SumOver(Blocks(limit_orders), {})
        BY BlockedIs
    <2> QED BY <2>1, <2>2, SumEmpty DEF BlockedSum
<1>9. \A u \in User : reserved_margin[u] = 0
    BY DEF Init, BookInit
<1> QED BY <1>1, <1>4, <1>5, <1>7, <1>8, <1>9 DEF PlansInv, Used, BookMargin

Covered == \A u \in User : reserved_margin[u] >= Used(u)

LEMMA UseNat == PlansInv => \A u : Used(u) \in Nat
BY UseType

LEMMA UseNext == (PlansInv => \A u : Used(u) \in Nat)'
BY UseNat, PTL

LEMMA NextCovered ==
    ASSUME NoUnblocks, PlansInv, Covered, [Next]_vars
    PROVE  PlansInv' /\ Covered'
<1>1. HasPlans(settlement_plans') /\ \A u \in User : UseFollows(u, FALSE)
    BY NextUse
<1>2. PlansInv'
    BY <1>1, NextTypeInv DEF PlansInv
<1>3. ASSUME NEW u \in User PROVE reserved_margin'[u] >= Used(u)'
    <2>1. PICK d \in Int : /\ reserved_margin'[u] = Adjusted(reserved_margin[u], d)
                           /\ Used(u)' <= Used(u) + d
        BY <1>1 DEF UseFollows
    <2>2. reserved_margin[u] \in Nat /\ Used(u) \in Nat /\ reserved_margin[u] >= Used(u)
        BY UseType DEF Covered
    <2>3. Adjusted(reserved_margin[u], d) \in Nat
          /\ Adjusted(reserved_margin[u], d) >= reserved_margin[u] + d
        BY <2>2, AdjustedType
    <2>4. Used(u)' \in Nat
        BY <1>2, UseNext
    <2> QED BY <2>1, <2>2, <2>3, <2>4
<1> QED BY <1>2, <1>3 DEF Covered

(* execute_trade_impl, the order methods, complete sets, transfers and the
   settlement chunks adjust the account's reserved margin by deltas, and the
   adjustments saturate: in every interleaving of methods, chunks, traps and
   upgrades the account still reserves what its positions, its resting orders
   and the unapplied rest of settlement plans need, if submit_matched_trade
   is not asked to unblock margin for orders that are not on the book. *)
THEOREM MarginStaysCovered ==
    ASSUME NoUnblocks, SettledLegacy
    PROVE  Spec => []MarginCovered
<1>1. Init => PlansInv /\ Covered
    BY InitUse DEF Covered
<1>2. PlansInv /\ Covered /\ [Next]_vars => (PlansInv /\ Covered)'
    BY NextCovered
<1>3. PlansInv /\ Covered => MarginCovered
    BY UsedIs DEF Covered, MarginCovered
<1> QED BY <1>1, <1>2, <1>3, PTL DEF Spec

-----------------------------------------------------------------------------
(* Nothing is left over. *)

(* The cost of every set a client asks to mint divides among its outcomes:
   mint_complete_set_logic drops the rest of the division. *)
EvenSets ==
    \A r \in Request :
        r.op = "mint" /\ Listing[r.series].payoff_type = "Categorical" /\ SetKeys(r) # {}
            => EvenSet(r)

NothingFrozen == UNCHANGED frozen_transfers

LEMMA ReceivedExact ==
    ASSUME NoUnblocks, EvenSets, BookOK, NEW r \in Request, Receivable(r), NEW seen,
           Perform(r, seen)
    PROVE  Effect(TRUE)
<1>1. Submitted(r)
    BY ReceivedTyped
<1>2. CASE Exact(r)
    BY <1>1, <1>2, PerformEffect DEF Effect, Follows
<1>3. CASE ~Exact(r)
    <2>1. r.op = "mint" /\ ~EvenSet(r)
        BY <1>3 DEF Exact, Receivable
    <2>2. ~MintAllowed(r)
        BY <2>1 DEF EvenSets, MintAllowed
    <2>3. UNCHANGED tradeState
        BY <2>1, <2>2 DEF Perform, MintSet
    <2> QED BY <2>3, NoTradeState
<1> QED BY <1>2, <1>3

LEMMA TradingExact ==
    ASSUME NoAwaits, NoUnblocks, EvenSets, SerialInv, PlansInv, TradingNext, NothingFrozen
    PROVE  Effect(TRUE)
<1>1. BookOK /\ Idle
    BY UseType DEF SerialInv
<1>2. UNCHANGED tradeState => Effect(TRUE)
    BY <1>1, NoTradeState
<1>3. ASSUME NEW c \in CallId, NEW r \in Request, Submit(c, r) PROVE Effect(TRUE)
    <2>1. UNCHANGED tradeState \/ \E seen : Perform(r, seen)
        BY <1>3, SubmitSerial
    <2>2. Receivable(r)
        BY <1>3 DEF Submit
    <2> QED BY <1>1, <1>2, <2>1, <2>2, ReceivedExact
<1>4. ASSUME NEW c \in CallId, RegistryAnswers(c) \/ AccessGranted(c) \/ RegistryRefuses(c)
      PROVE  FALSE
    BY <1>1, <1>4 DEF RegistryAnswers, AccessGranted, RegistryRefuses, Idle
<1>5. ASSUME NEW id, CancelOrder(id) PROVE Effect(TRUE)
    BY <1>1, <1>5, CancelEffect
<1>6. ASSUME NEW id \in TransferId, NEW k, FreezePosition(id, k) PROVE FALSE
    <2>1. id \notin DOMAIN frozen_transfers /\ id \in DOMAIN frozen_transfers'
        BY <1>6 DEF FreezePosition, Put
    <2> QED BY <2>1 DEF NothingFrozen
<1>7. ASSUME NEW s, WindowMoves(s) PROVE Effect(TRUE)
    BY <1>2, <1>7 DEF WindowMoves
<1> QED BY <1>3, <1>4, <1>5, <1>6, <1>7 DEF TradingNext

ExactlyUsed == \A u \in User : reserved_margin[u] = Used(u)

ExactInv == SerialInv /\ PlansInv /\ ExactlyUsed

LEMMA NextExact ==
    ASSUME NoAwaits, NoUnblocks, EvenSets, ExactInv, [Next]_vars, NothingFrozen
    PROVE  ExactInv'
<1> USE DEF ExactInv
<1>1. HasPlans(settlement_plans') /\ \A u \in User : UseFollows(u, TRUE)
    <2>1. CASE TradingNext
        <3>1. Effect(TRUE) /\ UNCHANGED settlement_plans
            BY <2>1, TradingExact, TradingKeeps DEF SerialInv
        <3> QED BY <3>1, BookUse
    <2>2. CASE SettlementNext /\ UNCHANGED tradingVars
        BY <2>2, SettlementUse
    <2>3. CASE Upgrade \/ UNCHANGED vars
        BY <2>3, NoUse DEF Upgrade, vars, tradingVars
    <2> QED BY <2>1, <2>2, <2>3 DEF Next
<1>2. SerialInv' /\ PlansInv'
    BY <1>1, NextSerialInv, NextTypeInv DEF PlansInv
<1>3. ASSUME NEW u \in User PROVE reserved_margin'[u] = Used(u)'
    <2>1. PICK d \in Int : /\ reserved_margin'[u] = Adjusted(reserved_margin[u], d)
                           /\ Used(u)' = Used(u) + d
        BY <1>1 DEF UseFollows
    <2>2. reserved_margin[u] \in Nat /\ reserved_margin[u] = Used(u)
        BY UseType DEF ExactlyUsed
    <2>3. Used(u)' \in Nat
        BY <1>2, UseNext
    <2>4. reserved_margin[u] + d >= 0
        BY <2>1, <2>2, <2>3
    <2>5. Adjusted(reserved_margin[u], d) = reserved_margin[u] + d
        BY <2>2, <2>4, AdjustedType
    <2> QED BY <2>1, <2>2, <2>5
<1> QED BY <1>2, <1>3 DEF ExactlyUsed

(* While no call is suspended across another, no position is frozen and the
   sets minted divide evenly, the account reserves exactly what its positions,
   its resting orders and the unapplied rest of settlement plans need: no
   trade, order, set, chunk, trap or upgrade leaves margin locked for good. *)
THEOREM MarginStaysExact ==
    ASSUME NoAwaits, NoUnblocks, SettledLegacy, EvenSets
    PROVE  Spec /\ [][NothingFrozen]_vars => []MarginExact
<1>1. Init => ExactInv
    BY InitSerialInv, InitUse DEF ExactInv, ExactlyUsed
<1>2. ExactInv /\ [Next]_vars /\ [NothingFrozen]_vars => ExactInv'
    BY NextExact DEF NothingFrozen, vars, tradingVars
<1>3. ExactInv => MarginExact
    BY UsedIs DEF ExactInv, ExactlyUsed, MarginExact
<1> QED BY <1>1, <1>2, <1>3, PTL DEF Spec
=============================================================================
