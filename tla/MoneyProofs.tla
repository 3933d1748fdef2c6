----------------------------- MODULE MoneyProofs -----------------------------
(***************************************************************************)
(* Theorems about the money of Exchange, for any users, series, prices and *)
(* interleaving of settlement: trading and settlement neither make nor     *)
(* lose any, and a settlement in chunks is one at once.                    *)
(***************************************************************************)
EXTENDS ExchangeProofs

(* The contracts that one unit backs, and inputs that fit them. *)
SoundContracts ==
    \A s \in SeriesId :
        /\ FullCollateral(Listing[s])
        /\ \A input \in Inputs[s] :
              /\ HasUnitPayoff(Listing[s], input)
              /\ (Listing[s].payoff_type = "Binary" => InUsd(input.price, "Floor") <= Unit)
              /\ (Listing[s].payoff_type = "Categorical" =>
                     input.outcome \in Listing[s].outcomes)

(* No price is above one unit.  validate_no_arbitrage asks this of bids, and
   nothing asks it of asks and of an exchange's trades. *)
WithinUnit(price) == InUsd(price, "Ceil") <= Unit

PricedWithinUnit == \A r \in Request : r.op \in {"limit", "matched"} => WithinUnit(r.price)

FiniteMarket == IsFiniteSet(User) /\ IsFiniteSet(SeriesId)

-----------------------------------------------------------------------------
(* What a position is worth. *)

Pays(s, o, input) == UnitPayoff(Listing[s], o, input)

LEMMA PaysType ==
    ASSUME SoundContracts, NEW s \in SeriesId, NEW input \in Inputs[s], NEW o
    PROVE  /\ Listing[s] \in Series /\ input \in Input /\ HasUnitPayoff(Listing[s], input)
           /\ Pays(s, o, input) \in Nat /\ Pays(s, o, input) <= Unit
<1>1. Listing[s] \in Series /\ input \in Input
    BY BookAssumption, SettlementAssumption
<1>2. HasUnitPayoff(Listing[s], input) /\ FullCollateral(Listing[s])
    BY DEF SoundContracts
<1>3. Pays(s, o, input) \in Nat
    BY <1>1, <1>2, UnitPayoffType DEF Pays
<1>4. Listing[s].payoff_type \in {"Binary", "Categorical"} /\ ~Listing[s].social
    BY <1>1, <1>2 DEF FullCollateral, Series, PayoffType
<1>5. ASSUME Listing[s].payoff_type = "Binary" PROVE Pays(s, o, input) <= Unit
    <2>1. InUsd(input.price, "Floor") <= Unit
        BY <1>5 DEF SoundContracts
    <2>2. Pays(s, o, input) = InUsd(input.price, "Floor")
        BY <1>4, <1>5 DEF Pays, UnitPayoff
    <2> QED BY <2>1, <2>2
<1>6. ASSUME Listing[s].payoff_type = "Categorical" PROVE Pays(s, o, input) <= Unit
    <2>1. Unit \in Nat
        BY UnitType
    <2>2. Pays(s, o, input) = IF o = input.outcome THEN Unit ELSE 0
        BY <1>4, <1>6 DEF Pays, UnitPayoff
    <2> QED BY <2>1, <2>2
<1> QED BY <1>1, <1>2, <1>3, <1>4, <1>5, <1>6

(* A long is paid its contracts' payoff, a short the rest of their units. *)
LEMMA ValueIs ==
    ASSUME SoundContracts, NEW s \in SeriesId, NEW input \in Inputs[s], NEW o, NEW q \in Int
    PROVE  /\ SettlementValue(Listing[s], o, q, input) \in Nat
           /\ q >= 0 => SettlementValue(Listing[s], o, q, input) = q * Pays(s, o, input)
           /\ q < 0 => SettlementValue(Listing[s], o, q, input)
                           = (-q) * (Unit - Pays(s, o, input))
<1>1. /\ Listing[s] \in Series /\ input \in Input /\ HasUnitPayoff(Listing[s], input)
      /\ Pays(s, o, input) \in Nat /\ Pays(s, o, input) <= Unit
    BY PaysType
<1>2. Listing[s].payoff_type \notin Scalar
    BY DEF SoundContracts, FullCollateral
<1>3. Less(Unit, Pays(s, o, input)) = Unit - Pays(s, o, input)
    BY <1>1, UnitType, LessType
<1>4. (q < 0 => Abs(q) = -q) /\ (q >= 0 => Abs(q) = q)
    BY DEF Abs
<1>5. SettlementValue(Listing[s], o, q, input) \in Nat
    BY <1>1, ValueType
<1> QED BY <1>2, <1>3, <1>4, <1>5 DEF SettlementValue, Pays

(* A position marked to a price is worth its contracts' payoff above it, to
   a long and to a short. *)
LEMMA MarkedWorth ==
    ASSUME SoundContracts, NEW s \in SeriesId, NEW input \in Inputs[s], NEW o,
           NEW q \in Int, NEW p \in Price, WithinUnit(p)
    PROVE  SettlementValue(Listing[s], o, q, input) - RequiredMargin(Listing[s], p, q)
               = q * (Pays(s, o, input) - InUsd(p, "Ceil"))
<1>1. PICK x \in Nat : x = Pays(s, o, input) /\ x <= Unit
    BY PaysType
<1>2. PICK y \in Nat : y = InUsd(p, "Ceil") /\ y <= Unit
    BY UsdType DEF WithinUnit
<1>3. PICK v \in Nat : v = Unit
    BY UnitType
<1>4. Less(v, y) = v - y
    BY <1>2, <1>3, LessType
<1>5. Listing[s].payoff_type \notin Scalar /\ ~Listing[s].social
    BY DEF SoundContracts, FullCollateral
<1>6. UnitMargin(Listing[s], p, q) = IF q < 0 THEN v - y ELSE y
    BY <1>2, <1>3, <1>4, <1>5 DEF UnitMargin, Scalar
<1>7. (q < 0 => Abs(q) = -q) /\ (q >= 0 => Abs(q) = q)
    BY DEF Abs
<1>8. CASE q = 0
    <2>1. RequiredMargin(Listing[s], p, q) = 0
        BY <1>8 DEF RequiredMargin
    <2>2. SettlementValue(Listing[s], o, q, input) = 0 * x
        BY <1>1, <1>8, ValueIs
    <2> QED BY <1>1, <1>2, <1>8, <2>1, <2>2
<1>9. CASE q > 0
    <2>1. RequiredMargin(Listing[s], p, q) = q * y
        BY <1>5, <1>6, <1>7, <1>9 DEF RequiredMargin
    <2>2. SettlementValue(Listing[s], o, q, input) = q * x
        BY <1>1, <1>9, ValueIs
    <2>3. q * x - q * y = q * (x - y)
        OBVIOUS
    <2> QED BY <1>1, <1>2, <2>1, <2>2, <2>3
<1>10. CASE q < 0
    <2>1. RequiredMargin(Listing[s], p, q) = (-q) * (v - y)
        BY <1>5, <1>6, <1>7, <1>10 DEF RequiredMargin
    <2>2. SettlementValue(Listing[s], o, q, input) = (-q) * (v - x)
        BY <1>1, <1>3, <1>10, ValueIs
    <2>3. (-q) * (v - x) - (-q) * (v - y) = q * (x - y)
        OBVIOUS
    <2> QED BY <1>1, <1>2, <2>1, <2>2, <2>3
<1> QED BY <1>8, <1>9, <1>10

-----------------------------------------------------------------------------
(* What the positions in a series are worth above their margins. *)

HasQuantities(pos) == IsFiniteSet(DOMAIN pos) /\ \A k \in DOMAIN pos : pos[k] \in Position

KeysIn(pos, s) == {k \in DOMAIN pos : k[2] = s}

Worth(s, k, position, input) ==
    SettlementValue(Listing[s], k[3], position.net_qty, input) - position.margin

Worths(pos, s, input) == [k \in DOMAIN pos |-> Worth(s, k, pos[k], input)]
WorthSum(pos, s, input) == SumOver(Worths(pos, s, input), KeysIn(pos, s))
WorthAt(pos, s, input, k) ==
    IF k \in DOMAIN pos /\ k[2] = s THEN Worth(s, k, pos[k], input) ELSE 0

LEMMA WorthType ==
    ASSUME SoundContracts, NEW s \in SeriesId, NEW input \in Inputs[s], NEW k,
           NEW position \in Position
    PROVE  Worth(s, k, position, input) \in Int
<1>1. position.net_qty \in Int /\ position.margin \in Nat
    BY DEF Position
<1>2. SettlementValue(Listing[s], k[3], position.net_qty, input) \in Nat
    BY <1>1, ValueIs
<1> QED BY <1>1, <1>2 DEF Worth

LEMMA WorthTerms ==
    ASSUME SoundContracts, NEW s \in SeriesId, NEW input \in Inputs[s],
           NEW pos, HasQuantities(pos)
    PROVE  /\ IsFiniteSet(KeysIn(pos, s))
           /\ \A k \in KeysIn(pos, s) : Worths(pos, s, input)[k] \in Int
           /\ \A k : Term(Worths(pos, s, input), KeysIn(pos, s), k) = WorthAt(pos, s, input, k)
           /\ WorthSum(pos, s, input) \in Int
<1>1. IsFiniteSet(KeysIn(pos, s))
    BY FS_Subset DEF KeysIn, HasQuantities
<1>2. \A k \in DOMAIN pos : Worth(s, k, pos[k], input) \in Int
    BY WorthType DEF HasQuantities
<1>3. \A k \in KeysIn(pos, s) : Worths(pos, s, input)[k] \in Int
    BY <1>2 DEF KeysIn, Worths
<1>4. \A k : Term(Worths(pos, s, input), KeysIn(pos, s), k) = WorthAt(pos, s, input, k)
    BY DEF Term, KeysIn, Worths, WorthAt
<1>5. WorthSum(pos, s, input) \in Int
    BY <1>1, <1>3, SumType DEF WorthSum
<1> QED BY <1>1, <1>3, <1>4, <1>5

(* The worth of a series moves by what the worths of its positions do. *)
LEMMA WorthMoves ==
    ASSUME SoundContracts, NEW s \in SeriesId, NEW input \in Inputs[s],
           NEW pos, HasQuantities(pos), NEW new, HasQuantities(new),
           NEW K, IsFiniteSet(K), NEW g, \A k \in K : g[k] \in Int,
           \A k : WorthAt(new, s, input, k) = WorthAt(pos, s, input, k) + Term(g, K, k)
    PROVE  WorthSum(new, s, input) = WorthSum(pos, s, input) + SumOver(g, K)
<1> DEFINE f == Worths(pos, s, input)
           R == KeysIn(pos, s)
           h == Worths(new, s, input)
           T == KeysIn(new, s)
<1>1. /\ IsFiniteSet(R) /\ \A k \in R : f[k] \in Int
      /\ \A k : Term(f, R, k) = WorthAt(pos, s, input, k)
    BY WorthTerms
<1>2. /\ IsFiniteSet(T) /\ \A k \in T : h[k] \in Int
      /\ \A k : Term(h, T, k) = WorthAt(new, s, input, k)
    BY WorthTerms
<1>3. WorthSum(new, s, input) = SumOver(h, T) /\ WorthSum(pos, s, input) = SumOver(f, R)
    BY DEF WorthSum
<1> HIDE DEF f, R, h, T
<1>4. \A k \in R \cup K \cup T : Term(h, T, k) = Term(f, R, k) + Term(g, K, k)
    BY <1>1, <1>2
<1>5. SumOver(h, T) = SumOver(f, R) + SumOver(g, K)
    BY <1>1, <1>2, <1>4, SumSplit
<1> QED BY <1>3, <1>5

(* A series keeps its worth when its positions are kept. *)
LEMMA WorthKept ==
    ASSUME NEW s, NEW input, NEW pos, NEW new, HasQuantities(pos), HasQuantities(new),
           KeysIn(new, s) = KeysIn(pos, s), \A k \in KeysIn(pos, s) : new[k] = pos[k]
    PROVE  WorthSum(new, s, input) = WorthSum(pos, s, input)
<1>1. IsFiniteSet(KeysIn(pos, s))
    BY FS_Subset DEF KeysIn, HasQuantities
<1>2. \A k \in KeysIn(pos, s) : Worths(new, s, input)[k] = Worths(pos, s, input)[k]
    <2>1. \A k \in KeysIn(pos, s) : k \in DOMAIN pos /\ k \in DOMAIN new
        BY DEF KeysIn
    <2> QED BY <2>1 DEF Worths
<1>3. SumOver(Worths(new, s, input), KeysIn(pos, s)) = SumOver(Worths(pos, s, input), KeysIn(pos, s))
    BY <1>1, <1>2, SumSame
<1> QED BY <1>3 DEF WorthSum

LEMMA SumPair ==
    ASSUME NEW f, NEW x, NEW y, x # y, f[x] \in Int, f[y] \in Int
    PROVE  SumOver(f, {x, y}) = f[x] + f[y]
<1>1. SumOver(f, {}) = 0
    BY SumEmpty
<1>2. SumOver(f, {} \cup {x}) = f[x] + SumOver(f, {})
    BY FS_EmptySet, SumAdd
<1>3. SumOver(f, {x} \cup {y}) = f[y] + SumOver(f, {x})
    BY FS_Singleton, SumAdd
<1>4. {} \cup {x} = {x} /\ {x} \cup {y} = {x, y}
    OBVIOUS
<1>5. SumOver(f, {x}) = f[x]
    BY <1>1, <1>2, <1>4
<1> QED BY <1>3, <1>4, <1>5

-----------------------------------------------------------------------------
(* A trade moves as much between its parties' cash and positions. *)

Cash(cash) == SumOver(cash, User)

(* Only s changes in worth, by as much as the cash of all users. *)
Even(s) ==
    \A x \in SeriesId : \A input \in Inputs[x] :
        WorthSum(positions', x, input) + (IF x = s THEN Cash(cash_balances') ELSE 0)
          = WorthSum(positions, x, input) + (IF x = s THEN Cash(cash_balances) ELSE 0)

LEMMA Quantities == BookOK => HasQuantities(positions)
BY DEF BookOK, BookTyped, FinitePositions, PositionsTyped, HasQuantities

LEMMA QuantitiesNext == (BookOK => HasQuantities(positions))'
BY Quantities, PTL

LEMMA CashType ==
    ASSUME IsFiniteSet(User), NEW cash, cash \in [User -> Int]
    PROVE  Cash(cash) \in Int
<1>1. \A u \in User : cash[u] \in Int
    OBVIOUS
<1> QED BY <1>1, SumType DEF Cash

LEMMA EvenOtherwise ==
    ASSUME BookOK, BookOK', NEW s,
           \A k : k[2] # s => /\ (k \in DOMAIN positions' <=> k \in DOMAIN positions)
                              /\ k \in DOMAIN positions => positions'[k] = positions[k],
           \A input \in Inputs[s] :
               WorthSum(positions', s, input) + Cash(cash_balances')
                 = WorthSum(positions, s, input) + Cash(cash_balances),
           SoundContracts
    PROVE  Even(s)
<1>1. HasQuantities(positions) /\ HasQuantities(positions')
    BY Quantities, QuantitiesNext
<1>2. ASSUME NEW x \in SeriesId, x # s, NEW input \in Inputs[x]
      PROVE  /\ WorthSum(positions', x, input) = WorthSum(positions, x, input)
             /\ WorthSum(positions, x, input) \in Int
    <2>1. KeysIn(positions', x) = KeysIn(positions, x)
          /\ \A k \in KeysIn(positions, x) : positions'[k] = positions[k]
        BY <1>2 DEF KeysIn
    <2> QED BY <1>1, <2>1, WorthKept, WorthTerms
<1>3. ASSUME NEW x \in SeriesId, NEW input \in Inputs[x]
      PROVE  WorthSum(positions', x, input) + (IF x = s THEN Cash(cash_balances') ELSE 0)
               = WorthSum(positions, x, input) + (IF x = s THEN Cash(cash_balances) ELSE 0)
    <2>1. CASE x = s
        BY <2>1
    <2>2. CASE x # s
        BY <1>2, <2>2
    <2> QED BY <2>1, <2>2
<1> QED BY <1>3 DEF Even

LEMMA EvenStays ==
    ASSUME UNCHANGED <<cash_balances, positions>>, NEW s
    PROVE  Even(s)
BY DEF Even

(* What a party's position gains in worth above what it pays in cash. *)
LegGains(t, u, dq, unblock, input) ==
    LET leg == Leg(t, u, dq, unblock)
        x == Pays(t.series, t.outcome, input) - InUsd(t.price, "Ceil")
    IN  /\ x \in Int /\ leg.cash \in Int
        /\ Worth(t.series, leg.key, AsPosition(leg), input)
             = WorthAt(positions, t.series, input, leg.key) + (dq * x + leg.cash)

LEMMA LegWorth ==
    ASSUME SoundContracts, PositionsTyped, NEW t, TradeTyped(t), WithinUnit(t.price),
           NEW u \in User, NEW dq \in Int, NEW unblock \in Int,
           LegHasMargin(t, Leg(t, u, dq, unblock)),
           NEW input \in Inputs[t.series]
    PROVE  LegGains(t, u, dq, unblock, input)
<1> DEFINE leg == Leg(t, u, dq, unblock)
           old == PositionOf(leg.key)
           q == old.net_qty
           At(n) == RequiredMargin(Listing[t.series], t.price, n)
           V(n) == SettlementValue(Listing[t.series], t.outcome, n, input)
           x == Pays(t.series, t.outcome, input) - InUsd(t.price, "Ceil")
<1>1. /\ leg.key = <<u, t.series, t.outcome>> /\ leg.cash \in Int
      /\ t.series \in SeriesId /\ t.price \in Price
    BY LegType DEF TradeTyped
<1>2. q \in Int /\ old.margin \in Nat /\ q + dq \in Int
    BY PositionType
<1>3. /\ leg.net_qty = q + dq /\ leg.margin = At(q + dq)
      /\ leg.cash = old.margin - At(q) /\ leg.old_qty = q
    BY <1>1 DEF Leg
<1>4. x \in Int
    <2>1. Pays(t.series, t.outcome, input) \in Nat
        BY <1>1, PaysType
    <2>2. InUsd(t.price, "Ceil") \in Nat
        BY <1>1, UsdType
    <2> HIDE DEF x
    <2> QED BY <2>1, <2>2 DEF x
<1>5. V(q + dq) - At(q + dq) = (q + dq) * x /\ V(q) - At(q) = q * x
    BY <1>1, <1>2, MarkedWorth
<1>6. V(q + dq) \in Int /\ V(q) \in Int
    <2>1. \A n \in Int : V(n) \in Nat
        BY <1>1, ValueIs
    <2> HIDE DEF V, q
    <2> QED BY <1>2, <2>1
<1>7. HasMargin(Listing[t.series], q) /\ HasMargin(Listing[t.series], q + dq)
    BY <1>3 DEF LegHasMargin
<1>8. At(q) \in Int /\ At(q + dq) \in Int
    <2>1. Listing[t.series] \in Series
        BY <1>1, BookAssumption
    <2>2. At(q) \in Nat /\ At(q + dq) \in Nat
        BY <1>1, <1>2, <1>7, <2>1, MarginType
    <2> HIDE DEF At
    <2> QED BY <2>2
<1>9. Worth(t.series, leg.key, AsPosition(leg), input) = V(q + dq) - At(q + dq)
    BY <1>1, <1>3 DEF Worth, AsPosition
<1>10. WorthAt(positions, t.series, input, leg.key) = V(q) - old.margin
    <2>1. leg.key[2] = t.series /\ leg.key[3] = t.outcome
        BY <1>1
    <2>2. CASE leg.key \in DOMAIN positions
        BY <2>1, <2>2 DEF WorthAt, Worth, PositionOf
    <2>3. CASE leg.key \notin DOMAIN positions
        <3>1. old = NoPosition
            BY <2>3 DEF PositionOf
        <3>2. old.margin = 0 /\ q = 0
            BY <3>1 DEF NoPosition
        <3>3. V(0) = 0 * Pays(t.series, t.outcome, input)
            BY <1>1, ValueIs
        <3>4. V(0) = 0
            BY <1>1, <3>3, PaysType
        <3> QED BY <2>3, <3>2, <3>4 DEF WorthAt
    <2> QED BY <2>2, <2>3
<1> HIDE DEF leg, q, old, At, V, x
<1>11. (q + dq) * x = q * x + dq * x
    BY <1>2, <1>4
<1>12. q * x \in Int /\ dq * x \in Int
    BY <1>2, <1>4
<1>13. V(q + dq) - At(q + dq) = (V(q) - old.margin) + (dq * x + leg.cash)
    BY <1>1, <1>2, <1>3, <1>5, <1>6, <1>8, <1>11, <1>12
<1>14. /\ x \in Int /\ leg.cash \in Int
       /\ Worth(t.series, leg.key, AsPosition(leg), input)
            = WorthAt(positions, t.series, input, leg.key) + (dq * x + leg.cash)
    BY <1>1, <1>4, <1>9, <1>10, <1>13
<1> QED BY <1>14 DEF leg, x, LegGains

(* execute_trade_impl: what the parties' positions gain, their cash loses. *)
LEMMA TradeEven ==
    ASSUME FiniteMarket, SoundContracts, BookOK, BookOK', NEW t, TradeTyped(t),
           WithinUnit(t.price), TradeAllowed(t), ApplyTrade(t)
    PROVE  Even(t.series)
<1> DEFINE b == BuyerLeg(t)
           c == SellerLeg(t)
           K == {b.key, c.key}
           U == {t.buyer, t.seller}
<1>1. /\ b.key = <<t.buyer, t.series, t.outcome>> /\ AsPosition(b) \in Position /\ b.cash \in Int
      /\ c.key = <<t.seller, t.series, t.outcome>> /\ AsPosition(c) \in Position /\ c.cash \in Int
    BY PartyLegs
<1>2. /\ t.buyer \in User /\ t.seller \in User /\ t.buyer # t.seller
      /\ t.qty \in Int /\ -t.qty \in Int /\ t.b_unblock \in Int /\ t.s_unblock \in Int
    BY DEF TradeTyped, TradeAllowed
<1>3. LegHasMargin(t, b) /\ LegHasMargin(t, c)
    BY DEF TradeAllowed
<1>4. PositionsTyped /\ \A u \in User : cash_balances[u] \in Int
    BY BookSums DEF BookOK, BookTyped
<1>5. /\ cash_balances' = [cash_balances EXCEPT ![t.buyer] = @ - b.cash,
                                                ![t.seller] = @ - c.cash]
      /\ positions' = Put(Put(positions, b.key, AsPosition(b)), c.key, AsPosition(c))
    BY DEF ApplyTrade
<1>6. ASSUME NEW input \in Inputs[t.series]
      PROVE  LET x == Pays(t.series, t.outcome, input) - InUsd(t.price, "Ceil") IN
             /\ x \in Int
             /\ Worth(t.series, b.key, AsPosition(b), input)
                  = WorthAt(positions, t.series, input, b.key) + (t.qty * x + b.cash)
             /\ Worth(t.series, c.key, AsPosition(c), input)
                  = WorthAt(positions, t.series, input, c.key) + ((-t.qty) * x + c.cash)
    <2>1. /\ LegHasMargin(t, Leg(t, t.buyer, t.qty, t.b_unblock))
          /\ LegHasMargin(t, Leg(t, t.seller, -t.qty, t.s_unblock))
        BY <1>3 DEF BuyerLeg, SellerLeg
    <2>2. LegGains(t, t.buyer, t.qty, t.b_unblock, input)
        BY <1>2, <1>4, <2>1, LegWorth
    <2>3. LegGains(t, t.seller, -t.qty, t.s_unblock, input)
        BY <1>2, <1>4, <2>1, LegWorth
    <2> QED BY <2>2, <2>3 DEF BuyerLeg, SellerLeg, LegGains
<1> HIDE DEF b, c
<1>7. b.key # c.key /\ b.key[2] = t.series /\ c.key[2] = t.series
    BY <1>1, <1>2
<1>8. /\ DOMAIN positions' = DOMAIN positions \cup K
      /\ positions'[b.key] = AsPosition(b) /\ positions'[c.key] = AsPosition(c)
      /\ \A k \in DOMAIN positions \ K : positions'[k] = positions[k]
    BY <1>5, <1>7 DEF Put
<1>9. Cash(cash_balances') = Cash(cash_balances) - b.cash - c.cash
    <2> DEFINE h == [u \in U |-> IF u = t.buyer THEN -b.cash ELSE -c.cash]
    <2>1. /\ cash_balances'[t.buyer] = cash_balances[t.buyer] - b.cash
          /\ cash_balances'[t.seller] = cash_balances[t.seller] - c.cash
          /\ \A u \in User \ U : cash_balances'[u] = cash_balances[u]
        BY <1>2, <1>5 DEF BookOK, BookTyped, BalancesTyped
    <2>2. /\ h[t.buyer] = -b.cash /\ h[t.seller] = -c.cash /\ h[t.buyer] \in Int /\ h[t.seller] \in Int
          /\ \A u \in U : h[u] \in Int
        BY <1>1, <1>2
    <2>3. IsFiniteSet(U)
        <3>1. {t.buyer} \cup {t.seller} = U
            OBVIOUS
        <3> HIDE DEF U
        <3> QED BY <3>1, FS_Singleton, FS_AddElement
    <2>4. \A u \in User : cash_balances'[u] \in Int
        BY <1>1, <1>2, <1>4, <2>1
    <2>5. \A u \in User \cup U : Term(cash_balances', User, u)
                                   = Term(cash_balances, User, u) + Term(h, U, u)
        <3>1. U \subseteq User
            BY <1>2
        <3>2. ASSUME NEW u \in User PROVE cash_balances'[u] = cash_balances[u] + Term(h, U, u)
            <4>1. CASE u = t.buyer
                BY <1>1, <1>4, <2>1, <2>2, <4>1 DEF Term
            <4>2. CASE u = t.seller
                BY <1>1, <1>4, <2>1, <2>2, <4>2 DEF Term
            <4>3. CASE u \notin U
                BY <1>4, <2>1, <4>3 DEF Term
            <4> QED BY <4>1, <4>2, <4>3
        <3> HIDE DEF U, h
        <3> QED BY <3>1, <3>2 DEF Term
    <2>6. SumOver(h, U) = h[t.buyer] + h[t.seller]
        <3> HIDE DEF h
        <3> QED BY <1>2, <2>2, SumPair
    <2> HIDE DEF U, h
    <2>7. IsFiniteSet(User)
        BY DEF FiniteMarket
    <2>8. SumOver(cash_balances', User) = SumOver(cash_balances, User) + SumOver(h, U)
        <3>1. \A u \in User \cup U \cup User : Term(cash_balances', User, u)
                                   = Term(cash_balances, User, u) + Term(h, U, u)
            BY <2>5
        <3> QED BY <1>4, <2>2, <2>3, <2>4, <2>7, <3>1, SumSplit
    <2>9. SumOver(cash_balances, User) \in Int
        BY <1>4, <2>7, SumType
    <2>10. Cash(cash_balances') = Cash(cash_balances) + (h[t.buyer] + h[t.seller])
           /\ Cash(cash_balances) \in Int
        BY <2>6, <2>8, <2>9 DEF Cash
    <2> QED BY <1>1, <2>2, <2>10
<1>10. ASSUME NEW input \in Inputs[t.series]
       PROVE  WorthSum(positions', t.series, input)
                = WorthSum(positions, t.series, input) + (b.cash + c.cash)
    <2> DEFINE x == Pays(t.series, t.outcome, input) - InUsd(t.price, "Ceil")
               g == [k \in K |-> IF k = b.key THEN t.qty * x + b.cash
                                              ELSE (-t.qty) * x + c.cash]
    <2>1. t.series \in SeriesId
        BY DEF TradeTyped
    <2>2. x \in Int
        BY <1>6
    <2>3. /\ WorthAt(positions', t.series, input, b.key)
               = WorthAt(positions, t.series, input, b.key) + (t.qty * x + b.cash)
          /\ WorthAt(positions', t.series, input, c.key)
               = WorthAt(positions, t.series, input, c.key) + ((-t.qty) * x + c.cash)
        BY <1>6, <1>7, <1>8 DEF WorthAt
    <2>4. \A k : k \notin K => WorthAt(positions', t.series, input, k)
                                 = WorthAt(positions, t.series, input, k)
        BY <1>8 DEF WorthAt
    <2> HIDE DEF x
    <2>5. t.qty * x \in Int /\ (-t.qty) * x = -(t.qty * x)
        BY <1>2, <2>2
    <2>6. /\ g[b.key] = t.qty * x + b.cash /\ g[c.key] = (-t.qty) * x + c.cash
          /\ g[b.key] \in Int /\ g[c.key] \in Int
          /\ \A k \in K : g[k] \in Int
        <3>1. g[b.key] = t.qty * x + b.cash /\ g[c.key] = (-t.qty) * x + c.cash
            BY <1>7
        <3> HIDE DEF g
        <3> QED BY <1>1, <2>5, <3>1
    <2>7. HasQuantities(positions) /\ HasQuantities(positions')
        BY Quantities, QuantitiesNext
    <2>8. \A k : WorthAt(positions, t.series, input, k) \in Int
        <3>1. \A k \in DOMAIN positions : Worth(t.series, k, positions[k], input) \in Int
            BY <2>1, <2>7, WorthType DEF HasQuantities
        <3> QED BY <3>1 DEF WorthAt
    <2>9. IsFiniteSet(K)
        <3>1. {b.key} \cup {c.key} = K
            OBVIOUS
        <3> HIDE DEF K
        <3> QED BY <3>1, FS_Singleton, FS_AddElement
    <2>10. SumOver(g, K) = b.cash + c.cash
        <3> HIDE DEF g
        <3>1. SumOver(g, K) = g[b.key] + g[c.key]
            BY <1>7, <2>6, SumPair
        <3> QED BY <1>1, <2>5, <2>6, <3>1
    <2>11. \A k : WorthAt(positions', t.series, input, k)
                    = WorthAt(positions, t.series, input, k) + Term(g, K, k)
        <3> HIDE DEF g
        <3>1. \A k : k \in K => k = b.key \/ k = c.key
            OBVIOUS
        <3> HIDE DEF K
        <3>2. b.key \in K /\ c.key \in K
            BY DEF K
        <3>3. /\ WorthAt(positions', t.series, input, b.key)
                   = WorthAt(positions, t.series, input, b.key) + Term(g, K, b.key)
              /\ WorthAt(positions', t.series, input, c.key)
                   = WorthAt(positions, t.series, input, c.key) + Term(g, K, c.key)
            BY <2>3, <2>6, <3>2 DEF Term
        <3>4. \A k : k \notin K => Term(g, K, k) = 0
            BY DEF Term
        <3> QED BY <2>4, <2>8, <3>1, <3>3, <3>4
    <2> HIDE DEF g, K
    <2>12. WorthSum(positions', t.series, input) = WorthSum(positions, t.series, input) + SumOver(g, K)
        BY <2>1, <2>6, <2>7, <2>9, <2>11, WorthMoves
    <2> QED BY <2>10, <2>12
<1>11. ASSUME NEW input \in Inputs[t.series]
       PROVE  WorthSum(positions', t.series, input) + Cash(cash_balances')
                = WorthSum(positions, t.series, input) + Cash(cash_balances)
    <2>1. t.series \in SeriesId
        BY DEF TradeTyped
    <2>2. WorthSum(positions, t.series, input) \in Int
        BY <2>1, Quantities, WorthTerms
    <2>3. Cash(cash_balances) \in Int
        BY CashType DEF FiniteMarket, BookOK, BookTyped, BalancesTyped
    <2> QED BY <1>1, <1>9, <1>10, <2>2, <2>3
<1>12. \A k : k[2] # t.series => /\ (k \in DOMAIN positions' <=> k \in DOMAIN positions)
                                 /\ k \in DOMAIN positions => positions'[k] = positions[k]
    BY <1>7, <1>8
<1> QED BY <1>11, <1>12, EvenOtherwise

-----------------------------------------------------------------------------
(* Complete sets: one contract of every outcome is worth one unit. *)

(* A set is minted by a user who is short in none of its outcomes, and the
   margins a redeemed one frees are the units it was minted for. *)
WholeSet(r) ==
    /\ r.op = "mint" /\ MintAllowed(r) => \A k \in SetKeys(r) : PositionOf(k).net_qty >= 0
    /\ r.op = "redeem" /\ RedeemAllowed(r) =>
          MapThenSumSet(LAMBDA k : Redeemed(r, k), SetKeys(r)) = SetCost(r)

(* What a set of q contracts of each outcome pays. *)
SetPays(r, input) == [k \in SetKeys(r) |-> r.qty * Pays(r.series, k[3], input)]

LEMMA SetPaysUnit ==
    ASSUME SoundContracts, NEW r, r.user \in User, r.series \in SeriesId, r.qty \in Nat,
           Listing[r.series].payoff_type = "Categorical", NEW input \in Inputs[r.series]
    PROVE  /\ \A k \in SetKeys(r) : SetPays(r, input)[k] \in Nat
           /\ SumOver(SetPays(r, input), SetKeys(r)) = SetCost(r)
<1> DEFINE K == SetKeys(r)
           f == SetPays(r, input)
           won == <<r.user, r.series, input.outcome>>
<1>1. IsFiniteSet(K)
    BY SetKeysFinite
<1>2. won \in K
    BY DEF SoundContracts, SetKeys
<1>3. ~Listing[r.series].social
    BY DEF SoundContracts, FullCollateral
<1>4. ASSUME NEW k \in K
      PROVE  f[k] = r.qty * (IF k = won THEN Unit ELSE 0)
    <2>1. PICK o : k = <<r.user, r.series, o>>
        BY DEF SetKeys
    <2>2. k = won <=> k[3] = input.outcome
        BY <2>1
    <2>3. Pays(r.series, k[3], input) = IF k[3] = input.outcome THEN Unit ELSE 0
        BY <1>3 DEF Pays, UnitPayoff
    <2>4. f[k] = r.qty * Pays(r.series, k[3], input)
        BY DEF SetPays
    <2> QED BY <2>2, <2>3, <2>4
<1>5. Unit \in Nat /\ SetCost(r) = r.qty * Unit /\ SetCost(r) \in Nat
    BY UnitType, ProductType DEF SetCost
<1> HIDE DEF K, f, won
<1>6. f[won] = SetCost(r) /\ \A k \in K \ {won} : f[k] = 0
    BY <1>2, <1>4, <1>5
<1>7. \A k \in K : f[k] \in Nat
    BY <1>5, <1>6
<1>8. SumOver(f, K) = f[won] + SumOver(f, K \ {won})
    BY <1>1, <1>2, <1>7, SumRemove
<1>9. SumOver(f, K \ {won}) = 0
    BY <1>1, <1>6, FS_RemoveElement, SumZero
<1>10. (\A k \in K : f[k] \in Nat) /\ SumOver(f, K) = SetCost(r)
    BY <1>5, <1>6, <1>7, <1>8, <1>9
<1> QED BY <1>10 DEF K, f

(* mint_complete_set_logic. *)
LEMMA MintEven ==
    ASSUME SoundContracts, BookOK, BookOK', NEW r, Submitted(r), r.op = "mint",
           EvenSet(r) \/ ~MintAllowed(r), WholeSet(r), MintSet(r)
    PROVE  Even(r.series)
<1> DEFINE K == SetKeys(r)
           n == Cardinality(K)
           c == SetCost(r)
           share == c \div n
           none == [k \in K |-> -share]
<1>1. r.user \in User /\ r.series \in SeriesId /\ r.qty \in Nat
    BY TradingAssumption DEF Submitted, Requests
<1>2. CASE ~MintAllowed(r)
    <2>1. UNCHANGED <<cash_balances, positions>>
        BY <1>2 DEF MintSet, tradeState, book
    <2> QED BY <2>1, EvenStays
<1>3. CASE MintAllowed(r)
    <2>1. /\ positions' = [k \in DOMAIN positions \cup K |->
                 IF k \in K THEN [net_qty |-> PositionOf(k).net_qty + r.qty,
                                  margin |-> PositionOf(k).margin + share]
                 ELSE positions[k]]
          /\ UNCHANGED cash_balances
        BY <1>3 DEF MintSet
    <2>2. IsFiniteSet(K) /\ \A k \in K : k[2] = r.series
        BY <1>1, SetKeysFinite
    <2>3. n \in Nat \ {0}
        BY <1>3, <2>2, FS_CardinalityType, FS_EmptySet DEF MintAllowed
    <2>4. c \in Nat
        BY <1>1, UnitType, ProductType DEF SetCost
    <2>5. share \in Nat /\ n * share = c
        <3>1. \E x \in Nat : c = n * x
            BY <1>3 DEF EvenSet
        <3> HIDE DEF n, c
        <3> QED BY <2>3, <2>4, <3>1, ShareType
    <2>6. \A k \in K : PositionOf(k).net_qty >= 0
        BY <1>3 DEF WholeSet
    <2>7. \A k : PositionOf(k).net_qty \in Int /\ PositionOf(k).margin \in Nat
        BY PositionType DEF BookOK, BookTyped
    <2>8. SumOver(none, K) = n * (-share)
        <3>1. \A k \in K : none[k] = -share
            OBVIOUS
        <3> HIDE DEF none, K, share
        <3> QED BY <2>2, <2>5, <3>1, SumConst
    <2>9. \A k \in K : none[k] = -share
        OBVIOUS
    <2>10. SumOver(none, K) = -c
        <3> HIDE DEF n, share, c, none
        <3>1. n * (-share) = -(n * share)
            BY <2>3, <2>5
        <3> QED BY <2>5, <2>8, <3>1
    <2> HIDE DEF n, c, share, none
    <2>11. /\ DOMAIN positions' = DOMAIN positions \cup K
           /\ \A k \in K : /\ positions'[k].net_qty = PositionOf(k).net_qty + r.qty
                           /\ positions'[k].margin = PositionOf(k).margin + share
           /\ \A k \in DOMAIN positions \ K : positions'[k] = positions[k]
        BY <2>1
    <2>12. ASSUME NEW input \in Inputs[r.series]
           PROVE  WorthSum(positions', r.series, input) = WorthSum(positions, r.series, input)
        <3> DEFINE f == SetPays(r, input)
                   g == [k \in K |-> f[k] + none[k]]
        <3>1. (\A k \in K : f[k] \in Nat) /\ SumOver(f, K) = c
            BY <1>1, <1>3, SetPaysUnit DEF MintAllowed, c
        <3>2. \A k \in K : /\ f[k] \in Int /\ none[k] \in Int /\ g[k] = f[k] + none[k]
                           /\ f[k] = r.qty * Pays(r.series, k[3], input)
            BY <2>5, <2>9, <3>1 DEF SetPays
        <3>3. \A k \in K : g[k] \in Int
            BY <3>2
        <3>4. HasQuantities(positions) /\ HasQuantities(positions')
            BY Quantities, QuantitiesNext
        <3>5. \A k \in DOMAIN positions : Worth(r.series, k, positions[k], input) \in Int
            BY <1>1, <3>4, WorthType DEF HasQuantities
        <3>6. ASSUME NEW k \in K
              PROVE  WorthAt(positions', r.series, input, k)
                       = WorthAt(positions, r.series, input, k) + g[k]
            <4> DEFINE q == PositionOf(k).net_qty
                       m == PositionOf(k).margin
                       p == Pays(r.series, k[3], input)
                       V(x) == SettlementValue(Listing[r.series], k[3], x, input)
            <4>1. q \in Nat /\ m \in Nat /\ p \in Nat /\ q + r.qty \in Nat
                BY <1>1, <2>6, <2>7, PaysType
            <4>2. \A x \in Nat : V(x) = x * p
                BY <1>1, ValueIs
            <4>3. V(q) = q * p /\ V(q + r.qty) = (q + r.qty) * p
                <5> HIDE DEF V
                <5> QED BY <4>1, <4>2
            <4>4. WorthAt(positions', r.series, input, k) = V(q + r.qty) - (m + share)
                BY <2>2, <2>11 DEF WorthAt, Worth
            <4>5. WorthAt(positions, r.series, input, k) = V(q) - m
                <5>1. CASE k \in DOMAIN positions
                    BY <2>2, <5>1 DEF WorthAt, Worth, PositionOf
                <5>2. CASE k \notin DOMAIN positions
                    <6>1. q = 0 /\ m = 0
                        BY <5>2 DEF PositionOf, NoPosition
                    <6>2. V(q) = 0
                        BY <4>1, <4>3, <6>1
                    <6> QED BY <5>2, <6>1, <6>2 DEF WorthAt
                <5> QED BY <5>1, <5>2
            <4> HIDE DEF q, m, V
            <4>6. (q + r.qty) * p = q * p + r.qty * p
                BY <1>1, <4>1
            <4>7. f[k] = r.qty * p /\ none[k] = -share
                BY <2>9, <3>2
            <4>8. g[k] = r.qty * p - share /\ q * p \in Int /\ r.qty * p \in Int
                BY <1>1, <2>5, <3>2, <4>1, <4>7
            <4> QED BY <2>5, <4>1, <4>3, <4>4, <4>5, <4>6, <4>8
        <3>7. \A k : WorthAt(positions', r.series, input, k)
                       = WorthAt(positions, r.series, input, k) + Term(g, K, k)
            <4>1. ASSUME NEW k, k \notin K
                  PROVE  WorthAt(positions', r.series, input, k)
                           = WorthAt(positions, r.series, input, k) + 0
                <5>1. WorthAt(positions', r.series, input, k) = WorthAt(positions, r.series, input, k)
                    BY <2>11, <4>1 DEF WorthAt
                <5>2. WorthAt(positions, r.series, input, k) \in Int
                    BY <3>5 DEF WorthAt
                <5> QED BY <5>1, <5>2
            <4> HIDE DEF g, K
            <4> QED BY <3>6, <4>1 DEF Term
        <3> HIDE DEF f, g, K
        <3>8. WorthSum(positions', r.series, input) = WorthSum(positions, r.series, input) + SumOver(g, K)
            BY <1>1, <2>2, <3>3, <3>4, <3>7, WorthMoves
        <3>9. SumOver(g, K) = SumOver(f, K) + SumOver(none, K)
            BY <2>2, <3>2, SumPlus
        <3>10. SumOver(g, K) = 0
            BY <2>4, <2>10, <3>1, <3>9
        <3>11. WorthSum(positions, r.series, input) \in Int
            BY <1>1, <3>4, WorthTerms
        <3> QED BY <3>8, <3>10, <3>11
    <2>13. \A k : k[2] # r.series => /\ (k \in DOMAIN positions' <=> k \in DOMAIN positions)
                                     /\ k \in DOMAIN positions => positions'[k] = positions[k]
        <3> HIDE DEF K
        <3> QED BY <2>2, <2>11
    <2>14. \A input \in Inputs[r.series] :
               WorthSum(positions', r.series, input) + Cash(cash_balances')
                 = WorthSum(positions, r.series, input) + Cash(cash_balances)
        BY <2>1, <2>12
    <2> QED BY <2>13, <2>14, EvenOtherwise
<1> QED BY <1>2, <1>3

(* redeem_complete_set_logic. *)
LEMMA RedeemEven ==
    ASSUME SoundContracts, BookOK, BookOK', NEW r, Submitted(r), r.op = "redeem",
           WholeSet(r), RedeemSet(r)
    PROVE  Even(r.series)
<1> DEFINE K == SetKeys(r)
           freed == [k \in K |-> Redeemed(r, k)]
           Fold(h) == h = [s \in SUBSET K |->
                              IF s = {} THEN 0 ELSE Redeemed(r, Pick(s)) + h[s \ {Pick(s)}]]
           c == SetCost(r)
<1>1. r.user \in User /\ r.series \in SeriesId /\ r.qty \in Nat
    BY TradingAssumption DEF Submitted, Requests
<1>2. CASE ~RedeemAllowed(r)
    <2>1. UNCHANGED <<cash_balances, positions>>
        BY <1>2 DEF RedeemSet, tradeState, book
    <2> QED BY <2>1, EvenStays
<1>3. CASE RedeemAllowed(r)
    <2>1. /\ positions' = [k \in DOMAIN positions |->
                 IF k \in K THEN [net_qty |-> positions[k].net_qty - r.qty,
                                  margin |-> positions[k].margin - Redeemed(r, k)]
                 ELSE positions[k]]
          /\ UNCHANGED cash_balances
        BY <1>3 DEF RedeemSet
    <2>2. IsFiniteSet(K) /\ \A k \in K : k[2] = r.series
        BY <1>1, SetKeysFinite
    <2>3. MapThenSumSet(LAMBDA k : Redeemed(r, k), K) = SumOver(freed, K)
        <3>1. \A h : Fold(h) <=> IsFold(h, freed, K)
            <4>1. \A s \in SUBSET K : s # {} => freed[Pick(s)] = Redeemed(r, Pick(s))
                BY PickIn
            <4> HIDE DEF K, freed
            <4> QED BY <4>1 DEF IsFold
        <3>2. (CHOOSE h : Fold(h)) = (CHOOSE h : IsFold(h, freed, K))
            <4> HIDE DEF Fold, freed, K
            <4> QED BY <3>1
        <3>3. MapThenSumSet(LAMBDA k : Redeemed(r, k), K) = (CHOOSE h : Fold(h))[K]
            BY DEF MapThenSumSet, MapThenFoldSet, Pick
        <3> HIDE DEF Fold, freed, K
        <3> QED BY <3>2, <3>3, SumIsFold
    <2>4. \A k \in K : /\ k \in DOMAIN positions /\ positions[k].net_qty >= r.qty
                       /\ PositionOf(k) = positions[k]
        <3>1. r.qty > 0 /\ \A k \in K : PositionOf(k).net_qty >= r.qty
            BY <1>3 DEF RedeemAllowed
        <3> HIDE DEF K
        <3> QED BY <1>1, <3>1 DEF PositionOf, NoPosition
    <2>5. \A k \in DOMAIN positions : positions[k].net_qty \in Int /\ positions[k].margin \in Nat
        BY DEF BookOK, BookTyped, PositionsTyped, Position
    <2>6. \A k \in K : freed[k] = Redeemed(r, k) /\ freed[k] \in Nat
        <3>1. r.qty > 0
            BY <1>3 DEF RedeemAllowed
        <3>2. \A k \in K : /\ positions[k].margin \in Nat /\ positions[k].net_qty \in Nat \ {0}
                           /\ r.qty <= positions[k].net_qty
            BY <1>1, <2>4, <2>5, <3>1
        <3>3. \A k \in K : Redeemed(r, k) \in Nat
            <4> HIDE DEF K
            <4> QED BY <1>1, <3>2, PartType DEF Redeemed
        <3> QED BY <3>3
    <2>7. SumOver(freed, K) = c
        BY <1>3, <2>3 DEF WholeSet
    <2>8. c \in Nat
        BY <1>1, UnitType, ProductType DEF SetCost
    <2> HIDE DEF c, freed
    <2>9. /\ DOMAIN positions' = DOMAIN positions
          /\ \A k \in K : /\ positions'[k].net_qty = positions[k].net_qty - r.qty
                          /\ positions'[k].margin = positions[k].margin - freed[k]
          /\ \A k \in DOMAIN positions \ K : positions'[k] = positions[k]
        BY <2>1, <2>4, <2>6
    <2>10. ASSUME NEW input \in Inputs[r.series]
           PROVE  WorthSum(positions', r.series, input) = WorthSum(positions, r.series, input)
        <3> DEFINE f == SetPays(r, input)
                   lost == [k \in K |-> freed[k] - f[k]]
        <3>1. (\A k \in K : f[k] \in Nat) /\ SumOver(f, K) = c
            BY <1>1, <1>3, SetPaysUnit DEF RedeemAllowed, c
        <3>2. \A k \in K : /\ f[k] \in Int /\ lost[k] \in Int /\ freed[k] = f[k] + lost[k]
                           /\ lost[k] = freed[k] - f[k]
                           /\ f[k] = r.qty * Pays(r.series, k[3], input)
            BY <2>6, <3>1 DEF SetPays
        <3>3. HasQuantities(positions) /\ HasQuantities(positions')
            BY Quantities, QuantitiesNext
        <3>4. \A k \in DOMAIN positions : Worth(r.series, k, positions[k], input) \in Int
            BY <1>1, <3>3, WorthType DEF HasQuantities
        <3>5. ASSUME NEW k \in K
              PROVE  WorthAt(positions', r.series, input, k)
                       = WorthAt(positions, r.series, input, k) + lost[k]
            <4> DEFINE q == positions[k].net_qty
                       m == positions[k].margin
                       p == Pays(r.series, k[3], input)
                       V(x) == SettlementValue(Listing[r.series], k[3], x, input)
            <4>1. q \in Nat /\ m \in Nat /\ p \in Nat /\ q - r.qty \in Nat
                BY <1>1, <2>4, <2>5, PaysType
            <4>2. \A x \in Nat : V(x) = x * p
                BY <1>1, ValueIs
            <4>3. V(q) = q * p /\ V(q - r.qty) = (q - r.qty) * p
                <5> HIDE DEF V
                <5> QED BY <4>1, <4>2
            <4>4. WorthAt(positions', r.series, input, k) = V(q - r.qty) - (m - freed[k])
                BY <2>2, <2>4, <2>9 DEF WorthAt, Worth
            <4>5. WorthAt(positions, r.series, input, k) = V(q) - m
                BY <2>2, <2>4 DEF WorthAt, Worth
            <4> HIDE DEF q, m, V
            <4>6. (q - r.qty) * p = q * p - r.qty * p
                BY <1>1, <4>1
            <4>7. f[k] = r.qty * p /\ lost[k] = freed[k] - f[k] /\ freed[k] \in Nat
                BY <2>6, <3>2
            <4>8. lost[k] = freed[k] - r.qty * p /\ q * p \in Int /\ r.qty * p \in Int
                BY <1>1, <4>1, <4>7
            <4> QED BY <4>1, <4>3, <4>4, <4>5, <4>6, <4>7, <4>8
        <3>6. \A k : WorthAt(positions', r.series, input, k)
                       = WorthAt(positions, r.series, input, k) + Term(lost, K, k)
            <4>1. ASSUME NEW k, k \notin K
                  PROVE  WorthAt(positions', r.series, input, k)
                           = WorthAt(positions, r.series, input, k) + 0
                <5>1. WorthAt(positions', r.series, input, k) = WorthAt(positions, r.series, input, k)
                    BY <2>9, <4>1 DEF WorthAt
                <5>2. WorthAt(positions, r.series, input, k) \in Int
                    BY <3>4 DEF WorthAt
                <5> QED BY <5>1, <5>2
            <4> HIDE DEF lost, K
            <4> QED BY <3>5, <4>1 DEF Term
        <3> HIDE DEF f, lost, K
        <3>7. WorthSum(positions', r.series, input)
                = WorthSum(positions, r.series, input) + SumOver(lost, K)
            BY <1>1, <2>2, <3>2, <3>3, <3>6, WorthMoves
        <3>8. SumOver(freed, K) = SumOver(f, K) + SumOver(lost, K)
            BY <2>2, <3>2, SumPlus
        <3>9. SumOver(lost, K) \in Int
            BY <2>2, <3>2, SumType
        <3>10. SumOver(lost, K) = 0
            BY <2>7, <2>8, <3>1, <3>8, <3>9
        <3>11. WorthSum(positions, r.series, input) \in Int
            BY <1>1, <3>3, WorthTerms
        <3> QED BY <3>7, <3>10, <3>11
    <2>11. \A k : k[2] # r.series => /\ (k \in DOMAIN positions' <=> k \in DOMAIN positions)
                                     /\ k \in DOMAIN positions => positions'[k] = positions[k]
        <3> HIDE DEF K
        <3> QED BY <2>2, <2>9
    <2>12. \A input \in Inputs[r.series] :
               WorthSum(positions', r.series, input) + Cash(cash_balances')
                 = WorthSum(positions, r.series, input) + Cash(cash_balances)
        BY <2>1, <2>10
    <2> QED BY <2>11, <2>12, EvenOtherwise
<1> QED BY <1>2, <1>3

-----------------------------------------------------------------------------
(* Every trading step changes the worth of open series only, and evenly. *)

PricedOK == \A id \in DOMAIN limit_orders : WithinUnit(limit_orders[id].price)

(* Complete sets are whole, and no position comes from another canister. *)
SetsWhole == \A c \in CallId, r \in Request : Submit(c, r) => WholeSet(r)

NothingTransferred == UNCHANGED <<frozen_transfers, accepted_transfers>>

EvenStep ==
    \E s : /\ IF s \in SeriesId THEN NotSettled(s) ELSE Cash(cash_balances') = Cash(cash_balances)
           /\ Even(s)

LEMMA PerformPriced ==
    ASSUME PricedWithinUnit, PricedOK, NEW r \in Request, NEW seen, Perform(r, seen)
    PROVE  PricedOK'
<1>1. CASE UNCHANGED limit_orders
    BY <1>1 DEF PricedOK, WithinUnit
<1>2. CASE r.op = "limit"
    <2>1. PlaceOrder(r) /\ WithinUnit(r.price)
        BY <1>2 DEF Perform, PricedWithinUnit
    <2>2. CASE ~OrderAllowed(r)
        BY <1>1, <2>1, <2>2 DEF PlaceOrder, tradeState, book
    <2>3. CASE OrderAllowed(r)
        <3>1. PICK b : limit_orders' = Put(limit_orders, r.order,
                [creator |-> r.user, series |-> r.series, outcome |-> r.outcome,
                 side |-> r.side, qty |-> r.qty, price |-> r.price, blocked |-> b])
            BY <2>1, <2>3 DEF PlaceOrder
        <3>2. \A id \in DOMAIN limit_orders' :
                  \/ limit_orders'[id].price = r.price
                  \/ id \in DOMAIN limit_orders /\ limit_orders'[id] = limit_orders[id]
            BY <3>1 DEF Put
        <3> QED BY <2>1, <3>2 DEF PricedOK, WithinUnit
    <2> QED BY <2>2, <2>3
<1>3. CASE r.op = "market"
    <2>1. FillOrder(r, seen)
        BY <1>3 DEF Perform
    <2>2. CASE ~FillAllowed(r, seen)
        BY <1>1, <2>1, <2>2 DEF FillOrder, tradeState, book
    <2>3. CASE FillAllowed(r, seen)
        <3> DEFINE id == r.order
                   order == limit_orders[id]
        <3>1. id \in DOMAIN limit_orders
            BY <2>3 DEF FillAllowed
        <3>2. PICK left, kept :
                limit_orders' = IF left = 0 THEN Without(limit_orders, {id})
                                ELSE [limit_orders EXCEPT ![id] =
                                        [order EXCEPT !.qty = left, !.blocked = kept]]
            BY <2>1, <2>3 DEF FillOrder
        <3>3. [order EXCEPT !.qty = left, !.blocked = kept].price = order.price
            <4>1. "price" \in DOMAIN order \/ "price" \notin DOMAIN order
                OBVIOUS
            <4> QED BY <4>1
        <3>4. \A i \in DOMAIN limit_orders' :
                  i \in DOMAIN limit_orders /\ limit_orders'[i].price = limit_orders[i].price
            <4> HIDE DEF order
            <4> QED BY <3>1, <3>2, <3>3 DEF Without, Restrict, order
        <3> QED BY <3>4 DEF PricedOK, WithinUnit
    <2> QED BY <2>2, <2>3
<1>4. CASE r.op \notin {"limit", "market"}
    <2>1. r.op \in {"matched", "mint", "redeem", "accept"}
        BY <1>4, TradingAssumption DEF Requests
    <2>2. MatchedTrade(r) \/ MintSet(r) \/ RedeemSet(r) \/ AcceptTransfer(r)
        BY <2>1 DEF Perform
    <2>3. UNCHANGED limit_orders
        BY <2>2 DEF MatchedTrade, MintSet, RedeemSet, AcceptTransfer, tradeState, book
    <2> QED BY <1>1, <2>3
<1> QED BY <1>2, <1>3, <1>4

LEMMA PerformEven ==
    ASSUME FiniteMarket, SoundContracts, PricedWithinUnit, EvenSets, BookOK, BookOK', PricedOK,
           NEW r \in Request, Receivable(r), WholeSet(r), NothingTransferred,
           NEW seen, Perform(r, seen)
    PROVE  Even(SeriesOf(r))
<1>1. Submitted(r) /\ SeriesOf(r) \in SeriesId
    BY ReceivedTyped
<1>2. UNCHANGED <<cash_balances, positions>> => Even(SeriesOf(r))
    BY EvenStays
<1>3. CASE r.op = "limit"
    <2>1. UNCHANGED <<cash_balances, positions>>
        BY <1>3 DEF Perform, PlaceOrder, tradeState, book
    <2> QED BY <1>2, <2>1
<1>4. CASE r.op = "market"
    <2>1. FillOrder(r, seen) /\ SeriesOf(r) = limit_orders[r.order].series
        BY <1>4 DEF Perform, SeriesOf
    <2>2. CASE ~FillAllowed(r, seen)
        <3>1. UNCHANGED <<cash_balances, positions>>
            BY <2>1, <2>2 DEF FillOrder, tradeState, book
        <3> QED BY <1>2, <3>1
    <2>3. CASE FillAllowed(r, seen)
        <3> DEFINE order == limit_orders[r.order]
                   t == FillTrade(r, order)
        <3>1. r.qty # 0 /\ r.order \in DOMAIN limit_orders /\ TradeAllowed(t) /\ ApplyTrade(t)
              /\ RemainingBlocked(r, order) <= order.blocked
            BY <2>1, <2>3 DEF FillOrder, FillAllowed
        <3>2. OrderOK(order) /\ WithinUnit(order.price)
            BY <3>1 DEF BookOK, BookTyped, OrdersTyped, PricedOK
        <3>3. /\ FillQty(r, order) \in Nat /\ RemainingBlocked(r, order) \in Nat
            BY <1>1, <1>4, <3>1, <3>2, FillParts
        <3>4. /\ order.creator \in User /\ order.series \in SeriesId /\ order.outcome \in Outcome
              /\ order.price \in Price /\ order.blocked \in Nat
            BY <3>2 DEF OrderOK, Order
        <3>5. r.user \in User /\ r.trade \in TradeId
            BY <1>1, <1>4, TradingAssumption DEF Submitted, Requests
        <3> HIDE DEF order
        <3>6. TradeTyped(t) /\ t.series = order.series /\ t.price = order.price
            BY <3>3, <3>4, <3>5 DEF TradeTyped, FillTrade
        <3> HIDE DEF t
        <3>7. Even(t.series)
            BY <3>1, <3>2, <3>6, TradeEven
        <3> QED BY <2>1, <3>6, <3>7 DEF order
    <2> QED BY <2>2, <2>3
<1>5. CASE r.op = "matched"
    <2> DEFINE t == [series |-> r.series, outcome |-> r.outcome, trade |-> r.trade,
                     buyer |-> r.buyer, seller |-> r.seller, qty |-> r.qty, price |-> r.price,
                     b_unblock |-> r.b_unblock, s_unblock |-> r.s_unblock]
    <2>1. MatchedTrade(r) /\ SeriesOf(r) = r.series /\ WithinUnit(r.price)
        BY <1>5 DEF Perform, SeriesOf, PricedWithinUnit
    <2>2. CASE ~TradeAllowed(t)
        <3>1. UNCHANGED tradeState
            BY <2>1, <2>2 DEF MatchedTrade
        <3>2. UNCHANGED <<cash_balances, positions>>
            BY <3>1 DEF tradeState, book
        <3> QED BY <1>2, <3>2
    <2>3. CASE TradeAllowed(t)
        <3>1. ApplyTrade(t)
            BY <2>1, <2>3 DEF MatchedTrade
        <3>2. /\ r.series \in SeriesId /\ r.outcome \in Outcome /\ r.trade \in TradeId
              /\ r.buyer \in User /\ r.seller \in User /\ r.qty \in Nat /\ r.price \in Price
              /\ r.b_unblock \in Nat /\ r.s_unblock \in Nat
            BY <1>1, <1>5, TradingAssumption DEF Submitted, Requests
        <3>3. TradeTyped(t) /\ t.series = r.series /\ t.price = r.price
            BY <3>2 DEF TradeTyped
        <3> HIDE DEF t
        <3>4. Even(t.series)
            BY <2>1, <2>3, <3>1, <3>3, TradeEven
        <3> QED BY <2>1, <3>3, <3>4
    <2> QED BY <2>2, <2>3
<1>6. CASE r.op = "mint"
    <2>1. MintSet(r) /\ SeriesOf(r) = r.series
        BY <1>6 DEF Perform, SeriesOf
    <2>2. EvenSet(r) \/ ~MintAllowed(r)
        BY <1>6 DEF EvenSets, MintAllowed
    <2> QED BY <1>1, <1>6, <2>1, <2>2, MintEven
<1>7. CASE r.op = "redeem"
    <2>1. RedeemSet(r) /\ SeriesOf(r) = r.series
        BY <1>7 DEF Perform, SeriesOf
    <2> QED BY <1>1, <1>7, <2>1, RedeemEven
<1>8. CASE r.op = "accept"
    <2> DEFINE k == <<r.user, r.series, r.outcome>>
               qty == PositionOf(k).net_qty + r.qty
    <2>1. AcceptTransfer(r) /\ r.transfer \notin accepted_transfers
        BY <1>8 DEF Perform, Receivable
    <2>2. r.series \in SeriesId
        BY <1>8, TradingAssumption DEF Requests
    <2>3. HasMargin(Listing[r.series], qty)
        BY <2>2 DEF HasMargin, SoundContracts, FullCollateral, Scalar
    <2>4. r.transfer \in accepted_transfers'
        BY <2>1, <2>3 DEF AcceptTransfer
    <2> QED BY <2>1, <2>4 DEF NothingTransferred
<1>9. r.op \in {"limit", "market", "matched", "mint", "redeem", "accept"}
    BY TradingAssumption DEF Requests
<1> QED BY <1>3, <1>4, <1>5, <1>6, <1>7, <1>8, <1>9

LEMMA NoneEven == UNCHANGED <<cash_balances, positions>> => EvenStep
<1> DEFINE none == CHOOSE s : s \notin SeriesId
<1> HIDE DEF none
<1>1. none \notin SeriesId
    BY NoSetContainsEverything DEF none
<1> SUFFICES ASSUME UNCHANGED <<cash_balances, positions>> PROVE EvenStep
    OBVIOUS
<1>2. Even(none)
    BY EvenStays
<1>3. Cash(cash_balances') = Cash(cash_balances)
    BY DEF Cash
<1> QED BY <1>1, <1>2, <1>3 DEF EvenStep

LEMMA TradingEven ==
    ASSUME FiniteMarket, SoundContracts, PricedWithinUnit, EvenSets, NoAwaits, SerialInv, TypeInv,
           TypeInv', PricedOK, TradingNext, SetsWhole, NothingTransferred
    PROVE  PricedOK' /\ EvenStep
<1>1. BookOK /\ BookOK'
    BY DEF TypeInv, BookOK, PlanInv
<1>2. UNCHANGED <<cash_balances, positions, limit_orders>> => PricedOK' /\ EvenStep
    <2>1. ASSUME UNCHANGED <<cash_balances, positions, limit_orders>> PROVE PricedOK' /\ EvenStep
        <3>1. PricedOK'
            BY <2>1 DEF PricedOK, WithinUnit
        <3>2. EvenStep
            BY <2>1, NoneEven
        <3> QED BY <3>1, <3>2
    <2> QED BY <2>1
<1>3. UNCHANGED tradeState => PricedOK' /\ EvenStep
    BY <1>2 DEF tradeState, book
<1>4. ASSUME NEW c \in CallId, NEW r \in Request, Submit(c, r) PROVE PricedOK' /\ EvenStep
    <2>1. /\ NotSettled(SeriesOf(r))
          /\ UNCHANGED tradeState \/ \E seen : Perform(r, seen)
        BY <1>4, SubmitSerial
    <2>2. Receivable(r) /\ WholeSet(r)
        BY <1>4 DEF Submit, SetsWhole
    <2>3. ASSUME NEW seen, Perform(r, seen) PROVE PricedOK' /\ EvenStep
        <3>1. PricedOK'
            BY <2>3, PerformPriced
        <3>2. Even(SeriesOf(r))
            BY <1>1, <2>2, <2>3, PerformEven
        <3>3. SeriesOf(r) \in SeriesId
            BY <1>1, <2>2, ReceivedTyped
        <3>4. EvenStep
            BY <2>1, <3>2, <3>3 DEF EvenStep
        <3> QED BY <3>1, <3>4
    <2> QED BY <1>3, <2>1, <2>3
<1>5. ASSUME NEW c \in CallId, RegistryAnswers(c) \/ AccessGranted(c) \/ RegistryRefuses(c)
      PROVE  FALSE
    BY <1>5 DEF RegistryAnswers, AccessGranted, RegistryRefuses, SerialInv, Idle
<1>6. ASSUME NEW id, CancelOrder(id) PROVE PricedOK' /\ EvenStep
    <2>1. UNCHANGED <<cash_balances, positions>>
          /\ \A i \in DOMAIN limit_orders' : i \in DOMAIN limit_orders
                                             /\ limit_orders'[i] = limit_orders[i]
        BY <1>6 DEF CancelOrder, Without, Restrict
    <2>2. PricedOK'
        BY <2>1 DEF PricedOK, WithinUnit
    <2>3. EvenStep
        BY <2>1, NoneEven
    <2> QED BY <2>2, <2>3
<1>7. ASSUME NEW id \in TransferId, NEW k, FreezePosition(id, k) PROVE FALSE
    <2>1. id \notin DOMAIN frozen_transfers /\ id \in DOMAIN frozen_transfers'
        BY <1>7 DEF FreezePosition, Put
    <2> QED BY <2>1 DEF NothingTransferred
<1>8. ASSUME NEW s, WindowMoves(s) PROVE PricedOK' /\ EvenStep
    BY <1>3, <1>8 DEF WindowMoves
<1> QED BY <1>4, <1>5, <1>6, <1>7, <1>8 DEF TradingNext

-----------------------------------------------------------------------------
(* What a plan still pays, and its fees. *)

Cashflows(plan, I) == SumOver(Brings(plan, "cashflow"), I)

FeesOf(plan) == plan.fee + plan.insurance_fee

Left(plan) ==
    Cashflows(plan, Rest(plan)) + (IF plan.status = "Finalised" THEN 0 ELSE FeesOf(plan))

LEMMA CashflowsType ==
    ASSUME NEW plan, PlanTyped(plan), NEW I \in SUBSET (1..Len(plan.positions))
    PROVE  /\ IsFiniteSet(I) /\ \A i \in I : Brings(plan, "cashflow")[i] \in Int
           /\ Cashflows(plan, I) \in Int
<1>1. /\ Len(plan.positions) \in Nat /\ DOMAIN plan.positions = 1..Len(plan.positions)
      /\ \A i \in 1..Len(plan.positions) : plan.positions[i]["cashflow"] \in Int
    BY SnapshotType
<1>2. IsFiniteSet(I)
    <2>1. IsFiniteSet(1..Len(plan.positions))
        BY <1>1, FS_Interval
    <2> QED BY <2>1, FS_Subset
<1>3. \A i \in I : Brings(plan, "cashflow")[i] \in Int
    BY <1>1 DEF Brings
<1> QED BY <1>2, <1>3, SumType DEF Cashflows

LEMMA RestIn ==
    ASSUME NEW plan, PlanTyped(plan)
    PROVE  /\ Chunk(plan) \in SUBSET (1..Len(plan.positions))
           /\ Rest(plan) \in SUBSET (1..Len(plan.positions))
           /\ Rest(Advanced(plan)) \in SUBSET (1..Len(plan.positions))
           /\ Rest(plan) = Chunk(plan) \cup Rest(Advanced(plan))
           /\ Chunk(plan) \cap Rest(Advanced(plan)) = {}
<1> DEFINE n == Len(plan.positions)
           e == ChunkEnd(plan)
           c == plan.cursor
<1>1. n \in Nat /\ e \in c..n /\ c \in Nat /\ c <= n
    BY SnapshotType, ChunkEndType DEF PlanTyped
<1>2. Rest(Advanced(plan)) = (e + 1)..n
    BY AdvancedTyped
<1>3. Rest(plan) = (c + 1)..n /\ Chunk(plan) = (c + 1)..e
    BY DEF Rest, Chunk
<1> HIDE DEF n, e, c
<1>4. /\ Chunk(plan) \in SUBSET (1..n) /\ Rest(plan) \in SUBSET (1..n)
      /\ Rest(Advanced(plan)) \in SUBSET (1..n)
      /\ Rest(plan) = Chunk(plan) \cup Rest(Advanced(plan))
      /\ Chunk(plan) \cap Rest(Advanced(plan)) = {}
    BY <1>1, <1>2, <1>3
<1> QED BY <1>4 DEF n

LEMMA LeftType ==
    ASSUME NEW plan, PlanTyped(plan)
    PROVE  Left(plan) \in Int /\ FeesOf(plan) \in Nat
<1>1. Cashflows(plan, Rest(plan)) \in Int
    BY RestIn, CashflowsType
<1>2. plan.fee \in Nat /\ plan.insurance_fee \in Nat
    BY DEF PlanTyped, SettlementPlan
<1> QED BY <1>1, <1>2 DEF Left, FeesOf

LEMMA SumUnion ==
    ASSUME NEW f, NEW S, NEW T, IsFiniteSet(S), IsFiniteSet(T), S \cap T = {},
           \A x \in S : f[x] \in Int, \A x \in T : f[x] \in Int
    PROVE  SumOver(f, S \cup T) = SumOver(f, S) + SumOver(f, T)
<1> DEFINE U == S \cup T
<1>1. IsFiniteSet(U)
    BY FS_Union
<1>2. \A x \in U : f[x] \in Int
    OBVIOUS
<1>3. \A x \in S \cup T \cup U : Term(f, U, x) = Term(f, S, x) + Term(f, T, x)
    BY DEF Term
<1> HIDE DEF U
<1>4. SumOver(f, U) = SumOver(f, S) + SumOver(f, T)
    BY <1>1, <1>2, <1>3, SumSplit
<1> QED BY <1>4 DEF U

(* Chunk by chunk, every cashflow is one user's. *)
LEMMA UsersCash ==
    ASSUME FiniteMarket, NEW plan, PlanTyped(plan), NEW I \in SUBSET (1..Len(plan.positions)),
           NEW cash \in [User -> Int], NEW new \in [User -> Int],
           \A u \in User : new[u] = cash[u] + SumFor(plan, I, u, "cashflow")
    PROVE  Cash(new) = Cash(cash) + Cashflows(plan, I)
<1> DEFINE f == Brings(plan, "cashflow")
           owner == [i \in I |-> plan.positions[i].user]
           shares == ClassSums(f, I, owner, User)
<1>1. IsFiniteSet(I) /\ \A i \in I : f[i] \in Int
    BY CashflowsType
<1>2. \A i \in I : owner[i] \in User
    BY SnapshotType DEF SettlementPosition
<1>3. I \subseteq DOMAIN plan.positions
    BY SnapshotType
<1>4. \A u : InClass(I, owner, u) = Of(plan, I, u)
    BY DEF InClass, Of
<1>5. \A u \in User : shares[u] = SumFor(plan, I, u, "cashflow")
    <2>1. \A u : SumFor(plan, I, u, "cashflow") = SumOver(f, Of(plan, I, u))
        BY <1>3, SumForIs
    <2> HIDE DEF f, owner
    <2> QED BY <1>4, <2>1 DEF ClassSums
<1> HIDE DEF f, owner
<1>6. IsFiniteSet(User)
    BY DEF FiniteMarket
<1>7. SumOver(shares, User) = SumOver(f, I)
    <2>1. \A F, S, class : IsFiniteSet(S) /\ (\A x \in S : F[x] \in Int) /\ (\A x \in S : class[x] \in User)
              => SumOver(ClassSums(F, S, class, User), User) = SumOver(F, S)
        BY <1>6, SumByClass
    <2> QED BY <1>1, <1>2, <2>1
<1>8. \A u \in User : shares[u] \in Int
    BY <1>5, SumForType
<1> HIDE DEF shares
<1>9. \A u \in User : cash[u] \in Int /\ shares[u] \in Int /\ new[u] = cash[u] + shares[u]
    BY <1>5, <1>8
<1>10. SumOver(new, User) = SumOver(cash, User) + SumOver(shares, User)
    BY <1>6, <1>9, SumPlus
<1> QED BY <1>7, <1>10 DEF Cash, Cashflows, f

Funds == treasury + insurance_fund

LEMMA AdvancedFees ==
    ASSUME NEW plan, PlanTyped(plan)
    PROVE  FeesOf(Advanced(plan)) = FeesOf(plan)
<1>1. plan = [settlement |-> plan.settlement, positions |-> plan.positions,
              cursor |-> plan.cursor, status |-> plan.status,
              fee |-> plan.fee, insurance_fee |-> plan.insurance_fee]
    BY DEF PlanTyped, PlanOK, Shaped
<1>2. \A c, t : /\ [plan EXCEPT !.cursor = c, !.status = t].fee = plan.fee
                /\ [plan EXCEPT !.cursor = c, !.status = t].insurance_fee = plan.insurance_fee
    BY <1>1
<1> QED BY <1>2 DEF FeesOf, Advanced, Moved

(* apply_settlement_accounting_logic pays a chunk of what is left of a plan,
   and with the last one the fees. *)
LEMMA AdvanceMoney ==
    ASSUME FiniteMarket, TypeInv, TypeInv', NEW s \in SeriesId, NEW plan, PlanTyped(plan),
           plan.status # "Finalised", NEW released, NEW armed, Advance(s, plan, released, armed)
    PROVE  /\ settlement_plans' = Put(settlement_plans, s, Advanced(plan))
           /\ Cash(cash_balances') + Funds' + Left(Advanced(plan))
                = Cash(cash_balances) + Funds + Left(plan)
<1> DEFINE new == Advanced(plan)
           f == Brings(plan, "cashflow")
           C == Chunk(plan)
           R == Rest(new)
<1>1. settlement_plans' = Put(settlement_plans, s, new)
    BY DEF Advance, Advanced, Moved
<1>2. PlanTyped(new) /\ new.positions = plan.positions
      /\ (Completes(plan) => new.status = "Finalised")
      /\ (~Completes(plan) => new.status = "Executing")
    BY AdvancedTyped
<1>3. /\ C \in SUBSET (1..Len(plan.positions)) /\ R \in SUBSET (1..Len(plan.positions))
      /\ Rest(plan) \in SUBSET (1..Len(plan.positions))
      /\ Rest(plan) = C \cup R /\ C \cap R = {}
    BY RestIn
<1>4. /\ IsFiniteSet(C) /\ \A i \in C : f[i] \in Int
      /\ IsFiniteSet(R) /\ \A i \in R : f[i] \in Int
      /\ IsFiniteSet(Rest(plan)) /\ \A i \in Rest(plan) : f[i] \in Int
      /\ Cashflows(plan, C) \in Int /\ Cashflows(plan, R) \in Int
    BY <1>3, CashflowsType
<1>5. Cashflows(new, R) = Cashflows(plan, R)
    BY <1>2 DEF Cashflows, Brings
<1>6. FeesOf(new) = FeesOf(plan) /\ FeesOf(plan) \in Nat
    BY AdvancedFees, LeftType
<1>7. cash_balances \in [User -> Int] /\ cash_balances' \in [User -> Int]
      /\ treasury \in Nat /\ insurance_fund \in Nat
    BY DEF TypeInv, BookTyped, BalancesTyped, FundsTyped
<1>8. \A u \in User : cash_balances'[u] = cash_balances[u] + SumFor(plan, C, u, "cashflow")
    BY DEF Advance
<1> HIDE DEF new, f, C, R
<1>9. Cashflows(plan, Rest(plan)) = Cashflows(plan, C) + Cashflows(plan, R)
    <2>1. SumOver(f, C \cup R) = SumOver(f, C) + SumOver(f, R)
        BY <1>3, <1>4, SumUnion
    <2> QED BY <1>3, <2>1 DEF Cashflows, f
<1>10. Cash(cash_balances') = Cash(cash_balances) + Cashflows(plan, C)
    BY <1>3, <1>7, <1>8, UsersCash
<1>11. Cash(cash_balances) \in Int
    BY <1>7, CashType DEF FiniteMarket
<1>12. Left(plan) = Cashflows(plan, C) + Cashflows(plan, R) + FeesOf(plan)
    BY <1>9 DEF Left
<1>13. CASE Completes(plan)
    <2>1. Funds' = Funds + FeesOf(plan)
        <3>1. treasury' = treasury + plan.fee /\ insurance_fund' = insurance_fund + plan.insurance_fee
            BY <1>13 DEF Advance
        <3>2. plan.fee \in Nat /\ plan.insurance_fee \in Nat
            BY DEF PlanTyped, SettlementPlan
        <3> QED BY <1>7, <3>1, <3>2 DEF Funds, FeesOf
    <2>2. Left(new) = Cashflows(plan, R)
        BY <1>2, <1>4, <1>5, <1>13 DEF Left, R
    <2>3. Funds \in Int
        BY <1>7 DEF Funds
    <2> QED BY <1>1, <1>4, <1>6, <1>10, <1>11, <1>12, <2>1, <2>2, <2>3 DEF new
<1>14. CASE ~Completes(plan)
    <2>1. Funds' = Funds /\ Funds \in Int
        BY <1>7, <1>14 DEF Advance, Funds
    <2>2. Left(new) = Cashflows(plan, R) + FeesOf(plan)
        BY <1>2, <1>4, <1>5, <1>6, <1>14 DEF Left, R
    <2> QED BY <1>1, <1>4, <1>6, <1>10, <1>11, <1>12, <2>1, <2>2 DEF new
<1> QED BY <1>13, <1>14

(* What the positions of a series bring the funds. *)
FeeOn(s, input, bps) ==
    [k \in DOMAIN positions |->
        SettlementFee(SettlementValue(Listing[s], k[3], positions[k].net_qty, input), bps)]

LEMMA TotalFeeIs ==
    ASSUME BookOK, NEW s \in SeriesId, NEW input \in Input, Payable(s, input), NEW bps \in Nat
    PROVE  /\ TotalFee(s, input, bps) = SumOver(FeeOn(s, input, bps), PositionsOf(s))
           /\ \A k \in PositionsOf(s) : FeeOn(s, input, bps)[k] \in Nat
<1> DEFINE S == PositionsOf(s)
           Fee(k) == SettlementFee(SettlementValue(Listing[s], k[3], positions[k].net_qty, input), bps)
           f == FeeOn(s, input, bps)
           Fold(g) == g = [t \in SUBSET S |->
                              IF t = {} THEN 0 ELSE Fee(Pick(t)) + g[t \ {Pick(t)}]]
<1>0. S \subseteq DOMAIN positions
    BY DEF PositionsOf
<1>1. \A g : Fold(g) <=> IsFold(g, f, S)
    <2>1. \A t \in SUBSET S : t # {} => f[Pick(t)] = Fee(Pick(t))
        BY <1>0, PickIn DEF FeeOn
    <2> HIDE DEF f, Fee, S
    <2> QED BY <2>1 DEF IsFold
<1>2. (CHOOSE g : Fold(g)) = (CHOOSE g : IsFold(g, f, S))
    <2> HIDE DEF Fold, f, S
    <2> QED BY <1>1
<1>3. TotalFee(s, input, bps) = (CHOOSE g : Fold(g))[S]
    BY DEF TotalFee, MapThenSumSet, MapThenFoldSet, Pick
<1>4. ASSUME NEW k \in S PROVE f[k] \in Nat
    <2>1. positions[k].net_qty \in Int
        BY <1>0 DEF BookOK, BookTyped, PositionsTyped, Position
    <2>2. SettlementValue(Listing[s], k[3], positions[k].net_qty, input) \in Nat
        BY <2>1, ValueType, BookAssumption DEF Payable
    <2>3. Fee(k) \in Nat
        BY <2>2, FeeType
    <2> QED BY <1>0, <2>3 DEF FeeOn
<1> HIDE DEF Fold, f, S
<1>5. TotalFee(s, input, bps) = SumOver(f, S)
    BY <1>2, <1>3, SumIsFold
<1> QED BY <1>4, <1>5 DEF f, S

(* A new plan pays what the positions it was made from are worth: to their
   owners net of fees, and the fees. *)
LEMMA OpenedWorth ==
    ASSUME SoundContracts, BookOK, NEW s \in SeriesId, NEW input \in Inputs[s],
           PlanTyped(NewPlan(s, input))
    PROVE  Left(NewPlan(s, input)) = WorthSum(positions, s, input)
<1> DEFINE plan == NewPlan(s, input)
           S == PositionsOf(s)
           net == [k \in DOMAIN positions |-> Snapshot(k, input).cashflow]
           ins == FeeOn(s, input, INSURANCE_BPS)
           prot == FeeOn(s, input, PROTOCOL_BPS)
           fees == [k \in DOMAIN positions |-> prot[k] + ins[k]]
           worth == Worths(positions, s, input)
           f == Brings(plan, "cashflow")
<1>0. PICK n \in Nat : \E keys :
          /\ IsOrder(keys, n, s)
          /\ NewPlan(s, input).positions = [i \in 1..n |-> Snapshot(keys[i], input)]
          /\ Len(NewPlan(s, input).positions) = n
    BY SnapshotKeys DEF BookOK
<1>1. PICK keys :
          /\ IsOrder(keys, n, s)
          /\ NewPlan(s, input).positions = [i \in 1..n |-> Snapshot(keys[i], input)]
          /\ Len(NewPlan(s, input).positions) = n
    BY <1>0
<1>2. /\ keys \in [1..n -> S]
      /\ \A i \in 1..n, j \in 1..n : keys[i] = keys[j] => i = j
      /\ \A k \in S : \E i \in 1..n : keys[i] = k
      /\ plan.positions = [i \in 1..n |-> Snapshot(keys[i], input)]
      /\ Len(plan.positions) = n
    BY <1>1 DEF IsOrder
<1>3. S \subseteq DOMAIN positions /\ IsFiniteSet(S) /\ S = KeysIn(positions, s)
    BY FS_Subset DEF PositionsOf, BookOK, FinitePositions, KeysIn
<1>4. /\ plan.status = "Executing" /\ plan.cursor = 0
      /\ plan.fee = TotalFee(s, input, PROTOCOL_BPS)
      /\ plan.insurance_fee = TotalFee(s, input, INSURANCE_BPS)
    BY DEF NewPlan
<1>5. /\ TotalFee(s, input, PROTOCOL_BPS) = SumOver(prot, S) /\ \A k \in S : prot[k] \in Nat
      /\ TotalFee(s, input, INSURANCE_BPS) = SumOver(ins, S) /\ \A k \in S : ins[k] \in Nat
    <2>1. input \in Input /\ Payable(s, input)
        BY SettlementAssumption DEF SoundContracts, Payable
    <2> QED BY <2>1, TotalFeeIs, SettlementAssumption
<1>6. ASSUME NEW k \in S
      PROVE  /\ worth[k] \in Int /\ net[k] \in Int
             /\ fees[k] = prot[k] + ins[k] /\ worth[k] = net[k] + fees[k]
    <2> DEFINE value == SettlementValue(Listing[s], k[3], positions[k].net_qty, input)
    <2>1. k \in DOMAIN positions /\ k[2] = s
        BY DEF PositionsOf
    <2>2. positions[k].net_qty \in Int /\ positions[k].margin \in Nat
        BY <2>1 DEF BookOK, BookTyped, PositionsTyped, Position
    <2>3. value \in Nat
        BY <2>2, ValueIs
    <2>4. net[k] = value - positions[k].margin - SettlementFee(value, INSURANCE_BPS)
                     - SettlementFee(value, PROTOCOL_BPS)
        BY <2>1 DEF Snapshot
    <2>5. ins[k] = SettlementFee(value, INSURANCE_BPS) /\ prot[k] = SettlementFee(value, PROTOCOL_BPS)
        BY <2>1 DEF FeeOn
    <2>6. worth[k] = value - positions[k].margin
        BY <2>1 DEF Worths, Worth
    <2>7. fees[k] = prot[k] + ins[k]
        BY <2>1
    <2>8. ins[k] \in Nat /\ prot[k] \in Nat
        BY <1>5
    <2> HIDE DEF value, net, ins, prot, worth, fees
    <2>9. net[k] = value - positions[k].margin - ins[k] - prot[k]
        BY <2>4, <2>5
    <2> QED BY <2>2, <2>3, <2>6, <2>7, <2>8, <2>9
<1>7. \A i \in 1..n : keys[i] \in S /\ net[keys[i]] = f[i]
    <2>1. \A i \in 1..n : keys[i] \in S
        BY <1>2
    <2>2. \A k : Snapshot(k, input).cashflow = Snapshot(k, input)["cashflow"]
        OBVIOUS
    <2>3. \A i \in 1..n : f[i] = Snapshot(keys[i], input)["cashflow"]
        BY <1>2 DEF Brings
    <2> QED BY <1>3, <2>1, <2>2, <2>3
<1>8. Rest(plan) = 1..n
    BY <1>2, <1>4 DEF Rest
<1>9. IsFiniteSet(1..n) /\ \A i \in 1..n : f[i] \in Int
    <2>1. 1..n \in SUBSET (1..Len(plan.positions)) /\ PlanTyped(plan)
        BY <1>2
    <2> HIDE DEF plan
    <2> QED BY <2>1, CashflowsType
<1> HIDE DEF plan, S, net, ins, prot, fees, worth, f
<1>10. SumOver(f, 1..n) = SumOver(net, S)
    <2>1. Renames(keys, f, 1..n, net, S)
        BY <1>2, <1>7 DEF Renames
    <2> QED BY <1>9, <2>1, SumRenamed
<1>11. \A k \in S : fees[k] \in Int
    BY <1>5, <1>6
<1>12. SumOver(worth, S) = SumOver(net, S) + SumOver(fees, S)
    BY <1>3, <1>6, <1>11, SumPlus
<1>13. SumOver(fees, S) = SumOver(prot, S) + SumOver(ins, S)
    BY <1>3, <1>5, <1>6, SumPlus
<1>14. Left(plan) = SumOver(f, 1..n) + (plan.fee + plan.insurance_fee)
    BY <1>4, <1>8 DEF Left, Cashflows, FeesOf, f
<1>15. Left(plan) = SumOver(net, S) + SumOver(fees, S)
    BY <1>4, <1>5, <1>10, <1>13, <1>14
<1> QED BY <1>3, <1>12, <1>15 DEF WorthSum, plan, worth

-----------------------------------------------------------------------------
(* All the money of the book. *)

OwedIn(pos, plans, s, input) ==
    IF s \in DOMAIN plans THEN Left(plans[s]) ELSE WorthSum(pos, s, input)

Owes(pos, plans, r) == [s \in SeriesId |-> OwedIn(pos, plans, s, r[s])]

Money(r) ==
    Cash(cash_balances) + Funds + SumOver(Owes(positions, settlement_plans, r), SeriesId)

LEMMA OwedIs ==
    ASSUME PlansInv, NEW s, NEW input
    PROVE  Owed(s, input) = OwedIn(positions, settlement_plans, s, input)
<1>1. CASE NotSettled(s)
    <2> DEFINE S == PositionsOf(s)
               W(k) == SettlementValue(Listing[s], k[3], positions[k].net_qty, input)
                         - positions[k].margin
               f == Worths(positions, s, input)
               Fold(g) == g = [t \in SUBSET S |->
                                  IF t = {} THEN 0 ELSE W(Pick(t)) + g[t \ {Pick(t)}]]
    <2>1. S \subseteq DOMAIN positions /\ S = KeysIn(positions, s)
        BY DEF PositionsOf, KeysIn
    <2>2. \A g : Fold(g) <=> IsFold(g, f, S)
        <3>1. \A t \in SUBSET S : t # {} => f[Pick(t)] = W(Pick(t))
            BY <2>1, PickIn DEF Worths, Worth
        <3> HIDE DEF f, W, S
        <3> QED BY <3>1 DEF IsFold
    <2>3. (CHOOSE g : Fold(g)) = (CHOOSE g : IsFold(g, f, S))
        <3> HIDE DEF Fold, f, S
        <3> QED BY <2>2
    <2>4. Owed(s, input) = (CHOOSE g : Fold(g))[S]
        BY <1>1 DEF Owed, MapThenSumSet, MapThenFoldSet, Pick
    <2>5. OwedIn(positions, settlement_plans, s, input) = SumOver(f, S)
        BY <1>1, <2>1 DEF OwedIn, NotSettled, WorthSum
    <2> HIDE DEF S, f, Fold
    <2> QED BY <2>3, <2>4, <2>5, SumIsFold
<1>2. CASE ~NotSettled(s)
    <2> DEFINE plan == settlement_plans[s]
               S == Unapplied(s)
               f == Brings(plan, "cashflow")
               Fold(g) == g = [t \in SUBSET S |->
                                  IF t = {} THEN 0
                                  ELSE plan.positions[Pick(t)].cashflow + g[t \ {Pick(t)}]]
               total == MapThenSumSet(LAMBDA i : plan.positions[i].cashflow, S)
    <2>1. PlanTyped(plan) /\ s \in DOMAIN settlement_plans
        BY <1>2 DEF NotSettled, PlansInv, HasPlans
    <2>2. S = Rest(plan)
        BY DEF Unapplied, Rest
    <2>3. S \subseteq DOMAIN plan.positions
        <3>1. Rest(plan) \in SUBSET (1..Len(plan.positions))
              /\ DOMAIN plan.positions = 1..Len(plan.positions)
            BY <2>1, RestIn, SnapshotType
        <3> HIDE DEF S, plan
        <3> QED BY <2>2, <3>1
    <2>4. \A g : Fold(g) <=> IsFold(g, f, S)
        <3>1. \A t \in SUBSET S : t # {} => f[Pick(t)] = plan.positions[Pick(t)].cashflow
            BY <2>3, PickIn DEF Brings
        <3> HIDE DEF f, plan, S
        <3> QED BY <3>1 DEF IsFold
    <2>5. (CHOOSE g : Fold(g)) = (CHOOSE g : IsFold(g, f, S))
        <3> HIDE DEF Fold, f, S
        <3> QED BY <2>4
    <2>6. total = (CHOOSE g : Fold(g))[S]
        BY DEF MapThenSumSet, MapThenFoldSet, Pick
    <2>7. Owed(s, input) = total + (IF Finalised(s) THEN 0 ELSE plan.fee + plan.insurance_fee)
        BY <1>2 DEF Owed
    <2>8. Finalised(s) <=> plan.status = "Finalised"
        BY <1>2 DEF Finalised
    <2> HIDE DEF total, S, f, Fold
    <2>9. total = SumOver(f, S)
        BY <2>5, <2>6, SumIsFold
    <2>10. Left(plan) = SumOver(f, S) + (IF plan.status = "Finalised" THEN 0
                                         ELSE plan.fee + plan.insurance_fee)
        BY <2>2 DEF Left, Cashflows, FeesOf, f
    <2>11. OwedIn(positions, settlement_plans, s, input) = Left(plan)
        BY <2>1 DEF OwedIn
    <2> QED BY <2>7, <2>8, <2>9, <2>10, <2>11
<1> QED BY <1>1, <1>2

LEMMA OwedType ==
    ASSUME SoundContracts, NEW pos, HasQuantities(pos), NEW plans, \A s \in DOMAIN plans : PlanTyped(plans[s]),
           NEW s \in SeriesId, NEW input \in Inputs[s]
    PROVE  OwedIn(pos, plans, s, input) \in Int
BY WorthTerms, LeftType DEF OwedIn

(* What all users hold moves by as much as what one series owes. *)
LEMMA MoneyKept ==
    ASSUME FiniteMarket, SoundContracts, PlansInv, PlansInv',
           NEW r \in Resolution, NEW before \in Resolution, NEW s,
           \A x \in SeriesId \ {s} : OwedIn(positions', settlement_plans', x, r[x])
                                       = OwedIn(positions, settlement_plans, x, before[x]),
           IF s \in SeriesId
           THEN Cash(cash_balances') + Funds' + OwedIn(positions', settlement_plans', s, r[s])
                  = Cash(cash_balances) + Funds + OwedIn(positions, settlement_plans, s, before[s])
           ELSE Cash(cash_balances') + Funds' = Cash(cash_balances) + Funds
    PROVE  Money(r)' = Money(before)
<1> DEFINE f == Owes(positions, settlement_plans, before)
           g == Owes(positions', settlement_plans', r)
<1>1. r \in Resolution /\ before \in Resolution
    OBVIOUS
<1>2. /\ \A x \in SeriesId : r[x] \in Inputs[x] /\ before[x] \in Inputs[x]
    BY DEF Resolution
<1>3. BookOK /\ BookOK'
    BY DEF PlansInv, TypeInv, BookOK, PlanInv
<1>4. HasQuantities(positions) /\ HasQuantities(positions')
    BY <1>3, Quantities, QuantitiesNext
<1>5. /\ \A x \in DOMAIN settlement_plans : PlanTyped(settlement_plans[x])
      /\ \A x \in DOMAIN settlement_plans' : PlanTyped(settlement_plans'[x])
    BY DEF PlansInv, HasPlans
<1>6. \A x \in SeriesId : /\ f[x] = OwedIn(positions, settlement_plans, x, before[x])
                          /\ g[x] = OwedIn(positions', settlement_plans', x, r[x])
    BY DEF Owes
<1>7. \A x \in SeriesId : f[x] \in Int
    BY <1>2, <1>4, <1>5, <1>6, OwedType
<1>8. \A x \in SeriesId : g[x] \in Int
    BY <1>2, <1>4, <1>5, <1>6, OwedType
<1>9. Money(r)' = Cash(cash_balances') + Funds' + SumOver(g, SeriesId)
    BY DEF Money
<1>10. Money(before) = Cash(cash_balances) + Funds + SumOver(f, SeriesId)
    BY DEF Money
<1>11. IsFiniteSet(SeriesId)
    BY DEF FiniteMarket
<1>12. /\ Cash(cash_balances) \in Int /\ Cash(cash_balances') \in Int
       /\ Funds \in Int /\ Funds' \in Int
    BY CashType DEF FiniteMarket, PlansInv, TypeInv, BookTyped, BalancesTyped, FundsTyped, Funds
<1> HIDE DEF f, g
<1>13. SumOver(f, SeriesId) \in Int
    BY <1>7, <1>11, SumType
<1>14. CASE s \in SeriesId
    <2>1. SumOver(g, SeriesId) = SumOver(f, SeriesId) - f[s] + g[s]
        <3>1. \A x \in SeriesId \ {s} : g[x] = f[x]
            BY <1>6
        <3> QED BY <1>7, <1>8, <1>11, <1>14, <3>1, SumUpdate
    <2>2. Cash(cash_balances') + Funds' + g[s] = Cash(cash_balances) + Funds + f[s]
        BY <1>6, <1>14
    <2> QED BY <1>7, <1>8, <1>9, <1>10, <1>12, <1>13, <1>14, <2>1, <2>2
<1>15. CASE s \notin SeriesId
    <2>1. SumOver(g, SeriesId) = SumOver(f, SeriesId)
        <3>1. \A x \in SeriesId : f[x] = g[x]
            BY <1>6, <1>15
        <3> QED BY <1>11, <3>1, SumSame
    <2> QED BY <1>9, <1>10, <1>15, <2>1
<1> QED BY <1>14, <1>15

Balanced == \A r \in Resolution : Money(r) = 0

MoneyInv == SerialInv /\ PlansInv /\ PricedOK /\ Balanced

LEMMA TradingMoney ==
    ASSUME FiniteMarket, SoundContracts, PlansInv, PlansInv', EvenStep,
           UNCHANGED <<settlement_plans, treasury, insurance_fund>>, NEW r \in Resolution
    PROVE  Money(r)' = Money(r)
<1>1. PICK s : /\ IF s \in SeriesId THEN NotSettled(s)
                  ELSE Cash(cash_balances') = Cash(cash_balances)
               /\ Even(s)
    BY DEF EvenStep
<1>2. \A x \in SeriesId : r[x] \in Inputs[x]
    BY DEF Resolution
<1>3. BookOK /\ BookOK' /\ HasQuantities(positions) /\ HasQuantities(positions')
    BY Quantities, QuantitiesNext DEF PlansInv, TypeInv, BookOK, PlanInv
<1>4. ASSUME NEW x \in SeriesId \ {s}
      PROVE  OwedIn(positions', settlement_plans', x, r[x])
               = OwedIn(positions, settlement_plans, x, r[x])
    <2>1. /\ WorthSum(positions', x, r[x]) \in Int /\ WorthSum(positions, x, r[x]) \in Int
        BY <1>2, <1>3, WorthTerms
    <2>2. WorthSum(positions', x, r[x]) + 0 = WorthSum(positions, x, r[x]) + 0
        BY <1>1, <1>2 DEF Even
    <2> QED BY <2>1, <2>2 DEF OwedIn
<1>5. Funds' = Funds /\ Funds \in Int
    BY DEF Funds, PlansInv, TypeInv, FundsTyped
<1>6. Cash(cash_balances) \in Int /\ Cash(cash_balances') \in Int
    BY CashType DEF FiniteMarket, PlansInv, TypeInv, BookTyped, BalancesTyped
<1>7. CASE s \in SeriesId
    <2>1. OwedIn(positions', settlement_plans', s, r[s]) = WorthSum(positions', s, r[s])
          /\ OwedIn(positions, settlement_plans, s, r[s]) = WorthSum(positions, s, r[s])
        BY <1>1, <1>7 DEF OwedIn, NotSettled
    <2>2. WorthSum(positions', s, r[s]) \in Int /\ WorthSum(positions, s, r[s]) \in Int
        BY <1>2, <1>3, <1>7, WorthTerms
    <2>3. WorthSum(positions', s, r[s]) + Cash(cash_balances')
            = WorthSum(positions, s, r[s]) + Cash(cash_balances)
        BY <1>1, <1>2, <1>7 DEF Even
    <2>4. Cash(cash_balances') + Funds' + OwedIn(positions', settlement_plans', s, r[s])
            = Cash(cash_balances) + Funds + OwedIn(positions, settlement_plans, s, r[s])
        <3>1. Cash(cash_balances') + Funds' + WorthSum(positions', s, r[s])
                = Cash(cash_balances) + Funds + WorthSum(positions, s, r[s])
            <4>1. \A a, b, c, d, e, f \in Int :
                      e = f /\ c + a = d + b => a + e + c = b + f + d
                OBVIOUS
            <4> QED BY <1>5, <1>6, <2>2, <2>3, <4>1
        <3> QED BY <2>1, <3>1
    <2> QED BY <1>4, <1>7, <2>4, MoneyKept
<1>8. CASE s \notin SeriesId
    <2>1. Cash(cash_balances') + Funds' = Cash(cash_balances) + Funds
        BY <1>1, <1>5, <1>8
    <2> QED BY <1>4, <1>8, <2>1, MoneyKept
<1> QED BY <1>7, <1>8

(* The step that opens a plan books what the input the series settles with
   brings: the other series may resolve in any way. *)
LEMMA SettleMoney ==
    ASSUME FiniteMarket, SoundContracts, PlansInv, PlansInv',
           NEW s \in SeriesId, NEW input \in Inputs[s], SettleSeries(s, input),
           NEW r \in Resolution
    PROVE  \E before \in Resolution : Money(r)' = Money(before)
<1> DEFINE plan == NewPlan(s, input)
           before == [r EXCEPT ![s] = input]
<1>1. TypeInv /\ TypeInv' /\ BookOK
    BY DEF PlansInv, TypeInv, BookOK, PlanInv
<1>2. /\ PlanTyped(plan) /\ s \notin DOMAIN settlement_plans
      /\ positions' = Without(positions, PositionsOf(s))
      /\ Advance(s, plan, [u \in User |-> BlockedBy(u, s)], timers)
    BY <1>1, SettleParts
<1>3. plan.status = "Executing"
    BY DEF NewPlan
<1>4. Left(plan) = WorthSum(positions, s, input)
    BY <1>1, <1>2, OpenedWorth
<1>5. before \in Resolution /\ before[s] = input /\ \A x \in SeriesId \ {s} : before[x] = r[x]
    <2>1. input \in UNION {Inputs[x] : x \in SeriesId}
        OBVIOUS
    <2> QED BY <2>1 DEF Resolution
<1> HIDE DEF plan, before
<1>6. /\ settlement_plans' = Put(settlement_plans, s, Advanced(plan))
      /\ Cash(cash_balances') + Funds' + Left(Advanced(plan))
           = Cash(cash_balances) + Funds + Left(plan)
    BY <1>1, <1>2, <1>3, AdvanceMoney
<1>7. /\ DOMAIN settlement_plans' = DOMAIN settlement_plans \cup {s}
      /\ settlement_plans'[s] = Advanced(plan)
      /\ \A x \in DOMAIN settlement_plans \ {s} : settlement_plans'[x] = settlement_plans[x]
    BY <1>6 DEF Put
<1>8. /\ OwedIn(positions', settlement_plans', s, r[s]) = Left(Advanced(plan))
      /\ OwedIn(positions, settlement_plans, s, before[s]) = Left(plan)
    BY <1>2, <1>4, <1>5, <1>7 DEF OwedIn
<1>9. HasQuantities(positions) /\ HasQuantities(positions')
    BY <1>1, Quantities, QuantitiesNext DEF TypeInv, BookOK, PlanInv
<1>10. ASSUME NEW x \in SeriesId \ {s}
       PROVE  OwedIn(positions', settlement_plans', x, r[x])
                = OwedIn(positions, settlement_plans, x, before[x])
    <2>1. KeysIn(positions', x) = KeysIn(positions, x)
          /\ \A k \in KeysIn(positions, x) : positions'[k] = positions[k]
        BY <1>2 DEF KeysIn, Without, Restrict, PositionsOf
    <2>2. WorthSum(positions', x, r[x]) = WorthSum(positions, x, r[x])
        BY <1>9, <2>1, WorthKept
    <2> QED BY <1>5, <1>7, <2>2 DEF OwedIn
<1>11. Cash(cash_balances') + Funds' + OwedIn(positions', settlement_plans', s, r[s])
         = Cash(cash_balances) + Funds + OwedIn(positions, settlement_plans, s, before[s])
    BY <1>6, <1>8
<1>12. Money(r)' = Money(before)
    BY <1>5, <1>10, <1>11, MoneyKept
<1> QED BY <1>5, <1>12

LEMMA AdvancesMoney ==
    ASSUME FiniteMarket, SoundContracts, PlansInv, PlansInv', NEW s \in SeriesId, Advances(s),
           NEW r \in Resolution
    PROVE  Money(r)' = Money(r)
<1> DEFINE plan == settlement_plans[s]
<1>1. TypeInv /\ TypeInv'
    BY DEF PlansInv
<1>2. /\ PlanTyped(plan) /\ s \in DOMAIN settlement_plans /\ plan.status # "Finalised"
    BY <1>1, AdvancesParts DEF OpenPlans
<1>3. PICK armed \in SUBSET SeriesId : Advance(s, plan, Nothing, armed)
    BY DEF Advances
<1>4. UNCHANGED positions
    BY DEF Advances
<1> HIDE DEF plan
<1>5. /\ settlement_plans' = Put(settlement_plans, s, Advanced(plan))
      /\ Cash(cash_balances') + Funds' + Left(Advanced(plan))
           = Cash(cash_balances) + Funds + Left(plan)
    BY <1>1, <1>2, <1>3, AdvanceMoney
<1>6. /\ DOMAIN settlement_plans' = DOMAIN settlement_plans \cup {s}
      /\ settlement_plans'[s] = Advanced(plan)
      /\ \A x \in DOMAIN settlement_plans \ {s} : settlement_plans'[x] = settlement_plans[x]
    BY <1>5 DEF Put
<1>7. /\ OwedIn(positions', settlement_plans', s, r[s]) = Left(Advanced(plan))
      /\ OwedIn(positions, settlement_plans, s, r[s]) = Left(plan)
    BY <1>2, <1>6 DEF OwedIn, plan
<1>8. \A x \in SeriesId \ {s} : OwedIn(positions', settlement_plans', x, r[x])
                                  = OwedIn(positions, settlement_plans, x, r[x])
    BY <1>4, <1>6 DEF OwedIn
<1>9. Cash(cash_balances') + Funds' + OwedIn(positions', settlement_plans', s, r[s])
        = Cash(cash_balances) + Funds + OwedIn(positions, settlement_plans, s, r[s])
    BY <1>5, <1>7
<1> QED BY <1>8, <1>9, MoneyKept

LEMMA SettlementMoves ==
    ASSUME TypeInv, SettlementNext
    PROVE  \/ UNCHANGED <<cash_balances, positions, settlement_plans, treasury, insurance_fund>>
           \/ \E s \in SeriesId : Advances(s) \/ \E input \in Inputs[s] : SettleSeries(s, input)
<1> DEFINE Still == UNCHANGED <<cash_balances, positions, settlement_plans, treasury, insurance_fund>>
<1>1. timers \in SUBSET SeriesId
    BY DEF TypeInv, FundsTyped
<1>2. ASSUME NEW s \in SeriesId, NEW input, NEW armed \in SUBSET SeriesId,
             ResumeSettlement(s, input, armed)
      PROVE  Advances(s)
    BY <1>2 DEF ResumeSettlement, Advances
<1>3. ASSUME NEW s \in SeriesId, TimerFires(s) PROVE Advances(s) \/ Still
    <2>1. timers \ {s} \in SUBSET SeriesId
        BY <1>1
    <2>2. CASE ResumeSettlement(s, settlement_plans[s].settlement, timers \ {s})
        BY <1>2, <2>1, <2>2
    <2> QED BY <1>3, <2>2 DEF TimerFires, book
<1>4. ASSUME \/ \E s \in SeriesId : TimerTraps(s)
             \/ Heartbeat
             \/ \E D : BackfillSettlementEvents(D)
      PROVE  Still
    BY <1>4 DEF TimerTraps, Heartbeat, BackfillSettlementEvents, book
<1> HIDE DEF Still
<1>5. \/ Still
      \/ \E s \in SeriesId : Advances(s) \/ \E input \in Inputs[s] : SettleSeries(s, input)
    BY <1>1, <1>2, <1>3, <1>4 DEF SettlementNext
<1> QED BY <1>5 DEF Still

LEMMA SettlementMoney ==
    ASSUME FiniteMarket, SoundContracts, PlansInv, PlansInv', Balanced,
           SettlementNext, NEW r \in Resolution
    PROVE  Money(r)' = 0
<1>1. TypeInv
    BY DEF PlansInv
<1>2. CASE UNCHANGED <<cash_balances, positions, settlement_plans, treasury, insurance_fund>>
    BY <1>2 DEF Money, Funds, Balanced
<1>3. ASSUME NEW s \in SeriesId, Advances(s) PROVE Money(r)' = 0
    BY <1>3, AdvancesMoney DEF Balanced
<1>4. ASSUME NEW s \in SeriesId, NEW input \in Inputs[s], SettleSeries(s, input)
      PROVE  Money(r)' = 0
    BY <1>4, SettleMoney DEF Balanced
<1> QED BY <1>1, <1>2, <1>3, <1>4, SettlementMoves

LEMMA PlansHere == IsFiniteSet(SeriesId) /\ TypeInv => PlansInv
<1> SUFFICES ASSUME IsFiniteSet(SeriesId), TypeInv PROVE PlansInv
    OBVIOUS
<1>1. OpenPlans(settlement_plans) \subseteq SeriesId
    BY DEF OpenPlans, TypeInv, PlansTyped
<1>2. IsFiniteSet(OpenPlans(settlement_plans))
    BY <1>1, FS_Subset
<1>3. \A s \in DOMAIN settlement_plans : PlanTyped(settlement_plans[s])
    BY DEF TypeInv, PlanInv, PlansOK, PlansTyped, PlanTyped
<1> QED BY <1>2, <1>3 DEF PlansInv, HasPlans

LEMMA PlansHereNext == (IsFiniteSet(SeriesId) /\ TypeInv => PlansInv)'
BY PlansHere, PTL

LEMMA NextMoney ==
    ASSUME FiniteMarket, SoundContracts, PricedWithinUnit, EvenSets, NoAwaits,
           MoneyInv, [Next]_vars, SetsWhole \/ UNCHANGED vars,
           NothingTransferred
    PROVE  MoneyInv'
<1> USE DEF MoneyInv
<1>1. PlansInv' /\ SerialInv'
    <2>1. TypeInv'
        BY NextTypeInv DEF PlansInv
    <2>2. PlansInv'
        BY <2>1, PlansHereNext DEF FiniteMarket
    <2>3. SerialInv'
        BY NextSerialInv
    <2> QED BY <2>2, <2>3
<1>2. TypeInv /\ TypeInv'
    BY <1>1 DEF PlansInv
<1>3. CASE UNCHANGED vars
    <2>1. PricedOK'
        BY <1>3 DEF PricedOK, WithinUnit, vars, book
    <2>2. Balanced'
        BY <1>3 DEF Balanced, Money, Funds, vars, book, settlementVars
    <2> QED BY <1>1, <2>1, <2>2
<1>4. CASE TradingNext /\ UNCHANGED settlementVars /\ SetsWhole
    <2>1. PricedOK' /\ EvenStep
        BY <1>2, <1>4, TradingEven
    <2>2. UNCHANGED <<settlement_plans, treasury, insurance_fund>>
        BY <1>4, TradingKeeps DEF SerialInv, settlementVars
    <2>3. ASSUME NEW r \in Resolution PROVE Money(r)' = 0
        BY <1>1, <2>1, <2>2, TradingMoney DEF Balanced
    <2> QED BY <1>1, <2>1, <2>3 DEF Balanced
<1>5. CASE SettlementNext /\ UNCHANGED tradingVars
    <2>1. \A r \in Resolution : Money(r)' = 0
        BY <1>1, <1>5, SettlementMoney
    <2>2. \A id \in DOMAIN limit_orders' :
              id \in DOMAIN limit_orders /\ limit_orders'[id] = limit_orders[id]
        <3>1. CASE UNCHANGED limit_orders
            BY <3>1
        <3>2. ASSUME NEW s \in SeriesId, Advances(s) PROVE UNCHANGED limit_orders
            BY <3>2 DEF Advances
        <3>3. ASSUME NEW s \in SeriesId, NEW input \in Inputs[s], SettleSeries(s, input)
              PROVE  limit_orders' = Without(limit_orders, OrdersOf(s))
            BY <3>3 DEF SettleSeries
        <3>4. BookAlone => UNCHANGED limit_orders
            BY DEF BookAlone, book
        <3> QED BY <1>2, <1>5, <3>1, <3>2, <3>3, <3>4, SettlementKinds DEF Without, Restrict
    <2>3. PricedOK'
        BY <2>2 DEF PricedOK, WithinUnit
    <2> QED BY <1>1, <2>1, <2>3 DEF Balanced
<1>6. CASE Upgrade
    <2>1. UNCHANGED <<cash_balances, positions, limit_orders, settlement_plans, treasury, insurance_fund>>
        BY <1>6 DEF Upgrade, book
    <2>2. PricedOK'
        BY <2>1 DEF PricedOK, WithinUnit
    <2>3. Balanced'
        BY <2>1 DEF Balanced, Money, Funds
    <2> QED BY <1>1, <2>2, <2>3
<1> QED BY <1>3, <1>4, <1>5, <1>6 DEF Next

LEMMA InitMoney ==
    ASSUME FiniteMarket, SoundContracts, NoAwaits, SettledLegacy, Init
    PROVE  MoneyInv
<1>1. SerialInv /\ PlansInv
    BY InitSerialInv, InitUse
<1>2. DOMAIN positions = {} /\ DOMAIN limit_orders = {}
    BY DEF Init, BookInit, EmptyMap
<1>3. PricedOK
    BY <1>2 DEF PricedOK
<1>4. Cash(cash_balances) = 0
    <2>1. \A u \in User : cash_balances[u] = 0
        BY DEF Init, BookInit
    <2> QED BY <2>1, SumZero DEF Cash, FiniteMarket
<1>5. Funds = 0
    BY DEF Funds, Init, SettlementInit
<1>6. ASSUME NEW s \in DOMAIN settlement_plans PROVE Left(settlement_plans[s]) = 0
    <2> DEFINE plan == settlement_plans[s]
    <2>1. plan.status = "Finalised"
        BY <1>6 DEF SettledLegacy, Init, SettlementInit
    <2>2. PlanOK(plan) /\ PlanTyped(plan)
        BY <1>1, <1>6 DEF PlansInv, TypeInv, PlanInv, PlansOK, HasPlans
    <2> HIDE DEF plan
    <2>3. plan.cursor = Len(plan.positions) /\ Len(plan.positions) \in Nat
        BY <2>1, <2>2 DEF PlanOK
    <2>4. Rest(plan) = {}
        BY <2>3 DEF Rest
    <2>5. Cashflows(plan, Rest(plan)) = 0
        BY <2>4, SumEmpty DEF Cashflows
    <2>6. Left(plan) = 0
        BY <2>1, <2>5 DEF Left
    <2> QED BY <2>6 DEF plan
<1>7. ASSUME NEW s \in SeriesId, NEW input PROVE OwedIn(positions, settlement_plans, s, input) = 0
    <2>1. KeysIn(positions, s) = {}
        BY <1>2 DEF KeysIn
    <2>2. WorthSum(positions, s, input) = 0
        BY <2>1, SumEmpty DEF WorthSum
    <2> QED BY <1>6, <2>2 DEF OwedIn
<1>8. ASSUME NEW r \in Resolution PROVE Money(r) = 0
    <2> DEFINE f == Owes(positions, settlement_plans, r)
    <2>1. \A s \in SeriesId : f[s] = 0
        BY <1>7 DEF Owes
    <2> HIDE DEF f
    <2>2. SumOver(f, SeriesId) = 0
        BY <2>1, SumZero DEF FiniteMarket
    <2> QED BY <1>4, <1>5, <2>2 DEF Money, f
<1> QED BY <1>1, <1>3, <1>8 DEF MoneyInv, Balanced

(* The sum in Conserved is Money. *)
LEMMA MoneyIs ==
    ASSUME FiniteMarket, SoundContracts, PlansInv, Balanced
    PROVE  Conserved
<1> SUFFICES ASSUME NEW r \in Resolution
             PROVE  MapThenSumSet(LAMBDA u : cash_balances[u], User) + treasury + insurance_fund
                      + MapThenSumSet(LAMBDA s : Owed(s, r[s]), SeriesId) = 0
    BY DEF Conserved
<1> DEFINE f == Owes(positions, settlement_plans, r)
           W(s) == Owed(s, r[s])
           Fold(g) == g = [t \in SUBSET SeriesId |->
                              IF t = {} THEN 0 ELSE W(Pick(t)) + g[t \ {Pick(t)}]]
           owed == MapThenSumSet(LAMBDA s : Owed(s, r[s]), SeriesId)
           cash == MapThenSumSet(LAMBDA u : cash_balances[u], User)
<1>1. \A g : Fold(g) <=> IsFold(g, f, SeriesId)
    <2>1. \A t \in SUBSET SeriesId : t # {} => f[Pick(t)] = W(Pick(t))
        BY OwedIs, PickIn DEF Owes
    <2> HIDE DEF f, W
    <2> QED BY <2>1 DEF IsFold
<1>2. (CHOOSE g : Fold(g)) = (CHOOSE g : IsFold(g, f, SeriesId))
    <2> HIDE DEF Fold, f
    <2> QED BY <1>1
<1>3. owed = (CHOOSE g : Fold(g))[SeriesId]
    BY DEF MapThenSumSet, MapThenFoldSet, Pick
<1>4. cash = Cash(cash_balances)
    BY DEF Cash, SumOver
<1>5. treasury \in Int /\ insurance_fund \in Int /\ Cash(cash_balances) + Funds + SumOver(f, SeriesId) = 0
    BY DEF Balanced, Money, PlansInv, TypeInv, FundsTyped
<1> HIDE DEF owed, cash, Fold, f, W
<1>6. owed = SumOver(f, SeriesId)
    BY <1>2, <1>3, SumIsFold
<1>7. cash + (treasury + insurance_fund) + owed = 0
    BY <1>4, <1>5, <1>6 DEF Funds
<1>8. cash \in Int /\ owed \in Int
    <2>1. cash \in Int
        BY <1>4, CashType DEF FiniteMarket, PlansInv, TypeInv, BookTyped, BalancesTyped
    <2>2. \A s \in SeriesId : f[s] \in Int
        <3>1. HasQuantities(positions)
            BY Quantities DEF PlansInv, TypeInv, BookOK, PlanInv
        <3>2. \A s \in DOMAIN settlement_plans : PlanTyped(settlement_plans[s])
            BY DEF PlansInv, HasPlans
        <3>3. \A s \in SeriesId : OwedIn(positions, settlement_plans, s, r[s]) \in Int
            BY <3>1, <3>2, OwedType DEF Resolution
        <3> QED BY <3>3 DEF f, Owes
    <2>3. SumOver(f, SeriesId) \in Int
        BY <2>2, SumType DEF FiniteMarket
    <2> QED BY <1>6, <2>1, <2>3
<1> SUFFICES cash + treasury + insurance_fund + owed = 0
    BY DEF cash, owed
<1> QED BY <1>5, <1>7, <1>8

(* Trades, fills, minted and redeemed sets, the chunks of settlements and
   upgrades neither make nor lose money, when one unit backs every contract
   and is the most one may cost, complete sets are whole and divide evenly,
   and no position comes from another canister. *)
THEOREM MoneyConserved ==
    ASSUME FiniteMarket, SoundContracts, PricedWithinUnit, EvenSets, NoAwaits, SettledLegacy
    PROVE  Spec /\ [][SetsWhole /\ NothingTransferred]_vars => []Conserved
<1>1. Init => MoneyInv
    BY InitMoney
<1>2. MoneyInv /\ [Next]_vars /\ [SetsWhole /\ NothingTransferred]_vars => MoneyInv'
    BY NextMoney DEF NothingTransferred, vars, tradingVars
<1>3. MoneyInv => Conserved
    BY MoneyIs DEF MoneyInv
<1> QED BY <1>1, <1>2, <1>3, PTL DEF Spec

-----------------------------------------------------------------------------
(* Exchange implements SettlementPromise.  First what the promise sees of
   trading: positions of one open series, and cash only with them. *)

Exposed(pos, s) == Restrict(pos, KeysIn(pos, s))

Touches(s) ==
    \A k : k[2] # s => /\ k \in DOMAIN positions' <=> k \in DOMAIN positions
                       /\ k \in DOMAIN positions => positions'[k] = positions[k]

TradesIn(s) ==
    /\ Touches(s)
    /\ Exposed(positions', s) = Exposed(positions, s) => UNCHANGED cash_balances

LEMMA QuietTouches ==
    ASSUME NEW s, UNCHANGED <<cash_balances, positions>> PROVE TradesIn(s)
BY DEF TradesIn, Touches

LEMMA ExposedAt ==
    ASSUME NEW pos, NEW new, NEW k, NEW s, k[2] = s, k \in DOMAIN new,
           Exposed(new, s) = Exposed(pos, s)
    PROVE  k \in DOMAIN pos /\ new[k] = pos[k]
<1>1. k \in KeysIn(new, s)
    BY DEF KeysIn
<1>2. DOMAIN Exposed(new, s) = KeysIn(new, s) /\ DOMAIN Exposed(pos, s) = KeysIn(pos, s)
    BY DEF Exposed, Restrict
<1>3. k \in KeysIn(pos, s)
    BY <1>1, <1>2
<1>4. Exposed(new, s)[k] = new[k] /\ Exposed(pos, s)[k] = pos[k]
    BY <1>1, <1>3 DEF Exposed, Restrict
<1> QED BY <1>3, <1>4 DEF KeysIn

LEMMA TradeTouches ==
    ASSUME BookOK, NEW t, TradeTyped(t), t.qty > 0, t.buyer # t.seller, ApplyTrade(t)
    PROVE  TradesIn(t.series)
<1> DEFINE b == BuyerLeg(t)
           c == SellerLeg(t)
           s == t.series
<1>1. /\ b.key = <<t.buyer, s, t.outcome>> /\ c.key = <<t.seller, s, t.outcome>>
      /\ b.net_qty = PositionOf(b.key).net_qty + t.qty
    BY DEF BuyerLeg, SellerLeg, Leg
<1>2. positions' = Put(Put(positions, b.key, AsPosition(b)), c.key, AsPosition(c))
    BY DEF ApplyTrade
<1>3. b.key # c.key /\ b.key[2] = s /\ c.key[2] = s
    BY <1>1
<1> HIDE DEF b, c
<1>4. Touches(s)
    BY <1>2, <1>3 DEF Touches, Put
<1>5. b.key \in DOMAIN positions' /\ positions'[b.key] = AsPosition(b)
    BY <1>2, <1>3 DEF Put
<1>6. Exposed(positions', s) # Exposed(positions, s)
    <2> SUFFICES ASSUME Exposed(positions', s) = Exposed(positions, s) PROVE FALSE
        OBVIOUS
    <2>0. \A pos, new, k : /\ k[2] = s /\ k \in DOMAIN new
                           /\ Exposed(new, s) = Exposed(pos, s)
                           => k \in DOMAIN pos /\ new[k] = pos[k]
        BY ExposedAt
    <2>1. b.key \in DOMAIN positions /\ positions[b.key] = AsPosition(b)
        BY <1>3, <1>5, <2>0
    <2>2. PositionOf(b.key).net_qty = b.net_qty
        BY <2>1 DEF PositionOf, AsPosition
    <2>3. PositionOf(b.key).net_qty \in Int
        BY <2>1 DEF PositionOf, BookOK, BookTyped, PositionsTyped, Position
    <2>4. t.qty \in Int
        BY DEF TradeTyped
    <2> QED BY <1>1, <2>2, <2>3, <2>4
<1> QED BY <1>4, <1>6 DEF TradesIn

LEMMA PerformTouches ==
    ASSUME BookOK, NEW r \in Request, Receivable(r), NEW seen, Perform(r, seen)
    PROVE  TradesIn(SeriesOf(r))
<1>1. Submitted(r) /\ SeriesOf(r) \in SeriesId
    BY ReceivedTyped
<1>2. UNCHANGED tradeState => TradesIn(SeriesOf(r))
    BY QuietTouches DEF tradeState, book
<1>3. CASE r.op = "limit"
    <2>1. UNCHANGED <<cash_balances, positions>>
        BY <1>3 DEF Perform, PlaceOrder, tradeState, book
    <2> QED BY <2>1, QuietTouches
<1>4. CASE r.op = "market"
    <2>1. FillOrder(r, seen) /\ SeriesOf(r) = limit_orders[r.order].series
        BY <1>4 DEF Perform, SeriesOf
    <2>2. CASE ~FillAllowed(r, seen)
        BY <1>2, <2>1, <2>2 DEF FillOrder
    <2>3. CASE FillAllowed(r, seen)
        <3> DEFINE order == limit_orders[r.order]
                   t == FillTrade(r, order)
        <3>1. r.qty # 0 /\ r.order \in DOMAIN limit_orders /\ TradeAllowed(t) /\ ApplyTrade(t)
              /\ RemainingBlocked(r, order) <= order.blocked
            BY <2>1, <2>3 DEF FillOrder, FillAllowed
        <3>2. OrderOK(order)
            BY <3>1 DEF BookOK, BookTyped, OrdersTyped
        <3>3. /\ FillQty(r, order) \in Nat /\ RemainingBlocked(r, order) \in Nat
            BY <1>1, <1>4, <3>1, <3>2, FillParts
        <3>4. /\ order.creator \in User /\ order.series \in SeriesId /\ order.outcome \in Outcome
              /\ order.price \in Price /\ order.blocked \in Nat /\ order.qty \in Nat \ {0}
            BY <3>2 DEF OrderOK, Order
        <3>5. r.user \in User /\ r.trade \in TradeId /\ r.qty \in Nat \cup {None}
            BY <1>1, <1>4, TradingAssumption DEF Submitted, Requests
        <3> HIDE DEF order
        <3>6. FillQty(r, order) > 0
            BY <3>1, <3>4, <3>5 DEF FillQty
        <3>7. TradeTyped(t) /\ t.series = order.series /\ t.qty > 0
            BY <3>3, <3>4, <3>5, <3>6 DEF TradeTyped, FillTrade
        <3>8. t.buyer # t.seller
            BY <3>1 DEF TradeAllowed
        <3> HIDE DEF t
        <3>9. TradesIn(t.series)
            BY <3>1, <3>7, <3>8, TradeTouches
        <3> QED BY <2>1, <3>7, <3>9 DEF order
    <2> QED BY <2>2, <2>3
<1>5. CASE r.op = "matched"
    <2> DEFINE t == [series |-> r.series, outcome |-> r.outcome, trade |-> r.trade,
                     buyer |-> r.buyer, seller |-> r.seller, qty |-> r.qty, price |-> r.price,
                     b_unblock |-> r.b_unblock, s_unblock |-> r.s_unblock]
    <2>1. MatchedTrade(r) /\ SeriesOf(r) = r.series /\ r.qty > 0
        BY <1>5 DEF Perform, SeriesOf, Receivable
    <2>2. CASE ~TradeAllowed(t)
        BY <1>2, <2>1, <2>2 DEF MatchedTrade
    <2>3. CASE TradeAllowed(t)
        <3>1. ApplyTrade(t) /\ t.buyer # t.seller
            BY <2>1, <2>3 DEF MatchedTrade, TradeAllowed
        <3>2. /\ r.series \in SeriesId /\ r.outcome \in Outcome /\ r.trade \in TradeId
              /\ r.buyer \in User /\ r.seller \in User /\ r.qty \in Nat /\ r.price \in Price
              /\ r.b_unblock \in Nat /\ r.s_unblock \in Nat
            BY <1>1, <1>5, TradingAssumption DEF Submitted, Requests
        <3>3. TradeTyped(t) /\ t.series = r.series /\ t.qty > 0
            BY <2>1, <3>2 DEF TradeTyped
        <3> HIDE DEF t
        <3>4. TradesIn(t.series)
            BY <3>1, <3>3, TradeTouches
        <3> QED BY <2>1, <3>3, <3>4
    <2> QED BY <2>2, <2>3
<1>6. CASE r.op \in {"mint", "redeem"}
    <2>1. MintSet(r) \/ RedeemSet(r)
        BY <1>6 DEF Perform
    <2>2. SeriesOf(r) = r.series
        BY <1>6 DEF SeriesOf
    <2>3. \A k \in SetKeys(r) : k[2] = r.series
        BY DEF SetKeys
    <2>4. CASE UNCHANGED tradeState
        BY <1>2, <2>4
    <2>5. CASE ~UNCHANGED tradeState
        <3>1. UNCHANGED cash_balances
            BY <2>1, <2>5 DEF MintSet, RedeemSet
        <3>2. PICK D, new : /\ D = DOMAIN positions \cup SetKeys(r) \/ D = DOMAIN positions
                            /\ positions' = [k \in D |-> IF k \in SetKeys(r) THEN new[k]
                                                         ELSE positions[k]]
            <4>1. CASE MintSet(r)
                <5> DEFINE new == [k \in SetKeys(r) |->
                                      [net_qty |-> PositionOf(k).net_qty + r.qty,
                                       margin |-> PositionOf(k).margin
                                          + (SetCost(r) \div Cardinality(SetKeys(r)))]]
                <5>1. positions' = [k \in DOMAIN positions \cup SetKeys(r) |->
                                       IF k \in SetKeys(r) THEN new[k] ELSE positions[k]]
                    BY <2>5, <4>1 DEF MintSet
                <5> HIDE DEF new
                <5> QED BY <5>1
            <4>2. CASE RedeemSet(r)
                <5> DEFINE new == [k \in SetKeys(r) |->
                                      [net_qty |-> positions[k].net_qty - r.qty,
                                       margin |-> positions[k].margin - Redeemed(r, k)]]
                <5>1. positions' = [k \in DOMAIN positions |->
                                       IF k \in SetKeys(r) THEN new[k] ELSE positions[k]]
                    BY <2>5, <4>2 DEF RedeemSet
                <5> HIDE DEF new
                <5> QED BY <5>1
            <4> QED BY <2>1, <4>1, <4>2
        <3>3. Touches(r.series)
            BY <2>3, <3>2 DEF Touches
        <3> QED BY <2>2, <3>1, <3>3 DEF TradesIn
    <2> QED BY <2>4, <2>5
<1>7. CASE r.op = "accept"
    <2> DEFINE k == <<r.user, r.series, r.outcome>>
    <2>1. AcceptTransfer(r) /\ SeriesOf(r) = r.series
        BY <1>7 DEF Perform, SeriesOf
    <2>2. UNCHANGED cash_balances /\ \E new : positions' = Put(positions, k, new)
        BY <2>1 DEF AcceptTransfer
    <2>3. k[2] = r.series
        OBVIOUS
    <2> HIDE DEF k
    <2>4. Touches(r.series)
        BY <2>2, <2>3 DEF Touches, Put
    <2> QED BY <2>1, <2>2, <2>4 DEF TradesIn
<1>8. r.op \in {"limit", "market", "matched", "mint", "redeem", "accept"}
    BY TradingAssumption DEF Requests
<1> QED BY <1>3, <1>4, <1>5, <1>6, <1>7, <1>8

LEMMA TradingTrades ==
    ASSUME NoAwaits, SerialInv, TypeInv, TradingNext
    PROVE  \/ UNCHANGED <<cash_balances, positions>>
           \/ \E s \in SeriesId : NotSettled(s) /\ TradesIn(s)
<1> DEFINE Goal == \/ UNCHANGED <<cash_balances, positions>>
                   \/ \E s \in SeriesId : NotSettled(s) /\ TradesIn(s)
<1>1. BookOK
    BY DEF TypeInv, BookOK, PlanInv
<1>2. UNCHANGED tradeState => Goal
    BY DEF tradeState, book
<1>3. ASSUME NEW c \in CallId, NEW r \in Request, Submit(c, r) PROVE Goal
    <2>1. /\ NotSettled(SeriesOf(r)) /\ Receivable(r)
          /\ UNCHANGED tradeState \/ \E seen : Perform(r, seen)
        BY <1>3, SubmitSerial DEF Submit
    <2>2. SeriesOf(r) \in SeriesId
        BY <1>1, <2>1, ReceivedTyped
    <2>3. ASSUME NEW seen, Perform(r, seen) PROVE TradesIn(SeriesOf(r))
        BY <1>1, <2>1, <2>3, PerformTouches
    <2> QED BY <1>2, <2>1, <2>2, <2>3
<1>4. ASSUME NEW c \in CallId, RegistryAnswers(c) \/ AccessGranted(c) \/ RegistryRefuses(c)
      PROVE  FALSE
    BY <1>4 DEF RegistryAnswers, AccessGranted, RegistryRefuses, SerialInv, Idle
<1>5. ASSUME NEW id, CancelOrder(id) PROVE Goal
    BY <1>5 DEF CancelOrder
<1>6. ASSUME NEW id \in TransferId, NEW k \in DOMAIN positions, FreezePosition(id, k) PROVE Goal
    <2>1. k \in PositionKey
        BY DEF TypeInv, BookTyped, PositionsTyped
    <2>2. k[2] \in SeriesId
        BY <2>1 DEF PositionKey
    <2>3. NotSettled(k[2])
        BY DEF SerialInv, SettledHasNoExposure, PositionsOf, NotSettled
    <2>4. UNCHANGED cash_balances /\ positions' = Without(positions, {k})
        BY <1>6 DEF FreezePosition
    <2>5. Touches(k[2])
        BY <2>4 DEF Touches, Without, Restrict
    <2> QED BY <2>2, <2>3, <2>4, <2>5 DEF TradesIn
<1>7. ASSUME NEW s, WindowMoves(s) PROVE Goal
    BY <1>2, <1>7 DEF WindowMoves
<1> HIDE DEF Goal
<1>8. Goal
    BY <1>3, <1>4, <1>5, <1>6, <1>7 DEF TradingNext
<1> QED BY <1>8 DEF Goal

-----------------------------------------------------------------------------
(* What plans in flight still bring a user and the funds. *)

CashRest(plan, u) == SumFor(plan, Rest(plan), u, "cashflow")

CashRests(plans, u) == [s \in DOMAIN plans |-> CashRest(plans[s], u)]
CashSum(plans, u) == SumOver(CashRests(plans, u), OpenPlans(plans))
CashAt(plans, u, s) == IF s \in OpenPlans(plans) THEN CashRest(plans[s], u) ELSE 0

FeeRests(plans) == [s \in DOMAIN plans |-> FeesOf(plans[s])]
FeeSum(plans) == SumOver(FeeRests(plans), OpenPlans(plans))
FeesAt(plans, s) == IF s \in OpenPlans(plans) THEN FeesOf(plans[s]) ELSE 0

LEMMA CashSplits ==
    ASSUME NEW plan, PlanTyped(plan), NEW u
    PROVE  /\ SumFor(plan, Chunk(plan), u, "cashflow") \in Int
           /\ CashRest(plan, u) \in Int /\ CashRest(Advanced(plan), u) \in Int
           /\ CashRest(plan, u)
                = SumFor(plan, Chunk(plan), u, "cashflow") + CashRest(Advanced(plan), u)
           /\ Completes(plan) => CashRest(Advanced(plan), u) = 0
<1> DEFINE new == Advanced(plan)
           n == Len(plan.positions)
           I == Rest(plan)
           C == Chunk(plan)
           R == Rest(new)
           f == Brings(plan, "cashflow")
<1>1. new.positions = plan.positions /\ R = (ChunkEnd(plan) + 1)..n
    BY AdvancedTyped
<1>2. /\ C \in SUBSET (1..n) /\ R \in SUBSET (1..n) /\ I \in SUBSET (1..n)
      /\ I = C \cup R /\ C \cap R = {}
    BY RestIn
<1>3. Completes(plan) => R = {}
    <2>1. n \in Nat
        BY SnapshotType
    <2> QED BY <1>1, <2>1 DEF Completes
<1>4. SumFor(new, R, u, "cashflow") = SumFor(plan, R, u, "cashflow")
    BY <1>1 DEF SumFor
<1> HIDE DEF new, n, I, C, R, f
<1>5. ASSUME NEW J \in SUBSET (1..n)
      PROVE  /\ SumFor(plan, J, u, "cashflow") \in Int
             /\ SumFor(plan, J, u, "cashflow") = SumOver(f, Of(plan, J, u))
             /\ IsFiniteSet(Of(plan, J, u)) /\ \A i \in Of(plan, J, u) : f[i] \in Int
    BY SumForType, BringsType, SumForIs DEF n, f
<1>6. /\ SumFor(plan, C, u, "cashflow") \in Int /\ SumFor(plan, R, u, "cashflow") \in Int
      /\ SumFor(plan, I, u, "cashflow") \in Int
      /\ SumFor(plan, C, u, "cashflow") = SumOver(f, Of(plan, C, u))
      /\ SumFor(plan, R, u, "cashflow") = SumOver(f, Of(plan, R, u))
      /\ SumFor(plan, I, u, "cashflow") = SumOver(f, Of(plan, I, u))
    BY <1>2, <1>5
<1>7. /\ Of(plan, I, u) = Of(plan, C, u) \cup Of(plan, R, u)
      /\ Of(plan, C, u) \cap Of(plan, R, u) = {}
      /\ R = {} => Of(plan, R, u) = {}
    BY <1>2 DEF Of
<1>8. SumOver(f, Of(plan, I, u)) = SumOver(f, Of(plan, C, u)) + SumOver(f, Of(plan, R, u))
    <2> DEFINE c == Of(plan, C, u)
               r == Of(plan, R, u)
    <2>1. /\ IsFiniteSet(c) /\ \A i \in c : f[i] \in Int
          /\ IsFiniteSet(r) /\ \A i \in r : f[i] \in Int
        BY <1>2, <1>5
    <2>2. Of(plan, I, u) = c \cup r /\ c \cap r = {}
        BY <1>7
    <2> HIDE DEF c, r
    <2>3. SumOver(f, c \cup r) = SumOver(f, c) + SumOver(f, r)
        BY <2>1, <2>2, SumUnion
    <2> QED BY <2>2, <2>3 DEF c, r
<1>9. Completes(plan) => SumOver(f, Of(plan, R, u)) = 0
    BY <1>3, <1>7, SumEmpty
<1>10. CashRest(plan, u) = SumFor(plan, I, u, "cashflow")
       /\ CashRest(new, u) = SumFor(plan, R, u, "cashflow")
    BY <1>4 DEF CashRest, I, R
<1> QED BY <1>6, <1>8, <1>9, <1>10 DEF C, new

LEMMA CashTerms ==
    ASSUME NEW plans, HasPlans(plans), NEW u
    PROVE  /\ IsFiniteSet(OpenPlans(plans))
           /\ \A s \in OpenPlans(plans) : CashRests(plans, u)[s] \in Int
           /\ \A s \in OpenPlans(plans) : FeeRests(plans)[s] \in Int
           /\ \A s : Term(CashRests(plans, u), OpenPlans(plans), s) = CashAt(plans, u, s)
           /\ \A s : Term(FeeRests(plans), OpenPlans(plans), s) = FeesAt(plans, s)
           /\ \A s : CashAt(plans, u, s) \in Int /\ FeesAt(plans, s) \in Int
           /\ CashSum(plans, u) \in Int /\ FeeSum(plans) \in Int
<1>1. IsFiniteSet(OpenPlans(plans)) /\ OpenPlans(plans) \subseteq DOMAIN plans
    BY DEF HasPlans, OpenPlans
<1>2. \A s \in DOMAIN plans : CashRest(plans[s], u) \in Int /\ FeesOf(plans[s]) \in Int
    BY CashSplits, LeftType DEF HasPlans
<1>3. /\ \A s \in OpenPlans(plans) : CashRests(plans, u)[s] \in Int
      /\ \A s \in OpenPlans(plans) : FeeRests(plans)[s] \in Int
    BY <1>1, <1>2 DEF CashRests, FeeRests
<1>4. /\ \A s : Term(CashRests(plans, u), OpenPlans(plans), s) = CashAt(plans, u, s)
      /\ \A s : Term(FeeRests(plans), OpenPlans(plans), s) = FeesAt(plans, s)
    BY <1>1 DEF Term, CashRests, FeeRests, CashAt, FeesAt
<1>5. \A s : CashAt(plans, u, s) \in Int /\ FeesAt(plans, s) \in Int
    BY <1>1, <1>2 DEF CashAt, FeesAt
<1>6. CashSum(plans, u) \in Int /\ FeeSum(plans) \in Int
    BY <1>1, <1>3, SumType DEF CashSum, FeeSum
<1> QED BY <1>1, <1>3, <1>4, <1>5, <1>6

(* One plan changes. *)
LEMMA DueMoves ==
    ASSUME NEW plans, NEW new, HasPlans(plans), HasPlans(new), NEW u, NEW s,
           \A x : x # s => /\ x \in DOMAIN new <=> x \in DOMAIN plans
                           /\ x \in DOMAIN plans => new[x] = plans[x]
    PROVE  /\ CashSum(new, u) = CashSum(plans, u) + (CashAt(new, u, s) - CashAt(plans, u, s))
           /\ FeeSum(new) = FeeSum(plans) + (FeesAt(new, s) - FeesAt(plans, s))
<1> DEFINE f == CashRests(plans, u)
           h == CashRests(new, u)
           p == FeeRests(plans)
           q == FeeRests(new)
           R == OpenPlans(plans)
           T == OpenPlans(new)
<1>1. /\ IsFiniteSet(R) /\ \A x \in R : f[x] \in Int /\ p[x] \in Int
      /\ IsFiniteSet(T) /\ \A x \in T : h[x] \in Int /\ q[x] \in Int
      /\ \A x : Term(f, R, x) = CashAt(plans, u, x) /\ Term(p, R, x) = FeesAt(plans, x)
      /\ \A x : Term(h, T, x) = CashAt(new, u, x) /\ Term(q, T, x) = FeesAt(new, x)
    BY CashTerms
<1>2. \A x : x # s => CashAt(new, u, x) = CashAt(plans, u, x) /\ FeesAt(new, x) = FeesAt(plans, x)
    BY DEF CashAt, FeesAt, OpenPlans
<1>3. /\ CashSum(plans, u) = SumOver(f, R) /\ FeeSum(plans) = SumOver(p, R)
      /\ CashSum(new, u) = SumOver(h, T) /\ FeeSum(new) = SumOver(q, T)
    BY DEF CashSum, FeeSum
<1> HIDE DEF f, h, p, q, R, T
<1>4. SumOver(h, T) = SumOver(f, R) + (Term(h, T, s) - Term(f, R, s))
    <2>1. \A x \in (R \cup T) \ {s} : Term(h, T, x) = Term(f, R, x)
        BY <1>1, <1>2
    <2> QED BY <1>1, <2>1, SumMoves
<1>5. SumOver(q, T) = SumOver(p, R) + (Term(q, T, s) - Term(p, R, s))
    <2>1. \A x \in (R \cup T) \ {s} : Term(q, T, x) = Term(p, R, x)
        BY <1>1, <1>2
    <2> QED BY <1>1, <2>1, SumMoves
<1> QED BY <1>1, <1>3, <1>4, <1>5

(* A chunk turns what a plan still brings into cash, and the last one its
   fees into the funds'. *)
LEMMA AdvanceWealth ==
    ASSUME PlansInv, PlansInv', NEW s \in SeriesId, NEW plan, PlanTyped(plan),
           plan.status # "Finalised", NEW released, NEW armed, Advance(s, plan, released, armed)
    PROVE  /\ DOMAIN settlement_plans' = DOMAIN settlement_plans \cup {s}
           /\ \A u \in User :
                 cash_balances'[u] + CashSum(settlement_plans', u)
                   = cash_balances[u] + CashSum(settlement_plans, u)
                       + (CashRest(plan, u) - CashAt(settlement_plans, u, s))
           /\ Funds' + FeeSum(settlement_plans')
                = Funds + FeeSum(settlement_plans)
                    + (FeesOf(plan) - FeesAt(settlement_plans, s))
<1> DEFINE new == Advanced(plan)
<1>1. settlement_plans' = Put(settlement_plans, s, new)
    BY DEF Advance, Advanced, Moved
<1>2. PlanTyped(new) /\ (Completes(plan) => new.status = "Finalised")
      /\ (~Completes(plan) => new.status = "Executing") /\ FeesOf(new) = FeesOf(plan)
    BY AdvancedTyped, AdvancedFees
<1> HIDE DEF new
<1>3. /\ DOMAIN settlement_plans' = DOMAIN settlement_plans \cup {s}
      /\ settlement_plans'[s] = new
      /\ \A x : x # s => /\ x \in DOMAIN settlement_plans' <=> x \in DOMAIN settlement_plans
                         /\ x \in DOMAIN settlement_plans =>
                               settlement_plans'[x] = settlement_plans[x]
    BY <1>1 DEF Put
<1>4. HasPlans(settlement_plans) /\ HasPlans(settlement_plans')
    BY DEF PlansInv
<1>5. s \in OpenPlans(settlement_plans') <=> ~Completes(plan)
    BY <1>2, <1>3 DEF OpenPlans
<1>6. ASSUME NEW u
      PROVE  /\ CashSum(settlement_plans', u)
                  = CashSum(settlement_plans, u)
                      + (CashAt(settlement_plans', u, s) - CashAt(settlement_plans, u, s))
             /\ FeeSum(settlement_plans')
                  = FeeSum(settlement_plans)
                      + (FeesAt(settlement_plans', s) - FeesAt(settlement_plans, s))
    <2> DEFINE p == settlement_plans
               q == settlement_plans'
    <2>1. /\ HasPlans(p) /\ HasPlans(q)
          /\ \A x : x # s => /\ x \in DOMAIN q <=> x \in DOMAIN p
                             /\ x \in DOMAIN p => q[x] = p[x]
        BY <1>3, <1>4
    <2> HIDE DEF p, q
    <2>2. /\ CashSum(q, u) = CashSum(p, u) + (CashAt(q, u, s) - CashAt(p, u, s))
          /\ FeeSum(q) = FeeSum(p) + (FeesAt(q, s) - FeesAt(p, s))
        BY <2>1, DueMoves
    <2> QED BY <2>2 DEF p, q
<1>7. \A u : /\ CashSum(settlement_plans, u) \in Int /\ CashAt(settlement_plans, u, s) \in Int
             /\ FeeSum(settlement_plans) \in Int /\ FeesAt(settlement_plans, s) \in Int
    BY <1>4, CashTerms
<1>8. ASSUME NEW u \in User
      PROVE  cash_balances'[u] + CashSum(settlement_plans', u)
               = cash_balances[u] + CashSum(settlement_plans, u)
                   + (CashRest(plan, u) - CashAt(settlement_plans, u, s))
    <2> DEFINE c == SumFor(plan, Chunk(plan), u, "cashflow")
    <2>1. c \in Int /\ CashRest(plan, u) \in Int /\ CashRest(new, u) \in Int
          /\ CashRest(plan, u) = c + CashRest(new, u) /\ (Completes(plan) => CashRest(new, u) = 0)
        BY CashSplits DEF new
    <2>2. cash_balances'[u] = cash_balances[u] + c
        BY DEF Advance
    <2>3. cash_balances[u] \in Int
        BY DEF PlansInv, TypeInv, BookTyped, BalancesTyped
    <2>4. CashAt(settlement_plans', u, s) = CashRest(new, u)
        BY <1>3, <1>5, <2>1 DEF CashAt
    <2> HIDE DEF c
    <2>5. CashSum(settlement_plans', u)
            = CashSum(settlement_plans, u) + (CashRest(new, u) - CashAt(settlement_plans, u, s))
        BY <1>6, <2>4
    <2>6. CashSum(settlement_plans, u) \in Int /\ CashAt(settlement_plans, u, s) \in Int
        BY <1>7
    <2> QED BY <2>1, <2>2, <2>3, <2>5, <2>6
<1>9. Funds' + FeeSum(settlement_plans')
        = Funds + FeeSum(settlement_plans) + (FeesOf(plan) - FeesAt(settlement_plans, s))
    <2>1. treasury \in Nat /\ insurance_fund \in Nat /\ plan.fee \in Nat /\ plan.insurance_fee \in Nat
        BY DEF PlansInv, TypeInv, FundsTyped, PlanTyped, SettlementPlan
    <2>2. Funds' = Funds + (IF Completes(plan) THEN FeesOf(plan) ELSE 0)
        BY <2>1 DEF Advance, Funds, FeesOf
    <2>3. FeesAt(settlement_plans', s) = IF Completes(plan) THEN 0 ELSE FeesOf(plan)
        BY <1>2, <1>3, <1>5 DEF FeesAt
    <2>4. Funds \in Int /\ FeesOf(plan) \in Int
        BY <2>1 DEF Funds, FeesOf
    <2>5. FeeSum(settlement_plans) \in Int /\ FeesAt(settlement_plans, s) \in Int
        BY <1>7
    <2>6. FeeSum(settlement_plans') = FeeSum(settlement_plans)
                      + (FeesAt(settlement_plans', s) - FeesAt(settlement_plans, s))
        BY <1>6
    <2> QED BY <2>2, <2>3, <2>4, <2>5, <2>6
<1> QED BY <1>3, <1>8, <1>9

-----------------------------------------------------------------------------
(* The mapping, in sums. *)

LEMMA MappedCash ==
    ASSUME NEW u
    PROVE  MapThenSumSet(LAMBDA s : SumFor(settlement_plans[s], Unapplied(s), u, "cashflow"), InFlight)
             = CashSum(settlement_plans, u)
<1> DEFINE S == OpenPlans(settlement_plans)
           f == CashRests(settlement_plans, u)
           Fold(g) == g = [t \in SUBSET S |->
                              IF t = {} THEN 0
                              ELSE SumFor(settlement_plans[Pick(t)], Unapplied(Pick(t)), u, "cashflow")
                                     + g[t \ {Pick(t)}]]
           sum == MapThenSumSet(LAMBDA s : SumFor(settlement_plans[s], Unapplied(s), u, "cashflow"),
                                InFlight)
<1>1. InFlight = S
    BY DEF InFlight, Finalised, NotSettled, OpenPlans
<1>2. \A g : Fold(g) <=> IsFold(g, f, S)
    <2>1. \A t \in SUBSET S : t # {} =>
              f[Pick(t)] = SumFor(settlement_plans[Pick(t)], Unapplied(Pick(t)), u, "cashflow")
        BY PickIn DEF CashRests, CashRest, OpenPlans, Unapplied, Rest
    <2> HIDE DEF f, S
    <2> QED BY <2>1 DEF IsFold
<1>3. (CHOOSE g : Fold(g)) = (CHOOSE g : IsFold(g, f, S))
    <2> HIDE DEF Fold, f, S
    <2> QED BY <1>2
<1>4. sum = (CHOOSE g : Fold(g))[S]
    BY <1>1 DEF MapThenSumSet, MapThenFoldSet, Pick
<1> HIDE DEF sum, Fold, f, S
<1>5. sum = SumOver(f, S)
    BY <1>3, <1>4, SumIsFold
<1> QED BY <1>5 DEF sum, f, S, CashSum

LEMMA MappedFees ==
    MapThenSumSet(LAMBDA s : settlement_plans[s].fee + settlement_plans[s].insurance_fee, InFlight)
      = FeeSum(settlement_plans)
<1> DEFINE S == OpenPlans(settlement_plans)
           f == FeeRests(settlement_plans)
           Fold(g) == g = [t \in SUBSET S |->
                              IF t = {} THEN 0
                              ELSE settlement_plans[Pick(t)].fee
                                     + settlement_plans[Pick(t)].insurance_fee
                                     + g[t \ {Pick(t)}]]
           sum == MapThenSumSet(LAMBDA s : settlement_plans[s].fee
                                             + settlement_plans[s].insurance_fee, InFlight)
<1>1. InFlight = S
    BY DEF InFlight, Finalised, NotSettled, OpenPlans
<1>2. \A g : Fold(g) <=> IsFold(g, f, S)
    <2>1. \A t \in SUBSET S : t # {} =>
              f[Pick(t)] = settlement_plans[Pick(t)].fee + settlement_plans[Pick(t)].insurance_fee
        BY PickIn DEF FeeRests, FeesOf, OpenPlans
    <2> HIDE DEF f, S
    <2> QED BY <2>1 DEF IsFold
<1>3. (CHOOSE g : Fold(g)) = (CHOOSE g : IsFold(g, f, S))
    <2> HIDE DEF Fold, f, S
    <2> QED BY <1>2
<1>4. sum = (CHOOSE g : Fold(g))[S]
    BY <1>1 DEF MapThenSumSet, MapThenFoldSet, Pick
<1> HIDE DEF sum, Fold, f, S
<1>5. sum = SumOver(f, S)
    BY <1>3, <1>4, SumIsFold
<1> QED BY <1>5 DEF sum, f, S, FeeSum

Exposure == [s \in SeriesId |-> Exposed(positions, s)]
Wealth == [u \in User |-> cash_balances[u] + CashSum(settlement_plans, u)]
FeeFunds == Funds + FeeSum(settlement_plans)

(* What the owner of a position is due, and the funds. *)
Nets(s, input) == [k \in DOMAIN positions |-> KeyNet(k, positions[k], input)]
FeesFrom(s, input) == [k \in DOMAIN positions |-> KeyFees(k, positions[k], input)]
OwnedIn(s, u) == {k \in PositionsOf(s) : k[1] = u}

LEMMA KeyTerms ==
    ASSUME BookOK, NEW s \in SeriesId, NEW input \in Input, Payable(s, input),
           NEW k \in PositionsOf(s)
    PROVE  /\ k \in DOMAIN positions /\ k[2] = s
           /\ Nets(s, input)[k] = Snapshot(k, input)["cashflow"] /\ Nets(s, input)[k] \in Int
           /\ FeesFrom(s, input)[k]
                = FeeOn(s, input, INSURANCE_BPS)[k] + FeeOn(s, input, PROTOCOL_BPS)[k]
           /\ FeesFrom(s, input)[k] \in Int
<1> DEFINE value == SettlementValue(Listing[s], k[3], positions[k].net_qty, input)
           ins == SettlementFee(value, INSURANCE_BPS)
           prot == SettlementFee(value, PROTOCOL_BPS)
<1>1. k \in DOMAIN positions /\ k[2] = s /\ PositionsOf(s) # {}
    BY DEF PositionsOf
<1>2. positions[k].net_qty \in Int /\ positions[k].margin \in Nat
    BY <1>1 DEF BookOK, BookTyped, PositionsTyped, Position
<1>3. value \in Nat
    BY <1>1, <1>2, ValueType, BookAssumption DEF Payable
<1>4. Snapshot(k, input)["cashflow"] = value - positions[k].margin - ins - prot
    BY <1>1 DEF Snapshot
<1>5. /\ Nets(s, input)[k] = value - positions[k].margin - (ins + prot)
      /\ FeesFrom(s, input)[k] = ins + prot
    BY <1>1 DEF Nets, FeesFrom, KeyNet, KeyFees, KeyPayoff
<1>6. FeeOn(s, input, INSURANCE_BPS)[k] = ins /\ FeeOn(s, input, PROTOCOL_BPS)[k] = prot
    BY <1>1 DEF FeeOn
<1> HIDE DEF value
<1>7. ins \in Nat /\ prot \in Nat
    BY <1>3, FeeType, SettlementAssumption
<1> HIDE DEF ins, prot
<1> QED BY <1>1, <1>2, <1>3, <1>4, <1>5, <1>6, <1>7

(* prepare_settlement_impl: a plan brings a user what their positions do. *)
LEMMA OpenedCash ==
    ASSUME BookOK, NEW s \in SeriesId, NEW input \in Input, Payable(s, input), NEW u
    PROVE  CashRest(NewPlan(s, input), u) = SumOver(Nets(s, input), OwnedIn(s, u))
<1>0. PICK n \in Nat : \E keys :
          /\ IsOrder(keys, n, s)
          /\ NewPlan(s, input).positions = [i \in 1..n |-> Snapshot(keys[i], input)]
          /\ Len(NewPlan(s, input).positions) = n
    BY SnapshotKeys DEF BookOK
<1>2. PICK keys :
          /\ IsOrder(keys, n, s)
          /\ NewPlan(s, input).positions = [i \in 1..n |-> Snapshot(keys[i], input)]
          /\ Len(NewPlan(s, input).positions) = n
    BY <1>0
<1> DEFINE plan == NewPlan(s, input)
           S == Of(plan, 1..n, u)
           f == Brings(plan, "cashflow")
           gone == OwnedIn(s, u)
           h == Nets(s, input)
<1>1. PlanTyped(plan) /\ plan.cursor = 0
    BY NewPlanTyped, NewPlanOK DEF BookOK, BookTyped
<1>3. /\ keys \in [1..n -> PositionsOf(s)]
      /\ \A i \in 1..n, j \in 1..n : keys[i] = keys[j] => i = j
      /\ \A k \in PositionsOf(s) : \E i \in 1..n : keys[i] = k
      /\ plan.positions = [i \in 1..n |-> Snapshot(keys[i], input)]
      /\ Len(plan.positions) = n
    BY <1>2 DEF IsOrder
<1>4. CashRest(plan, u) = SumOver(f, S)
    <2>1. Rest(plan) = 1..n
        BY <1>1, <1>3 DEF Rest
    <2>2. 1..n \subseteq DOMAIN plan.positions
        BY <1>3
    <2> HIDE DEF plan
    <2> QED BY <2>1, <2>2, SumForIs DEF CashRest
<1>5. IsFiniteSet(S) /\ \A i \in S : f[i] \in Int
    <2>1. 1..n \in SUBSET (1..Len(plan.positions))
        BY <1>3
    <2> HIDE DEF plan
    <2>2. /\ IsFiniteSet(Of(plan, 1..n, u))
          /\ \A i \in Of(plan, 1..n, u) : Brings(plan, "cashflow")[i] \in Int
        BY <1>1, <2>1, BringsType
    <2> QED BY <2>2
<1>6. \A i \in 1..n : plan.positions[i].user = keys[i][1] /\ f[i] = h[keys[i]]
    <2>1. \A k : Snapshot(k, input).user = k[1]
        BY DEF Snapshot
    <2>2. \A k \in PositionsOf(s) : h[k] = Snapshot(k, input)["cashflow"]
        BY KeyTerms
    <2>3. \A i \in 1..n : keys[i] \in PositionsOf(s)
        BY <1>3
    <2>4. \A i \in 1..n : f[i] = Snapshot(keys[i], input)["cashflow"]
        BY <1>3 DEF Brings
    <2> HIDE DEF f, h
    <2> QED BY <1>3, <2>1, <2>2, <2>3, <2>4
<1>7. S = {i \in 1..n : keys[i][1] = u}
    BY <1>6 DEF Of
<1>8. (\A i \in S : keys[i] \in gone) /\ \A k \in gone : \E i \in S : keys[i] = k
    BY <1>3, <1>7 DEF OwnedIn
<1> HIDE DEF f, plan, h, gone
<1>9. Renames(keys, f, S, h, gone)
    <2>1. \A i \in S, j \in S : keys[i] = keys[j] => i = j
        BY <1>3, <1>7
    <2>2. \A i \in S : h[keys[i]] = f[i]
        BY <1>6, <1>7
    <2> QED BY <1>8, <2>1, <2>2 DEF Renames
<1> HIDE DEF S
<1>10. SumOver(f, S) = SumOver(h, gone)
    BY <1>5, <1>9, SumRenamed
<1> QED BY <1>4, <1>10 DEF plan, h, gone

LEMMA OpenedFees ==
    ASSUME BookOK, NEW s \in SeriesId, NEW input \in Input, Payable(s, input)
    PROVE  FeesOf(NewPlan(s, input)) = SumOver(FeesFrom(s, input), PositionsOf(s))
<1> DEFINE S == PositionsOf(s)
           ins == FeeOn(s, input, INSURANCE_BPS)
           prot == FeeOn(s, input, PROTOCOL_BPS)
           all == FeesFrom(s, input)
<1>1. IsFiniteSet(S)
    BY FS_Subset DEF PositionsOf, BookOK, FinitePositions
<1>2. /\ TotalFee(s, input, PROTOCOL_BPS) = SumOver(prot, S) /\ \A k \in S : prot[k] \in Nat
      /\ TotalFee(s, input, INSURANCE_BPS) = SumOver(ins, S) /\ \A k \in S : ins[k] \in Nat
    BY TotalFeeIs, SettlementAssumption
<1>3. \A k \in S : all[k] = ins[k] + prot[k]
    BY KeyTerms
<1>4. FeesOf(NewPlan(s, input)) = TotalFee(s, input, PROTOCOL_BPS) + TotalFee(s, input, INSURANCE_BPS)
    BY DEF FeesOf, NewPlan
<1> HIDE DEF S, ins, prot, all
<1>5. SumOver(all, S) = SumOver(ins, S) + SumOver(prot, S)
    BY <1>1, <1>2, <1>3, SumPlus
<1>6. SumOver(ins, S) \in Nat /\ SumOver(prot, S) \in Nat
    BY <1>1, <1>2, SumNat
<1> QED BY <1>2, <1>4, <1>5, <1>6 DEF S, all

LEMMA PromisedDue ==
    ASSUME NEW s \in SeriesId, NEW input, NEW u
    PROVE  Promise!Due(s, u, input) = SumOver(Nets(s, input), OwnedIn(s, u))
<1> DEFINE S == OwnedIn(s, u)
           f == Nets(s, input)
           held == Restrict(positions, PositionsOf(s))
           W(k) == KeyNet(k, held[k], input)
           Fold(g) == g = [t \in SUBSET S |->
                              IF t = {} THEN 0 ELSE W(Pick(t)) + g[t \ {Pick(t)}]]
<1>1. S = {k \in DOMAIN held : KeyOwner(k) = u}
    BY DEF OwnedIn, Restrict, KeyOwner
<1>2. \A g : Fold(g) <=> IsFold(g, f, S)
    <2>1. \A k \in S : k \in DOMAIN positions /\ held[k] = positions[k]
        BY DEF OwnedIn, PositionsOf, Restrict
    <2>2. \A k \in S : f[k] = W(k)
        BY <2>1 DEF Nets
    <2>3. \A t \in SUBSET S : t # {} => f[Pick(t)] = W(Pick(t))
        BY <2>2, PickIn
    <2> HIDE DEF f, S, W
    <2> QED BY <2>3 DEF IsFold
<1>3. (CHOOSE g : Fold(g)) = (CHOOSE g : IsFold(g, f, S))
    <2> HIDE DEF Fold, f, S
    <2> QED BY <1>2
<1>4. Promise!Due(s, u, input) = (CHOOSE g : Fold(g))[S]
    BY <1>1 DEF Promise!Due, Promise!MapThenSumSet, Promise!MapThenFoldSet, Pick
<1> HIDE DEF Fold, f, S
<1> QED BY <1>3, <1>4, SumIsFold DEF f, S

PromisedFees(s, input) ==
    Promise!MapThenSumSet(
        LAMBDA k : KeyFees(k, [x \in SeriesId |-> Restrict(positions, PositionsOf(x))][s][k], input),
        DOMAIN [x \in SeriesId |-> Restrict(positions, PositionsOf(x))][s])

LEMMA PromisedFeesIs ==
    ASSUME NEW s \in SeriesId, NEW input
    PROVE  PromisedFees(s, input) = SumOver(FeesFrom(s, input), PositionsOf(s))
<1> DEFINE held == [x \in SeriesId |-> Restrict(positions, PositionsOf(x))][s]
           S == DOMAIN held
           f == FeesFrom(s, input)
           W(k) == KeyFees(k, held[k], input)
           Fold(g) == g = [t \in SUBSET S |->
                              IF t = {} THEN 0 ELSE W(Pick(t)) + g[t \ {Pick(t)}]]
<1>1. held = Restrict(positions, PositionsOf(s)) /\ S = PositionsOf(s)
    BY DEF Restrict
<1>2. \A g : Fold(g) <=> IsFold(g, f, S)
    <2>1. \A k \in S : k \in DOMAIN positions /\ held[k] = positions[k]
        BY <1>1 DEF PositionsOf, Restrict
    <2>2. \A k \in S : f[k] = W(k)
        BY <2>1 DEF FeesFrom
    <2>3. \A t \in SUBSET S : t # {} => f[Pick(t)] = W(Pick(t))
        BY <2>2, PickIn
    <2> HIDE DEF f, S, W
    <2> QED BY <2>3 DEF IsFold
<1>3. (CHOOSE g : Fold(g)) = (CHOOSE g : IsFold(g, f, S))
    <2> HIDE DEF Fold, f, S
    <2> QED BY <1>2
<1>4. PromisedFees(s, input) = (CHOOSE g : Fold(g))[S]
    BY DEF PromisedFees, Promise!MapThenSumSet, Promise!MapThenFoldSet, Pick
<1> HIDE DEF Fold, f, S
<1>5. PromisedFees(s, input) = SumOver(f, S)
    BY <1>3, <1>4, SumIsFold
<1> QED BY <1>1, <1>5 DEF f

MappedWealth ==
    [u \in User |-> cash_balances[u] +
        MapThenSumSet(LAMBDA s : SumFor(settlement_plans[s], Unapplied(s), u, "cashflow"), InFlight)]
MappedFunds ==
    treasury + insurance_fund
      + MapThenSumSet(LAMBDA s : settlement_plans[s].fee + settlement_plans[s].insurance_fee, InFlight)
MappedExposure == [s \in SeriesId |-> Restrict(positions, PositionsOf(s))]

LEMMA MappingIs ==
    MappedExposure = Exposure /\ MappedWealth = Wealth /\ MappedFunds = FeeFunds
<1>1. MappedExposure = Exposure
    BY DEF MappedExposure, Exposure, Exposed, KeysIn, PositionsOf
<1>2. MappedWealth = Wealth
    <2>1. \A u \in User : MappedWealth[u] = Wealth[u]
        BY MappedCash DEF MappedWealth, Wealth
    <2>2. /\ MappedWealth = [u \in User |-> MappedWealth[u]]
          /\ Wealth = [u \in User |-> Wealth[u]]
        BY DEF MappedWealth, Wealth
    <2> QED BY <2>1, <2>2
<1>3. MappedFunds = FeeFunds
    BY MappedFees DEF MappedFunds, FeeFunds, Funds
<1> QED BY <1>1, <1>2, <1>3

LEMMA MappingNextIs ==
    (MappedExposure = Exposure /\ MappedWealth = Wealth /\ MappedFunds = FeeFunds)'
BY MappingIs, PTL

(* Steps of the promise, in these terms. *)
LEMMA PromiseTrade ==
    ASSUME NEW s \in SeriesId, NotSettled(s), UNCHANGED settlement_plans,
           Exposure'[s] # Exposure[s], \A x \in SeriesId \ {s} : Exposure'[x] = Exposure[x],
           Wealth' \in [User -> Int], FeeFunds' = FeeFunds
    PROVE  Promise!Trade(s)
<1>1. Exposure' = [Exposure EXCEPT ![s] = Exposure'[s]]
    BY DEF Exposure
<1>2. s \notin DOMAIN settlement_plans
    BY DEF NotSettled
<1>3. /\ MappedExposure = Exposure /\ MappedWealth = Wealth /\ MappedFunds = FeeFunds
      /\ MappedExposure' = Exposure' /\ MappedWealth' = Wealth' /\ MappedFunds' = FeeFunds'
    BY MappingIs, MappingNextIs
<1> HIDE DEF Exposure, Wealth, FeeFunds
<1>4. /\ MappedExposure'[s] # MappedExposure[s]
      /\ MappedExposure' = [MappedExposure EXCEPT ![s] = MappedExposure'[s]]
      /\ MappedWealth' \in [User -> Int] /\ MappedFunds' = MappedFunds
      /\ DOMAIN settlement_plans' = DOMAIN settlement_plans
    BY <1>1, <1>3
<1> QED BY <1>2, <1>4 DEF Promise!Trade, MappedExposure, MappedWealth, MappedFunds

LEMMA PromiseSettle ==
    ASSUME NEW s \in SeriesId, NotSettled(s), NEW input,
           DOMAIN settlement_plans' = DOMAIN settlement_plans \cup {s},
           Exposure' = [Exposure EXCEPT ![s] = [k \in {} |-> 0]],
           Wealth' = [u \in User |-> Wealth[u] + SumOver(Nets(s, input), OwnedIn(s, u))],
           FeeFunds' = FeeFunds + SumOver(FeesFrom(s, input), PositionsOf(s))
    PROVE  Promise!Settle(s, input)
<1>1. /\ MappedExposure = Exposure /\ MappedWealth = Wealth /\ MappedFunds = FeeFunds
      /\ MappedExposure' = Exposure' /\ MappedWealth' = Wealth' /\ MappedFunds' = FeeFunds'
    BY MappingIs, MappingNextIs
<1>2. s \notin DOMAIN settlement_plans
    BY DEF NotSettled
<1>3. MappedExposure' = [MappedExposure EXCEPT ![s] = Promise!Nowhere]
    BY <1>1 DEF Promise!Nowhere
<1>4. MappedWealth' = [u \in User |-> MappedWealth[u] + Promise!Due(s, u, input)]
    BY <1>1, PromisedDue
<1>5. MappedFunds' = MappedFunds + PromisedFees(s, input)
    BY <1>1, PromisedFeesIs
<1> QED BY <1>2, <1>3, <1>4, <1>5
        DEF Promise!Settle, MappedExposure, MappedWealth, MappedFunds, PromisedFees

LEMMA PromiseStutter ==
    ASSUME DOMAIN settlement_plans' = DOMAIN settlement_plans,
           Exposure' = Exposure, Wealth' = Wealth, FeeFunds' = FeeFunds
    PROVE  UNCHANGED Promise!vars
<1>1. /\ MappedExposure' = MappedExposure /\ MappedWealth' = MappedWealth
      /\ MappedFunds' = MappedFunds
    BY MappingIs, MappingNextIs
<1> QED BY <1>1 DEF Promise!vars, MappedExposure, MappedWealth, MappedFunds

LEMMA PromiseQuiet ==
    ASSUME UNCHANGED <<cash_balances, positions, settlement_plans, treasury, insurance_fund>>
    PROVE  UNCHANGED Promise!vars
<1>1. Exposure' = Exposure /\ Wealth' = Wealth /\ FeeFunds' = FeeFunds
    BY DEF Exposure, Wealth, FeeFunds, Funds
<1> QED BY <1>1, PromiseStutter

(* Trading is a step of the series whose positions it changes. *)
LEMMA TradingImplements ==
    ASSUME NoAwaits, SerialInv, PlansInv, PlansInv', TradingNext, UNCHANGED settlementVars
    PROVE  [Promise!Next]_Promise!vars
<1>1. UNCHANGED <<settlement_plans, treasury, insurance_fund>>
    BY TradingKeeps DEF SerialInv, settlementVars
<1>2. CASE UNCHANGED <<cash_balances, positions>>
    BY <1>1, <1>2, PromiseQuiet
<1>3. ASSUME NEW s \in SeriesId, NotSettled(s), TradesIn(s)
      PROVE  [Promise!Next]_Promise!vars
    <2>1. \A x \in SeriesId \ {s} : Exposure'[x] = Exposure[x]
        <3> SUFFICES ASSUME NEW x \in SeriesId \ {s}
                     PROVE  Exposed(positions', x) = Exposed(positions, x)
            BY DEF Exposure
        <3>1. /\ KeysIn(positions', x) = KeysIn(positions, x)
              /\ \A k \in KeysIn(positions, x) : positions'[k] = positions[k]
            BY <1>3 DEF TradesIn, Touches, KeysIn
        <3> QED BY <3>1 DEF Exposed, Restrict
    <2>2. FeeFunds' = FeeFunds
        BY <1>1 DEF FeeFunds, Funds
    <2>3. Wealth' \in [User -> Int]
        <3>1. \A u \in User : cash_balances'[u] \in Int
            BY DEF PlansInv, TypeInv, BookTyped, BalancesTyped
        <3>2. \A u : CashSum(settlement_plans, u) \in Int
            BY CashTerms DEF PlansInv
        <3>3. \A u : CashSum(settlement_plans', u) = CashSum(settlement_plans, u)
            BY <1>1
        <3> QED BY <3>1, <3>2, <3>3 DEF Wealth
    <2>4. CASE Exposure'[s] # Exposure[s]
        BY <1>1, <1>3, <2>1, <2>2, <2>3, <2>4, PromiseTrade DEF Promise!Next
    <2>5. CASE Exposure'[s] = Exposure[s]
        <3>1. Exposure' = Exposure
            <4>1. \A x \in SeriesId : Exposure'[x] = Exposure[x]
                BY <2>1, <2>5
            <4> QED BY <4>1 DEF Exposure
        <3>2. UNCHANGED cash_balances
            BY <1>3, <2>5 DEF TradesIn, Exposure
        <3>3. Wealth' = Wealth
            BY <1>1, <3>2 DEF Wealth
        <3>4. UNCHANGED Promise!vars
            BY <1>1, <2>2, <3>1, <3>3, PromiseStutter
        <3> QED BY <3>4
    <2> QED BY <2>4, <2>5
<1>4. TypeInv
    BY DEF PlansInv
<1> QED BY <1>2, <1>3, <1>4, TradingTrades

LEMMA AdvancesImplements ==
    ASSUME PlansInv, PlansInv', NEW s \in SeriesId, Advances(s)
    PROVE  UNCHANGED Promise!vars
<1> DEFINE plan == settlement_plans[s]
<1>1. /\ PlanTyped(plan) /\ plan.status # "Finalised"
      /\ s \in DOMAIN settlement_plans /\ s \in OpenPlans(settlement_plans)
    BY AdvancesParts DEF OpenPlans, PlansInv
<1>2. PICK armed \in SUBSET SeriesId : Advance(s, plan, Nothing, armed)
    BY DEF Advances
<1>3. Exposure' = Exposure
    BY DEF Advances, Exposure
<1>4. /\ \A u : CashAt(settlement_plans, u, s) = CashRest(plan, u)
      /\ FeesAt(settlement_plans, s) = FeesOf(plan)
    BY <1>1 DEF CashAt, FeesAt
<1> HIDE DEF plan
<1>5. /\ DOMAIN settlement_plans' = DOMAIN settlement_plans \cup {s}
      /\ \A u \in User :
            cash_balances'[u] + CashSum(settlement_plans', u)
              = cash_balances[u] + CashSum(settlement_plans, u)
                  + (CashRest(plan, u) - CashAt(settlement_plans, u, s))
      /\ Funds' + FeeSum(settlement_plans')
           = Funds + FeeSum(settlement_plans) + (FeesOf(plan) - FeesAt(settlement_plans, s))
    BY <1>1, <1>2, AdvanceWealth
<1>6. /\ \A u \in User : cash_balances[u] \in Int
      /\ \A u : CashSum(settlement_plans, u) \in Int /\ CashAt(settlement_plans, u, s) \in Int
      /\ FeeSum(settlement_plans) \in Int /\ FeesAt(settlement_plans, s) \in Int
      /\ Funds \in Int
    <2>1. HasPlans(settlement_plans)
        BY DEF PlansInv
    <2>2. \A u \in User : cash_balances[u] \in Int
        BY DEF PlansInv, TypeInv, BookTyped, BalancesTyped
    <2>3. Funds \in Int
        BY DEF PlansInv, TypeInv, FundsTyped, Funds
    <2> QED BY <2>1, <2>2, <2>3, CashTerms
<1>7. /\ \A u \in User : cash_balances'[u] + CashSum(settlement_plans', u)
                           = cash_balances[u] + CashSum(settlement_plans, u)
      /\ Funds' + FeeSum(settlement_plans') = Funds + FeeSum(settlement_plans)
    BY <1>4, <1>5, <1>6
<1>8. Wealth' = Wealth /\ FeeFunds' = FeeFunds
    BY <1>7 DEF Wealth, FeeFunds
<1> QED BY <1>1, <1>3, <1>5, <1>8, PromiseStutter

LEMMA SettleImplements ==
    ASSUME PlansInv, PlansInv', NEW s \in SeriesId, NEW input \in Inputs[s],
           SettleSeries(s, input)
    PROVE  Promise!Settle(s, input)
<1> DEFINE plan == NewPlan(s, input)
<1>1. TypeInv /\ BookOK
    BY DEF PlansInv, TypeInv, BookOK, PlanInv
<1>2. /\ input \in Input /\ Payable(s, input) /\ PlanTyped(plan)
      /\ s \notin DOMAIN settlement_plans
      /\ positions' = Without(positions, PositionsOf(s))
      /\ Advance(s, plan, [u \in User |-> BlockedBy(u, s)], timers)
    BY <1>1, SettleParts
<1>3. plan.status # "Finalised"
    BY DEF NewPlan
<1>4. /\ \A u : CashRest(plan, u) = SumOver(Nets(s, input), OwnedIn(s, u))
      /\ FeesOf(plan) = SumOver(FeesFrom(s, input), PositionsOf(s))
    BY <1>1, <1>2, OpenedCash, OpenedFees
<1>5. /\ \A u : CashAt(settlement_plans, u, s) = 0
      /\ FeesAt(settlement_plans, s) = 0
    BY <1>2 DEF CashAt, FeesAt, OpenPlans
<1>6. Exposure' = [Exposure EXCEPT ![s] = [k \in {} |-> 0]]
    <2>1. KeysIn(positions', s) = {}
        BY <1>2 DEF KeysIn, Without, Restrict, PositionsOf
    <2>2. Exposed(positions', s) = [k \in {} |-> 0]
        BY <2>1 DEF Exposed, Restrict
    <2>3. \A x \in SeriesId \ {s} :
              /\ KeysIn(positions', x) = KeysIn(positions, x)
              /\ \A k \in KeysIn(positions, x) : positions'[k] = positions[k]
        BY <1>2 DEF KeysIn, Without, Restrict, PositionsOf
    <2>4. \A x \in SeriesId \ {s} : Exposed(positions', x) = Exposed(positions, x)
        BY <2>3 DEF Exposed, Restrict
    <2> QED BY <2>2, <2>4 DEF Exposure
<1> HIDE DEF plan
<1>7. /\ DOMAIN settlement_plans' = DOMAIN settlement_plans \cup {s}
      /\ \A u \in User :
            cash_balances'[u] + CashSum(settlement_plans', u)
              = cash_balances[u] + CashSum(settlement_plans, u)
                  + (CashRest(plan, u) - CashAt(settlement_plans, u, s))
      /\ Funds' + FeeSum(settlement_plans')
           = Funds + FeeSum(settlement_plans) + (FeesOf(plan) - FeesAt(settlement_plans, s))
    BY <1>2, <1>3, AdvanceWealth
<1>8. (\A u : CashRest(plan, u) \in Int) /\ FeesOf(plan) \in Int
    BY <1>2, CashSplits, LeftType
<1>9. /\ \A u \in User : cash_balances'[u] + CashSum(settlement_plans', u)
                           = cash_balances[u] + CashSum(settlement_plans, u)
                               + SumOver(Nets(s, input), OwnedIn(s, u))
      /\ Funds' + FeeSum(settlement_plans')
           = Funds + FeeSum(settlement_plans) + SumOver(FeesFrom(s, input), PositionsOf(s))
    <2>1. \A a \in Int : a - 0 = a
        OBVIOUS
    <2> QED BY <1>4, <1>5, <1>7, <1>8, <2>1
<1>10. Wealth' = [u \in User |-> Wealth[u] + SumOver(Nets(s, input), OwnedIn(s, u))]
    BY <1>9 DEF Wealth
<1>11. FeeFunds' = FeeFunds + SumOver(FeesFrom(s, input), PositionsOf(s))
    BY <1>9 DEF FeeFunds
<1>12. NotSettled(s)
    BY <1>2 DEF NotSettled
<1> QED BY <1>6, <1>7, <1>10, <1>11, <1>12, PromiseSettle

LEMMA PromiseStep ==
    ASSUME NoAwaits, SerialInv, PlansInv, PlansInv', [Next]_vars
    PROVE  [Promise!Next]_Promise!vars
<1>1. CASE TradingNext /\ UNCHANGED settlementVars
    BY <1>1, TradingImplements
<1>2. CASE SettlementNext
    <2>1. TypeInv
        BY DEF PlansInv
    <2>2. ASSUME NEW s \in SeriesId, Advances(s) PROVE UNCHANGED Promise!vars
        BY <2>2, AdvancesImplements
    <2>3. ASSUME NEW s \in SeriesId, NEW input \in Inputs[s], SettleSeries(s, input)
          PROVE  Promise!Next
        <3>1. Promise!Settle(s, input)
            BY <2>3, SettleImplements
        <3> QED BY <3>1 DEF Promise!Next
    <2> QED BY <1>2, <2>1, <2>2, <2>3, SettlementMoves, PromiseQuiet
<1>3. CASE Upgrade \/ UNCHANGED vars
    <2>1. UNCHANGED <<cash_balances, positions, settlement_plans, treasury, insurance_fund>>
        BY <1>3 DEF Upgrade, vars, book, settlementVars
    <2> QED BY <2>1, PromiseQuiet
<1> QED BY <1>1, <1>2, <1>3 DEF Next

LEMMA PromiseInit ==
    ASSUME DOMAIN LegacyPlans = {}, Init
    PROVE  Promise!Init
<1>1. settlement_plans = LegacyPlans /\ DOMAIN settlement_plans = {}
    BY DEF Init, SettlementInit
<1>2. OpenPlans(settlement_plans) = {}
    BY <1>1 DEF OpenPlans
<1>3. (\A u : CashSum(settlement_plans, u) = 0) /\ FeeSum(settlement_plans) = 0
    BY <1>2, SumEmpty DEF CashSum, FeeSum
<1>4. Wealth = [u \in User |-> 0]
    BY <1>3 DEF Wealth, Init, BookInit
<1>5. FeeFunds = 0
    BY <1>3 DEF FeeFunds, Funds, Init, SettlementInit
<1>6. Exposure = [s \in SeriesId |-> [k \in {} |-> 0]]
    <2>1. DOMAIN positions = {}
        BY DEF Init, BookInit, EmptyMap
    <2>2. ASSUME NEW s \in SeriesId PROVE Exposed(positions, s) = [k \in {} |-> 0]
        <3>1. KeysIn(positions, s) = {}
            BY <2>1 DEF KeysIn
        <3> QED BY <3>1 DEF Exposed, Restrict
    <2> QED BY <2>2 DEF Exposure
<1>7. /\ MappedExposure = [s \in SeriesId |-> Promise!Nowhere]
      /\ MappedWealth = [u \in User |-> 0] /\ MappedFunds = 0
    BY <1>4, <1>5, <1>6, MappingIs DEF Promise!Nowhere
<1> QED BY <1>1, <1>7 DEF Promise!Init, MappedExposure, MappedWealth, MappedFunds

(* settle_series_inner in chunks, over timers, traps, upgrades and repeated
   calls, is the settlement of SettlementPromise: each position is paid once,
   with what it is due when the plan opens, the fees reach the funds once,
   and no step but the one that opens the plan moves what a user or the funds
   are due.  When no trading method awaits, and no plan is left from an
   earlier version. *)
THEOREM SettlementKeepsItsPromise ==
    ASSUME IsFiniteSet(SeriesId), NoAwaits, DOMAIN LegacyPlans = {}
    PROVE  Spec => SettlesAtOnce
<1> DEFINE Inv == SerialInv /\ PlansInv
<1>1. Init => Inv /\ Promise!Init
    BY InitSerialInv, InitTypeInv, PlansHere, PromiseInit
<1>2. Inv /\ [Next]_vars => Inv'
    BY NextSerialInv, NextTypeInv, PlansHereNext DEF PlansInv
<1>3. Inv /\ Inv' /\ [Next]_vars => [Promise!Next]_Promise!vars
    BY PromiseStep
<1> HIDE DEF Inv
<1> QED BY <1>1, <1>2, <1>3, PTL DEF Spec, SettlesAtOnce, Promise!Spec
=============================================================================
