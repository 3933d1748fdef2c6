---------------------------- MODULE PayoffsProofs ----------------------------
(***************************************************************************)
(* Theorems about the arithmetic of contracts, whatever the quantities,    *)
(* prices, decimals and settlements it is tried with: a pair shares one    *)
(* unit, margins add up, and rounding is never paid out.                   *)
(***************************************************************************)
EXTENDS MCPayoffs, SumProofs

LEMMA Pow10Type == \A n \in Nat : Pow10[n] \in Nat \ {0}
<1>1. Pow10 = [i \in Nat |-> IF i = 0 THEN 1 ELSE 10 * Pow10[i - 1]]
    BY PowersOfTen DEF Pow10
<1> QED BY <1>1, PowersPositive

LEMMA UnitType == Unit \in Nat \ {0}
BY Pow10Type, PayoffsAssumption DEF Unit

LEMMA RoundedBelow ==
    ASSUME NEW v \in Nat, NEW y \in Nat \ {0}
    PROVE  /\ DivRound(v, y, "Floor") \in Nat /\ DivRound(v, y, "Ceil") \in Nat
           /\ DivRound(v, y, "Floor") <= DivRound(v, y, "Ceil")
<1>1. v + y - 1 \in Nat
    OBVIOUS
<1>2. v \div y \in Nat /\ (v + y - 1) \div y \in Nat
    BY <1>1, QuotientType
<1>3. v \div y <= (v + y - 1) \div y
    OBVIOUS
<1> QED BY <1>2, <1>3 DEF DivRound

(* scale_price: Floor never gives more than Ceil. *)
LEMMA ScaledBelow ==
    ASSUME NEW v \in Nat, NEW t \in Nat, NEW s \in Nat
    PROVE  /\ ScalePrice(v, t, s, "Floor") \in Nat /\ ScalePrice(v, t, s, "Ceil") \in Nat
           /\ ScalePrice(v, t, s, "Floor") <= ScalePrice(v, t, s, "Ceil")
<1>1. CASE t >= s
    <2>1. t - s \in Nat
        BY <1>1
    <2>2. Pow10[t - s] \in Nat
        BY <2>1, Pow10Type
    <2>3. v * Pow10[t - s] \in Nat
        BY <2>2, ProductType
    <2> QED BY <1>1, <2>3 DEF ScalePrice
<1>2. CASE ~(t >= s)
    <2>1. s - t \in Nat
        BY <1>2
    <2>2. PICK y \in Nat \ {0} : y = Pow10[s - t]
        BY <2>1, Pow10Type
    <2> QED BY <1>2, <2>2, RoundedBelow DEF ScalePrice
<1> QED BY <1>1, <1>2

LEMMA UsdBelow ==
    ASSUME NEW p \in Price
    PROVE  InUsd(p, "Floor") \in Nat /\ InUsd(p, "Ceil") \in Nat
           /\ InUsd(p, "Floor") <= InUsd(p, "Ceil")
<1>1. p.value \in Nat /\ p.decimals \in Nat
    BY DEF Price
<1> QED BY <1>1, ScaledBelow, PayoffsAssumption DEF InUsd

LEMMA TimesSum ==
    ASSUME NEW q \in Nat, NEW p \in Nat, NEW x \in Int
    PROVE  (q + p) * x = q * x + p * x /\ q * x \in Int
OBVIOUS

LEMMA TimesMore ==
    ASSUME NEW q \in Nat, NEW x \in Nat, NEW y \in Nat, x <= y PROVE q * x <= q * y
<1>1. PICK d \in Nat : y = x + d
    OBVIOUS
<1>2. q * y = q * x + q * d /\ q * d \in Nat /\ q * x \in Nat
    BY <1>1
<1> QED BY <1>2

-----------------------------------------------------------------------------
(* Of any contract. *)

(* get_unit_payoff: a payoff that fits the contract is an amount. *)
LEMMA PayoffAmount ==
    ASSUME NEW s, s.payoff_type \in PayoffType, FullCollateral(s), NEW o, NEW input,
           HasUnitPayoff(s, input), input.kind = "Price" => input.price \in Price
    PROVE  UnitPayoff(s, o, input) \in Nat
<1>1. CASE s.payoff_type = "Categorical"
    BY <1>1, UnitType DEF UnitPayoff, FullCollateral
<1>2. CASE s.payoff_type = "Binary"
    <2>1. input.price \in Price
        BY <1>2 DEF HasUnitPayoff, FullCollateral, Scalar
    <2>2. UnitPayoff(s, o, input) = InUsd(input.price, "Floor")
        BY <1>2 DEF UnitPayoff, FullCollateral
    <2> QED BY <2>1, <2>2, UsdBelow
<1> QED BY <1>1, <1>2 DEF FullCollateral, PayoffType

LEMMA PairPays ==
    ASSUME NEW s, s.payoff_type \in PayoffType, FullCollateral(s), NEW o, NEW input,
           HasUnitPayoff(s, input), input.kind = "Price" => input.price \in Price, NEW q \in Int
    PROVE  PairPaysUnit(s, o, q, input)
<1> DEFINE x == UnitPayoff(s, o, input)
<1> SUFFICES ASSUME x <= Unit
             PROVE  SettlementValue(s, o, q, input) + SettlementValue(s, o, -q, input)
                        = Abs(q) * Unit
    BY DEF PairPaysUnit
<1>1. x \in Nat /\ Unit \in Nat
    BY PayoffAmount, UnitType
<1>2. s.payoff_type \notin Scalar
    BY DEF FullCollateral
<1>3. \A k \in Int : SettlementValue(s, o, k, input)
                        = IF k < 0 THEN Abs(k) * Less(Unit, x) ELSE Abs(k) * x
    BY <1>2 DEF SettlementValue
<1>4. Less(Unit, x) = Unit - x
    BY <1>1 DEF Less
<1>5. Abs(q) \in Nat /\ Abs(-q) = Abs(q) /\ -q \in Int
    BY DEF Abs
<1> HIDE DEF x
<1>6. Abs(q) * (Unit - x) + Abs(q) * x = Abs(q) * Unit
    BY <1>1, <1>5
<1>7. q = 0 => Abs(q) = 0
    BY DEF Abs
<1> QED BY <1>1, <1>3, <1>4, <1>5, <1>6, <1>7

LEMMA PairReserves ==
    ASSUME NEW s, FullCollateral(s), s.payoff_type \in PayoffType, NEW p \in Price, NEW q \in Int
    PROVE  PairReservesUnit(s, p, q)
<1> DEFINE x == InUsd(p, "Ceil")
<1> SUFFICES ASSUME x <= Unit
             PROVE  RequiredMargin(s, p, q) + RequiredMargin(s, p, -q) = Abs(q) * Unit
    BY DEF PairReservesUnit
<1>1. x \in Nat /\ Unit \in Nat
    BY UsdBelow, UnitType
<1>2. \A k \in Int : UnitMargin(s, p, k) = IF k < 0 THEN Less(Unit, x) ELSE x
    BY DEF UnitMargin, FullCollateral, Scalar
<1>3. Less(Unit, x) = Unit - x
    BY <1>1 DEF Less
<1> HIDE DEF x
<1>4. \A k \in Int : RequiredMargin(s, p, k) =
          IF k = 0 THEN 0 ELSE IF k < 0 THEN Abs(k) * (Unit - x) ELSE Abs(k) * x
    BY <1>2, <1>3 DEF RequiredMargin, FullCollateral
<1>5. Abs(q) \in Nat /\ Abs(-q) = Abs(q) /\ -q \in Int /\ (q = 0 => Abs(q) = 0)
    BY DEF Abs
<1>6. Abs(q) * (Unit - x) + Abs(q) * x = Abs(q) * Unit
    BY <1>1, <1>5
<1>7. CASE q = 0
    <2>1. 0 * Unit = 0 /\ 0 * (Unit - x) = 0 /\ 0 * x = 0
        BY <1>1
    <2>2. Abs(q) = 0 /\ Abs(-q) = 0 /\ -q \in Int
        BY <1>5, <1>7
    <2>3. RequiredMargin(s, p, -q) = 0 /\ RequiredMargin(s, p, q) = 0
        BY <1>4, <1>7, <2>1, <2>2
    <2> QED BY <2>1, <2>2, <2>3
<1>8. CASE q # 0
    <2>1. -q # 0 /\ (-q < 0 <=> ~(q < 0))
        BY <1>8
    <2>2. Abs(q) * (Unit - x) \in Int /\ Abs(q) * x \in Int
        BY <1>1, <1>5
    <2> QED BY <1>4, <1>5, <1>6, <1>8, <2>1, <2>2
<1> QED BY <1>7, <1>8

(* get_required_margin answers Ok for both signs of a contract that has its
   strike; what one contract needs is an amount. *)
LEMMA MarginAmount ==
    ASSUME NEW s, s.payoff_type \in PayoffType, NEW p \in Price, NEW q \in Int,
           s.payoff_type = "Put" => s.strike \in Price
    PROVE  UnitMargin(s, p, q) \in Nat
<1>1. InUsd(p, "Ceil") \in Nat /\ Unit \in Nat
    BY UsdBelow, UnitType
<1>2. Less(Unit, InUsd(p, "Ceil")) \in Nat
    BY <1>1 DEF Less
<1>3. s.payoff_type = "Put" => InUsd(s.strike, "Ceil") \in Nat
    BY UsdBelow
<1> QED BY <1>1, <1>2, <1>3 DEF UnitMargin, PayoffType, Scalar

LEMMA MarginLinear ==
    ASSUME NEW s, s.payoff_type \in PayoffType, NEW p \in Price, NEW q \in Int, NEW k \in Int,
           ~s.social /\ s.payoff_type = "Put" => s.strike \in Price
    PROVE  MarginIsLinear(s, p, q, k)
<1> SUFFICES ASSUME q * k >= 0
             PROVE  RequiredMargin(s, p, q + k) = RequiredMargin(s, p, q) + RequiredMargin(s, p, k)
    BY DEF MarginIsLinear
<1>1. CASE s.social
    BY <1>1 DEF RequiredMargin
<1>2. CASE ~s.social
    <2>1. \A i \in Int : UnitMargin(s, p, i) \in Nat
        BY <1>2, MarginAmount
    <2>2. \A i \in Int : RequiredMargin(s, p, i) =
              IF i = 0 THEN 0 ELSE Abs(i) * UnitMargin(s, p, i)
        BY <1>2 DEF RequiredMargin
    <2>3. \A i \in Int : RequiredMargin(s, p, i) \in Int
        <3> TAKE i \in Int
        <3>1. Abs(i) \in Nat
            BY DEF Abs
        <3>2. Abs(i) * UnitMargin(s, p, i) \in Int
            BY <2>1, <3>1
        <3> QED BY <2>2, <3>2
    <2>4. CASE q = 0 \/ k = 0
        <3>1. RequiredMargin(s, p, 0) = 0
            BY DEF RequiredMargin
        <3>2. (q = 0 => q + k = k) /\ (k = 0 => q + k = q)
            OBVIOUS
        <3> QED BY <2>3, <2>4, <3>1, <3>2
    <2>5. CASE q # 0 /\ k # 0
        <3>1. (q > 0 /\ k > 0) \/ (q < 0 /\ k < 0)
            BY <2>5
        <3>2. /\ q + k \in Int /\ q + k # 0 /\ (q < 0 <=> q + k < 0) /\ (q < 0 <=> k < 0)
              /\ Abs(q + k) = Abs(q) + Abs(k) /\ Abs(q) \in Nat /\ Abs(k) \in Nat
            BY <3>1 DEF Abs
        <3>3. UnitMargin(s, p, q + k) = UnitMargin(s, p, q) /\ UnitMargin(s, p, k) = UnitMargin(s, p, q)
            BY <3>2 DEF UnitMargin
        <3>4. (Abs(q) + Abs(k)) * UnitMargin(s, p, q)
                  = Abs(q) * UnitMargin(s, p, q) + Abs(k) * UnitMargin(s, p, q)
            BY <2>1, <3>2, TimesSum
        <3> QED BY <2>2, <2>5, <3>2, <3>3, <3>4
    <2> QED BY <2>4, <2>5
<1> QED BY <1>1, <1>2

LEMMA PaidBelowPutUp ==
    ASSUME NEW s, s.payoff_type = "Binary", ~s.social, NEW p \in Price, NEW q \in Nat, NEW o
    PROVE  SettlementValue(s, o, q, AtPrice(p)) <= RequiredMargin(s, p, q)
<1>1. InUsd(p, "Floor") \in Nat /\ InUsd(p, "Ceil") \in Nat /\ InUsd(p, "Floor") <= InUsd(p, "Ceil")
    BY UsdBelow
<1>2. UnitPayoff(s, o, AtPrice(p)) = InUsd(p, "Floor")
    BY DEF UnitPayoff, AtPrice
<1>3. UnitMargin(s, p, q) = InUsd(p, "Ceil")
    BY DEF UnitMargin
<1>4. Abs(q) = q /\ ~(q < 0)
    BY DEF Abs
<1>5. SettlementValue(s, o, q, AtPrice(p)) = q * InUsd(p, "Floor")
    BY <1>2, <1>4 DEF SettlementValue
<1>6. RequiredMargin(s, p, q) = IF q = 0 THEN 0 ELSE q * InUsd(p, "Ceil")
    BY <1>3, <1>4 DEF RequiredMargin
<1>7. q * InUsd(p, "Floor") <= q * InUsd(p, "Ceil")
    BY <1>1, TimesMore
<1>8. q = 0 => q * InUsd(p, "Floor") = 0
    BY <1>1
<1> QED BY <1>5, <1>6, <1>7, <1>8

-----------------------------------------------------------------------------
(* The cases tried are those in which the code answers Ok. *)
CasesInv ==
    /\ series \in Contracts /\ price \in Prices
    /\ qty \in Int /\ part \in Int
    /\ HasUnitPayoff(series, settlement)
    /\ series.social \/ series.payoff_type # "Put" \/ series.strike = Strike

LEMMA CasesTyped ==
    ASSUME CasesInv
    PROVE  /\ price \in Price
           /\ series.payoff_type \in PayoffType
           /\ ~series.social /\ series.payoff_type = "Put" => series.strike \in Price
           /\ settlement.kind = "Price" => settlement.price \in Price
<1>1. price \in Price
    BY DEF CasesInv, Prices, Price
<1>2. series.payoff_type \in PayoffType
    BY DEF CasesInv, Contracts
<1>3. ~series.social /\ series.payoff_type = "Put" => series.strike \in Price
    BY DEF CasesInv, Strike, Price
<1>4. settlement.kind = "Price" => settlement.price \in Price
    BY <1>1 DEF settlement, AtPrice, AtOutcome
<1> QED BY <1>1, <1>2, <1>3, <1>4

LEMMA CasesInit == Init => CasesInv
<1> SUFFICES ASSUME Init, MaxValue \in Nat, MaxDecimals \in Nat PROVE CasesInv
    BY CasesAssumption
<1>1. series \in Contracts /\ price \in Prices /\ series.payoff_type = "Binary"
    BY DEF Init, Contracts, PayoffType, Prices
<1>2. HasUnitPayoff(series, settlement)
    BY <1>1 DEF Init, HasUnitPayoff, settlement, AtPrice
<1> QED BY <1>1, <1>2 DEF CasesInv, Init

LEMMA CasesStep ==
    ASSUME CasesInv, [Next]_vars PROVE CasesInv'
<1>1. CASE UNCHANGED vars
    BY <1>1 DEF vars, CasesInv, settlement
<1>2. CASE VaryContract
    <2>1. /\ series' \in Contracts /\ price' = price /\ qty' = qty /\ part' = part
          /\ Answered(series', outcome', MaxQty)
        BY <1>2 DEF VaryContract
    <2>2. HasUnitPayoff(series, settlement)'
        BY <2>1 DEF Answered, settlement
    <2>3. series'.social \/ series'.payoff_type # "Put" \/ series'.strike # NoStrike
        <3>1. -MaxQty < 0
            BY CasesAssumption
        <3> QED BY <2>1, <3>1 DEF Answered, HasMargin
    <2>4. series'.strike \in {Strike, NoStrike}
        BY <2>1 DEF Contracts
    <2> QED BY <2>1, <2>2, <2>3, <2>4 DEF CasesInv
<1>3. CASE VaryPrice
    <2>1. /\ price' \in Prices /\ series' = series /\ qty' = qty /\ part' = part
          /\ outcome' = outcome
        BY <1>3 DEF VaryPrice
    <2>2. settlement'.kind = settlement.kind
        BY <2>1 DEF settlement, AtPrice, AtOutcome
    <2> QED BY <2>1, <2>2 DEF CasesInv, HasUnitPayoff
<1>4. CASE VaryQuantity
    <2>1. /\ qty' \in Int /\ part' \in Int /\ UNCHANGED <<series, price, outcome>>
        BY <1>4 DEF VaryQuantity
    <2> QED BY <2>1 DEF CasesInv, settlement
<1> QED BY <1>1, <1>2, <1>3, <1>4 DEF Next

LEMMA CasesAlways == Spec => []CasesInv
<1>1. CasesInv /\ [Next]_vars => CasesInv'
    BY CasesStep
<1> QED BY CasesInit, <1>1, PTL DEF Spec

(* get_settlement_value and get_required_margin: the two sides of a contract
   put up one unit, and are paid one, whatever the rounding. *)
THEOREM PairsShareUnitHolds == Spec => []PairsShareUnit
<1>1. ASSUME CasesInv PROVE PairsShareUnit
    <2>1. PayoutsShareUnit
        BY <1>1, CasesTyped, PairPays DEF PayoutsShareUnit, CasesInv
    <2>2. MarginsShareUnit
        BY <1>1, CasesTyped, PairReserves DEF MarginsShareUnit, CasesInv
    <2> QED BY <2>1, <2>2 DEF PairsShareUnit
<1> QED BY CasesAlways, <1>1, PTL

(* get_required_margin: what a partial fill releases and what it leaves
   blocked add up. *)
THEOREM MarginsAddUpHolds == Spec => []MarginsAddUp
<1>1. ASSUME CasesInv PROVE MarginsAddUp
    BY <1>1, CasesTyped, MarginLinear DEF MarginsAddUp, CasesInv
<1> QED BY CasesAlways, <1>1, PTL

(* get_unit_payoff rounds down and get_required_margin up: a long resolved at
   the price it was bought at is paid no more than it put up. *)
THEOREM RoundingFavoursSystemHolds == Spec => []RoundingFavoursSystem
<1>1. ASSUME CasesInv PROVE RoundingFavoursSystem
    <2> SUFFICES ASSUME ~series.social, series.payoff_type = "Binary"
                 PROVE  SettlementValue(series, NoOutcome, Abs(qty), settlement)
                            <= RequiredMargin(series, settlement.price, Abs(qty))
        BY DEF RoundingFavoursSystem
    <2>1. settlement = AtPrice(price)
        BY <1>1 DEF CasesInv, HasUnitPayoff, Scalar, settlement, AtOutcome
    <2>2. settlement.price = price /\ Abs(qty) \in Nat
        BY <1>1, <2>1 DEF AtPrice, Abs, CasesInv
    <2>3. SettlementValue(series, NoOutcome, Abs(qty), AtPrice(price))
              <= RequiredMargin(series, price, Abs(qty))
        BY <1>1, <2>2, CasesTyped, PaidBelowPutUp
    <2> QED BY <2>1, <2>2, <2>3
<1> QED BY CasesAlways, <1>1, PTL
=============================================================================
