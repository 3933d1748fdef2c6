----------------------------- MODULE MCPayoffs -----------------------------
(***************************************************************************)
(* Payoffs over all small contracts, quantities, prices and settlements: a *)
(* state is one case, a step changes one part of it.                       *)
(***************************************************************************)
EXTENDS Payoffs

CONSTANTS yes, no, MaxQty, MaxValue, MaxDecimals

(* There are quantities of either sign to try a contract with, and prices. *)
ASSUME CasesAssumption == MaxQty \in Nat \ {0} /\ MaxValue \in Nat /\ MaxDecimals \in Nat

VARIABLES
    series,      \* the contract
    price,       \* the price it is margined at, and may resolve at
    outcome,     \* the outcome it may resolve to, or NoOutcome
    qty, part    \* two quantities

vars == <<series, price, outcome, qty, part>>

Prices == [value : 0..MaxValue, decimals : 0..MaxDecimals]
Strike == [value |-> 7, decimals |-> 1]
Contracts == [payoff_type : PayoffType, strike : {Strike, NoStrike}, social : BOOLEAN]

settlement == IF outcome = NoOutcome THEN AtPrice(price) ELSE AtOutcome(outcome)

(* Cases in which the code answers Ok, for either sign of the quantity. *)
Answered(s, o, q) ==
    /\ HasUnitPayoff(s, IF o = NoOutcome THEN AtPrice(price) ELSE AtOutcome(o))
    /\ HasMargin(s, q) /\ HasMargin(s, -q)

Init ==
    /\ series = [payoff_type |-> "Binary", strike |-> NoStrike, social |-> FALSE]
    /\ price = [value |-> 0, decimals |-> 0]
    /\ outcome = NoOutcome
    /\ qty = 0 /\ part = 0

VaryContract ==
    /\ qty = 0 /\ part = 0
    /\ series' \in Contracts /\ outcome' \in {NoOutcome, yes}
    /\ Answered(series', outcome', MaxQty)
    /\ UNCHANGED <<price, qty, part>>

VaryPrice ==
    /\ qty = 0 /\ part = 0
    /\ price' \in Prices
    /\ UNCHANGED <<series, outcome, qty, part>>

VaryQuantity ==
    /\ qty = 0 /\ part = 0
    /\ qty' \in -MaxQty..MaxQty /\ part' \in -MaxQty..MaxQty
    /\ UNCHANGED <<series, price, outcome>>

Next == VaryContract \/ VaryPrice \/ VaryQuantity

Spec == Init /\ [][Next]_vars

-----------------------------------------------------------------------------
(* get_settlement_value: the two sides of a full-collateral contract share
   exactly the unit that backs it. *)
PayoutsShareUnit ==
    FullCollateral(series) =>
        \A o \in {yes, no, NoOutcome} : PairPaysUnit(series, o, qty, settlement)

(* get_required_margin: the two sides put up exactly the unit, though the
   price is rounded. *)
MarginsShareUnit == FullCollateral(series) => PairReservesUnit(series, price, qty)

(* One contract is backed by one unit from the margin it is opened with to the
   value it is settled at: neither side can be paid what nobody put up. *)
PairsShareUnit == PayoutsShareUnit /\ MarginsShareUnit

(* submit_market_order relies on it to release a partial fill's margin. *)
MarginsAddUp == MarginIsLinear(series, price, qty, part)

(* "We use Floor for system safety", "Ceil for margin": a long that bought at
   a price and is resolved at it is never paid more than it put up. *)
RoundingFavoursSystem ==
    ~series.social /\ series.payoff_type = "Binary" =>
        SettlementValue(series, NoOutcome, Abs(qty), settlement)
            <= RequiredMargin(series, settlement.price, Abs(qty))
=============================================================================
