------------------------------ MODULE Payoffs ------------------------------
(***************************************************************************)
(* The arithmetic of contracts (clearing/src/payoffs): what a position is  *)
(* worth at settlement, the margin it needs, and the fee on a payoff.  All *)
(* amounts are integers in USD base units; a Price carries its decimals.   *)
(*                                                                         *)
(* The code's Err results are predicates here (HasUnitPayoff, HasMargin):  *)
(* the value operators are meant for the inputs that satisfy them.         *)
(***************************************************************************)
EXTENDS Integers

CONSTANTS
    USD_DECIMALS,    \* shared::constants::USD_DECIMALS
    NoStrike,        \* Series::strike = None
    NoOutcome        \* outcome_id = None

ASSUME PayoffsAssumption == USD_DECIMALS \in Nat

Scalar == {"Call", "Put"}
PayoffType == {"Binary", "Categorical"} \cup Scalar
Price == [value : Nat, decimals : Nat]

(* SettlementInput::Price(p) and SettlementInput::Outcome(id). *)
AtPrice(p) == [kind |-> "Price", price |-> p]
AtOutcome(o) == [kind |-> "Outcome", outcome |-> o]

(* 10_u128.pow(n) *)
Pow10[n \in Nat] == IF n = 0 THEN 1 ELSE 10 * Pow10[n - 1]

(* One contract's full collateral. *)
Unit == Pow10[USD_DECIMALS]

Abs(q) == IF q < 0 THEN -q ELSE q

(* u128::saturating_sub *)
Less(x, y) == IF y > x THEN 0 ELSE x - y

(* value / factor, or value.div_ceil(factor) *)
DivRound(value, factor, mode) ==
    IF mode = "Ceil" THEN (value + factor - 1) \div factor ELSE value \div factor

(* scale_price: a value of source decimals as one of target decimals. *)
ScalePrice(value, target, source, mode) ==
    IF target >= source THEN value * Pow10[target - source]
    ELSE DivRound(value, Pow10[source - target], mode)

InUsd_Swapped(p, mode) ==
    ScalePrice(p.value, USD_DECIMALS, p.decimals, IF mode = "Ceil" THEN "Floor" ELSE "Ceil")

InUsd(p, mode) == ScalePrice(p.value, USD_DECIMALS, p.decimals, mode)

-----------------------------------------------------------------------------
(* get_unit_payoff answers Ok: the settlement fits the contract. *)
HasUnitPayoff(series, settlement) ==
    \/ series.social
    \/ series.payoff_type = "Categorical" /\ settlement.kind = "Outcome"
    \/ series.payoff_type = "Binary" /\ settlement.kind = "Price"
    \/ /\ series.payoff_type \in Scalar /\ settlement.kind = "Price"
       /\ series.strike # NoStrike

(* The strike is scaled, rounding down, to the decimals of the price. *)
Intrinsic(series, price) ==
    LET strike == ScalePrice(series.strike.value, price.decimals,
                             series.strike.decimals, "Floor") IN
    IF series.payoff_type = "Call" THEN Less(price.value, strike)
                                   ELSE Less(strike, price.value)

(* get_unit_payoff: what one long contract pays. *)
UnitPayoff(series, outcome, settlement) ==
    IF series.social THEN 0
    ELSE CASE series.payoff_type = "Categorical" ->
                IF outcome = settlement.outcome THEN Unit ELSE 0
           [] series.payoff_type = "Binary" -> InUsd(settlement.price, "Floor")
           [] OTHER -> ScalePrice(Intrinsic(series, settlement.price), USD_DECIMALS,
                                  settlement.price.decimals, "Floor")

SettlementValue_ShortUnscaled(series, outcome, qty, settlement) ==
    LET unit_payoff == UnitPayoff(series, outcome, settlement) IN
    IF qty < 0 /\ series.payoff_type \notin Scalar
    THEN Less(Unit, unit_payoff)
    ELSE Abs(qty) * unit_payoff

(* get_settlement_value: what a position of qty contracts is paid. *)
SettlementValue(series, outcome, qty, settlement) ==
    LET unit_payoff == UnitPayoff(series, outcome, settlement) IN
    IF qty < 0 /\ series.payoff_type \notin Scalar
    THEN Abs(qty) * Less(Unit, unit_payoff)
    ELSE Abs(qty) * unit_payoff

-----------------------------------------------------------------------------
(* get_required_margin answers Ok. *)
HasMargin(series, qty) ==
    series.social \/ ~(series.payoff_type = "Put" /\ qty < 0 /\ series.strike = NoStrike)

(* The margin of one contract on the side of qty. *)
UnitMargin(series, price, qty) ==
    LET usd == InUsd(price, "Ceil") IN
    CASE series.payoff_type = "Call" -> usd
      [] series.payoff_type = "Put" ->
            IF qty < 0 THEN InUsd(series.strike, "Ceil") ELSE usd
      [] OTHER -> IF qty < 0 THEN Less(Unit, usd) ELSE usd

RequiredMargin_RoundedOnce(series, price, qty) ==
    IF series.social \/ qty = 0 THEN 0
    ELSE InUsd([price EXCEPT !.value = Abs(qty) * @], "Ceil")

(* get_required_margin: the margin of a position of qty contracts. *)
RequiredMargin(series, price, qty) ==
    IF series.social \/ qty = 0 THEN 0 ELSE Abs(qty) * UnitMargin(series, price, qty)

(* calculate_settlement_fee, in basis points of BPS_BASE. *)
SettlementFee(payoff, bps) == (payoff * bps) \div 10000

-----------------------------------------------------------------------------
(* Properties of the arithmetic, for the contracts that collateralise the
   full unit: Binary and Categorical, priced and resolved at no more than 1. *)

FullCollateral(series) == ~series.social /\ series.payoff_type \notin Scalar

(* "Total System Payout (Long + Short) always equals 1 unit of collateral." *)
PairPaysUnit(series, outcome, qty, settlement) ==
    UnitPayoff(series, outcome, settlement) <= Unit =>
        SettlementValue(series, outcome, qty, settlement)
          + SettlementValue(series, outcome, -qty, settlement) = Abs(qty) * Unit

(* "Total System Margin (Long + Short) always equals 1 unit per contract." *)
PairReservesUnit(series, price, qty) ==
    InUsd(price, "Ceil") <= Unit =>
        RequiredMargin(series, price, qty) + RequiredMargin(series, price, -qty)
          = Abs(qty) * Unit

(* "get_required_margin is linear in abs(qty)": what a partial fill leaves
   blocked and what it releases add up. *)
MarginIsLinear(series, price, qty, part) ==
    qty * part >= 0 =>
        RequiredMargin(series, price, qty + part)
          = RequiredMargin(series, price, qty) + RequiredMargin(series, price, part)
=============================================================================
