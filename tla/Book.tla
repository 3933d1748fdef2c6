-------------------------------- MODULE Book --------------------------------
(***************************************************************************)
(* The state trading and settlement share: accounts, positions, resting    *)
(* orders, the cache of series and the settlement plans (clearing/src/     *)
(* memory.rs), with the operators both use.                                *)
(*                                                                         *)
(* One balance domain: every map of AccountState is keyed by domain first, *)
(* and no operation here touches two domains.  An account that was never   *)
(* opened reads as one with nothing in it, as it does in the code.         *)
(***************************************************************************)
EXTENDS Payoffs, FiniteSets, FiniteSetsExt, Functions

CONSTANTS
    User,
    SeriesId,
    OrderId,
    OutcomeId,       \* the ids of categorical outcomes
    Listing,         \* [SeriesId -> series], what the registry answers
    Collateral       \* [User -> Int], USD value of the deposits after haircut

(* A fixed collateral: deposits, withdrawals and prices move in Collateral. *)
Outcome == OutcomeId \cup {NoOutcome}
Series == [payoff_type : PayoffType, strike : Price \cup {NoStrike},
           social : BOOLEAN, outcomes : SUBSET OutcomeId, restricted : BOOLEAN]

ASSUME BookAssumption ==
    /\ NoOutcome \notin OutcomeId
    /\ Listing \in [SeriesId -> Series]
    /\ \A s \in SeriesId : IsFiniteSet(Listing[s].outcomes)
    /\ Collateral \in [User -> Int]

VARIABLES
    cash_balances,     \* AccountState::cash_balances_usd
    reserved_margin,   \* AccountState::reserved_margins_usd
    positions,         \* POSITIONS, by <<user, series, outcome>>
    limit_orders,      \* LIMIT_ORDERS, by order id
    series_cache,      \* the keys of SERIES; a cached series never changes
    settlement_plans   \* SETTLEMENT_PLANS, by series

book == <<cash_balances, reserved_margin, positions, limit_orders>>

PositionKey == User \X SeriesId \X Outcome
Position == [net_qty : Int, margin : Nat]
Order == [creator : User, series : SeriesId, outcome : Outcome,
          side : {"Buy", "Sell"}, qty : Nat \ {0}, price : Price, blocked : Nat]

BookTypeOK ==
    /\ cash_balances \in [User -> Int]
    /\ reserved_margin \in [User -> Nat]
    /\ DOMAIN positions \subseteq PositionKey
    /\ \A k \in DOMAIN positions : positions[k] \in Position
    /\ DOMAIN limit_orders \subseteq OrderId
    /\ \A id \in DOMAIN limit_orders : limit_orders[id] \in Order
    /\ series_cache \subseteq SeriesId
    /\ DOMAIN settlement_plans \subseteq SeriesId

EmptyMap == [x \in {} |-> 0]

BookInit ==
    /\ cash_balances = [u \in User |-> 0]
    /\ reserved_margin = [u \in User |-> 0]
    /\ positions = EmptyMap
    /\ limit_orders = EmptyMap

-----------------------------------------------------------------------------
(* Maps: insert, remove, get. *)

Put(map, k, v) == [x \in DOMAIN map \cup {k} |-> IF x = k THEN v ELSE map[x]]
Without(map, S) == Restrict(map, DOMAIN map \ S)

NoPosition == [net_qty |-> 0, margin |-> 0]
PositionOf(k) == IF k \in DOMAIN positions THEN positions[k] ELSE NoPosition

PositionsOf(s) == {k \in DOMAIN positions : k[2] = s}
OrdersOf(s) == {id \in DOMAIN limit_orders : limit_orders[id].series = s}

-----------------------------------------------------------------------------
(* calculate_raw_equity_i128 and its clamped form calculate_equity_usd. *)
RawEquity(u) == Collateral[u] + cash_balances[u]
Clamped(x) == IF x < 0 THEN 0 ELSE x

Adjusted_OnlyUp(margin, delta) == IF delta > 0 THEN margin + delta ELSE margin

(* set_reserved_margin_usd(current + delta), saturating below at 0. *)
Adjusted(margin, delta) == IF delta > 0 THEN margin + delta ELSE Less(margin, -delta)

NotSettled_UntilFinalised(s) ==
    s \in DOMAIN settlement_plans => settlement_plans[s].status # "Finalised"

(* assert_series_not_settled: no plan in any status. *)
NotSettled(s) == s \notin DOMAIN settlement_plans
=============================================================================
