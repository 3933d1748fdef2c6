------------------------------ MODULE Trading ------------------------------
(***************************************************************************)
(* Trading (api/trade/api.rs, trade/service.rs): limit and market orders,  *)
(* matched trades, complete sets, and position transfers.                  *)
(*                                                                         *)
(* A method runs in one step unless it awaits the registry: once for a     *)
(* series that is not cached ("registry"), once for the membership check   *)
(* of a restricted series ("access").  A market order keeps the copy of    *)
(* the order it read before the awaits.  The guard against reassignment    *)
(* is left out: no account is re-keyed here.                               *)
(***************************************************************************)
EXTENDS Book

CONSTANTS
    CallId,          \* concurrent method executions (bound)
    None,            \* the idle call, and qty = None of a market order
    TradeId,
    TransferId,
    Request          \* the calls clients may make, see Requests

(* What a client passes; a market order names the resting order only. *)
Requests ==
    [op : {"limit"}, user : User, series : SeriesId, order : OrderId,
     outcome : Outcome, side : {"Buy", "Sell"}, qty : Nat, price : Price]
    \cup [op : {"market"}, user : User, order : OrderId, trade : TradeId,
          qty : Nat \cup {None}]
    \cup [op : {"matched"}, series : SeriesId, trade : TradeId, outcome : Outcome,
          buyer : User, seller : User, qty : Nat, price : Price,
          b_unblock : Nat, s_unblock : Nat]
    \cup [op : {"mint", "redeem"}, user : User, series : SeriesId, qty : Nat]
    \cup [op : {"accept"}, user : User, series : SeriesId, transfer : TransferId,
          outcome : Outcome, qty : Int, price : Price]

ASSUME TradingAssumption == None \notin Nat /\ Request \subseteq Requests

VARIABLES
    executed_trades,     \* the keys of EXECUTED_TRADES
    frozen_transfers,    \* FROZEN_TRANSFERS: the position each proof took
    accepted_transfers,  \* ACCEPTED_TRANSFERS
    window,              \* where the time is in each series' trading window
    call                 \* methods suspended at an await

tradeState == <<book, executed_trades, accepted_transfers>>
tradingVars == <<executed_trades, frozen_transfers, accepted_transfers, window, call>>

Suspended == [req : Request, series : SeriesId, seen : Order \cup {None},
              at : {"registry", "access"}]

TradingTypeOK ==
    /\ executed_trades \subseteq TradeId
    /\ DOMAIN frozen_transfers \subseteq TransferId
    /\ accepted_transfers \subseteq TransferId
    /\ window \in [SeriesId -> {"scheduled", "trading", "expired"}]
    /\ call \in [CallId -> Suspended \cup {None}]

TradingInit ==
    /\ executed_trades = {}
    /\ frozen_transfers = EmptyMap
    /\ accepted_transfers = {}
    /\ window \in [SeriesId -> {"scheduled", "trading"}]
    /\ call = [c \in CallId |-> None]

-----------------------------------------------------------------------------
(* execute_trade_impl. *)

Signed(side, qty) == IF side = "Sell" THEN -qty ELSE qty

Leg_Unmarked(t, u, dq, unblock) ==
    LET old == PositionOf(<<u, t.series, t.outcome>>)
        At(q) == RequiredMargin(Listing[t.series], t.price, q)
    IN  [key |-> <<u, t.series, t.outcome>>,
         old_qty |-> old.net_qty,
         net_qty |-> old.net_qty + dq,
         margin |-> At(old.net_qty + dq),
         cash |-> 0,
         reserve |-> At(old.net_qty + dq) - old.margin - unblock]

Leg_OldQty(t, u, dq, unblock) ==
    LET old == PositionOf(<<u, t.series, t.outcome>>)
        At(q) == RequiredMargin(Listing[t.series], t.price, q)
    IN  [key |-> <<u, t.series, t.outcome>>,
         old_qty |-> old.net_qty,
         net_qty |-> old.net_qty + dq,
         margin |-> At(old.net_qty + dq),
         cash |-> old.margin - At(old.net_qty),
         reserve |-> At(old.net_qty) - old.margin - unblock]

(* One party's side: its position marked to the trade price, then grown by
   dq.  cash is subtracted from the cash balance, reserve added to the
   reserved margin. *)
Leg(t, u, dq, unblock) ==
    LET old == PositionOf(<<u, t.series, t.outcome>>)
        At(q) == RequiredMargin(Listing[t.series], t.price, q)
    IN  [key |-> <<u, t.series, t.outcome>>,
         old_qty |-> old.net_qty,
         net_qty |-> old.net_qty + dq,
         margin |-> At(old.net_qty + dq),
         cash |-> old.margin - At(old.net_qty),
         reserve |-> At(old.net_qty + dq) - old.margin - unblock]

BuyerLeg(t) == Leg(t, t.buyer, t.qty, t.b_unblock)
SellerLeg(t) == Leg(t, t.seller, -t.qty, t.s_unblock)

LegHasMargin(t, leg) ==
    \A q \in {leg.old_qty, leg.net_qty} : HasMargin(Listing[t.series], q)

(* The solvency check reads the equity before the trade's cash moves. *)
LegCovered(u, leg) == RawEquity(u) >= Adjusted(reserved_margin[u], leg.reserve)

TradeAllowed(t) ==
    /\ t.trade \notin executed_trades
    /\ t.buyer # t.seller
    /\ LegHasMargin(t, BuyerLeg(t)) /\ LegHasMargin(t, SellerLeg(t))
    /\ ~Listing[t.series].social =>
          LegCovered(t.buyer, BuyerLeg(t)) /\ LegCovered(t.seller, SellerLeg(t))

AsPosition(leg) == [net_qty |-> leg.net_qty, margin |-> leg.margin]

ApplyTrade(t) ==
    LET b == BuyerLeg(t)
        s == SellerLeg(t)
    IN  /\ cash_balances' = [cash_balances EXCEPT ![t.buyer] = @ - b.cash,
                                                  ![t.seller] = @ - s.cash]
        /\ reserved_margin' = [reserved_margin EXCEPT
                                  ![t.buyer] = Adjusted(@, b.reserve),
                                  ![t.seller] = Adjusted(@, s.reserve)]
        /\ positions' = Put(Put(positions, b.key, AsPosition(b)), s.key, AsPosition(s))
        /\ executed_trades' = executed_trades \cup {t.trade}

(* submit_matched_trade: an exchange's trade, no order of ours behind it. *)
MatchedTrade(r) ==
    LET t == [series |-> r.series, outcome |-> r.outcome, trade |-> r.trade,
              buyer |-> r.buyer, seller |-> r.seller, qty |-> r.qty, price |-> r.price,
              b_unblock |-> r.b_unblock, s_unblock |-> r.s_unblock]
    IN  IF TradeAllowed(t) THEN ApplyTrade(t) /\ UNCHANGED <<limit_orders, accepted_transfers>>
        ELSE UNCHANGED tradeState

-----------------------------------------------------------------------------
(* Orders. *)

(* The best bid of an outcome, 0 without one, the new order's included. *)
BestBid(o, bids) ==
    Max({0} \cup {InUsd(b.price, "Ceil") : b \in {x \in bids : x.outcome = o}})

(* validate_no_arbitrage, for buy orders only. *)
NoArbitrage(r) ==
    LET series == Listing[r.series]
        bids == {[outcome |-> r.outcome, price |-> r.price]}
                \cup {[outcome |-> limit_orders[id].outcome, price |-> limit_orders[id].price] :
                        id \in {i \in OrdersOf(r.series) : limit_orders[i].side = "Buy"}}
    IN  r.side = "Buy" =>
            /\ series.payoff_type = "Binary" => InUsd(r.price, "Ceil") <= Unit
            /\ series.payoff_type = "Categorical" =>
                  MapThenSumSet(LAMBDA o : BestBid(o, bids), series.outcomes) <= Unit

OrderMargin(s, price, side, qty) == RequiredMargin(Listing[s], price, Signed(side, qty))

OrderAllowed(r) ==
    /\ NoArbitrage(r)
    /\ HasMargin(Listing[r.series], Signed(r.side, r.qty))
    /\ Clamped(RawEquity(r.user)) >=
          reserved_margin[r.user] + OrderMargin(r.series, r.price, r.side, r.qty)

(* The end of submit_limit_order.  Whether the id is on the book was
   checked before the awaits and is not checked again. *)
PlaceOrder(r) ==
    LET blocked == OrderMargin(r.series, r.price, r.side, r.qty) IN
    IF OrderAllowed(r)
    THEN /\ reserved_margin' = [reserved_margin EXCEPT ![r.user] = @ + blocked]
         /\ limit_orders' = Put(limit_orders, r.order,
                [creator |-> r.user, series |-> r.series, outcome |-> r.outcome,
                 side |-> r.side, qty |-> r.qty, price |-> r.price, blocked |-> blocked])
         /\ UNCHANGED <<cash_balances, positions, executed_trades, accepted_transfers>>
    ELSE UNCHANGED tradeState

FillQty_Uncapped(r, order) == IF r.qty = None THEN order.qty ELSE r.qty

FillQty(r, order) ==
    IF r.qty = None \/ r.qty > order.qty THEN order.qty ELSE r.qty

RemainingBlocked_Kept(r, order) ==
    IF FillQty(r, order) = order.qty THEN 0 ELSE order.blocked

RemainingBlocked(r, order) ==
    OrderMargin(order.series, order.price, order.side, order.qty - FillQty(r, order))

FillTrade(r, order) ==
    LET released == order.blocked - RemainingBlocked(r, order)
        creator_buys == order.side = "Buy"
    IN  [series |-> order.series, outcome |-> order.outcome, trade |-> r.trade,
         buyer |-> IF creator_buys THEN order.creator ELSE r.user,
         seller |-> IF creator_buys THEN r.user ELSE order.creator,
         qty |-> FillQty(r, order), price |-> order.price,
         b_unblock |-> IF creator_buys THEN released ELSE 0,
         s_unblock |-> IF creator_buys THEN 0 ELSE released]

(* The order on the book is still the one validated before the awaits: only
   its quantity, and the margin blocked for it, may have changed. *)
SameOrder(order, seen) ==
    order = [seen EXCEPT !.qty = order.qty, !.blocked = order.blocked]

FillAllowed(r, seen) ==
    /\ r.qty # 0
    /\ r.order \in DOMAIN limit_orders
    /\ LET order == limit_orders[r.order] IN
          /\ SameOrder(order, seen)
          /\ RemainingBlocked(r, order) <= order.blocked
          /\ TradeAllowed(FillTrade(r, order))

(* submit_market_order_impl: the order is re-read, filled, then shrunk. *)
FillOrder(r, seen) ==
    IF FillAllowed(r, seen)
    THEN LET order == limit_orders[r.order]
             left == order.qty - FillQty(r, order)
         IN  /\ ApplyTrade(FillTrade(r, order))
             /\ limit_orders' =
                   IF left = 0 THEN Without(limit_orders, {r.order})
                   ELSE [limit_orders EXCEPT ![r.order] =
                           [order EXCEPT !.qty = left,
                                         !.blocked = RemainingBlocked(r, order)]]
             /\ UNCHANGED accepted_transfers
    ELSE UNCHANGED tradeState

(* cancel_limit_order, by the order's creator. *)
CancelOrder(id) ==
    /\ id \in DOMAIN limit_orders
    /\ LET order == limit_orders[id] IN
          reserved_margin' = [reserved_margin EXCEPT ![order.creator] = Less(@, order.blocked)]
    /\ limit_orders' = Without(limit_orders, {id})
    /\ UNCHANGED <<cash_balances, positions, series_cache, settlement_plans, tradingVars>>

-----------------------------------------------------------------------------
(* Complete sets of categorical positions. *)

SetKeys(r) == {<<r.user, r.series, o>> : o \in Listing[r.series].outcomes}

SetCost(r) == r.qty * Unit

MintAllowed(r) ==
    /\ r.qty > 0 /\ Listing[r.series].payoff_type = "Categorical" /\ SetKeys(r) # {}
    /\ RawEquity(r.user) >= reserved_margin[r.user] + SetCost(r)

(* mint_complete_set_logic: each position takes an equal share, rounded. *)
MintSet(r) ==
    LET share == SetCost(r) \div Cardinality(SetKeys(r)) IN
    IF MintAllowed(r)
    THEN /\ reserved_margin' = [reserved_margin EXCEPT ![r.user] = @ + SetCost(r)]
         /\ positions' = [k \in DOMAIN positions \cup SetKeys(r) |->
                IF k \in SetKeys(r)
                THEN [net_qty |-> PositionOf(k).net_qty + r.qty,
                      margin |-> PositionOf(k).margin + share]
                ELSE positions[k]]
         /\ UNCHANGED <<cash_balances, limit_orders, executed_trades, accepted_transfers>>
    ELSE UNCHANGED tradeState

RedeemAllowed(r) ==
    /\ r.qty > 0 /\ Listing[r.series].payoff_type = "Categorical"
    /\ \A k \in SetKeys(r) : PositionOf(k).net_qty >= r.qty

(* The margin a redemption frees of one position, rounded per contract. *)
Redeemed(r, k) == (positions[k].margin \div positions[k].net_qty) * r.qty

(* redeem_complete_set_logic: margin is released, no cash is paid. *)
RedeemSet(r) ==
    IF RedeemAllowed(r)
    THEN /\ reserved_margin' = [reserved_margin EXCEPT ![r.user] =
                Less(@, MapThenSumSet(LAMBDA k : Redeemed(r, k), SetKeys(r)))]
         /\ positions' = [k \in DOMAIN positions |->
                IF k \in SetKeys(r)
                THEN [net_qty |-> positions[k].net_qty - r.qty,
                      margin |-> positions[k].margin - Redeemed(r, k)]
                ELSE positions[k]]
         /\ UNCHANGED <<cash_balances, limit_orders, executed_trades, accepted_transfers>>
    ELSE UNCHANGED tradeState

-----------------------------------------------------------------------------
(* Position transfers between clearing canisters, by controllers. *)

(* freeze_position_for_transfer: the position leaves, the margin reserved
   for it in the account stays reserved. *)
FreezePosition(id, k) ==
    /\ id \notin DOMAIN frozen_transfers
    /\ k \in DOMAIN positions
    /\ frozen_transfers' = Put(frozen_transfers, id, [key |-> k, qty |-> positions[k].net_qty])
    /\ positions' = Without(positions, {k})
    /\ UNCHANGED <<cash_balances, reserved_margin, limit_orders, series_cache,
                   settlement_plans, executed_trades, accepted_transfers, window, call>>

(* The end of accept_position_transfer.  Whether the transfer was accepted
   was checked before the await and is not checked again.  When the margin
   cannot be computed the quantity has already moved, and stays. *)
AcceptTransfer(r) ==
    LET k == <<r.user, r.series, r.outcome>>
        qty == PositionOf(k).net_qty + r.qty
        margin == RequiredMargin(Listing[r.series], r.price, qty)
        accepted == HasMargin(Listing[r.series], qty)
    IN  /\ positions' = Put(positions, k,
               [net_qty |-> qty, margin |-> IF accepted THEN margin ELSE PositionOf(k).margin])
        /\ IF accepted
           THEN /\ reserved_margin' = [reserved_margin EXCEPT ![r.user] =
                                          Adjusted(@, margin - PositionOf(k).margin)]
                /\ accepted_transfers' = accepted_transfers \cup {r.transfer}
           ELSE UNCHANGED <<reserved_margin, accepted_transfers>>
        /\ UNCHANGED <<cash_balances, limit_orders, executed_trades>>

-----------------------------------------------------------------------------
(* The methods: checks, awaits, effect. *)

Perform(r, seen) ==
    CASE r.op = "limit" -> PlaceOrder(r)
      [] r.op = "market" -> FillOrder(r, seen)
      [] r.op = "matched" -> MatchedTrade(r)
      [] r.op = "mint" -> MintSet(r)
      [] r.op = "redeem" -> RedeemSet(r)
      [] r.op = "accept" -> AcceptTransfer(r)

(* What a method checks before anything else. *)
Receivable(r) ==
    CASE r.op = "limit" -> r.qty > 0 /\ r.price.value > 0 /\ r.order \notin DOMAIN limit_orders
      [] r.op = "market" -> r.order \in DOMAIN limit_orders
      [] r.op = "matched" -> r.qty > 0 /\ r.price.value > 0
      [] r.op = "accept" -> r.transfer \notin accepted_transfers
      [] OTHER -> TRUE

SeenBy(r) == IF r.op = "market" THEN limit_orders[r.order] ELSE None
SeriesOf(r) == IF r.op = "market" THEN limit_orders[r.order].series ELSE r.series

(* assert_series_started and, to open exposure, assert_series_not_expired. *)
InWindow(r, s) ==
    \/ window[s] = "trading"
    \/ window[s] = "expired" /\ r.op \in {"redeem", "accept"}

(* check_trading_access asks the registry. *)
AsksAccess(r, s) == Listing[s].restricted /\ r.op \notin {"matched", "accept"}

Await(c, r, s, seen, at) ==
    call' = [call EXCEPT ![c] = [req |-> r, series |-> s, seen |-> seen, at |-> at]]

Return(c) == call' = [call EXCEPT ![c] = None]

(* From the end of ensure_series_registered to the next await or the end. *)
Continue(c, r, s, seen) ==
    IF ~InWindow(r, s) THEN Return(c) /\ UNCHANGED tradeState
    ELSE IF AsksAccess(r, s) THEN Await(c, r, s, seen, "access") /\ UNCHANGED tradeState
    ELSE Return(c) /\ Perform(r, seen)

(* A method's first message: assert_series_not_settled, then the cache. *)
Submit(c, r) ==
    /\ call[c] = None
    /\ Receivable(r)
    /\ NotSettled(SeriesOf(r))
    /\ IF SeriesOf(r) \in series_cache
       THEN Continue(c, r, SeriesOf(r), SeenBy(r))
       ELSE Await(c, r, SeriesOf(r), SeenBy(r), "registry") /\ UNCHANGED tradeState
    /\ UNCHANGED <<series_cache, settlement_plans, frozen_transfers, window>>

(* get_series answers: the series is cached, and no plan is looked for. *)
RegistryAnswers(c) ==
    /\ call[c] # None /\ call[c].at = "registry"
    /\ series_cache' = series_cache \cup {call[c].series}
    /\ Continue(c, call[c].req, call[c].series, call[c].seen)
    /\ UNCHANGED <<settlement_plans, frozen_transfers, window>>

(* is_trading_authorized answers yes. *)
AccessGranted(c) ==
    /\ call[c] # None /\ call[c].at = "access"
    /\ Return(c)
    /\ Perform(call[c].req, call[c].seen)
    /\ UNCHANGED <<series_cache, settlement_plans, frozen_transfers, window>>

(* The registry refuses, does not know the series, or does not answer. *)
RegistryRefuses(c) ==
    /\ call[c] # None
    /\ Return(c)
    /\ UNCHANGED <<tradeState, series_cache, settlement_plans, frozen_transfers, window>>

(* Time passes the start and the expiry of a series. *)
WindowMoves(s) ==
    /\ window[s] # "expired"
    /\ window' = [window EXCEPT ![s] = IF @ = "scheduled" THEN "trading" ELSE "expired"]
    /\ UNCHANGED <<tradeState, series_cache, settlement_plans, frozen_transfers, call>>

TradingNext ==
    \/ \E c \in CallId : \/ \E r \in Request : Submit(c, r)
                         \/ RegistryAnswers(c) \/ AccessGranted(c) \/ RegistryRefuses(c)
    \/ \E id \in OrderId : CancelOrder(id)
    \/ \E id \in TransferId, k \in DOMAIN positions : FreezePosition(id, k)
    \/ \E s \in SeriesId : WindowMoves(s)
=============================================================================
