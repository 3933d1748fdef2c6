------------------------------ MODULE Exchange ------------------------------
(***************************************************************************)
(* Trading and settlement of one clearing canister, over the same book.    *)
(***************************************************************************)
EXTENDS Trading, Settlement

CONSTANT Cached      \* series some earlier call has cached

ASSUME ExchangeAssumption == Cached \subseteq SeriesId

vars == <<book, series_cache, settlement_plans, tradingVars, settlementVars>>

TypeOK == BookTypeOK /\ TradingTypeOK /\ SettlementTypeOK

Init ==
    /\ BookInit /\ TradingInit /\ SettlementInit
    /\ series_cache = Cached

(* An upgrade: stable state survives, suspended methods and timers do not,
   and post_upgrade arms a timer for every plan in flight. *)
Upgrade ==
    /\ call' = [c \in CallId |-> None]
    /\ UpgradeTimers
    /\ UNCHANGED <<book, series_cache, settlement_plans, executed_trades, frozen_transfers,
                   accepted_transfers, window, treasury, insurance_fund, settled_events>>

Next ==
    \/ TradingNext /\ UNCHANGED settlementVars
    \/ SettlementNext /\ UNCHANGED tradingVars
    \/ Upgrade

Spec == Init /\ [][Next]_vars

(* The heartbeat is periodic, an armed timer runs, and not every one of its
   messages traps. *)
Fairness ==
    /\ WF_vars(Heartbeat /\ UNCHANGED tradingVars)
    /\ \A s \in SeriesId : SF_vars(TimerFires(s) /\ UNCHANGED tradingVars)

FairSpec == Spec /\ Fairness

-----------------------------------------------------------------------------
(* Properties. *)

PositionMargin(u) ==
    MapThenSumSet(LAMBDA k : positions[k].margin, {k \in DOMAIN positions : k[1] = u})

OrderBlocked(u) ==
    MapThenSumSet(LAMBDA id : limit_orders[id].blocked,
                  {id \in DOMAIN limit_orders : limit_orders[id].creator = u})

(* What is left of a plan to apply. *)
Unapplied(s) ==
    LET plan == settlement_plans[s] IN (plan.cursor + 1)..Len(plan.positions)

PlanMargin(u) ==
    MapThenSumSet(LAMBDA s : SumFor(settlement_plans[s], Unapplied(s), u, "margin"), InFlight)

UsedMargin(u) == PositionMargin(u) + OrderBlocked(u) + PlanMargin(u)

(* execute_trade_impl, the order methods, complete sets, transfers and the
   settlement chunks all adjust the account's reserved margin by deltas: in
   every interleaving the account still reserves what its positions, its
   resting orders and the unapplied rest of settlement plans need. *)
MarginCovered == \A u \in User : reserved_margin[u] >= UsedMargin(u)

(* The same with nothing left over: when no call is suspended across another
   and no position is frozen, no margin outlives what it was reserved for. *)
MarginExact == \A u \in User : reserved_margin[u] = UsedMargin(u)

(* submit_market_order_impl: after a partial fill "the leftover order stays
   fully collateralized". *)
OrdersCollateralized ==
    \A id \in DOMAIN limit_orders : LET order == limit_orders[id] IN
        order.blocked = OrderMargin(order.series, order.price, order.side, order.qty)

(* What a series still owes if it resolves to input, margins returned. *)
Owed(s, input) ==
    IF NotSettled(s)
    THEN MapThenSumSet(LAMBDA k : SettlementValue(Listing[s], k[3], positions[k].net_qty, input)
                                    - positions[k].margin, PositionsOf(s))
    ELSE LET plan == settlement_plans[s] IN
         MapThenSumSet(LAMBDA i : plan.positions[i].cashflow, Unapplied(s))
           + (IF Finalised(s) THEN 0 ELSE plan.fee + plan.insurance_fee)

Resolution == {r \in [SeriesId -> UNION {Inputs[s] : s \in SeriesId}] :
                  \A s \in SeriesId : r[s] \in Inputs[s]}

(* Get_settlement_value's "bedrock of system solvency": trades, fills and
   settlement chunks neither make nor lose money.  However the series
   resolve, what users and funds hold and what is owed sum to zero. *)
Conserved ==
    \A r \in Resolution :
        MapThenSumSet(LAMBDA u : cash_balances[u], User) + treasury + insurance_fund
          + MapThenSumSet(LAMBDA s : Owed(s, r[s]), SeriesId) = 0

(* cancel_open_limit_orders and assert_series_not_settled: "no open orders
   for a settled series", and no positions, from the plan's opening on. *)
SettledHasNoExposure ==
    \A s \in DOMAIN settlement_plans : PositionsOf(s) = {} /\ OrdersOf(s) = {}

PlanKept(s) ==
    /\ s \in DOMAIN settlement_plans'
    /\ LET old == settlement_plans[s]
           new == settlement_plans'[s] IN
        /\ new.cursor >= old.cursor
        /\ new = [old EXCEPT !.cursor = new.cursor, !.status = new.status]
        /\ old.status = "Finalised" => new = old

PlansKept == \A s \in DOMAIN settlement_plans : PlanKept(s)

(* settle_series_inner is "idempotent": whatever calls, timers, traps and
   upgrades do, a plan keeps its input, its snapshots and its fees, its
   cursor never goes back, and a finalised plan is final. *)
PlansAreFinal == [][PlansKept]_vars

(* apply_settlement_accounting_logic and backfill_settlement_events: no plan
   position has two Settled rows, and a finalised plan of this version has
   one row for each. *)
EventsOnce ==
    \A s \in SeriesId :
        /\ IsInjective(settled_events[s])
        /\ Finalised(s) /\ s \notin DOMAIN LegacyPlans =>
              Len(settled_events[s]) = Len(settlement_plans[s].positions)

(* The heartbeat "picks such plans back up": an opened plan is finalised in
   spite of traps and upgrades. *)
PlansFinalise == \A s \in SeriesId : s \in InFlight ~> Finalised(s)

LegIsCovered(u) == Collateral[u] + cash_balances'[u] >= reserved_margin'[u]

TradeIsCovered ==
    executed_trades' # executed_trades =>
        \A u \in User :
            \/ cash_balances'[u] = cash_balances[u] /\ reserved_margin'[u] = reserved_margin[u]
            \/ LegIsCovered(u)

(* execute_trade_impl's "post-trade equity covers the target reserved
   margin", for both parties of every trade. *)
TradesCovered == [][TradeIsCovered]_vars

AcceptRepeats(c) ==
    /\ call[c] # None /\ call[c].req.op = "accept"
    /\ call[c].req.transfer \in accepted_transfers
    /\ positions' # positions

NoAcceptRepeats == \A c \in CallId : ~(AcceptRepeats(c) /\ call'[c] = None)

(* accept_position_transfer answers a transfer it has accepted without
   touching the position again. *)
AcceptedOnce == [][NoAcceptRepeats]_vars

QuantityMoves(k) ==
    \/ (k \in DOMAIN positions) # (k \in DOMAIN positions')
    \/ k \in DOMAIN positions /\ positions'[k].net_qty # positions[k].net_qty

MovesRecorded ==
    (\E k \in DOMAIN positions \cup DOMAIN positions' : QuantityMoves(k)) =>
        <<reserved_margin, executed_trades, accepted_transfers, frozen_transfers,
          settlement_plans>>'
          # <<reserved_margin, executed_trades, accepted_transfers, frozen_transfers,
              settlement_plans>>

(* "NO mutation of state occurs here. If any check fails, return an error
   immediately": accept_position_transfer and the others move a position
   only together with the margin or the record of what moved it. *)
RefusedMovesNothing == [][MovesRecorded]_vars

(* "Release: Source releases the collateral once the novation is confirmed":
   the margin of a frozen position does not stay reserved for good. *)
FrozenMarginReleased == DOMAIN frozen_transfers # {} ~> MarginExact

-----------------------------------------------------------------------------
(* The refinement mapping: a plan in flight counts as applied in full. *)

KeyOwner(k) == k[1]
KeyPayoff(k, pos, input) == SettlementValue(Listing[k[2]], k[3], pos.net_qty, input)
KeyFees(k, pos, input) ==
    SettlementFee(KeyPayoff(k, pos, input), INSURANCE_BPS)
      + SettlementFee(KeyPayoff(k, pos, input), PROTOCOL_BPS)
KeyNet(k, pos, input) == KeyPayoff(k, pos, input) - pos.margin - KeyFees(k, pos, input)

Promise == INSTANCE SettlementPromise WITH
    Owner <- KeyOwner,
    Net <- KeyNet,
    Fees <- KeyFees,
    exposure <- [s \in SeriesId |-> Restrict(positions, PositionsOf(s))],
    wealth <- [u \in User |-> cash_balances[u] +
                  MapThenSumSet(LAMBDA s : SumFor(settlement_plans[s], Unapplied(s), u, "cashflow"),
                                InFlight)],
    funds <- treasury + insurance_fund +
                MapThenSumSet(LAMBDA s : settlement_plans[s].fee
                                           + settlement_plans[s].insurance_fee, InFlight),
    settled <- DOMAIN settlement_plans

(* settle_series_inner in chunks, over timers, traps, upgrades and repeated
   calls, is the settlement of SettlementPromise: every position is paid
   once, and the series is closed from the first step on. *)
SettlesAtOnce == Promise!Spec
=============================================================================
