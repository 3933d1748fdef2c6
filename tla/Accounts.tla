------------------------------ MODULE Accounts ------------------------------
(***************************************************************************)
(* What account reassignment and domain migration share: the accounts of   *)
(* the clearing canister by balance domain, their positions, orders and    *)
(* plans, and the user and controller methods that change them.            *)
(*                                                                         *)
(* Deposits, trades and settlement are modelled in full by Collateral,     *)
(* Trading and Settlement.  Here they are cut down to what moving an       *)
(* account can disturb: one token per transfer, every token worth one      *)
(* dollar, binary contracts of one unit (2), orders at half a unit, so     *)
(* that either side of one reserves 1, matched trades at any price, and no *)
(* fees but the ledger's.  Complete sets and transfers accepted from       *)
(* another canister are not here.                                          *)
(***************************************************************************)
EXTENDS Integers, FiniteSets, FiniteSetsExt, Functions

CONSTANTS
    Principal,
    Domain,           \* BalanceDomain values
    Asset,
    Icrc,             \* the assets whose custody the canister can move
    SeriesId,
    SeriesDomain,     \* [SeriesId -> Domain], Series::balance_domain
    Social,           \* the domains without margin, BalanceDomain::Social
    OrderId,
    DepositId,
    WithdrawalId,
    UserCallId,       \* concurrent orders and matched trades (bound)
    AdminCallId,      \* concurrent reassignment calls (bound)
    None,             \* the idle call, an outstanding sweep
    Fee,              \* the ledger's transfer fee
    Request,          \* the user calls that may be made, see Requests
    Opening,          \* [Principal -> [Asset -> Nat]], deposits made before
    OpeningDomain,    \* ... in this domain
    MaxQty,           \* bound on a position's size
    Discipline,       \* what is assumed of callers, see AccountMoves
    Faults            \* which faults may happen, see Reassignment

CallId == UserCallId \cup AdminCallId

Side == {"Buy", "Sell"}

Requests ==
    [op : {"deposit"}, user : Principal, id : DepositId, domain : Domain, asset : Asset]
    \cup [op : {"withdraw"}, user : Principal, id : WithdrawalId, domain : Domain, asset : Asset]
    \cup [op : {"limit"}, user : Principal, id : OrderId, series : SeriesId, side : Side]
    \cup [op : {"market"}, user : Principal, id : OrderId]
    \cup [op : {"matched"}, buyer : Principal, seller : Principal, series : SeriesId,
          price : Nat \ {0}]
    \cup [op : {"freeze"}, user : Principal, series : SeriesId]
    \cup [op : {"settle"}, series : SeriesId, value : {0, 2}]

ASSUME AccountsAssumption ==
    /\ Icrc \subseteq Asset
    /\ SeriesDomain \in [SeriesId -> Domain] /\ Social \subseteq Domain
    /\ DepositId \cap WithdrawalId = {}
    /\ Fee \in Nat /\ MaxQty \in Nat
    /\ Request \subseteq Requests
    /\ Opening \in [Principal -> [Asset -> Nat]]
    /\ OpeningDomain \in Domain

VARIABLES
    account_states,      \* ACCOUNT_STATES
    positions,           \* POSITIONS, by <<principal, series>>
    limit_orders,        \* LIMIT_ORDERS
    frozen_transfers,    \* FROZEN_TRANSFERS: the position each proof took
    custody_plans,       \* DEPOSIT_PLANS and WITHDRAWAL_PLANS, by <<user, id>>
    settlement_plans,    \* SETTLEMENT_PLANS: whose positions, what is left to account for
    migration_plans,     \* MIGRATION_PLANS: the status, by <<user, id>>
    reassignment_plans,  \* REASSIGNMENT_PLANS, by <<old owner, id>>
    marks,               \* REASSIGNMENT_MARKS
    call,                \* methods suspended at an await
    late,                \* ledger requests nobody waits for any more
    custody              \* the ledger: tokens in the UserClearing subaccounts

book == <<account_states, positions, limit_orders, frozen_transfers, settlement_plans>>
vars == <<book, custody_plans, migration_plans, reassignment_plans, marks, call, late, custody>>

AccountState == [balances : [Domain -> [Asset -> Nat]], cash : [Domain -> Int],
                 margin : [Domain -> Nat]]
Position == [net_qty : Int, margin : Nat]
Order == [creator : Principal, series : SeriesId, side : Side, domain : Domain, blocked : Nat]
Mark == [generation : Nat, locked : BOOLEAN]
CustodyPlan == [status : {"Planned", "Executing", "Finalised"}, domain : Domain,
                asset : Asset, reserved : BOOLEAN]

-----------------------------------------------------------------------------
(* Maps and accounts.  The setters remove what becomes zero, so a map with
   nothing but zeros is an empty map. *)

EmptyMap == [x \in {} |-> 0]
Put(map, k, v) == [x \in DOMAIN map \cup {k} |-> IF x = k THEN v ELSE map[x]]
Without(map, S) == Restrict(map, DOMAIN map \ S)

Empty == [balances |-> [d \in Domain |-> [a \in Asset |-> 0]],
          cash |-> [d \in Domain |-> 0], margin |-> [d \in Domain |-> 0]]

(* A missing account reads as an empty one. *)
StateOf(p) == IF p \in DOMAIN account_states THEN account_states[p] ELSE Empty

PositionOf(p, s) ==
    IF <<p, s>> \in DOMAIN positions THEN positions[<<p, s>>] ELSE [net_qty |-> 0, margin |-> 0]

Less_Wraps(x, y) == x - y

(* saturating_sub *)
Less(x, y) == IF y > x THEN 0 ELSE x - y
Clamped(x) == Less(x, 0)
Adjusted(margin, delta) == IF delta > 0 THEN margin + delta ELSE Less(margin, -delta)

RawEquity(state, d) == MapThenSumSet(LAMBDA a : state.balances[d][a], Asset) + state.cash[d]

Unit == 2
OrderPrice == 1

(* get_required_margin: a long reserves its price, a short what is left of
   the unit, nothing at a price of one unit or more.  A social series needs
   no margin. *)
RequiredMargin(s, price, qty) ==
    IF SeriesDomain[s] \in Social THEN 0
    ELSE IF qty < 0 THEN -qty * Less(Unit, price) ELSE qty * price

-----------------------------------------------------------------------------
(* ReassignmentGuard *)

(* acquire: the principal is not under reassignment. *)
Acquired(p) == ~marks[p].locked

Revalidated_LockOnly(k) == ~marks[k.user].locked

(* revalidate: nor has it been since the call acquired its guard. *)
Revalidated(k) == ~marks[k.user].locked /\ marks[k.user].generation = k.generation

Return(c) == call' = [call EXCEPT ![c] = None]

-----------------------------------------------------------------------------
(* deposit_collateral and withdraw_collateral.  The plan is durable from
   before the ledger call, so the call itself is not kept: while its plan is
   Executing it may be answered, refused or retried. *)

BeginDeposit(r) ==
    /\ Acquired(r.user)
    /\ <<r.user, r.id>> \notin DOMAIN custody_plans
    /\ custody_plans' = Put(custody_plans, <<r.user, r.id>>,
           [status |-> "Executing", domain |-> r.domain, asset |-> r.asset, reserved |-> FALSE])
    /\ UNCHANGED <<book, migration_plans, reassignment_plans, marks, call, late, custody>>

Finalise(key) == custody_plans' = [custody_plans EXCEPT ![key].status = "Finalised"]

(* The ledger took the token in, and Phase C credits it. *)
DepositSettled(p, id) ==
    /\ id \in DepositId /\ <<p, id>> \in DOMAIN custody_plans
    /\ LET plan == custody_plans[<<p, id>>] IN
          /\ plan.status = "Executing"
          /\ custody' = [custody EXCEPT ![p][plan.asset] = @ + 1]
          /\ account_states' = Put(account_states, p,
                [StateOf(p) EXCEPT !.balances[plan.domain][plan.asset] = @ + 1])
    /\ Finalise(<<p, id>>)
    /\ UNCHANGED <<positions, limit_orders, frozen_transfers, settlement_plans,
                   migration_plans, reassignment_plans, marks, call, late>>

Debited(state, d, a) == [state EXCEPT !.balances[d][a] = Less(@, 1)]

(* The equity after the withdrawal covers the margin; within_balance: the
   client asks for no more than the balance. *)
WithdrawalCovered(r) ==
    /\ r.user \in DOMAIN account_states
    /\ LET state == account_states[r.user] IN
          /\ Clamped(RawEquity(Debited(state, r.domain, r.asset), r.domain))
                >= state.margin[r.domain]
          /\ "within_balance" \in Discipline => state.balances[r.domain][r.asset] >= 1

(* The plan is stored first; a refused check leaves it Planned. *)
BeginWithdrawal(r) ==
    LET key == <<r.user, r.id>>
        covered == WithdrawalCovered(r)
    IN  /\ Acquired(r.user)
        /\ key \in DOMAIN custody_plans =>
               custody_plans[key].status # "Finalised" /\ ~custody_plans[key].reserved
        /\ key \in DOMAIN custody_plans => covered
        /\ custody_plans' = Put(custody_plans, key,
               [status |-> IF covered THEN "Executing" ELSE "Planned", domain |-> r.domain,
                asset |-> r.asset, reserved |-> covered])
        /\ account_states' =
               IF covered
               THEN [account_states EXCEPT ![r.user] = Debited(@, r.domain, r.asset)]
               ELSE account_states
        /\ UNCHANGED <<positions, limit_orders, frozen_transfers, settlement_plans,
                       migration_plans, reassignment_plans, marks, call, late, custody>>

(* The ledger pays the token out of the subaccount, with its fee, or
   refuses and the reservation is refunded. *)
WithdrawalAnswered(p, id) ==
    /\ id \in WithdrawalId /\ <<p, id>> \in DOMAIN custody_plans
    /\ LET key == <<p, id>>
           plan == custody_plans[key]
       IN  /\ plan.reserved /\ plan.status = "Executing"
           /\ \/ /\ custody[p][plan.asset] >= 1 + Fee
                 /\ custody' = [custody EXCEPT ![p][plan.asset] = @ - 1 - Fee]
                 /\ Finalise(key)
                 /\ UNCHANGED account_states
              \/ /\ custody_plans' = [custody_plans EXCEPT ![key].reserved = FALSE]
                 /\ account_states' = Put(account_states, p,
                       [StateOf(p) EXCEPT !.balances[plan.domain][plan.asset] = @ + 1])
                 /\ UNCHANGED custody
    /\ UNCHANGED <<positions, limit_orders, frozen_transfers, settlement_plans,
                   migration_plans, reassignment_plans, marks, call, late>>

-----------------------------------------------------------------------------
(* execute_trade_impl: a contract of s passes from v to b, released[p] being
   what a filled order of p gives back.  The old position is marked to the
   price of the trade. *)

Leg(p, s, price, dq, released) ==
    LET old == PositionOf(p, s)
        margin == RequiredMargin(s, price, old.net_qty + dq)
    IN  [position |-> [net_qty |-> old.net_qty + dq, margin |-> margin],
         loss |-> old.margin - RequiredMargin(s, price, old.net_qty),
         reserve |-> margin - old.margin - released]

(* The margin moves in the domain of the SERIES, whatever the order's tag. *)
AfterLeg(p, s, leg) ==
    [StateOf(p) EXCEPT !.cash[SeriesDomain[s]] = @ - leg.loss,
                       !.margin[SeriesDomain[s]] = Adjusted(@, leg.reserve)]

(* The equity before the trade covers the margin after it.  Nothing is
   checked for a social series, and an account that is missing has no equity
   but may need none. *)
LegCovered(p, s, leg) ==
    \/ SeriesDomain[s] \in Social
    \/ RawEquity(StateOf(p), SeriesDomain[s]) >= AfterLeg(p, s, leg).margin[SeriesDomain[s]]

NotSettled(s) == s \notin DOMAIN settlement_plans

(* Both sides' accounts are created where they are missing. *)
Trade(b, v, s, price, released) ==
    LET bought == Leg(b, s, price, 1, released[b])
        sold == Leg(v, s, price, -1, released[v])
    IN  /\ b # v
        /\ bought.position.net_qty <= MaxQty /\ sold.position.net_qty >= -MaxQty
        /\ LegCovered(b, s, bought) /\ LegCovered(v, s, sold)
        /\ account_states' = Put(Put(account_states, b, AfterLeg(b, s, bought)),
                                 v, AfterLeg(v, s, sold))
        /\ positions' = Put(Put(positions, <<b, s>>, bought.position), <<v, s>>, sold.position)

(* Whose account a user call is about. *)
UsersOf(r) == IF r.op = "matched" THEN {r.buyer, r.seller} ELSE {r.user}

(* The reassignments that have taken the account of one of S away or brought
   it one.  A call keeps those it began with, for the property that speaks of
   them. *)
MovesOf(S) ==
    {k \in DOMAIN reassignment_plans : S \cap {k[1], reassignment_plans[k].new_owner} # {}}

(* submit_matched_trade, for controllers, up to its await of the registry:
   no reassignment guard.  rested_matches: controllers match no trade of a
   principal whose account is under reassignment. *)
BeginMatched(c, r) ==
    /\ call[c] = None
    /\ NotSettled(r.series)
    /\ "rested_matches" \in Discipline => \A p \in UsersOf(r) : ~marks[p].locked
    /\ call' = [call EXCEPT ![c] = [op |-> "matched", req |-> r, moves |-> MovesOf(UsersOf(r))]]
    /\ UNCHANGED <<book, custody_plans, migration_plans, reassignment_plans, marks, late, custody>>

(* The registry answered: nothing is looked at again. *)
FinishMatched(c) ==
    /\ call[c] # None /\ call[c].op = "matched"
    /\ LET r == call[c].req IN
          Trade(r.buyer, r.seller, r.series, r.price, [p \in Principal |-> 0])
    /\ Return(c)
    /\ UNCHANGED <<limit_orders, frozen_transfers, settlement_plans, custody_plans,
                   migration_plans, reassignment_plans, marks, late, custody>>

(* submit_limit_order and submit_market_order up to their awaits of the
   registry.  A market order names a resting order, and keeps its copy. *)
BeginOrder(c, r) ==
    /\ call[c] = None
    /\ Acquired(r.user)
    /\ "own_order_ids" \in Discipline => \A k \in CallId : call[k] # None => call[k].op # "limit"
    /\ \/ r.op = "limit" /\ r.id \notin DOMAIN limit_orders /\ NotSettled(r.series)
       \/ r.op = "market" /\ r.id \in DOMAIN limit_orders
    /\ call' = [call EXCEPT ![c] =
           [op |-> r.op, user |-> r.user, generation |-> marks[r.user].generation, req |-> r,
            seen |-> IF r.op = "market" THEN limit_orders[r.id] ELSE None,
            moves |-> MovesOf({r.user})]]
    /\ UNCHANGED <<book, custody_plans, migration_plans, reassignment_plans, marks, late, custody>>

PlaceOrder(p, r) ==
    LET d == SeriesDomain[r.series]
        state == StateOf(p)
        blocked == RequiredMargin(r.series, OrderPrice, IF r.side = "Sell" THEN -1 ELSE 1)
        covered == Clamped(RawEquity(state, d)) >= state.margin[d] + blocked
    IN  /\ account_states' = Put(account_states, p,
              IF covered THEN [state EXCEPT !.margin[d] = @ + blocked] ELSE state)
        /\ limit_orders' =
              IF covered
              THEN Put(limit_orders, r.id, [creator |-> p, series |-> r.series,
                       side |-> r.side, domain |-> d, blocked |-> blocked])
              ELSE limit_orders
        /\ UNCHANGED positions

(* no_migrated_fills: a migrated order is cancelled or settled, not filled. *)
FillOrder(p, r, seen) ==
    /\ r.id \in DOMAIN limit_orders
    /\ LET order == limit_orders[r.id]
           s == order.series
       IN  /\ [order EXCEPT !.domain = seen.domain] = seen
           /\ "no_migrated_fills" \in Discipline => order.domain = SeriesDomain[s]
           /\ Trade(IF order.side = "Buy" THEN order.creator ELSE p,
                    IF order.side = "Buy" THEN p ELSE order.creator, s, OrderPrice,
                    [q \in Principal |-> IF q = order.creator THEN order.blocked ELSE 0])
    /\ limit_orders' = Without(limit_orders, {r.id})

(* The registry answered: the guard is revalidated and the rest runs. *)
FinishOrder(c) ==
    /\ call[c] # None /\ call[c].op \in {"limit", "market"}
    /\ Revalidated(call[c])
    /\ \/ call[c].op = "limit" /\ PlaceOrder(call[c].user, call[c].req)
       \/ call[c].op = "market" /\ FillOrder(call[c].user, call[c].req, call[c].seen)
    /\ Return(c)
    /\ UNCHANGED <<frozen_transfers, settlement_plans, custody_plans, migration_plans,
                   reassignment_plans, marks, late, custody>>

(* Refused: by the guard, the registry or a check. *)
RefuseOrder(c) ==
    /\ call[c] # None /\ call[c].op \in {"limit", "market", "matched"}
    /\ Return(c)
    /\ UNCHANGED <<book, custody_plans, migration_plans, reassignment_plans, marks, late, custody>>

(* cancel_limit_order: releases in the domain the order is tagged with. *)
CancelOrder(id) ==
    /\ id \in DOMAIN limit_orders
    /\ LET order == limit_orders[id] IN
          account_states' = [account_states EXCEPT ![order.creator].margin[order.domain] =
                                Less(@, order.blocked)]
    /\ limit_orders' = Without(limit_orders, {id})
    /\ UNCHANGED <<positions, frozen_transfers, settlement_plans, custody_plans, migration_plans,
                   reassignment_plans, marks, call, late, custody>>

(* freeze_position_for_transfer, for controllers, with one transfer id per
   principal and series.  The margin stays reserved. *)
FreezePosition(r) ==
    /\ <<r.user, r.series>> \in DOMAIN positions \ DOMAIN frozen_transfers
    /\ positions' = Without(positions, {<<r.user, r.series>>})
    /\ frozen_transfers' = Put(frozen_transfers, <<r.user, r.series>>,
                               positions[<<r.user, r.series>>])
    /\ UNCHANGED <<account_states, limit_orders, settlement_plans, custody_plans, migration_plans,
                   reassignment_plans, marks, call, late, custody>>

-----------------------------------------------------------------------------
(* settle_series_inner, in chunks of one position. *)

(* get_settlement_value: a long of a social series is paid nothing. *)
Payoff(s, qty, value) ==
    LET unit_payoff == IF SeriesDomain[s] \in Social THEN 0 ELSE value
    IN  IF qty >= 0 THEN qty * unit_payoff ELSE -qty * (Unit - unit_payoff)

(* What the orders of s release of p's margin in d. *)
OrdersRelease(p, d, s) ==
    MapThenSumSet(LAMBDA id : limit_orders[id].blocked,
        {id \in DOMAIN limit_orders : /\ limit_orders[id].creator = p
                                      /\ limit_orders[id].domain = d
                                      /\ limit_orders[id].series = s})

Snapshots(s, value) ==
    {[user |-> k[1], margin |-> positions[k].margin,
      cash |-> Payoff(s, positions[k].net_qty, value) - positions[k].margin] :
        k \in {x \in DOMAIN positions : x[2] = s}}

(* check_settlement_solvency *)
Solvent(s, snapshots) ==
    LET d == SeriesDomain[s] IN
    MapThenSumSet(LAMBDA w : Clamped(w.cash), snapshots)
        <= MapThenSumSet(LAMBDA p : Clamped(RawEquity(StateOf(p), d)
               + MapThenSumSet(LAMBDA w : w.cash, {w \in snapshots : w.user = p})), Principal)

(* A user with a position in a settlement that is not finalised, whether or
   not the position has been accounted for. *)
InSettlement(p, s) ==
    /\ s \in DOMAIN settlement_plans
    /\ settlement_plans[s].left # {} /\ p \in settlement_plans[s].users

(* apply_settlement_accounting_logic: an owner without an account is skipped. *)
Applied(accounts, s, chunk) ==
    [p \in DOMAIN accounts |->
        [accounts[p] EXCEPT
            !.cash[SeriesDomain[s]] =
                @ + MapThenSumSet(LAMBDA w : w.cash, {w \in chunk : w.user = p}),
            !.margin[SeriesDomain[s]] =
                Less(@, MapThenSumSet(LAMBDA w : w.margin, {w \in chunk : w.user = p}))]]

Chunks(left) == IF left = {} THEN {{}} ELSE {{w} : w \in left}

(* The orders are cancelled, the positions removed and the first chunk is
   applied with the plan. *)
BeginSettlement(r) ==
    LET snapshots == Snapshots(r.series, r.value)
        released == [p \in DOMAIN account_states |->
            [account_states[p] EXCEPT !.margin =
                [d \in Domain |-> Less(@[d], OrdersRelease(p, d, r.series))]]]
    IN
    /\ NotSettled(r.series)
    /\ Solvent(r.series, snapshots)
    /\ \E chunk \in Chunks(snapshots) :
          /\ settlement_plans' = Put(settlement_plans, r.series,
                [users |-> {w.user : w \in snapshots}, left |-> snapshots \ chunk])
          /\ account_states' = Applied(released, r.series, chunk)
    /\ limit_orders' = Restrict(limit_orders,
            {id \in DOMAIN limit_orders : limit_orders[id].series # r.series})
    /\ positions' = Without(positions, {k \in DOMAIN positions : k[2] = r.series})
    /\ UNCHANGED <<frozen_transfers, custody_plans, migration_plans, reassignment_plans, marks,
                   call, late, custody>>

(* The next chunk, from its timer or a repeated settle_series. *)
ApplySettlement(s) ==
    /\ s \in DOMAIN settlement_plans /\ settlement_plans[s].left # {}
    /\ \E chunk \in Chunks(settlement_plans[s].left) :
          /\ settlement_plans' = [settlement_plans EXCEPT ![s].left = @ \ chunk]
          /\ account_states' = Applied(account_states, s, chunk)
    /\ UNCHANGED <<positions, limit_orders, frozen_transfers, custody_plans, migration_plans,
                   reassignment_plans, marks, call, late, custody>>

-----------------------------------------------------------------------------
Respond ==
    \/ \E p \in Principal : \/ \E id \in DepositId : DepositSettled(p, id)
                            \/ \E id \in WithdrawalId : WithdrawalAnswered(p, id)
    \/ \E c \in UserCallId : FinishMatched(c) \/ FinishOrder(c) \/ RefuseOrder(c)
    \/ \E s \in SeriesId : ApplySettlement(s)

AccountsNext ==
    \/ \E r \in Request :
          \/ r.op = "deposit" /\ BeginDeposit(r)
          \/ r.op = "withdraw" /\ BeginWithdrawal(r)
          \/ r.op = "freeze" /\ FreezePosition(r)
          \/ r.op = "settle" /\ BeginSettlement(r)
          \/ \E c \in UserCallId : \/ r.op = "matched" /\ BeginMatched(c, r)
                                   \/ r.op \in {"limit", "market"} /\ BeginOrder(c, r)
    \/ \E id \in OrderId : CancelOrder(id)
    \/ Respond
=============================================================================
