# icdc-core: TLA+ specifications and proofs

icdc-core is a derivatives clearing house on the Internet Computer: users
deposit collateral, trade series (calls, puts, digitals, binary and
categorical markets) against each other, and an oracle settles each series.
It is three canisters and a shared library:

| part | keeps | does |
|---|---|---|
| `clearing` | accounts, plans, positions, orders, settlements, events, funds | custody, trading, settlement, admin |
| `registry` | series, oracles, engines, groups, access tiers | creation and discovery of series, authorisation |
| `minter` | its controllers and ledger | mints and burns vUSD |
| `shared` | types only | series ids, status, filters, pagination |

The clearing canister calls the registry (series lookup, access and oracle
checks) and the ICRC ledgers (transfers); each of these calls is an await, and
other messages run while a method is suspended. Between awaits a method is
atomic: it cannot be preempted, and a trap undoes it back to the last await.
An upgrade keeps the stable state and drops suspended methods and timers.

## 1. Inventory

### Collateral custody (`clearing/src/api/collateral/api.rs`, `types/plans.rs`)
State: `DEPOSIT_PLANS`, `WITHDRAWAL_PLANS`, `ACCOUNT_STATES` (balances, cash and
reserved margin per balance domain); outside, the ICRC ledger.
Operations: `deposit_collateral`, `withdraw_collateral`, both
plan - execute - finalise around one ledger call.
Hard: the local copy of the plan is written back after the await; the answer of
a bounded-wait call can be lost; retries; ICRC deduplication by
`created_at_time` and its window; upgrades with a call in flight.
Correct when: each plan moves tokens once and books them once, a reservation is
paid out or refunded, custody covers the balances.

### Funds and assets (`api/admin/api.rs`, `assets/icrc/handler.rs`)
State: `TREASURY`, `INSURANCE_FUND`, `FUND_WITHDRAWAL_PLANS`,
`COLLATERAL_ASSETS`, `ASSET_METRICS`. Operations: `withdraw_fund`,
`cancel_fund_withdrawal`, `register_icrc_asset`,
`refresh_icrc_asset_metadata`, updates of assets, domains, metrics and prices,
and the handler's transfer, which reads the fee to send from the metrics and
corrects it there.
Hard: cancelling a withdrawal whose transfer is in flight or answered late;
metadata written back after an await over a newer configuration; a retry that
carries another fee is not a duplicate to the ledger.
Correct when: a fund loses what leaves custody, once; a payment leaves once; an
answer undoes nothing done while it was awaited.

### Account reassignment (`account/reassignment.rs`)
State: `REASSIGNMENT_PLANS`, `REASSIGNMENT_MARKS` (lock and generation).
Operations: validate and re-key, sweep custody asset by asset, finalise;
`ReassignmentGuard::acquire` and `revalidate` in user methods; matched trades and
freezes, which controllers call, take no guard.
Hard: a user method suspended while the account is re-keyed under it, and
perhaps back again; a matched trade that resumes on a locked principal; two admin
calls driving one plan; a late transfer of an attempt that timed out; resuming
after an upgrade, which resets generations.
Correct when: an account passes whole, nothing is booked on an account that came
or went, custody follows the account, and a handover ends.

### Trading (`api/trade/api.rs`, `trade/service.rs`)
State: `LIMIT_ORDERS`, `POSITIONS`, `EXECUTED_TRADES`, `FROZEN_TRANSFERS`,
`ACCEPTED_TRANSFERS`, margins and cash. Operations: limit and market orders,
matched trades, position freezing and acceptance, complete sets.
Hard: every method awaits the registry between reading and writing; the margin
blocked for an order must be released once by fill, cancel or settlement.
Correct when: reserved margin is exactly what positions, orders and unfinished
plans need, resting orders are collateralised, money is conserved whatever the
series resolve to, a transfer or trade takes effect once.

### Settlement (`api/settlement/api.rs`)
State: `SETTLEMENT_PLANS`, timers and a heartbeat. Operations:
`settle_series`, `resume_settlement`, the chunked continuation,
`backfill_settlement_events`.
Hard: batches of positions with a durable cursor, lost timers, traps, upgrades;
fees booked once; trading methods suspended across a settlement.
Correct when: a series settles at once and once, is closed from the opening of
its plan on, the plan never changes its mind and is always finished.

### Domain migration (`api/migration/api.rs`)
State: `MIGRATION_PLANS`. One operation, `migrate_domain`: balances, cash, margin
and order tags move from one balance domain to another in one message; positions
stay with the domain of their series.
Hard: margin moves as a total, and orders are filled after they were retagged.
Correct when: the margin of a domain is what its orders and positions need.

### Payoffs and fees (`payoffs/*`)
Pure integer functions of strike, settlement value and quantity.
Correct when: the two sides of a fully collateralised contract put up and share
exactly one unit, rounding never favours the user, margins are linear.

### Projections (`memory.rs`, `api/leaderboard`, price history, volumes)
Derived from `EVENTS`, rebuilt after an upgrade.
Correct when: the incremental projections equal the rebuilt ones.

### Registry (`registry/src/api/*`)
State: series, engines and granted roles, groups, oracles, social limits and the
log of social creations. Operations: `add_series`, `fork_series`, edits,
`list_series` in pages, the group, engine and oracle methods, and the three
questions of clearing: `get_series`, `is_trading_authorized`,
`is_oracle_authorized`. Clearing caches a series for good, with the access it had.
Hard: ids hashed from terms and fork indexes; windows with inclusive ends under
limits that change; pages read while series come and go; cached access.
Correct when: ids do not collide, limits hold, a listing shows each series once,
clearing lets nobody in whom the registry would not.

### Minter (`minter/src/*`), EVM assets
Mint and burn of vUSD through the ledger, without plans or state of their own;
the EVM handler answers every transfer with an error.

## 2. Modules

| module | models | extends |
|---|---|---|
| `Collateral` | deposits, withdrawals, the ICRC ledger, faults | |
| `CustodyPromise` | what custody promises, without plans, calls or faults | |
| `Payoffs` | payoffs, margins, price scaling, fees | |
| `Book` | the state trading and settlement share | `Payoffs` |
| `Trading` | orders, trades, complete sets, transfers, registry awaits | `Book` |
| `Settlement` | plans, chunks, timers, heartbeat, backfill | `Book` |
| `Exchange` | trading and settlement over one book, upgrades, properties | `Trading`, `Settlement` |
| `SettlementPromise` | a series settles in one step, once | |
| `Accounts` | accounts by principal and domain, and the methods of users that moving an account disturbs | |
| `Reassignment` | `admin_reassign_account`: marks, re-keying, sweep, faults | `Accounts` |
| `Migration` | `migrate_domain` | `Accounts` |
| `AccountMoves` | both over the same accounts, properties, fairness | `Reassignment`, `Migration` |
| `HandoverPromise` | an account passes whole, and is owed its tokens until delivered | |
| `Assets` | configuration and metrics of assets, the ICRC handler's transfer and fee cache | |
| `Funds` | treasury and insurance fund, their withdrawals, properties | `Assets` |
| `Registry` | series, groups, engines, oracles, limits, listings | |
| `Admission` | clearing's cached series and its questions, against a registry that changes; properties | `Registry` |
| `MCCollateral`, `MCExchange`, `MCPayoffs`, `MCAccountMoves`, `MCFunds`, `MCRegistry` | instances for TLC | |
| `SumProofs` | lemmas on sums over finite sets and powers of ten | |
| `CustodyProofs` | theorems on custody | `Collateral` |
| `PayoffsProofs` | theorems on payoffs and margins | `MCPayoffs` |
| `ExchangeProofs` | theorems on trading and settlement | `Exchange` |
| `MoneyProofs` | theorems on the money of trading and settlement, the refinement of `SettlementPromise` | `ExchangeProofs` |
| `FundsProofs` | theorems on funds and assets | `Funds` |
| `AccountMovesProofs` | theorems on accounts on the move | `AccountMoves` |
| `AdmissionProofs` | theorems on the registry and admission | `Admission` |

A refinement mapping stands beside the detailed specification: that of
`CustodyPromise` in `Collateral`, that of `HandoverPromise` in `AccountMoves`, that
of `SettlementPromise` in `Exchange`.

Correspondence. A variable is the stable map of its name (`deposit_plans` is
`DEPOSIT_PLANS`, `limit_orders` is `LIMIT_ORDERS`, `reserved_margin` the
`reserved_margins_usd` of all accounts, ...). An action is one message: the code
from a method's entry, or from an await's answer, to the next await or return.
A suspended method is a record in `call` with exactly the locals the code keeps
across the await (`Collateral`: the copy of the plan; `Trading`: the copy of the
order, `seen`). A method of `Trading` runs `Submit` -> (`RegistryAnswers`) ->
(`AccessGranted`) -> `Perform`; the awaits are skipped when the series is cached
and open, as in `ensure_series_registered` and `check_trading_access`. The
clients' calls are drawn from the constants `Intent` and `Request`, so one
specification serves disciplined and undisciplined clients.

`Accounts` looks at the same methods as `Collateral`, `Trading` and `Settlement`
from the other side: there the reassignment guard is left out and the methods are
whole; here the methods are cut down to one token and one contract unit, and every
guard, key and domain is kept, as is the lack of a guard. In the same way `Admission`
ends where a call is granted, and `Trading` goes on from there.

Abstractions. `Collateral`: two fixed users' worth of terms, prices as whole numbers,
the reassignment guard left out. `Exchange`: one balance domain; the USD value of
deposits is a constant per user (deposits and withdrawals against margins are
`Collateral`'s); the trading window is scheduled / trading / expired;
`accounting_applied` and `Finalised` are set by one message and are one value; the
number of armed timers of a series does not matter, only whether there is one; history
indexes and leaderboards are not kept; amounts are unbounded integers. A position proof
is the position it took; `valuation_price` is always given (without one the code takes
the strike or refuses). `Accounts`: a contract is worth 2; orders are placed at 1, so
each side of one reserves 1; a matched trade has the price it is submitted with, and at
2 or more its short reserves nothing; in a social domain nothing is reserved and no
cover asked. A matched trade awaits the registry for every series, which it does in the
code when the series is not cached; controllers do not ask it to unblock margin. The
guard's lock and generation, the account and the position maps are exact; a sweep takes
a plan's assets in any order; `call[c].moves`, the handovers of a call's principals done
when it began, is history for the property. Complete sets and accepted positions, which
acquire and revalidate the guard as an order does, are left to `Trading`. `Assets`: a
configuration is its ledger, domains and oracle; symbol, decimals and haircut are left
out, a payment is the transfer of a withdrawal whose books are `Collateral`'s. A request
whose answer nobody waits for any more, timed out or dropped by an upgrade, stays in
`late` until the ledger executes or drops it. `Funds`: settlements credit vUSD, which no
ledger here pays out; `Opening` is what the restored maps of the funds hold of other
assets. `Registry`: an id is `Hash` of the terms, any one-to-one function; a text is one
of two values; time is in whole hours.

## 3. Runs

Bounds: every constant set in a `.cfg` is a bound. `CallId` with two members lets one
method be suspended across another, the only interference atomic messages allow; three
parties are enough for a position to be handed on; a chunk of one or two (`Batch`) over
three positions has a first, a middle and a last chunk; `USD_DECIMALS = 1` makes a unit
10, small enough to enumerate and coarse enough that prices of two decimals are rounded.
`Request` is a fixed set of calls per run; a matched trade or market order succeeds once
per trade id, an order id can come back.

`CHECK_DEADLOCK FALSE` stands where the system really stops: every id of the
instance is used up (`MCCollateral`, `MCFunds`), the series has settled, both moves
are done (`MCAccountMoves`), the last hour is over (`MCRegistry`), or the module has
no steps to speak of (`MCPayoffs`). `MCFunds` and `MCCollateral` use symmetry over
`CallId`, whose members nothing tells apart.

### Custody

| run | shows |
|---|---|
| `collateral_serial` | clients with one call per id, within their balance, at distinct times: custody covers balances, a finalised plan is final, `CustodyPromise` is implemented, with answers to deposits lost, refused or too old, refused withdrawals and upgrades |
| `collateral_open` | any clients, lost answers, an unavailable ledger, upgrades: a finalised plan has a block, margin stays covered |
| `collateral_live` | a moved deposit is credited, a reservation ends |

Discipline of `collateral_serial` (204,696 distinct states): `serial`, one call of an id
in flight; `within_balance`, users withdraw what they have; `distinct_times`, no two
plans share a created_at_time; `answered`, the ledger answers every withdrawal, and one
it has paid with its block. The last is the code's weak spot: a withdrawal whose paid
answer is lost is refunded (`MCCollateral_lost_reply`). Nothing is assumed of the answers
to deposits: a deposit that moved and went unanswered waits for its retry, and with
`Window = 1` under `MaxClock = 3` the retry may come too late and be refused as
TooOld. `BalanceGrowsOnce`, `FinalisedIsFinal` and `LocalCopiesFresh` rest on `serial`: two
calls of one id do not keep them.

Fairness (`collateral_live`): the ledger answers or the call times out, and a
client retries an id it has opened; nothing obliges a client to make a new plan.

### Trading and settlement

| run | distinct states | shows |
|---|---|---|
| `exchange_serial` | 2,291 | one binary series, answers cached: money conserved for every resolution, margin exact, the series closed by its plan, `SettlementPromise` implemented, every plan finished |
| `exchange_sets` | 134,766 | complete sets, two series over the same accounts and a plan of an older version: conserved, exact, one Settled row per plan position |
| `exchange_open` | 510,994 | two suspended methods, one order id, stale copies, positions frozen and accepted between trades, settlement and upgrades: margin covered, orders collateralised, plans final |
| `exchange_reopened` | | refuted: an order suspended at the registry is placed after the series' plan is opened |
| `payoffs_sums` | 42,042 | pair sums, linearity and rounding over all small contracts |

`Conserved` quantifies over every resolution of every series: cash, funds and
what is still owed sum to zero, so a trade that moves money only when the
series resolves one way is caught at once. `MarginExact` is the strong form and
holds when no two methods interleave, no position is frozen and sets divide
evenly; `MarginCovered`, the direction that keeps users solvent, holds always.
The refinement mapping of `SettlesAtOnce` counts the rest of a plan in flight as
applied: every chunk, timer, trap, heartbeat and repeated call is then a
stutter, and a position paid twice or never is not.

Fairness (`exchange_serial`): weak for `Heartbeat`, a periodic
timer armed by `init` and `post_upgrade`; strong for `TimerFires`, because an
armed timer runs and not every one of a plan's messages traps. Nothing is assumed
of trading or of callers, and upgrades may go on for ever.

### Accounts on the move

| run | distinct states | shows |
|---|---|---|
| `account_moves` | 132,768 | an account with two assets goes from `p` to `q` and back, while its user deposits, withdraws, places and fills an order, is matched with `m`, freezes, migrates and is settled: locks last exactly as long as handovers, custody follows the account, margin stays with what it is for, nothing suspended books on an account that moved, `HandoverPromise` is implemented, every handover ends |
| `account_moves_matched` | | refuted: without `rested_matches`, a matched trade suspended at the registry books a position of a principal that is locked meanwhile |

The instance: one token of `iron` is no more than the ledger's fee, so one sweep
moves something and one leaves dust; the way back reuses the principal the first
move emptied, the case in which a lock alone would let a suspended order through
and only the generation stops it. `MaxQty = 1` keeps positions to one contract,
which is all a migration tells apart. A settlement chunk is one position, so
that moves and migrations fall between chunks. The refinement mapping owes an asset
to the new owner as long as the stored plan has no amount for it; a sweep that
fails, times out, is late or repeated is then a stutter.

Discipline: `serial`, one call of a reassignment id in flight; `in_order`, the ledger
works off a request nobody waits for before a later one; `flat`, users migrate a domain
only without positions in it; `no_migrated_fills`, migrated orders are not filled;
`within_balance`, users withdraw what they have; `own_order_ids`, no two orders are
placed under one id at once; `rested_matches`, controllers match no trade of a principal
under reassignment, and reassign none with a matched trade under way. Each is lifted by
a configuration below or has its counterpart there (`within_balance`:
`MCCollateral_lost_reply` with `GreedyIntent`; `own_order_ids`: `MCExchange_same_id`).
Orders need no such discipline: that they book on the account they began with is the
guard's doing (`OrdersBookOnSameAccount`). Faults: `lost` answers with late execution,
and `upgrade`.

Fairness: strong for `ResumeReassign`, `BalanceRead` and `Transferred`: controllers
replay a reassignment until it is done, as the comment on `sweep_custody` asks, and the
ledger does not fail every time; weak for `SweepMoved` and `LateTransfer`, which
nothing can put off for ever. Upgrades and lost answers may recur for ever.

### Funds and assets

| run | distinct states | shows |
|---|---|---|
| `funds` | 1,052,828 | withdrawals of both funds, their retries and cancellations, a payment, the registration, refresh and update of an asset, suspended across each other, with refused transfers, lost answers, transfers executed late, fee changes and upgrades: funds are whole, a payment leaves once, an answer undoes nothing |

`FundsWhole` compares what was credited with what the funds hold, what unpaid plans have
deducted, and every block of a fund withdrawal on the ledgers: a refund of what was
paid, or is paid later, breaks it, whether its plan is stored still or was cancelled.
`MaxPlans = 2` lets a cancelled request be made anew, with its own time; `MaxPayments =
1` leaves one payment of a user beside it; `Opening` gives the treasury two tokens to
pay out. Discipline: `one_per_asset`, one administrative call of an asset at a time;
`same_terms`, a request id is repeated with its terms; `settled_cancel`, a request is
cancelled only when no transfer of it is under way, may still be executed, or was
(`MayBePaid`), which is for controllers to find out at the ledger:
`cancel_fund_withdrawal` does not look; `steady_fee`, a ledger does not change its fee
while a transfer it executed is unanswered.

### The registry and what clearing asks of it

| run | distinct states | shows |
|---|---|---|
| `registry` | 530,100 | six populations of clients (`MCClients`, chosen in `Init`: social creators, engine staff, readers, circles, oracles, schedulers) work side by side within each: ids and names are unique, limits hold, pages show each series once, clearing admits whom the registry admits |

Each population's calls are those that touch the same state; the controller
and two users are enough for a creator, an admin and an outsider. Two
hours (`MaxTime`) with a window of one (`HOUR`) have an entry inside, on the edge of
and outside the window; with `MaxForks = 2` the third fork is refused; four series
with pages of one and two have a page that ends the listing and one that does not.
`MCHash` puts forks before and after their source, so that they are created on
either side of a reader's cursor. Discipline: `known_groups`, a series is
restricted to groups that exist; `stays_open`, access that is open is not
restricted later, though `update_trading_access` (`groups.rs:560`) lets controllers do so.

### Counterexample configurations

The passing runs describe the code at its best: the discipline they assume is in their
`.cfg` (`Discipline`, `Faults`, `Request`, `Listing`, `Cached`), never a change of the
model. Two of the refuted properties are runs with a finding: the settled series that is
traded again, `exchange_reopened`, and the locked principal that is matched,
`account_moves_matched`. The configurations below each lift one more assumption and end
in a counterexample that shows why it is needed (`tlc -config MCExchange_same_id.cfg
MCExchange`):

| configuration | property | counterexample |
|---|---|---|
| `MCCollateral_lost_reply` | `CustodyCoversBalances` | the answer of a withdrawal is lost, its tokens have left, and its reservation is refunded (`collateral/api.rs:351`) |
| `MCCollateral_ledger_fee` | `CustodyCoversBalances` | the ledger's fee leaves custody and is not debited (`collateral/api.rs:315`) |
| `MCExchange_same_id` | `MarginExact` | two submissions of one order id suspended together; the first order's margin stays blocked (`trade/api.rs:130`) |
| `MCExchange_accept_twice` | `AcceptedOnce` | two calls with one transfer proof both add its quantity (`:461`) |
| `MCExchange_refused_accept` | `RefusedMovesNothing` | a refused transfer has already moved the quantity (`:502`) |
| `MCExchange_short_mint` | `Conserved` | a set minted over a short keeps the short's margin (`:1062`) |
| `MCExchange_pre_trade` | `TradesCovered` | a trade that realises a loss passes the check on the equity before the loss (`trade/service.rs:179`; `:164` says "post-trade equity") |
| `MCExchange_frozen` | `FrozenMarginReleased` | the margin of a frozen position is never released (`trade/api.rs:430`; the clearing README, line 17, says it is) |
| `MCAccountMoves_two_calls` | `LockedWhilePending` | without `serial`: two calls of one reassignment id; the slower one works on its own copy of the plan and persists it after the faster has finalised (`reassignment.rs:331`) |
| `MCAccountMoves_flat` | `MarginInDomain` | without `flat`: all of a domain's margin leaves it, the position it is for stays (`migration/api.rs:195`) |
| `MCFunds_late_cancel` | `FundsWhole` | without `settled_cancel`: a request whose transfer was executed but not answered is cancelled, and so refunded and paid (`admin/api.rs:206`) |
| `MCFunds_fee_drift` | `PaidOnce` | without `steady_fee`: the answer is lost, the cached fee is updated, and the retry is a new transfer to the ledger (`handler.rs:262`) |
| `MCFunds_undone` | `AnswersUndoNothing` | without `one_per_asset`: a refresh writes the configuration it read before the await over an update made meanwhile (`admin/api.rs:388`) |
| `MCRegistry_narrowed` | `AccessKept` | without `stays_open`: clearing's cached copy of a series stays open to all (`utils/series.rs:72`) |
| `MCRegistry_two_ids` | `OneLiveSeries` | a scheduled series and one added live after its start are one market under two ids (`registry/src/api/series.rs:171` says they are not) |

More of these, by changing one of the configurations above:

| from | change | refuted | counterexample |
|---|---|---|---|
| `MCCollateral_lost_reply` | `WithdrawalId = {}`, `Discipline = {"within_balance", "distinct_times"}`, `Faults = {}` | `BalanceGrowsOnce` | two calls with one deposit id in flight together are both credited for the one transfer (`collateral/api.rs:150`; `:135` says "idempotent") |
| `MCCollateral_lost_reply` | `Intent <- GreedyIntent`, `Discipline = {"serial", "distinct_times"}`, `Faults = {}` | `CustodyCoversBalances` | a withdrawal of more than the balance is debited saturating and refunded in full (`collateral/api.rs:315`) |
| `MCCollateral_lost_reply` | `DepositId = {d1, d2}`, `WithdrawalId = {}`, `Discipline = {"serial", "within_balance"}`, `Faults = {}` | `CustodyCoversBalances` | two equal deposits planned in one round are one transfer to the ledger (`plans.rs:125`) |
| `MCAccountMoves_flat` | `no_migrated_fills` lifted in place of `flat` | `MarginInDomain` | an order retagged by a migration is filled, its margin is released in the new domain and reserved in the series' (`migration/api.rs:204`) |
| `MCAccountMoves_flat` | `Fee = 0`, `in_order` lifted in place of `flat` | `CustodyWithAccount` | the transfer of a sweep nobody waits for is executed after the account, and its tokens, came back (`reassignment.rs:391`) |
| `MCRegistry_narrowed` | `stays_open` added | `GrantedInWindow` | the window is checked before the access question is awaited, and the order is placed after it has closed (`utils/series.rs:119`) |
| `MCCollateral_live` | `Window = 0`, `MaxClock = 3`, `DepositId = {d1}`, `WithdrawalId = {}`, `Faults = {"lost"}` | `MovedIsCredited` | a retry after the deduplication window is refused, though the first attempt moved the tokens (`collateral/api.rs:117`) |
| `MCExchange_short_mint` | `SeriesId = {bin}`, `Request <- DearRequests`, `Cached = {bin}` | `Conserved` | an ask above one unit takes more than a unit of margin for a pair (`trade/api.rs:614`) |
| `MCExchange_short_mint` | `TradeId = {t1, t2}`, `Request <- BoughtSetRequests` | `Conserved` | redeeming a set put together from trades pays its cost, not a unit (`:1142`) |
| `MCExchange_short_mint` | `Listing <- ThreeOutcomes`, `Request <- MintRequests` | `MarginExact` | the rounding of a set over three outcomes stays reserved (`:1048`) |
| `MCFunds_late_cancel` | `Discipline = {"one_per_asset", "settled_cancel", "steady_fee"}` | `FundsWhole` | a request id repeated with other terms pays what the first call's plan does not say (`admin/api.rs:116`) |
| `MCFunds_fee_drift` | `Request <- UncachedRequests`, `steady_fee` added | `PaidOnce` | a first attempt sent without a fee, a retry with it: two transfers to the ledger (`handler.rs:262`) |
| `MCRegistry_narrowed` | `Discipline = {"stays_open"}` | `AccessKept` | a series restricted to a group number that is given out later (`groups.rs:59`) |

Noted while modelling, without a property: a binary contract pays its settlement price,
where the comment at `payoffs/mod.rs:61` says all or nothing; a short call or put is
paid as a long is (`payoffs/mod.rs:177` says 0); an input of the wrong type is refused
only if the series has positions; a settlement outcome is not looked up among the
series' outcomes; settlement does not wait for the expiry; `backfill` works per series
though its comment says per user and series. Settlements credit the funds in vUSD only
and an EVM transfer always errs, so of another asset no more is ever paid out than the
funds held of it before (`admin/api.rs:112` speaks of an external wallet). The retry "is
an idempotent duplicate" (`handler.rs:254`) and "entirely safe" (`admin/api.rs:186`)
only if the fee argument of both attempts is the same. `custody_assets` says that assets
with a balance of zero are swept too (`reassignment.rs:278`), but `set_balance` removes
such entries. Two oracle prices awaited together are booked in the order of the answers.

## 4. Proofs

All theorems hold for every value of the constants that satisfies the modules' named
assumptions, and the hypotheses a theorem states. Most assumptions are what the types of
the code say; those that only serve the models are `None` and `Nobody`, told from every
value they stand beside (`None \notin Nat`, `AccountMovesAssumption`), and the bounds of
the cases that `MCPayoffs` tries. A hypothesis that a set is finite says that a stable
map or the list of assets is.

`SumProofs`. Every book of the canister is a sum over a finite set, which
the models write as a fold. Its law for one element added is proved once, by
the smallest counterexample (the library's induction theorems take an operator,
which the provers cannot instantiate; `WFMin` takes a set); the sum of a changed
term, of a union, and the comparison of two sums follow. The powers of ten that
scale prices, recursive in the models, are shown to exist and to be positive in
the same way.

`CustodyProofs`, on single plans: `TypeCorrect` (inductive with the typing of suspended
calls); `FinalisedBacked` (a finalised plan has a block: blocks only grow, and
a call finalises with the answer it got); with one call per id, `SerialInv` (the
copy a method holds is the stored plan) gives `SerialCopiesFresh`,
`SerialFinalisedIsFinal` and `SerialGrowsOnce`. On all of custody:

- `CustodyKeepsPromise`, the refinement of `CustodyPromise`. `PromiseAssumption` is the
  discipline of `collateral_serial`, `answered` included, one set of terms per id and a
  ledger that charges no fee; the conditions of the discipline and the fee each have a
  configuration without them in section 3. There is no bound on the clock, the window or the faults: a deposit that
  times out or is too old leaves its plan as it was (`TimeOutKeeps`), a stutter.
  `CustodyInv` joins `SerialInv` and `BackedInv` with: no two plans of a user and kind
  have one time, a reservation is of the agreed amount, and every block or suspended
  request is that of a stored plan. So the ledger tells a retry from a new transfer
  exactly when the plan is the same, a block first written is a step of the promise, and
  its answer, its retry and an upgrade are stutters.
- `CustodyCovered`, on the same assumption. `Backing` counts each account on its own:
  its tokens are the balances, the deposits moved and not yet credited, and the
  reservations not yet paid. That it covers the balances is then an inequality of sums.
- `MarginAlwaysCovered`, without any discipline: a withdrawal checks the equity
  left in the message that debits it, and nothing else that lowers the equity of a
  domain, or raises its margin, happens unchecked.

`ExchangeProofs`:

- `PlansFinal`. `PlansAreFinal` is an action property, inductive only where a
  finalised plan has nothing left and plans are well formed. `PlanInv` adds that:
  positions are finite, every plan's cursor is within its positions, and a
  finalised plan's cursor is at the end. `Advance` then moves the cursor forward
  (`ChunkEndType`: the end of a chunk is past the cursor unless the plan is done)
  and `SettleSeries` needs a series without plan.
- `EventsWrittenOnce`. `EventInv`: the rows of a plan of this version are exactly
  1..cursor in order; of an older plan, a run of consecutive positions that ends at the
  cursor, or none. A chunk appends (cursor + 1)..end; a backfill writes only where there
  are no rows, and then the plan is finalised.
- `SerialSettledIsClosed`. Under `NoAwaits` (every series cached, none restricted)
  no method suspends (`Idle`), a series is cached as long as it has no plan
  (`OpenCached`), and every request re-checks `NotSettled` in the message that
  performs it. The run `exchange_reopened` is the counterexample without `NoAwaits`.
- `TypesCorrect`, without any hypothesis. `TypeInv`: a suspended method holds a
  well-formed request and order, positions and plans are finite, and an order has a
  positive quantity.
- `RestingOrdersCollateralized`, without any hypothesis. `OrdersFollow`: whatever a
  step leaves on the book has the margin of what is left of it, or was there before.
- `MarginStaysCovered`. `Used` is the sum of `UsedMargin`, over positions, orders and
  the rests of plans in flight, which are finitely many (`HasPlans`). Each step is
  summed up by `UseFollows`: the reserved margin is adjusted by some `d`, and what it is
  needed for moves by no more than `d`. `PerformEffect` shows that of each method,
  `SettleUse` and `AdvanceUse` of the opening of a plan and of a chunk. The adjustments
  saturate at zero, which can only leave more reserved. Hypotheses: `NoUnblocks`
  (the caller of `submit_matched_trade` does not ask to unblock margin: what it asks
  for is taken on its word, with no order of ours behind it) and `SettledLegacy` (the
  books start empty, so no plan of an older version may be in flight).
- `MarginStaysExact`. The same with equalities, where they hold: `NoAwaits` (an order id
  is checked in the message that uses it; without it, `MCExchange_same_id`),
  `EvenSets` (a set's cost divides among its outcomes), and no position is frozen, an
  antecedent of the theorem, since its margin is not released (`MCExchange_frozen`).
  Equality with a sum that is never negative shows that no adjustment saturates.

`MoneyProofs`:

- `MoneyConserved`. `Worth` is what the positions of a series are paid under a
  resolution; `MoneyInv` joins `SerialInv`, `PlansInv` (what a plan has left is typed),
  `PricedOK` (no order above one unit) and `Balanced`: under every resolution, cash,
  funds, positions and the rests of plans sum to zero. A trading step moves the cash of
  a series' positions and their worth evenly (`PerformEven`, one lemma per method);
  a plan takes over the worth of the positions it drains (`SettleMoney`), a chunk
  pays what the plan owed (`AdvanceMoney`). The hypotheses say where the code
  conserves money. `SoundContracts`: contracts backed by one unit, no social series
  (its shorts put up nothing and are paid a unit, `payoffs/mod.rs:151-175`), and
  oracles that settle within the unit to an outcome there is. `PricedWithinUnit`:
  `validate_no_arbitrage` checks bids only. `EvenSets` and `SetsWhole`: a set's cost
  divides, and a set is minted over no short and redeemed at what it cost.
  `NothingTransferred`: a position taken over from another canister brings no cash.
  `SettledLegacy`: the books start empty. Asks above a unit, a set minted over a
  short, a bought set and a set of three outcomes are the counterexamples of section
  3; the run `exchange_sets` satisfies all hypotheses.
- `SettlementKeepsItsPromise`, the refinement of `SettlementPromise`. The mapping
  counts what a plan in flight has left as paid, so opening a plan is the one
  `Settle` step of the promise; chunks, timers, traps, the backfill and upgrades are
  stutters (`AdvanceWealth`), and a trade touches the positions of one open series
  (`PerformTouches`). Hypotheses: `NoAwaits`, without which a settled series is
  traded (`exchange_reopened`), and no plan of an older version, which the promise,
  starting with nothing settled, could not have made.

`PayoffsProofs`, for every quantity, price, number of decimals and kind of contract:

- `PairsShareUnitHolds`, `MarginsAddUpHolds`, `RoundingFavoursSystemHolds`. The lemmas
  under them (`PairPays`, `PairReserves`, `MarginLinear`, `PaidBelowPutUp`) are of any
  strike as well. `CasesInv` says that only cases in which the code answers Ok are
  tried: no short put without a strike, a settlement that fits its contract.

`FundsProofs`:

- `FundsTypeCorrect`, without any discipline: no fund is overdrawn.
- `AnswersUndoNothingHolds`. `ConfigInv`: a suspended registration is of an asset
  nobody has configured, a suspended refresh holds the configuration that is
  stored, and the two never meet on one asset.
- `FundsSoundHolds`. `SoundInv`: a stamp tells a plan, a suspended transfer, and one
  nobody waits for, holds the stored plan's terms, a block of a request that was
  cancelled is of no plan, and the books are whole. The sum is over the request ids,
  which are finite. Its hypotheses are those of `PaidOnceHolds`; `settled_cancel` is the one
  that no line of the code keeps (`MCFunds_late_cancel`).
- `PaidOnceHolds`. `PaidInv` adds that every asset of a ledger has a cached fee and
  every transfer is sent with one, an asset keeps its ledger, and a fee does not
  change under an unanswered transfer; a retry then carries what the first
  attempt did, and the ledger knows it. `FeesPublished` says that a registration
  reads a fee from the ledger (`UncachedRequests`, in section 3, is the case without),
  `PaymentsRepeated` that a payment is asked for again with its asset.

`AccountMovesProofs`:

- `MovesTypeCorrect`, and `OrdersBookOnSameAccount`, both without any discipline.
  `BooksInv`: as long as a principal's generation is the one a suspended order read, the
  order has seen every handover of that principal. Upgrades drop the methods that could
  be deceived by generations that start again.
- `BooksOnSameAccountHolds`, of matched trades too. These take no guard, so it needs
  `rested_matches`, under which no principal of a suspended match is under
  reassignment (`MatchesRested`); `account_moves_matched` is the counterexample without.
- `HandoverLockedHolds`. `LockInv`: with one call of a reassignment in flight, the plan a
  call holds is the stored one; the parties of pending plans are disjoint; the
  marks are those of the pending plans; and an old owner has nothing left. Hypotheses:
  `serial` and `rested_matches`. The margin check of a matched trade is no help: it is
  skipped in a social domain, and asks nothing of a short at a price of one unit.
- `MarginInDomainHolds`. `UseOf` is the sum of what a principal's orders, positions,
  frozen positions and rests of plans need in a domain. `DomainInv` adds that users of a
  plan's rest are named in the plan (`LeftNamed`: `check_no_inflight_plans` looks there,
  so a migration or a reassignment finds no plan in flight) and that an order about to
  be placed has an id of its own (`LimitIds`). Each step moves the margin and the sum by
  the same amount, or, a migration and a handover, both to another place; equality with
  a sum that is never negative shows that no adjustment saturates. Hypotheses: `flat`
  and `no_migrated_fills`, whose counterexamples are in section 3, and `own_order_ids`,
  for which `MCExchange_same_id` is one.
- `KeepsPromiseHolds`, the refinement of `HandoverPromise`. `TransitInv` adds that a
  plan is pending exactly while it has an asset without an amount, that a call
  that knows the balance leaves no more than a fee beside it, and, for `in_order`,
  that a transfer nobody waits for belongs to a pending plan. Hypotheses: `serial`,
  `in_order`, `rested_matches`. Each action is
  shown to be a `Handover`, a `Deliver`, a `Business` step of one principal at
  rest, or a stutter.
- `CustodyWithAccountHolds`, under `within_balance` besides. `CustodyInv`, per principal
  and asset: at rest, what the account holds and what withdrawals in flight have
  reserved is no more than the tokens in the subaccount and the fees charged
  (`CoveredAtRest`); in a handover, the same of the new owner's account and both
  subaccounts, while the asset is owed (`CoveredInTransit`). When an asset is delivered
  its dust is at most a fee, and the move counts one fee for it.

`AdmissionProofs`, for series ids that are ordered (`IdsOrdered`: the keys of the store,
taken for numbers), a value `None` that is none of them (`NoneApart`), and requests
whose arguments have the types of the methods' (`RequestsTyped`):

- `StoreOKHolds`. `NamesInv`: a fork has in its terms a number below that of the forks
  its creator has made of its source. Forks are never deleted, so the count, which is
  the next number, is in no id yet. Hypothesis: `OneToOne`, the hash has no collisions
  on well-typed terms.
- `AccessKeptHolds`. `AccessInv`: what a suspended call has been told of access is in the
  history `entitled`; a copy that is open, cached or on its way, is of a series that is
  open still; and the circles of a series are of numbers that have been given out.
  Hypothesis: `Disciplined`, both conditions of `Discipline`; `MCRegistry_narrowed`
  as it stands, and changed to `{"stays_open"}`, are the counterexamples without. The code
  does not keep `stays_open`: what clearing has cached as open stays so when the registry
  narrows it.
- `LimitsHeldHolds`. `LimitsInv`: from any time on, a user's log has as many entries as
  the store has social series of that user. What the check counts in the log then bounds
  what is in the store.
- `PagesOnceHolds`. `PagesInv`: what has been given out ascends, ends at the cursor, and up
  to it lacks nothing the client could see all along. A page is the first of the ids after
  the cursor in ascending order; that a finite set of ids has such an order
  (`OrderExists`) is proved by taking away the greatest.

The inductive invariants were checked by TLC on the instances of section 3
before they were proved.

Only model-checked: liveness (`MovedIsCredited`, `ReservationEnds`,
`PlansFinalise`, `HandoversEnd`), which is out of the prover's reach. Every invariant,
action property and refinement that a passing run checks is also a theorem. The
run satisfies the hypotheses of the theorem, by its constants and by the requests it
draws.

## 5. Not modelled, and the plan

Not modelled, and why:

- Projections (leaderboard, price history, volumes): derived from `EVENTS`,
  read by queries alone; the events here are kept without their timestamps and
  periods, on which the projections are built.
- Minter: two stateless methods around one ledger call.
- EVM assets: every transfer is refused; the rest is key derivation.
- Account queries, metrics, HTTP: change no state.
- State migrations: decoding; the one that changes meaning, from the old creators to the
  first engine, is an initial state of `Registry`.
- Single assignments: `update_config`, `set_registry_canister`,
  `update_domain_policy` (constants of the models), the edits of names and
  descriptions of groups and oracles, the length and locale checks of series.
- Subaccounts, Candid, overflow of 128-bit amounts.

The plan, in this order:

| module | models | to check | instance |
|---|---|---|---|
| `Projections` | incremental indexes and their rebuild | equal after any prefix of events | three events, two users |
| `Minter` | mint and burn through the ledger | one mint per request | lost answers |
