----------------------------- MODULE Collateral -----------------------------
(***************************************************************************)
(* Collateral custody of the clearing canister: deposit_collateral and     *)
(* withdraw_collateral (api/collateral/api.rs) with their durable plans    *)
(* (types/plans.rs), against the external ICRC ledger that holds the       *)
(* tokens.                                                                 *)
(*                                                                         *)
(* A canister method is atomic between awaits.  Each method has one await, *)
(* the ledger call, so it is two actions: Begin* runs up to the call, and  *)
(* the reply actions run from the answer to the end of the method.  In     *)
(* between, the method keeps its LOCAL COPY of the plan, and other calls   *)
(* may change the stored one.                                              *)
(*                                                                         *)
(* A plan is stored with a receipt only by the step that also finalises    *)
(* it, so `receipt.is_some()` is the status Finalised here.                *)
(***************************************************************************)
EXTENDS Integers, FiniteSets, FiniteSetsExt

CONSTANTS
    User,            \* callers
    DepositId,       \* deposit ids a client chooses
    WithdrawalId,    \* withdrawal ids a client chooses
    Domain,          \* BalanceDomain values
    Asset,           \* the external collateral assets of COLLATERAL_ASSETS
    CallId,          \* concurrent method executions (bound)
    None,            \* Option::None, the absent plan, the idle call
    Allowed,         \* [Asset -> SUBSET Domain], allowed_balance_domains
    Enabled,         \* assets with is_enabled
    Price,           \* [Asset -> Nat], USD value of a token after haircut
    Intent,          \* [id -> set of terms a client may pass with that id]
    InitWallet,      \* tokens of each asset in every user's own wallet
    Fee,             \* the ledger's transfer fee
    Window,          \* age after which the ledger refuses created_at_time
    MaxClock,        \* bound on time, hence on time-outs and upgrades
    MaxMargin,       \* bound on the margin orders reserve
    MaxBalance,      \* bound: no call starts on a balance above it
    Discipline,      \* what is assumed of the clients, see below
    Faults           \* which faults may happen, see below

(* The terms of a call: deposit_collateral(amount, asset_id, .., domain). *)
Terms == [domain : Domain, asset : Asset, amount : Nat]

PlanStatus == {"Planned", "Executing", "Finalised"}

(* DepositPlan and WithdrawalPlan; a deposit never reserves. *)
Plan == [status : PlanStatus, created_at : Nat, asset_id : Asset,
         reserved_amount : Nat \cup {None}]

(* A method suspended at its ledger call, with its local copy of the plan. *)
Call == [op : {"deposit", "withdrawal"}, user : User,
         id : DepositId \cup WithdrawalId, terms : Terms, plan : Plan,
         stage : {"sent", "ok", "err"}]

(* What ICRC deduplication compares; the op stands for the two accounts. *)
Request == [op : {"deposit", "withdrawal"}, user : User, asset : Asset,
            amount : Nat, created_at : Nat]

(***************************************************************************)
(* Discipline: "serial", a client never has two calls of one id in flight; *)
(* "within_balance", it withdraws no more than the balance it withdraws    *)
(* from; "distinct_times", a user's plans of one kind are created at       *)
(* different times; "answered", the ledger answers every withdrawal it is  *)
(* asked for, and one it has paid with its block: the call does not time   *)
(* out, and a retry finds the ledger up and within its window.             *)
(* Faults: "lost", a bounded-wait call may time out with its outcome       *)
(* unknown; "refuse", the ledger may refuse a new transfer for a reason of *)
(* its own (no allowance, throttling); "unavailable", it may refuse        *)
(* without looking for a duplicate (stopped, an undecodable reply);        *)
(* "upgrade", the canister may be upgraded with calls in flight.           *)
(***************************************************************************)
ASSUME CollateralAssumption ==
    /\ DepositId \cap WithdrawalId = {}
    /\ None \notin Nat /\ None \notin Plan /\ None \notin Call
    /\ Allowed \in [Asset -> SUBSET Domain]
    /\ Enabled \subseteq Asset
    /\ Price \in [Asset -> Nat]
    /\ Intent \in [DepositId \cup WithdrawalId -> SUBSET Terms]
    /\ InitWallet \in Nat /\ Fee \in Nat /\ Window \in Nat
    /\ MaxClock \in Nat /\ MaxMargin \in Nat /\ MaxBalance \in Nat
    /\ Discipline \subseteq {"serial", "within_balance", "distinct_times", "answered"}
    /\ Faults \subseteq {"lost", "refuse", "unavailable", "upgrade"}

VARIABLES
    deposit_plans,     \* DEPOSIT_PLANS, by user and deposit id
    withdrawal_plans,  \* WITHDRAWAL_PLANS, by user and withdrawal id
    balances,          \* AccountState::balances
    reserved_margin,   \* AccountState::reserved_margins_usd
    accounts,          \* the keys of ACCOUNT_STATES
    call,              \* method executions suspended at the ledger call
    wallet,            \* the ledger: tokens in the users' own accounts
    custody,           \* the ledger: tokens in the UserClearing subaccounts
    blocks,            \* the ledger: transfers it recorded
    late,              \* requests whose caller no longer waits for an answer
    clock              \* time, as the canister and the ledger see it

canister == <<deposit_plans, withdrawal_plans, balances, reserved_margin, accounts>>
ledger == <<wallet, custody, blocks>>
vars == <<canister, call, ledger, late, clock>>

-----------------------------------------------------------------------------
TypeOK ==
    /\ deposit_plans \in [User -> [DepositId -> Plan \cup {None}]]
    /\ withdrawal_plans \in [User -> [WithdrawalId -> Plan \cup {None}]]
    /\ balances \in [User -> [Domain -> [Asset -> Nat]]]
    /\ reserved_margin \in [User -> [Domain -> Nat]]
    /\ accounts \subseteq User
    /\ call \in [CallId -> Call \cup {None}]
    /\ wallet \in [User -> [Asset -> Nat]]
    /\ custody \in [User -> [Asset -> Nat]]
    /\ blocks \subseteq Request
    /\ late \subseteq Request
    /\ clock \in Nat

Init ==
    /\ deposit_plans = [u \in User |-> [i \in DepositId |-> None]]
    /\ withdrawal_plans = [u \in User |-> [i \in WithdrawalId |-> None]]
    /\ balances = [u \in User |-> [d \in Domain |-> [a \in Asset |-> 0]]]
    /\ reserved_margin = [u \in User |-> [d \in Domain |-> 0]]
    /\ accounts = {}
    /\ call = [c \in CallId |-> None]
    /\ wallet = [u \in User |-> [a \in Asset |-> InitWallet]]
    /\ custody = [u \in User |-> [a \in Asset |-> 0]]
    /\ blocks = {}
    /\ late = {}
    /\ clock = 0

-----------------------------------------------------------------------------
(* Account state. *)

(* calculate_equity_usd of a domain's balances (no cash in this module). *)
Equity(balance) == MapThenSumSet(LAMBDA a : Price[a] * balance[a], Enabled)

(* u128::saturating_sub *)
Less(x, y) == IF y > x THEN 0 ELSE x - y

(* set_balance(d, a, f(get_balance(d, a))) *)
SetBalance(u, d, a, amount) ==
    balances' = [balances EXCEPT ![u][d][a] = amount]

-----------------------------------------------------------------------------
(* Plans and calls. *)

NewPlan(a) == [status |-> "Planned", created_at |-> clock, asset_id |-> a,
               reserved_amount |-> None]

GetOrCreate_AlwaysNew(existing, a) == NewPlan(a)

(* get_or_create: an existing plan is returned as it is, whatever the terms. *)
GetOrCreate(existing, a) == IF existing = None THEN NewPlan(a) ELSE existing

Open_Always(plan) == TRUE

Open_PlannedOnly(plan) == plan.status = "Planned"

(* A finalised plan returns early, any other one is driven on. *)
Open(plan) == plan.status # "Finalised"

Compensated_NotTaken(plan) == plan

(* reserved_amount.take() on a failed withdrawal. *)
Compensated(plan) == [plan EXCEPT !.reserved_amount = None]

InFlight(op, u, id) ==
    \E c \in CallId : /\ call[c] # None
                      /\ call[c].op = op /\ call[c].user = u /\ call[c].id = id

RequestOf_FreshTime(k) ==
    [op |-> k.op, user |-> k.user, asset |-> k.terms.asset,
     amount |-> IF k.op = "deposit" THEN k.terms.amount ELSE k.plan.reserved_amount,
     created_at |-> clock]

RequestOf_CallAmount(k) ==
    [op |-> k.op, user |-> k.user, asset |-> k.terms.asset, amount |-> k.terms.amount,
     created_at |-> k.plan.created_at]

(* The transfer a suspended call asks for. *)
RequestOf(k) ==
    [op |-> k.op, user |-> k.user, asset |-> k.terms.asset,
     amount |-> IF k.op = "deposit" THEN k.terms.amount ELSE k.plan.reserved_amount,
     created_at |-> k.plan.created_at]

(* What is assumed of a client that starts a call, and the bound on balances. *)
ClientMay(op, u, id, t) ==
    /\ t \in Intent[id] /\ balances[u][t.domain][t.asset] <= MaxBalance
    /\ "serial" \in Discipline => ~InFlight(op, u, id)

(* distinct_times: no other plan of the user was created at this time. *)
FreshTime(plans) ==
    "distinct_times" \in Discipline =>
        \A i \in DOMAIN plans : plans[i] # None => plans[i].created_at # clock

Suspend_StaleCopy(c, op, u, id, t, p) ==
    call' = [call EXCEPT ![c] = [op |-> op, user |-> u, id |-> id, terms |-> t,
                                 plan |-> [p EXCEPT !.status = "Planned"], stage |-> "sent"]]

Suspend(c, op, u, id, t, p) ==
    call' = [call EXCEPT ![c] = [op |-> op, user |-> u, id |-> id, terms |-> t,
                                 plan |-> p, stage |-> "sent"]]

Return(c) == call' = [call EXCEPT ![c] = None]

-----------------------------------------------------------------------------
(* deposit_collateral. *)

(* Phase A and the send of phase B: the plan is persisted as Executing
   before the transfer_from call. *)
BeginDeposit(c, u, id, t) ==
    /\ call[c] = None
    /\ ClientMay("deposit", u, id, t)
    /\ t.asset \in Enabled /\ t.domain \in Allowed[t.asset]
    /\ deposit_plans[u][id] = None => FreshTime(deposit_plans[u])
    /\ LET plan == GetOrCreate(deposit_plans[u][id], t.asset)
           executing == [plan EXCEPT !.status = "Executing"]
       IN  /\ Open(plan)
           /\ deposit_plans' = [deposit_plans EXCEPT ![u][id] = executing]
           /\ Suspend(c, "deposit", u, id, t, executing)
    /\ UNCHANGED <<withdrawal_plans, balances, reserved_margin, accounts, ledger, late, clock>>

(* The ledger answered with a block: phase C credits the terms of THIS call
   and overwrites the stored plan with the local copy, finalised. *)
DepositSettled(c) ==
    /\ call[c] # None /\ call[c].op = "deposit" /\ call[c].stage = "ok"
    /\ LET k == call[c] t == k.terms
       IN  /\ SetBalance(k.user, t.domain, t.asset,
                         balances[k.user][t.domain][t.asset] + t.amount)
           /\ accounts' = accounts \cup {k.user}
           /\ deposit_plans' = [deposit_plans EXCEPT ![k.user][k.id] =
                                    [k.plan EXCEPT !.status = "Finalised"]]
    /\ Return(c)
    /\ UNCHANGED <<withdrawal_plans, reserved_margin, ledger, late, clock>>

(* Any error: the local copy is persisted and the plan stays Executing. *)
DepositFailed(c) ==
    /\ call[c] # None /\ call[c].op = "deposit" /\ call[c].stage = "err"
    /\ deposit_plans' = [deposit_plans EXCEPT ![call[c].user][call[c].id] = call[c].plan]
    /\ Return(c)
    /\ UNCHANGED <<withdrawal_plans, balances, reserved_margin, accounts, ledger, late, clock>>

-----------------------------------------------------------------------------
(* withdraw_collateral. *)

WithdrawalCovered_PreEquity(u, t) ==
    u \in accounts /\ Equity(balances[u][t.domain]) >= reserved_margin[u][t.domain]

(* The account exists and would still cover its margin.  The balance itself
   is not compared with the amount. *)
WithdrawalCovered(u, t) ==
    /\ u \in accounts
    /\ Equity([balances[u][t.domain] EXCEPT ![t.asset] = Less(@, t.amount)])
         >= reserved_margin[u][t.domain]

(* Phases A to C up to the send: a plan without a reservation passes the
   check and debits; one with a reservation goes straight to the ledger. *)
BeginWithdrawal(c, u, id, t) ==
    /\ call[c] = None
    /\ ClientMay("withdrawal", u, id, t)
    /\ t.domain \in Allowed[t.asset]
    /\ withdrawal_plans[u][id] = None => FreshTime(withdrawal_plans[u])
    /\ LET plan == GetOrCreate(withdrawal_plans[u][id], t.asset)
           executing == [plan EXCEPT !.status = "Executing",
                                     !.reserved_amount = IF @ = None THEN t.amount ELSE @]
       IN  /\ Open(plan)
           /\ \/ /\ plan.reserved_amount = None
                 /\ WithdrawalCovered(u, t)
                 /\ "within_balance" \in Discipline =>
                        t.amount <= balances[u][t.domain][t.asset]
                 /\ SetBalance(u, t.domain, t.asset,
                               Less(balances[u][t.domain][t.asset], t.amount))
              \/ /\ plan.reserved_amount # None
                 /\ UNCHANGED balances
           /\ withdrawal_plans' = [withdrawal_plans EXCEPT ![u][id] = executing]
           /\ Suspend(c, "withdrawal", u, id, t, executing)
    /\ UNCHANGED <<deposit_plans, reserved_margin, accounts, ledger, late, clock>>

(* The check fails: the error is returned after the plan was created. *)
RejectWithdrawal(u, id, t) ==
    /\ ClientMay("withdrawal", u, id, t)
    /\ t.domain \in Allowed[t.asset]
    /\ withdrawal_plans[u][id] = None
    /\ FreshTime(withdrawal_plans[u])
    /\ ~WithdrawalCovered(u, t)
    /\ withdrawal_plans' = [withdrawal_plans EXCEPT ![u][id] = NewPlan(t.asset)]
    /\ UNCHANGED <<deposit_plans, balances, reserved_margin, accounts, call, ledger, late, clock>>

WithdrawalSettled(c) ==
    /\ call[c] # None /\ call[c].op = "withdrawal" /\ call[c].stage = "ok"
    /\ withdrawal_plans' = [withdrawal_plans EXCEPT ![call[c].user][call[c].id] =
                                [call[c].plan EXCEPT !.status = "Finalised"]]
    /\ Return(c)
    /\ UNCHANGED <<deposit_plans, balances, reserved_margin, accounts, ledger, late, clock>>

(* Any error: the amount the local copy reserves is refunded. *)
WithdrawalFailed(c) ==
    /\ call[c] # None /\ call[c].op = "withdrawal" /\ call[c].stage = "err"
    /\ LET k == call[c] t == k.terms
       IN  /\ SetBalance(k.user, t.domain, t.asset,
                         balances[k.user][t.domain][t.asset] + k.plan.reserved_amount)
           /\ withdrawal_plans' = [withdrawal_plans EXCEPT ![k.user][k.id] =
                                       Compensated(k.plan)]
    /\ Return(c)
    /\ UNCHANGED <<deposit_plans, reserved_margin, accounts, ledger, late, clock>>

-----------------------------------------------------------------------------
(* The part of the order methods that shares the account state: placing an
   order checks and reserves margin, cancelling releases it, each without
   an await in between. *)

(* An order of a user without an account opens one, placed or not. *)
ReserveOrderMargin(u, d) ==
    /\ reserved_margin[u][d] < MaxMargin
    /\ accounts' = accounts \cup {u}
    /\ reserved_margin' = [reserved_margin EXCEPT ![u][d] =
                               IF Equity(balances[u][d]) >= @ + 1 THEN @ + 1 ELSE @]
    /\ UNCHANGED <<deposit_plans, withdrawal_plans, balances, call, ledger, late, clock>>

ReleaseOrderMargin_Twice(u, d) ==
    /\ reserved_margin' = [reserved_margin EXCEPT ![u][d] = @ - 1]
    /\ UNCHANGED <<deposit_plans, withdrawal_plans, balances, accounts, call, ledger, late, clock>>

ReleaseOrderMargin(u, d) ==
    /\ reserved_margin[u][d] > 0
    /\ reserved_margin' = [reserved_margin EXCEPT ![u][d] = Less(@, 1)]
    /\ UNCHANGED <<deposit_plans, withdrawal_plans, balances, accounts, call, ledger, late, clock>>

-----------------------------------------------------------------------------
(* The ledger: icrc1_transfer and icrc2_transfer_from with created_at_time. *)

TooOld(r) == r.created_at + Window < clock

Funds(r) == IF r.op = "deposit" THEN wallet[r.user][r.asset] ELSE custody[r.user][r.asset]

(* Accepted: a new block, or the block it duplicates. *)
Accepts(r) == ~TooOld(r) /\ (r \in blocks \/ Funds(r) >= r.amount + Fee)

Transfer(r) ==
    IF r \in blocks THEN UNCHANGED ledger
    ELSE /\ blocks' = blocks \cup {r}
         /\ IF r.op = "deposit"
            THEN /\ wallet' = [wallet EXCEPT ![r.user][r.asset] = @ - r.amount - Fee]
                 /\ custody' = [custody EXCEPT ![r.user][r.asset] = @ + r.amount]
            ELSE /\ wallet' = [wallet EXCEPT ![r.user][r.asset] = @ + r.amount]
                 /\ custody' = [custody EXCEPT ![r.user][r.asset] = @ - r.amount - Fee]

(* Requests of one canister to another are delivered in order: when one is
   answered, an identical earlier one was executed or dropped. *)
Answer(c, stage) == call' = [call EXCEPT ![c].stage = stage]

LedgerAccepts(c) ==
    /\ call[c] # None /\ call[c].stage = "sent"
    /\ Accepts(RequestOf(call[c]))
    /\ Transfer(RequestOf(call[c]))
    /\ late' = late \ {RequestOf(call[c])}
    /\ Answer(c, "ok")
    /\ UNCHANGED <<canister, clock>>

(* A withdrawal that is sure of its answer. *)
SureOfAnswer(c) == "answered" \in Discipline /\ call[c].op = "withdrawal"

LedgerRejects(c) ==
    /\ call[c] # None /\ call[c].stage = "sent"
    /\ SureOfAnswer(c) => RequestOf(call[c]) \notin blocks
    /\ \/ ~Accepts(RequestOf(call[c]))
       \/ "refuse" \in Faults /\ RequestOf(call[c]) \notin blocks
       \/ "unavailable" \in Faults
    /\ late' = late \ {RequestOf(call[c])}
    /\ Answer(c, "err")
    /\ UNCHANGED <<canister, ledger, clock>>

(* A request nobody waits for any more is executed all the same. *)
LedgerExecutesLate(r) ==
    /\ r \in late
    /\ Accepts(r)
    /\ Transfer(r)
    /\ late' = late \ {r}
    /\ UNCHANGED <<canister, call, clock>>

-----------------------------------------------------------------------------
(* Faults and time. *)

Unanswered == {RequestOf(call[c]) : c \in {x \in CallId : call[x] # None /\ call[x].stage = "sent"}}

(* A bounded-wait call times out: the method sees an error, whatever the
   ledger did or still does. *)
TimeOut(c) ==
    /\ "lost" \in Faults
    /\ clock < MaxClock
    /\ call[c] # None /\ call[c].stage \in {"sent", "ok"} /\ ~SureOfAnswer(c)
    /\ late' = IF call[c].stage = "sent" THEN late \cup {RequestOf(call[c])} ELSE late
    /\ Answer(c, "err")
    /\ clock' = clock + 1
    /\ UNCHANGED <<canister, ledger>>

(* An upgrade: the stable state survives, the suspended calls do not. *)
Upgrade ==
    /\ "upgrade" \in Faults
    /\ clock < MaxClock
    /\ \E c \in CallId : call[c] # None
    /\ late' = late \cup Unanswered
    /\ call' = [c \in CallId |-> None]
    /\ clock' = clock + 1
    /\ UNCHANGED <<canister, ledger>>

Tick ==
    /\ clock < MaxClock
    /\ clock' = clock + 1
    /\ UNCHANGED <<canister, call, ledger, late>>

-----------------------------------------------------------------------------
Next ==
    \/ \E c \in CallId, u \in User :
          \/ \E id \in DepositId : \E t \in Intent[id] : BeginDeposit(c, u, id, t)
          \/ \E id \in WithdrawalId : \E t \in Intent[id] : BeginWithdrawal(c, u, id, t)
    \/ \E u \in User, id \in WithdrawalId : \E t \in Intent[id] : RejectWithdrawal(u, id, t)
    \/ \E c \in CallId : \/ DepositSettled(c) \/ DepositFailed(c)
                         \/ WithdrawalSettled(c) \/ WithdrawalFailed(c)
                         \/ LedgerAccepts(c) \/ LedgerRejects(c) \/ TimeOut(c)
    \/ \E u \in User, d \in Domain : ReserveOrderMargin(u, d) \/ ReleaseOrderMargin(u, d)
    \/ \E r \in late : LedgerExecutesLate(r)
    \/ Upgrade
    \/ Tick

Spec == Init /\ [][Next]_vars

(* Every message is eventually processed and answered, and a client whose
   plan is not finalised calls again with the same id. *)
Fairness ==
    /\ \A c \in CallId :
          WF_vars(\/ DepositSettled(c) \/ DepositFailed(c) \/ WithdrawalSettled(c)
                  \/ WithdrawalFailed(c) \/ LedgerAccepts(c) \/ LedgerRejects(c))
    /\ \A u \in User, id \in DepositId :
          WF_vars(\E c \in CallId : \E t \in Intent[id] :
                      deposit_plans[u][id] # None /\ BeginDeposit(c, u, id, t))
    /\ \A u \in User, id \in WithdrawalId :
          WF_vars(\E c \in CallId : \E t \in Intent[id] :
                      withdrawal_plans[u][id] # None /\ BeginWithdrawal(c, u, id, t))

FairSpec == Spec /\ Fairness

-----------------------------------------------------------------------------
(* Properties. *)

DepositHasBlock(u, p) ==
    p # None /\ p.status = "Finalised" =>
        \E r \in blocks : r.op = "deposit" /\ r.user = u /\ r.created_at = p.created_at

WithdrawalHasBlock(u, p) ==
    p # None /\ p.status = "Finalised" =>
        \E r \in blocks : /\ r.op = "withdrawal" /\ r.user = u
                          /\ r.created_at = p.created_at /\ r.amount = p.reserved_amount

(* deposit_collateral and withdraw_collateral finalise a plan only on a block
   or a Duplicate: a finalised plan has a recorded transfer, and a finalised
   withdrawal one of exactly the amount it reserved, whatever the clients do
   and whatever is lost, late or upgraded. *)
FinalisedHasBlock ==
    \A u \in User :
        /\ \A id \in DepositId : DepositHasBlock(u, deposit_plans[u][id])
        /\ \A id \in WithdrawalId : WithdrawalHasBlock(u, withdrawal_plans[u][id])

(* withdraw_collateral against the order methods: no interleaving of
   withdrawals, refunds, deposits and orders leaves a domain's equity below
   the margin reserved in it. *)
MarginCovered ==
    \A u \in User, d \in Domain : Equity(balances[u][d]) >= reserved_margin[u][d]

StoredPlan(k) == IF k.op = "deposit" THEN deposit_plans[k.user][k.id]
                                     ELSE withdrawal_plans[k.user][k.id]

(* The local copy a method overwrites the stored plan with after its await
   is still what is stored, and is not finalised. *)
LocalCopiesFresh ==
    \A c \in CallId : call[c] # None =>
        /\ call[c].plan = StoredPlan(call[c])
        /\ call[c].plan.status = "Executing"

FinalisedKept ==
    \A u \in User :
        /\ \A id \in DepositId : LET p == deposit_plans[u][id] IN
              p # None /\ p.status = "Finalised" => deposit_plans'[u][id] = p
        /\ \A id \in WithdrawalId : LET p == withdrawal_plans[u][id] IN
              p # None /\ p.status = "Finalised" => withdrawal_plans'[u][id] = p

(* The early return on a finalised plan is sound: once stored as finalised,
   a plan is never changed again by a call that was already in flight. *)
FinalisedIsFinal == [][FinalisedKept]_vars

DepositFinalised(u, id) ==
    /\ deposit_plans[u][id] # None /\ deposit_plans[u][id].status # "Finalised"
    /\ deposit_plans'[u][id] # None /\ deposit_plans'[u][id].status = "Finalised"

ReservationCleared(u, id, amount) ==
    /\ withdrawal_plans[u][id] # None /\ withdrawal_plans[u][id].reserved_amount = amount
    /\ withdrawal_plans'[u][id] # None /\ withdrawal_plans'[u][id].reserved_amount = None

GrowthBooked ==
    \A u \in User, d \in Domain, a \in Asset :
        balances'[u][d][a] > balances[u][d][a] =>
            \/ \E id \in DepositId : DepositFinalised(u, id)
            \/ \E id \in WithdrawalId :
                  ReservationCleared(u, id, balances'[u][d][a] - balances[u][d][a])

(* A balance grows only in the step that moves a stored deposit plan to
   Finalised, or by the reservation that the same step clears from a stored
   withdrawal plan: no credit and no refund is given twice. *)
BalanceGrowsOnce == [][GrowthBooked]_vars

TotalBalance(u, a) == MapThenSumSet(LAMBDA d : balances[u][d][a], Domain)

(* The promise behind internal balances: the tokens a user's balances stand
   for are in the user's custody account. *)
CustodyCoversBalances ==
    \A u \in User, a \in Asset : TotalBalance(u, a) <= custody[u][a]

DepositIs(u, id, status) ==
    deposit_plans[u][id] # None /\ deposit_plans[u][id].status = status

(* A deposit whose tokens have moved is eventually credited, by the retries
   of its client, through time-outs and upgrades. *)
MovedIsCredited ==
    \A u \in User, id \in DepositId :
        (/\ DepositIs(u, id, "Executing")
         /\ \E r \in blocks : /\ r.op = "deposit" /\ r.user = u
                              /\ r.created_at = deposit_plans[u][id].created_at)
            ~> DepositIs(u, id, "Finalised")

Holds(u, id) ==
    LET p == withdrawal_plans[u][id] IN
    p # None /\ p.status = "Executing" /\ p.reserved_amount # None

(* A withdrawal's reservation is eventually paid out or refunded, by the
   retries of its client: no time-out or upgrade makes it held for good. *)
ReservationEnds ==
    \A u \in User, id \in WithdrawalId : Holds(u, id) ~> ~Holds(u, id)

-----------------------------------------------------------------------------
(* The promise kept: how far the plans and the ledger have come. *)

(* What the client asked for under an id, when it never changes its terms. *)
Agreed == [i \in DepositId \cup WithdrawalId |-> CHOOSE t \in Intent[i] : TRUE]

Recorded(op, u, p) ==
    \E r \in blocks : r.op = op /\ r.user = u /\ r.created_at = p.created_at

DepositState(u, p) ==
    IF p = None THEN "open"
    ELSE IF p.status = "Finalised" THEN "credited"
    ELSE IF Recorded("deposit", u, p) THEN "moved" ELSE "open"

WithdrawalState(u, p) ==
    IF p = None THEN "open"
    ELSE IF p.reserved_amount = None THEN "open"
    ELSE IF Recorded("withdrawal", u, p) THEN "paid" ELSE "reserved"

DepositStates == [u \in User |-> [i \in DepositId |-> DepositState(u, deposit_plans[u][i])]]

WithdrawalStates ==
    [u \in User |-> [i \in WithdrawalId |-> WithdrawalState(u, withdrawal_plans[u][i])]]

Promise == INSTANCE CustodyPromise WITH
    deposit <- DepositStates, withdrawal <- WithdrawalStates,
    balance <- balances, holding <- custody

(* deposit_collateral and withdraw_collateral, with their retries, refusals
   and upgrades, keep the promise of CustodyPromise: each plan moves tokens
   and books them once. *)
KeepsPromise == Promise!Spec
=============================================================================
