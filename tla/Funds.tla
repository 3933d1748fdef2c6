------------------------------- MODULE Funds --------------------------------
(***************************************************************************)
(* The treasury and the insurance fund: credited by settlements, drawn on  *)
(* by withdraw_fund and cancel_fund_withdrawal (api/admin/api.rs), under   *)
(* the assets and the ICRC handler of Assets.                              *)
(*                                                                         *)
(* Discipline: "one_per_asset", see Assets; "same_terms", controllers      *)
(* repeat a request id with the terms it was first given; "settled_cancel",*)
(* they cancel a request only when no transfer of it was or will be        *)
(* executed; "steady_fee", a ledger does not change its fee while a        *)
(* transfer it executed may be asked for again.                            *)
(*                                                                         *)
(* Settlements credit the internal asset, which no ledger here pays out:   *)
(* the funds' maps, restored by upgrades, may hold other assets, Opening.  *)
(***************************************************************************)
EXTENDS Assets

CONSTANTS
    Earnings,    \* the fees settlements may credit, [protocol, insurance] (bound)
    Opening      \* what the funds hold at first, by fund and asset

FundType == {"Insurance", "Treasury"}

FundRequest ==
    [op : {"withdraw"}, id : RequestId, fund : FundType, asset_id : AssetId, amount : Nat]
        \cup [op : {"cancel"}, id : RequestId]

ASSUME FundsAssumption ==
    /\ Request \subseteq AssetRequest \cup FundRequest
    /\ \A e \in Earnings : e.protocol \in Nat /\ e.insurance \in Nat
    /\ Opening \in [{"Insurance", "Treasury"} -> [AssetId -> Nat]]
    /\ Discipline \subseteq {"one_per_asset", "same_terms", "settled_cancel", "steady_fee"}

VARIABLES
    funds,                  \* INSURANCE_FUND and TREASURY
    fund_withdrawal_plans,  \* FUND_WITHDRAWAL_PLANS
    earned,                 \* the fees of the settlements so far
    unpaid                  \* settlements that have not booked their fees yet

fundVars == <<funds, fund_withdrawal_plans, earned, unpaid>>
vars == <<assetVars, fundVars>>

FundPlan == [fund : FundType, asset_id : AssetId, amount : Nat, stamp : Nat,
             status : {"Planned", "Executing", "Finalised"}]

PaymentPlans == [asset_id : AssetId, stamp : Nat, status : {"Executing", "Finalised"}]

TransferCall == [op : {"transfer"}, key : PaymentId \cup RequestId, asset_id : AssetId,
                 asset : Ledger, amount : Nat, plan : FundPlan \cup PaymentPlans,
                 fee : Fees \cup {None}, attempt : {1, 2},
                 answer : {"none", "block", "bad_fee"}]

TypeOK ==
    /\ DOMAIN collateral_assets \cup DOMAIN asset_metrics \subseteq AssetId
    /\ \A a \in DOMAIN collateral_assets : collateral_assets[a] \in Terms
    /\ \A a \in DOMAIN asset_metrics : asset_metrics[a] \in Metrics
    /\ \A p \in DOMAIN payments : payments[p] \in PaymentPlans
    /\ funds \in [FundType -> [AssetId -> Nat]]
    /\ \A r \in DOMAIN fund_withdrawal_plans : fund_withdrawal_plans[r] \in FundPlan
    /\ \A c \in CallId : Transferring(c) => call[c] \in TransferCall

Init ==
    /\ AssetsInit
    /\ funds = Opening
    /\ fund_withdrawal_plans = EmptyMap
    /\ earned = 0
    /\ unpaid = Earnings

-----------------------------------------------------------------------------
(* settle_series_inner, Phase B: both funds in the internal asset. *)
CreditFees(e) ==
    /\ e \in unpaid
    /\ unpaid' = unpaid \ {e}
    /\ funds' = [funds EXCEPT !["Treasury"][Internal] = @ + e.protocol,
                              !["Insurance"][Internal] = @ + e.insurance]
    /\ earned' = earned + e.protocol + e.insurance
    /\ UNCHANGED <<assetVars, fund_withdrawal_plans>>

(* FundWithdrawalPlan::get_or_create *)
PlanFor(r) ==
    IF r.id \in DOMAIN fund_withdrawal_plans
    THEN fund_withdrawal_plans[r.id]
    ELSE [fund |-> r.fund, asset_id |-> r.asset_id, amount |-> r.amount, stamp |-> clock + 1,
          status |-> "Planned"]

SameTerms(r) ==
    "same_terms" \in Discipline =>
        LET plan == PlanFor(r) IN
        plan.fund = r.fund /\ plan.asset_id = r.asset_id /\ plan.amount = r.amount

MustDeduct_Always(plan) == TRUE

(* Deducted once: while the plan is Planned. *)
MustDeduct(plan) == plan.status = "Planned"

(* deduct_fund_balance_impl *)
InsufficientFunds(r) == funds[r.fund][r.asset_id] < r.amount

(* withdraw_fund up to its transfer.  The terms of the CALL are deducted and
   paid.  An Evm transfer is refused in the same message. *)
WithdrawFund(c, r) ==
    LET plan == PlanFor(r)
        asset == collateral_assets[r.asset_id].asset
        deduct == MustDeduct(plan)
        short == deduct /\ InsufficientFunds(r)
        executing == [plan EXCEPT !.status = "Executing"]
    IN  /\ r.asset_id \in DOMAIN collateral_assets
        /\ SameTerms(r)
        /\ plan.status # "Finalised"
        /\ clock < MaxPlans \/ r.id \in DOMAIN fund_withdrawal_plans
        /\ clock' = IF r.id \in DOMAIN fund_withdrawal_plans THEN clock ELSE clock + 1
        /\ fund_withdrawal_plans' =
               Put(fund_withdrawal_plans, r.id, IF short THEN plan ELSE executing)
        /\ funds' = IF deduct /\ ~short
                    THEN [funds EXCEPT ![r.fund][r.asset_id] = @ - r.amount] ELSE funds
        /\ IF short \/ asset = Evm
           THEN UNCHANGED call
           ELSE Suspend(c, Transfer(r.id, r.asset_id, asset, r.amount, executing))
        /\ UNCHANGED <<configuration, payments, ledger, earned, unpaid>>

(* The answer: the copy of the plan is written back, Finalised. *)
WithdrawFundDone(c) ==
    /\ Transferring(c) /\ call[c].answer = "block" /\ call[c].key \in RequestId
    /\ fund_withdrawal_plans' = Put(fund_withdrawal_plans, call[c].key,
                                    [call[c].plan EXCEPT !.status = "Finalised"])
    /\ Return(c)
    /\ UNCHANGED <<configuration, payments, clock, ledger, funds, earned, unpaid>>

Refunded(plan) == [funds EXCEPT ![plan.fund][plan.asset_id] = @ + plan.amount]

(* A transfer of the request is under way, may still be executed or was. *)
MayBePaid(id) ==
    \/ \E c \in CallId : Transferring(c) /\ call[c].key = id
    \/ \E b \in blocks \cup late : b.key = id /\ b.stamp = fund_withdrawal_plans[id].stamp

(* cancel_fund_withdrawal removes an Executing plan. *)
CancelFundWithdrawal(id) ==
    /\ id \in DOMAIN fund_withdrawal_plans
    /\ fund_withdrawal_plans[id].status = "Executing"
    /\ "settled_cancel" \in Discipline => ~MayBePaid(id)
    /\ funds' = Refunded(fund_withdrawal_plans[id])
    /\ fund_withdrawal_plans' =
          Restrict(fund_withdrawal_plans, DOMAIN fund_withdrawal_plans \ {id})
    /\ UNCHANGED <<assetVars, earned, unpaid>>

-----------------------------------------------------------------------------
(* A transfer the ledger executed and that may be asked for again. *)
Unanswered(l) ==
    \E b \in blocks :
        /\ b.asset = l
        /\ \/ \E c \in CallId : Transferring(c) /\ call[c].plan.stamp = b.stamp
           \/ \E p \in DOMAIN payments :
                 payments[p].stamp = b.stamp /\ payments[p].status # "Finalised"
           \/ \E r \in DOMAIN fund_withdrawal_plans :
                 fund_withdrawal_plans[r].stamp = b.stamp
                 /\ fund_withdrawal_plans[r].status # "Finalised"
           \/ \E x \in late : x.stamp = b.stamp

LedgerChangesFee(l) ==
    /\ "fee_change" \in Faults
    /\ l # InternalLedger     \* never called here
    /\ "steady_fee" \in Discipline => ~Unanswered(l)
    /\ \E f \in Fees \ {ledger_fee[l]} : ledger_fee' = [ledger_fee EXCEPT ![l] = f]
    /\ UNCHANGED <<configuration, payments, clock, call, blocks, late, fundVars>>

(* The suspended methods are gone, the stable state is kept, and so are the
   requests sent to a ledger. *)
Upgrade ==
    /\ "upgrade" \in Faults
    /\ late' = late \cup
           {Block(call[c]) : c \in {x \in CallId : Transferring(x) /\ call[x].answer = "none"}}
    /\ call' = [c \in CallId |-> None]
    /\ UNCHANGED <<configuration, payments, clock, ledger_fee, blocks, fundVars>>

Administer(r) ==
    \/ r.op = "update" /\ UpdateCollateralAsset(r) /\ UNCHANGED fundVars
    \/ r.op = "domains" /\ UpdateAllowedDomains(r) /\ UNCHANGED fundVars
    \/ r.op = "metrics" /\ UpdateAssetMetrics(r) /\ UNCHANGED fundVars
    \/ r.op = "price" /\ UpdateAssetPrice(r) /\ UNCHANGED fundVars
    \/ r.op = "cancel" /\ CancelFundWithdrawal(r.id)

BeginCall(c, r) ==
    \/ r.op = "register" /\ BeginRegister(c, r) /\ UNCHANGED fundVars
    \/ r.op = "refresh" /\ BeginRefresh(c, r) /\ UNCHANGED fundVars
    \/ r.op = "oracle" /\ BeginOraclePrice(c, r) /\ UNCHANGED fundVars
    \/ r.op = "pay" /\ BeginPayment(c, r) /\ UNCHANGED fundVars
    \/ r.op = "withdraw" /\ WithdrawFund(c, r)

Answered(c) ==
    \/ (\/ MetadataRead(c) \/ FinishRegister(c) \/ FinishRefresh(c) \/ FinishOraclePrice(c)
        \/ AnswerRefused(c) \/ LedgerTransfers(c) \/ TransferFails(c) \/ BadFee(c)
        \/ PaymentDone(c)) /\ UNCHANGED fundVars
    \/ WithdrawFundDone(c)

Next ==
    \/ \E r \in Request : Administer(r) \/ \E c \in CallId : BeginCall(c, r)
    \/ \E c \in CallId : Answered(c)
    \/ \E e \in Earnings : CreditFees(e)
    \/ \E b \in late : LateTransfer(b) /\ UNCHANGED fundVars
    \/ \E l \in Ledger : LedgerChangesFee(l)
    \/ Upgrade

Spec == Init /\ [][Next]_vars

-----------------------------------------------------------------------------
(* What withdrawals have deducted and no ledger has paid, and what ledgers
   have paid, whatever became of the plan. *)
Outstanding(a) ==
    MapThenSumSet(LAMBDA r : fund_withdrawal_plans[r].amount,
        {r \in DOMAIN fund_withdrawal_plans :
            /\ fund_withdrawal_plans[r].asset_id = a
            /\ fund_withdrawal_plans[r].status # "Planned"
            /\ \A b \in blocks : b.stamp # fund_withdrawal_plans[r].stamp})

Paid(a) ==
    MapThenSumSet(LAMBDA b : b.amount, {b \in blocks : b.key \in RequestId /\ b.asset_id = a})

(* No fee is lost and none is paid out twice or given back after it was paid:
   what settlements credited is in the funds, with a withdrawal that deducted
   it and is not paid, or was paid by a ledger, counting every transfer it
   ever executed, late ones and those of cancelled requests included.
   (withdraw_fund's Phase B and C, cancel_fund_withdrawal) *)
FundsWhole ==
    \A a \in AssetId :
        MapThenSumSet(LAMBDA f : funds[f][a], FundType) + Outstanding(a) + Paid(a)
            = MapThenSumSet(LAMBDA f : Opening[f][a], FundType)
                  + IF a = Internal THEN earned ELSE 0

(* The books of the funds are sound: every record has its type, and no fee is
   lost or made up.  (FundWithdrawalPlan, withdraw_fund) *)
FundsSound == TypeOK /\ FundsWhole

(* A payment or fund withdrawal is made by at most one transfer, however
   often it is retried or cancelled and asked for again, whatever fee each
   attempt carried and however late the ledger executes it.
   (IcrcHandler::transfer: "the retry stays idempotent") *)
PaidOnce == \A b1, b2 \in blocks : b1.key = b2.key => b1 = b2

(* An answer that a method waited for undoes nothing done meanwhile: an
   asset that is configured keeps its ledger, domains and oracle, and only a
   price that was published changes a price.  (register_icrc_asset,
   refresh_icrc_asset_metadata) *)
AnswersUndoNothing ==
    [][\A c \in CallId :
          call[c] # None /\ call'[c] = None =>
              /\ \A a \in DOMAIN collateral_assets : collateral_assets'[a] = collateral_assets[a]
              /\ \A a \in DOMAIN asset_metrics :
                    call[c].op # "price" => asset_metrics'[a].price = asset_metrics[a].price]_vars
=============================================================================
