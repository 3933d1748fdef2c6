----------------------------- MODULE FundsProofs -----------------------------
(***************************************************************************)
(* Theorems about Funds and the configuration it works under, for any      *)
(* assets, ledgers, fees, requests and interleaving of the methods.        *)
(***************************************************************************)
EXTENDS Funds, SumProofs

(* What a method keeps while it is suspended. *)
ConfigCall == [op : {"register", "refresh"}, asset_id : AssetId,
               terms : {t \in Terms : t.asset \in Ledger}, fee : Fees \cup {None}]

PriceCall == [op : {"price"}, asset_id : AssetId, price : Nat]

AnyCall == TransferCall \cup ConfigCall \cup PriceCall

AnyBlock == [key : PaymentId \cup RequestId, asset_id : AssetId, asset : Ledger, amount : Nat,
             stamp : Nat, fee : Fees \cup {None}]

(* A call keeps the plan of the kind its key names, as it was sent. *)
CopyOK(k) ==
    /\ k.key \in RequestId => k.plan \in FundPlan
    /\ k.key \in PaymentId => k.plan \in PaymentPlans
    /\ k.plan.status = "Executing"

ConfigType ==
    /\ DOMAIN collateral_assets \cup DOMAIN asset_metrics \subseteq AssetId
    /\ \A a \in DOMAIN collateral_assets : collateral_assets[a] \in Terms
    /\ \A a \in DOMAIN asset_metrics : asset_metrics[a] \in Metrics

PlansType ==
    /\ DOMAIN payments \subseteq PaymentId
    /\ \A p \in DOMAIN payments : payments[p] \in PaymentPlans
    /\ DOMAIN fund_withdrawal_plans \subseteq RequestId
    /\ \A r \in DOMAIN fund_withdrawal_plans : fund_withdrawal_plans[r] \in FundPlan

BooksType ==
    funds \in [FundType -> [AssetId -> Nat]] /\ earned \in Nat /\ clock \in Nat

(* The transfers ledgers executed, and those they still may. *)
Sent == blocks \cup late

LedgerType == ledger_fee \in [Ledger -> Fees] /\ Sent \subseteq AnyBlock

CallType ==
    /\ call \in [CallId -> AnyCall \cup {None}]
    /\ \A c \in CallId : Transferring(c) => CopyOK(call[c])

TypeInv == ConfigType /\ PlansType /\ BooksType /\ LedgerType /\ CallType

-----------------------------------------------------------------------------
(* The plans of payments and of fund withdrawals, by key. *)

Keys == DOMAIN payments \cup DOMAIN fund_withdrawal_plans

PlanOf(k) == IF k \in DOMAIN payments THEN payments[k] ELSE fund_withdrawal_plans[k]

(* A plan is told by its stamp. *)
StampsDistinct ==
    /\ \A k \in Keys : PlanOf(k).stamp <= clock
    /\ \A k, l \in Keys : PlanOf(k).stamp = PlanOf(l).stamp => k = l

(* The suspended transfer k is that of the stored plan p, and for a withdrawal
   of the plan's asset and amount, which it has deducted. *)
Matches(k, p) ==
    /\ k.plan = [p EXCEPT !.status = "Executing"]
    /\ k.key \in RequestId =>
          /\ p.status # "Planned"
          /\ k.asset_id = k.plan.asset_id /\ k.amount = k.plan.amount

CallsPlanned ==
    \A c \in CallId : \A k \in {call[c]} :
        Transferring(c) => k.key \in Keys /\ Matches(k, PlanOf(k.key))

(* A transfer that was sent is that of a stored plan, and for a withdrawal of
   the plan's asset and amount, which it has deducted. *)
PlannedBy(b, p) ==
    /\ b.stamp = p.stamp
    /\ b.key \in RequestId =>
          p.status # "Planned" /\ p.asset_id = b.asset_id /\ p.amount = b.amount

SentPlanned == \A b \in Sent : b.key \in Keys /\ PlannedBy(b, PlanOf(b.key))

(* What a withdrawal has deducted, and what the funds hold, of an asset. *)
TakenOf(a) ==
    [r \in RequestId |->
        IF /\ r \in DOMAIN fund_withdrawal_plans
           /\ fund_withdrawal_plans[r].asset_id = a
           /\ fund_withdrawal_plans[r].status # "Planned"
        THEN fund_withdrawal_plans[r].amount ELSE 0]

FundsOf(a) == [f \in FundType |-> funds[f][a]]

OpeningOf(a) == [f \in FundType |-> Opening[f][a]]

(* No fee is lost and none is made up, counted by withdrawals. *)
BooksWhole ==
    \A a \in AssetId :
        SumOver(FundsOf(a), FundType) + SumOver(TakenOf(a), RequestId)
            = SumOver(OpeningOf(a), FundType) + IF a = Internal THEN earned ELSE 0

SoundInv == TypeInv /\ StampsDistinct /\ CallsPlanned /\ SentPlanned /\ BooksWhole

-----------------------------------------------------------------------------
(* one_per_asset: a suspended registration is of an asset nobody configured,
   a suspended refresh holds the configuration as it is. *)
Unconfigured ==
    \A c \in CallId : call[c] # None =>
        /\ call[c].op = "register" => call[c].asset_id \notin DOMAIN collateral_assets
        /\ call[c].op = "refresh" =>
              /\ call[c].asset_id \in DOMAIN collateral_assets
              /\ call[c].terms = collateral_assets[call[c].asset_id]

OneCallPerAsset ==
    \A c, x \in CallId :
        /\ call[c] # None /\ call[c].op \in {"register", "refresh"}
        /\ call[x] # None /\ call[x].op \in {"register", "refresh"}
        /\ call[c].asset_id = call[x].asset_id
        => c = x

ConfigInv == TypeInv /\ Unconfigured /\ OneCallPerAsset

-----------------------------------------------------------------------------
(* An asset of a ledger has a cached fee, and a transfer is sent with one. *)
FeesCached ==
    /\ \A a \in DOMAIN asset_metrics : asset_metrics[a].fee \in Fees
    /\ \A a \in DOMAIN collateral_assets :
          collateral_assets[a].asset \in Ledger => a \in DOMAIN asset_metrics

FeesSent ==
    /\ \A c \in CallId : Transferring(c) => call[c].fee \in Fees
    /\ \A b \in late : b.fee \in Fees

(* The transfers of an asset are on one ledger, which is its own until a
   controller makes it an asset of none. *)
LedgerKept(a, l) == a \in DOMAIN collateral_assets /\ collateral_assets[a].asset \in {l, Evm}

OnLedger(a, l) ==
    \/ \E c \in CallId : Transferring(c) /\ call[c].asset_id = a /\ call[c].asset = l
    \/ \E b \in Sent : b.asset_id = a /\ b.asset = l

LedgersKept ==
    \A a \in AssetId, l \in Ledger : OnLedger(a, l) =>
        LedgerKept(a, l) /\ \A m \in Ledger : OnLedger(a, m) => l = m

(* A payment is of the asset it was asked for. *)
PaymentsAgreed ==
    /\ \A p \in DOMAIN payments : \E r \in Request :
          r.op = "pay" /\ r.id = p /\ r.asset_id = payments[p].asset_id
    /\ \A c \in CallId : Transferring(c) /\ call[c].key \in PaymentId =>
          call[c].asset_id = PlanOf(call[c].key).asset_id /\ call[c].amount = 1
    /\ \A b \in Sent : b.key \in PaymentId =>
          b.asset_id = PlanOf(b.key).asset_id /\ b.amount = 1

(* A transfer that may be asked for again has the fee of its ledger. *)
MayRepeat(b) ==
    \/ \E c \in CallId : Transferring(c) /\ call[c].plan.stamp = b.stamp
    \/ \E k \in Keys : PlanOf(k).stamp = b.stamp /\ PlanOf(k).status # "Finalised"
    \/ \E x \in late : x.stamp = b.stamp

FeesSteady == \A b \in blocks : MayRepeat(b) => b.fee = ledger_fee[b.asset]

PaidInv ==
    /\ SoundInv /\ ConfigInv
    /\ FeesCached /\ FeesSent /\ LedgersKept /\ PaymentsAgreed /\ FeesSteady /\ PaidOnce

-----------------------------------------------------------------------------
(* Types. *)

LEMMA PutType ==
    ASSUME NEW map, NEW S, NEW T, NEW k \in S, NEW v \in T,
           DOMAIN map \subseteq S, \A x \in DOMAIN map : map[x] \in T
    PROVE  /\ DOMAIN Put(map, k, v) \subseteq S
           /\ \A x \in DOMAIN Put(map, k, v) : Put(map, k, v)[x] \in T
BY DEF Put

(* What a suspended method keeps, by its kind. *)
LEMMA CallKinds ==
    ASSUME CallType, NEW c \in CallId, call[c] # None
    PROVE  \/ call[c] \in TransferCall /\ Transferring(c) /\ CopyOK(call[c])
           \/ call[c] \in ConfigCall /\ call[c].op \in {"register", "refresh"}
           \/ call[c] \in PriceCall /\ call[c].op = "price"
<1>1. call[c] \in AnyCall
    BY DEF CallType
<1>2. CASE call[c] \in TransferCall
    BY <1>2 DEF TransferCall, Transferring, CallType
<1>3. CASE call[c] \in ConfigCall
    BY <1>3 DEF ConfigCall
<1>4. CASE call[c] \in PriceCall
    BY <1>4 DEF PriceCall
<1> QED BY <1>1, <1>2, <1>3, <1>4 DEF AnyCall

LEMMA CallUpdate ==
    ASSUME CallType, NEW c \in CallId, NEW k \in AnyCall \cup {None},
           call' = [call EXCEPT ![c] = k],
           k # None /\ k.op = "transfer" => CopyOK(k)
    PROVE  CallType'
BY DEF CallType, Transferring

LEMMA TypeGives == TypeInv => TypeOK
<1> SUFFICES ASSUME TypeInv PROVE TypeOK
    OBVIOUS
<1>1. \A c \in CallId : Transferring(c) => call[c] \in TransferCall
    BY CallKinds DEF TypeInv, Transferring, ConfigCall, PriceCall
<1> QED BY <1>1 DEF TypeInv, TypeOK, ConfigType, PlansType, BooksType

(* A nonempty set of fees has a least one. *)
LEMMA LeastFee == Min(Fees) \in Fees
<1>1. PICK m \in Fees : m \in Nat
    BY AssetsAssumption
<1>2. PICK f \in Fees : f <= m /\ \A g \in Fees : g <= m => ~(0 .. g \subseteq 0 .. f /\ 0 .. g # 0 .. f)
    <2> DEFINE M == 0 .. m
               T == {s \in SUBSET M : \E f \in Fees : f <= m /\ s = 0 .. f}
    <2>1. T \in SUBSET SUBSET M
        OBVIOUS
    <2>2. T # {}
        <3>1. 0 .. m \in T
            BY <1>1
        <3> QED BY <3>1
    <2>3. IsFiniteSet(M)
        BY <1>1, FS_Interval
    <2>4. PICK x \in T : \A y \in T : ~(y \subseteq x /\ y # x)
        <3> HIDE DEF T, M
        <3> QED BY ONLY <2>1, <2>2, <2>3, SmallestSet
    <2>5. PICK f \in Fees : f <= m /\ x = 0 .. f
        BY <2>4
    <2>6. ASSUME NEW g \in Fees, g <= m PROVE 0 .. g \in T
        <3>1. g \in Nat
            BY AssetsAssumption
        <3> QED BY <1>1, <2>6, <3>1
    <2> HIDE DEF T
    <2> QED BY <2>4, <2>5, <2>6
<1>3. ASSUME NEW g \in Fees, ~(f <= g) PROVE FALSE
    <2>1. f \in Nat /\ g \in Nat /\ g < f /\ g <= m
        BY <1>1, <1>2, <1>3, AssetsAssumption
    <2>2. 0 .. g \subseteq 0 .. f /\ f \in 0 .. f /\ f \notin 0 .. g
        BY <2>1
    <2> QED BY <1>2, <2>1, <2>2
<1> QED BY <1>3 DEF Min

LEMMA TypeInit == Init => TypeInv
<1> SUFFICES ASSUME Init PROVE TypeInv
    OBVIOUS
<1>1. ConfigType
    BY DEF Init, AssetsInit, EmptyMap, ConfigType
<1>2. PlansType
    BY DEF Init, AssetsInit, EmptyMap, PlansType
<1>3. BooksType
    BY FundsAssumption DEF Init, AssetsInit, BooksType, FundType
<1>4. LedgerType
    BY LeastFee DEF Init, AssetsInit, LedgerType, Sent
<1>5. CallType
    BY DEF Init, AssetsInit, CallType, Transferring
<1> QED BY <1>1, <1>2, <1>3, <1>4, <1>5 DEF TypeInv

(* The calls of the controllers. *)
LEMMA RequestKinds ==
    ASSUME NEW r \in Request
    PROVE  /\ r.op = "update" \/ r.op = "register" => r.asset_id \in AssetId /\ r.terms \in Terms
           /\ r.op = "refresh" => r.asset_id \in AssetId
           /\ r.op = "domains" => r.asset_id \in AssetId /\ r.domains \in SUBSET Domain
           /\ r.op = "metrics" => r.asset_id \in AssetId /\ r.metrics \in Metrics
           /\ r.op = "price" \/ r.op = "oracle" => r.asset_id \in AssetId /\ r.price \in Nat
           /\ r.op = "pay" => r.id \in PaymentId /\ r.asset_id \in AssetId
           /\ r.op = "withdraw" => /\ r.id \in RequestId /\ r.fund \in FundType
                                   /\ r.asset_id \in AssetId /\ r.amount \in Nat
           /\ r.op = "cancel" => r.id \in RequestId
BY FundsAssumption, AssetsAssumption DEF AssetRequest, FundRequest

(* Steps that leave a part of the state alone keep its type. *)
LEMMA RestType ==
    /\ ConfigType /\ UNCHANGED configuration => ConfigType'
    /\ PlansType /\ UNCHANGED <<payments, fund_withdrawal_plans>> => PlansType'
    /\ BooksType /\ UNCHANGED <<funds, earned, clock>> => BooksType'
    /\ LedgerType /\ UNCHANGED ledger => LedgerType'
    /\ CallType /\ UNCHANGED call => CallType'
<1>1. ConfigType /\ UNCHANGED configuration => ConfigType'
    BY DEF ConfigType, configuration
<1>2. PlansType /\ UNCHANGED <<payments, fund_withdrawal_plans>> => PlansType'
    BY DEF PlansType
<1>3. BooksType /\ UNCHANGED <<funds, earned, clock>> => BooksType'
    BY DEF BooksType
<1>4. LedgerType /\ UNCHANGED ledger => LedgerType'
    BY DEF LedgerType, ledger, Sent
<1>5. CallType /\ UNCHANGED call => CallType'
    BY DEF CallType, Transferring
<1> QED BY <1>1, <1>2, <1>3, <1>4, <1>5

LEMMA AssetPut ==
    ASSUME ConfigType, NEW a \in AssetId, NEW t \in Terms,
           collateral_assets' = Put(collateral_assets, a, t)
    PROVE  /\ DOMAIN collateral_assets' \subseteq AssetId
           /\ \A x \in DOMAIN collateral_assets' : collateral_assets'[x] \in Terms
<1> DEFINE new == Put(collateral_assets, a, t)
<1>1. DOMAIN new \subseteq AssetId /\ \A x \in DOMAIN new : new[x] \in Terms
    <2>1. DOMAIN collateral_assets \subseteq AssetId
        BY DEF ConfigType
    <2> QED BY <2>1, PutType DEF ConfigType
<1> QED BY <1>1

LEMMA MetricsPut ==
    ASSUME ConfigType, NEW a \in AssetId, NEW m \in Metrics,
           asset_metrics' = Put(asset_metrics, a, m)
    PROVE  /\ DOMAIN asset_metrics' \subseteq AssetId
           /\ \A x \in DOMAIN asset_metrics' : asset_metrics'[x] \in Metrics
<1> DEFINE new == Put(asset_metrics, a, m)
<1>1. DOMAIN new \subseteq AssetId /\ \A x \in DOMAIN new : new[x] \in Metrics
    <2>1. DOMAIN asset_metrics \subseteq AssetId
        BY DEF ConfigType
    <2> QED BY <2>1, PutType DEF ConfigType
<1> QED BY <1>1

LEMMA MetricsSet ==
    ASSUME ConfigType,
           \/ \E a \in AssetId, f \in Fees \cup {None} : asset_metrics' = UpdatedFee(a, f)
           \/ \E a \in AssetId, p \in Nat : asset_metrics' = [asset_metrics EXCEPT ![a].price = p]
    PROVE  /\ DOMAIN asset_metrics' \subseteq AssetId
           /\ \A x \in DOMAIN asset_metrics' : asset_metrics'[x] \in Metrics
BY DEF ConfigType, Metrics, UpdatedFee

(* The methods of a controller that run in one message. *)
LEMMA AdministerType ==
    ASSUME TypeInv, NEW r \in Request,
           \/ r.op = "update" /\ UpdateCollateralAsset(r)
           \/ r.op = "domains" /\ UpdateAllowedDomains(r)
           \/ r.op = "metrics" /\ UpdateAssetMetrics(r)
           \/ r.op = "price" /\ UpdateAssetPrice(r),
           UNCHANGED fundVars
    PROVE  TypeInv'
<1>1. UNCHANGED <<payments, clock, call, ledger, fundVars>>
    BY DEF UpdateCollateralAsset, UpdateAllowedDomains, UpdateAssetMetrics, UpdateAssetPrice
<1>2. CASE r.op = "update" /\ UpdateCollateralAsset(r)
    <2>1. ConfigType'
        BY <1>2, AssetPut, RequestKinds DEF TypeInv, ConfigType, UpdateCollateralAsset
    <2> QED BY <1>1, <2>1, RestType DEF TypeInv, fundVars
<1>3. CASE r.op = "domains" /\ UpdateAllowedDomains(r)
    <2>1. ConfigType'
        BY <1>3, RequestKinds DEF TypeInv, ConfigType, UpdateAllowedDomains, Terms
    <2> QED BY <1>1, <2>1, RestType DEF TypeInv, fundVars
<1>4. CASE r.op = "metrics" /\ UpdateAssetMetrics(r)
    <2>1. ConfigType'
        BY <1>4, MetricsPut, RequestKinds DEF TypeInv, ConfigType, UpdateAssetMetrics
    <2> QED BY <1>1, <2>1, RestType DEF TypeInv, fundVars
<1>5. CASE r.op = "price" /\ UpdateAssetPrice(r)
    <2>1. ConfigType'
        BY <1>5, MetricsSet, RequestKinds DEF TypeInv, ConfigType, UpdateAssetPrice, Priced
    <2> QED BY <1>1, <2>1, RestType DEF TypeInv, fundVars
<1> QED BY <1>2, <1>3, <1>4, <1>5

(* A configuration method up to its await. *)
LEMMA BeginConfigType ==
    ASSUME TypeInv, NEW c \in CallId, NEW r \in Request,
           \/ r.op = "register" /\ BeginRegister(c, r)
           \/ r.op = "refresh" /\ BeginRefresh(c, r)
           \/ r.op = "oracle" /\ BeginOraclePrice(c, r),
           UNCHANGED fundVars
    PROVE  TypeInv'
<1>1. UNCHANGED <<configuration, payments, clock, ledger, fundVars>>
    BY DEF BeginRegister, BeginRefresh, BeginOraclePrice
<1>2. PICK k \in ConfigCall \cup PriceCall : call' = [call EXCEPT ![c] = k]
    <2>1. CASE r.op = "register" /\ BeginRegister(c, r)
        <3>1. [op |-> "register", asset_id |-> r.asset_id, terms |-> r.terms, fee |-> None]
                  \in ConfigCall
            BY <2>1, RequestKinds DEF BeginRegister, ConfigCall
        <3> QED BY <2>1, <3>1 DEF BeginRegister, Suspend
    <2>2. CASE r.op = "refresh" /\ BeginRefresh(c, r)
        <3>1. [op |-> "refresh", asset_id |-> r.asset_id,
               terms |-> collateral_assets[r.asset_id], fee |-> None] \in ConfigCall
            BY <2>2, RequestKinds DEF BeginRefresh, ConfigCall, TypeInv, ConfigType
        <3> QED BY <2>2, <3>1 DEF BeginRefresh, Suspend
    <2>3. CASE r.op = "oracle" /\ BeginOraclePrice(c, r)
        <3>1. [op |-> "price", asset_id |-> r.asset_id, price |-> r.price] \in PriceCall
            BY <2>3, RequestKinds DEF PriceCall
        <3> QED BY <2>3, <3>1 DEF BeginOraclePrice, Suspend
    <2> QED BY <2>1, <2>2, <2>3
<1>3. CallType'
    BY <1>2, CallUpdate DEF TypeInv, AnyCall, ConfigCall, PriceCall
<1> QED BY <1>1, <1>3, RestType DEF TypeInv, fundVars

(* ... and its answer. *)
LEMMA AnswerConfigType ==
    ASSUME TypeInv, NEW c \in CallId,
           \/ MetadataRead(c) \/ FinishRegister(c) \/ FinishRefresh(c) \/ FinishOraclePrice(c)
           \/ AnswerRefused(c),
           UNCHANGED fundVars
    PROVE  TypeInv'
<1>1. UNCHANGED <<payments, clock, ledger, fundVars>>
    BY DEF MetadataRead, FinishRegister, FinishRefresh, FinishOraclePrice, AnswerRefused
<1>2. CASE MetadataRead(c)
    <2> DEFINE f == ledger_fee[call[c].terms.asset]
               k == [call[c] EXCEPT !.fee = f]
    <2>1. call[c] \in ConfigCall
        BY <1>2, CallKinds DEF MetadataRead, TypeInv, Transferring, PriceCall
    <2>2. f \in Fees
        BY <2>1 DEF ConfigCall, TypeInv, LedgerType
    <2>3. k \in ConfigCall /\ k.op # "transfer"
        BY <2>1, <2>2 DEF ConfigCall
    <2>4. call' = [call EXCEPT ![c] = k]
        BY <1>2 DEF MetadataRead, TypeInv, CallType
    <2> HIDE DEF k
    <2>5. CallType'
        BY <2>3, <2>4, CallUpdate DEF TypeInv, AnyCall
    <2> QED BY <1>1, <1>2, <2>5, RestType DEF TypeInv, fundVars, MetadataRead
<1>3. CASE FinishRegister(c)
    <2>1. call[c] \in ConfigCall
        BY <1>3, CallKinds DEF FinishRegister, TypeInv, Transferring, PriceCall
    <2>2. RegisteredMetrics(call[c].asset_id, call[c].fee) \in Metrics
        BY <2>1 DEF ConfigCall, TypeInv, ConfigType, RegisteredMetrics, Metrics
    <2>3. ConfigType'
        BY <1>3, <2>1, <2>2, AssetPut, MetricsPut DEF FinishRegister, ConfigCall, TypeInv, ConfigType
    <2>4. CallType'
        BY <1>3, CallUpdate DEF FinishRegister, Return, TypeInv
    <2> QED BY <1>1, <2>3, <2>4, RestType DEF TypeInv, fundVars
<1>4. CASE FinishRefresh(c)
    <2>1. call[c] \in ConfigCall
        BY <1>4, CallKinds DEF FinishRefresh, TypeInv, Transferring, PriceCall
    <2>2. ConfigType'
        BY <1>4, <2>1, AssetPut, MetricsSet DEF FinishRefresh, ConfigCall, TypeInv, ConfigType
    <2>3. CallType'
        BY <1>4, CallUpdate DEF FinishRefresh, Return, TypeInv
    <2> QED BY <1>1, <2>2, <2>3, RestType DEF TypeInv, fundVars
<1>5. CASE FinishOraclePrice(c)
    <2>1. call[c] \in PriceCall
        BY <1>5, CallKinds DEF FinishOraclePrice, TypeInv, Transferring, ConfigCall
    <2>2. ConfigType'
        BY <1>5, <2>1, MetricsSet DEF FinishOraclePrice, Priced, PriceCall, TypeInv, ConfigType
    <2>3. CallType'
        BY <1>5, CallUpdate DEF FinishOraclePrice, Return, TypeInv
    <2> QED BY <1>1, <2>2, <2>3, RestType DEF TypeInv, fundVars
<1>6. CASE AnswerRefused(c)
    <2>1. CallType'
        BY <1>6, CallUpdate DEF AnswerRefused, Return, TypeInv
    <2> QED BY <1>1, <1>6, <2>1, RestType DEF TypeInv, fundVars, AnswerRefused
<1> QED BY <1>2, <1>3, <1>4, <1>5, <1>6

(* A transfer with the plan it is for. *)
LEMMA TransferIsCall ==
    ASSUME ConfigType, NEW key \in PaymentId \cup RequestId, NEW a \in AssetId,
           NEW asset \in Ledger, NEW amount \in Nat,
           NEW plan \in FundPlan \cup PaymentPlans, plan.status = "Executing",
           key \in RequestId => plan \in FundPlan, key \in PaymentId => plan \in PaymentPlans
    PROVE  /\ Transfer(key, a, asset, amount, plan) \in TransferCall
           /\ CopyOK(Transfer(key, a, asset, amount, plan))
<1>1. CachedFee(a) \in Fees \cup {None}
    BY DEF CachedFee, ConfigType, Metrics
<1>2. Transfer(key, a, asset, amount, plan) \in TransferCall
    BY <1>1 DEF Transfer, TransferCall
<1>3. CopyOK(Transfer(key, a, asset, amount, plan))
    BY DEF Transfer, CopyOK
<1> QED BY <1>2, <1>3

LEMMA PlanForType ==
    ASSUME PlansType, BooksType, NEW r \in Request, r.op = "withdraw"
    PROVE  PlanFor(r) \in FundPlan
BY RequestKinds DEF PlanFor, PlansType, BooksType, FundPlan

LEMMA PaymentPlanType ==
    ASSUME PlansType, BooksType, NEW r \in Request, r.op = "pay"
    PROVE  PaymentPlan(r) \in PaymentPlans
BY RequestKinds DEF PaymentPlan, PlansType, BooksType, PaymentPlans

LEMMA BeginPaymentType ==
    ASSUME TypeInv, NEW c \in CallId, NEW r \in Request, r.op = "pay", BeginPayment(c, r),
           UNCHANGED fundVars
    PROVE  TypeInv'
<1> DEFINE plan == PaymentPlan(r)
           asset == collateral_assets[r.asset_id].asset
           k == Transfer(r.id, r.asset_id, asset, 1, plan)
<1>1. plan \in PaymentPlans /\ r.id \in PaymentId /\ r.asset_id \in AssetId
    BY RequestKinds, PaymentPlanType DEF TypeInv
<1>2. plan.status = "Executing" /\ asset \in Ledger
    BY <1>1 DEF BeginPayment, PaymentPlans
<1>3. r.id \notin RequestId
    BY <1>1, AssetsAssumption
<1>4. k \in TransferCall /\ CopyOK(k)
    <2> HIDE DEF plan, asset
    <2> QED BY <1>1, <1>2, <1>3, TransferIsCall DEF TypeInv
<1>5. /\ payments' = Put(payments, r.id, plan) /\ call' = [call EXCEPT ![c] = k]
      /\ clock' = IF plan.stamp > clock THEN plan.stamp ELSE clock
      /\ UNCHANGED <<configuration, ledger, fundVars>>
    BY DEF BeginPayment, Suspend
<1>6. plan.stamp \in Nat
    BY <1>1 DEF PaymentPlans
<1> HIDE DEF plan, k
<1>7. CallType'
    BY <1>4, <1>5, CallUpdate DEF TypeInv, AnyCall
<1>8. PlansType'
    <2>1. /\ DOMAIN payments' \subseteq PaymentId
          /\ \A x \in DOMAIN payments' : payments'[x] \in PaymentPlans
        BY <1>1, <1>5, PutType DEF TypeInv, PlansType
    <2> QED BY <1>5, <2>1 DEF TypeInv, PlansType, fundVars
<1>9. BooksType'
    BY <1>5, <1>6 DEF TypeInv, BooksType, fundVars
<1> QED BY <1>5, <1>7, <1>8, <1>9, RestType DEF TypeInv

LEMMA WithdrawFundType ==
    ASSUME TypeInv, NEW c \in CallId, NEW r \in Request, r.op = "withdraw", WithdrawFund(c, r)
    PROVE  TypeInv'
<1> DEFINE plan == PlanFor(r)
           asset == collateral_assets[r.asset_id].asset
           short == MustDeduct(plan) /\ InsufficientFunds(r)
           executing == [plan EXCEPT !.status = "Executing"]
           stored == IF short THEN plan ELSE executing
           k == Transfer(r.id, r.asset_id, asset, r.amount, executing)
<1>1. /\ plan \in FundPlan /\ r.id \in RequestId /\ r.asset_id \in AssetId
      /\ r.fund \in FundType /\ r.amount \in Nat
    BY RequestKinds, PlanForType DEF TypeInv
<1>2. executing \in FundPlan /\ executing.status = "Executing" /\ stored \in FundPlan
    <2> HIDE DEF plan
    <2> QED BY <1>1 DEF FundPlan
<1>3. r.id \notin PaymentId
    BY <1>1, AssetsAssumption
<1>4. /\ r.asset_id \in DOMAIN collateral_assets
      /\ clock' = clock \/ clock' = clock + 1
      /\ fund_withdrawal_plans' = Put(fund_withdrawal_plans, r.id, stored)
      /\ \/ UNCHANGED funds
         \/ /\ ~InsufficientFunds(r)
            /\ funds' = [funds EXCEPT ![r.fund][r.asset_id] = @ - r.amount]
      /\ UNCHANGED call \/ (asset # Evm /\ call' = [call EXCEPT ![c] = k])
      /\ UNCHANGED <<configuration, payments, ledger, earned>>
    BY DEF WithdrawFund, Suspend
<1>5. asset # Evm => asset \in Ledger
    BY <1>4 DEF TypeInv, ConfigType, Terms
<1>6. asset # Evm => k \in TransferCall /\ CopyOK(k)
    <2> HIDE DEF executing, asset
    <2> QED BY <1>1, <1>2, <1>3, <1>5, TransferIsCall DEF TypeInv
<1> HIDE DEF k, plan, executing, stored, asset
<1>7. CallType'
    BY <1>4, <1>6, CallUpdate, RestType DEF TypeInv, AnyCall
<1>8. PlansType'
    <2> DEFINE new == Put(fund_withdrawal_plans, r.id, stored)
    <2>1. /\ DOMAIN fund_withdrawal_plans \subseteq RequestId
          /\ \A x \in DOMAIN fund_withdrawal_plans : fund_withdrawal_plans[x] \in FundPlan
        BY DEF TypeInv, PlansType
    <2>2. DOMAIN new \subseteq RequestId /\ \A x \in DOMAIN new : new[x] \in FundPlan
        BY <1>1, <1>2, <2>1, PutType
    <2> QED BY <1>4, <2>2 DEF TypeInv, PlansType
<1>9. BooksType'
    BY <1>1, <1>4 DEF TypeInv, BooksType, InsufficientFunds
<1> QED BY <1>4, <1>7, <1>8, <1>9, RestType DEF TypeInv

LEMMA CallIsTransfer ==
    ASSUME CallType, NEW c \in CallId, Transferring(c)
    PROVE  call[c] \in TransferCall /\ CopyOK(call[c])
BY CallKinds DEF Transferring, ConfigCall, PriceCall

LEMMA BlockType == ASSUME NEW k \in TransferCall PROVE Block(k) \in AnyBlock
BY DEF Block, AnyBlock, TransferCall, FundPlan, PaymentPlans

(* The ledger's answers to a transfer. *)
LEMMA TransferAnswerType ==
    ASSUME TypeInv, NEW c \in CallId,
           LedgerTransfers(c) \/ TransferFails(c) \/ BadFee(c),
           UNCHANGED fundVars
    PROVE  TypeInv'
<1> DEFINE k == call[c]
<1>1. k \in TransferCall /\ CopyOK(k)
    BY CallKinds
       DEF LedgerTransfers, TransferFails, BadFee, Transferring, TypeInv,
           ConfigCall, PriceCall
<1>2. UNCHANGED <<collateral_assets, payments, clock, ledger_fee, fundVars>>
    BY DEF LedgerTransfers, TransferFails, BadFee, configuration, ledger
<1>3. ledger_fee[k.asset] \in Fees
    BY <1>1 DEF TransferCall, TypeInv, LedgerType
<1>4. PICK q \in AnyCall \cup {None} : /\ call' = [call EXCEPT ![c] = q]
                                       /\ q # None => CopyOK(q)
    <2>1. CASE TransferFails(c)
        BY <2>1 DEF TransferFails, Return
    <2>2. ASSUME NEW a \in {"block", "bad_fee"}, call' = [call EXCEPT ![c].answer = a]
          PROVE  \E q \in AnyCall : call' = [call EXCEPT ![c] = q] /\ CopyOK(q)
        <3> DEFINE q == [k EXCEPT !.answer = a]
        <3>1. q \in TransferCall /\ CopyOK(q)
            BY <1>1 DEF TransferCall, CopyOK
        <3>2. call' = [call EXCEPT ![c] = q]
            BY <2>2 DEF TypeInv, CallType
        <3> HIDE DEF q
        <3> QED BY <3>1, <3>2 DEF AnyCall
    <2>3. CASE LedgerTransfers(c)
        BY <2>2, <2>3 DEF LedgerTransfers
    <2>4. CASE BadFee(c)
        <3> DEFINE q == [k EXCEPT !.attempt = 2, !.answer = "none", !.fee = ledger_fee[k.asset]]
        <3>1. q \in TransferCall /\ CopyOK(q)
            BY <1>1, <1>3 DEF TransferCall, CopyOK
        <3>2. \/ call' = [call EXCEPT ![c] = q]
              \/ call' = [call EXCEPT ![c] = None]
            BY <2>4 DEF BadFee, TypeInv, CallType
        <3> HIDE DEF q
        <3> QED BY <3>1, <3>2 DEF AnyCall
    <2> QED BY <2>1, <2>3, <2>4
<1>5. CallType'
    BY <1>4, CallUpdate DEF TypeInv
<1>6. LedgerType'
    <2>1. Block(k) \in AnyBlock
        BY <1>1, BlockType
    <2>2. Sent' = Sent \/ Sent' = Sent \cup {Block(k)}
        BY DEF LedgerTransfers, TransferFails, BadFee, ledger, Sent
    <2> QED BY <1>2, <2>1, <2>2 DEF TypeInv, LedgerType
<1>7. ConfigType'
    <2>1. CASE BadFee(c)
        BY <1>1, <1>2, <1>3, <2>1, MetricsSet DEF TypeInv, ConfigType, BadFee, TransferCall
    <2>2. CASE ~BadFee(c)
        BY <2>2, RestType DEF TypeInv, LedgerTransfers, TransferFails
    <2> QED BY <2>1, <2>2
<1> QED BY <1>2, <1>5, <1>6, <1>7, RestType DEF TypeInv, fundVars

(* A plan written back with the answer. *)
LEMMA DoneType ==
    ASSUME TypeInv, NEW c \in CallId,
           (PaymentDone(c) /\ UNCHANGED fundVars) \/ WithdrawFundDone(c)
    PROVE  TypeInv'
<1> DEFINE k == call[c]
           done == [k.plan EXCEPT !.status = "Finalised"]
<1>1. k \in TransferCall /\ CopyOK(k)
    BY CallKinds DEF PaymentDone, WithdrawFundDone, Transferring, TypeInv, ConfigCall, PriceCall
<1>2. CallType'
    BY CallUpdate DEF PaymentDone, WithdrawFundDone, Return, TypeInv
<1>3. PlansType'
    <2>1. CASE PaymentDone(c) /\ UNCHANGED fundVars
        <3>1. done \in PaymentPlans /\ k.key \in PaymentId
            BY <1>1, <2>1 DEF CopyOK, PaymentDone, PaymentPlans
        <3>2. payments' = Put(payments, k.key, done) /\ UNCHANGED fund_withdrawal_plans
            BY <2>1 DEF PaymentDone, fundVars
        <3> HIDE DEF done, k
        <3>3. /\ DOMAIN payments' \subseteq PaymentId
              /\ \A x \in DOMAIN payments' : payments'[x] \in PaymentPlans
            BY <3>1, <3>2, PutType DEF TypeInv, PlansType
        <3> QED BY <3>2, <3>3 DEF TypeInv, PlansType
    <2>2. CASE WithdrawFundDone(c)
        <3>1. done \in FundPlan /\ k.key \in RequestId
            BY <1>1, <2>2 DEF CopyOK, WithdrawFundDone, FundPlan
        <3>2. /\ fund_withdrawal_plans' = Put(fund_withdrawal_plans, k.key, done)
              /\ UNCHANGED payments
            BY <2>2 DEF WithdrawFundDone
        <3> HIDE DEF done, k
        <3>3. /\ DOMAIN fund_withdrawal_plans' \subseteq RequestId
              /\ \A x \in DOMAIN fund_withdrawal_plans' : fund_withdrawal_plans'[x] \in FundPlan
            BY <3>1, <3>2, PutType DEF TypeInv, PlansType
        <3> QED BY <3>2, <3>3 DEF TypeInv, PlansType
    <2> QED BY <2>1, <2>2
<1>4. UNCHANGED <<configuration, clock, ledger, funds, earned>>
    BY DEF PaymentDone, WithdrawFundDone, fundVars
<1> QED BY <1>2, <1>3, <1>4, RestType DEF TypeInv

LEMMA CancelType ==
    ASSUME TypeInv, NEW id \in RequestId, CancelFundWithdrawal(id)
    PROVE  TypeInv'
<1> DEFINE plan == fund_withdrawal_plans[id]
<1>1. plan \in FundPlan
    BY DEF CancelFundWithdrawal, TypeInv, PlansType
<1>2. BooksType'
    BY <1>1 DEF CancelFundWithdrawal, Refunded, TypeInv, BooksType, FundPlan, assetVars
<1>3. PlansType'
    BY DEF CancelFundWithdrawal, Restrict, TypeInv, PlansType, assetVars
<1> QED BY <1>2, <1>3, RestType DEF TypeInv, CancelFundWithdrawal, assetVars

LEMMA OtherType ==
    ASSUME TypeInv,
           \/ \E e \in Earnings : CreditFees(e)
           \/ \E b \in late : LateTransfer(b) /\ UNCHANGED fundVars
           \/ \E l \in Ledger : LedgerChangesFee(l)
           \/ Upgrade
           \/ UNCHANGED vars
    PROVE  TypeInv'
<1>1. ASSUME NEW e \in Earnings, CreditFees(e) PROVE TypeInv'
    <2>1. e.protocol \in Nat /\ e.insurance \in Nat /\ Internal \in AssetId
        BY FundsAssumption, AssetsAssumption
    <2>2. BooksType'
        BY <1>1, <2>1 DEF CreditFees, TypeInv, BooksType, FundType, assetVars
    <2> QED BY <1>1, <2>2, RestType DEF TypeInv, CreditFees, assetVars
<1>2. ASSUME NEW l \in Ledger, LedgerChangesFee(l) PROVE TypeInv'
    <2>1. LedgerType'
        BY <1>2 DEF LedgerChangesFee, TypeInv, LedgerType, Sent
    <2> QED BY <1>2, <2>1, RestType DEF TypeInv, LedgerChangesFee, fundVars
<1>3. CASE Upgrade
    <2>1. CallType'
        BY <1>3 DEF Upgrade, CallType, Transferring
    <2>2. ASSUME NEW c \in CallId, Transferring(c) PROVE Block(call[c]) \in AnyBlock
        BY <2>2, CallIsTransfer, BlockType DEF TypeInv
    <2>3. LedgerType'
        BY <1>3, <2>2 DEF Upgrade, TypeInv, LedgerType, Sent
    <2> QED BY <1>3, <2>1, <2>3, RestType DEF TypeInv, Upgrade, fundVars
<1>4. ASSUME NEW b \in late, LateTransfer(b), UNCHANGED fundVars PROVE TypeInv'
    <2>1. LedgerType'
        BY <1>4 DEF LateTransfer, TypeInv, LedgerType, Sent
    <2> QED BY <1>4, <2>1, RestType DEF TypeInv, LateTransfer, fundVars
<1>5. CASE UNCHANGED vars
    BY <1>5, RestType DEF TypeInv, vars, assetVars, fundVars
<1> QED BY <1>1, <1>2, <1>3, <1>4, <1>5

LEMMA TypeStep == TypeInv /\ [Next]_vars => TypeInv'
<1> SUFFICES ASSUME TypeInv, [Next]_vars PROVE TypeInv'
    OBVIOUS
<1>1. ASSUME NEW r \in Request, Administer(r) PROVE TypeInv'
    BY <1>1, AdministerType, CancelType, RequestKinds DEF Administer
<1>2. ASSUME NEW r \in Request, NEW c \in CallId, BeginCall(c, r) PROVE TypeInv'
    BY <1>2, BeginConfigType, BeginPaymentType, WithdrawFundType DEF BeginCall
<1>3. ASSUME NEW c \in CallId, Answered(c) PROVE TypeInv'
    BY <1>3, AnswerConfigType, TransferAnswerType, DoneType DEF Answered
<1> QED BY <1>1, <1>2, <1>3, OtherType DEF Next

(* Every record of the assets, the funds and the suspended methods has its
   type, under no assumption about the controllers. *)
THEOREM FundsTypeCorrect == Spec => []TypeOK
BY TypeInit, TypeStep, TypeGives, PTL DEF Spec

-----------------------------------------------------------------------------
(* What a step sends, and what a ledger executes of it. *)

Asked(b) == \E c \in CallId : Transferring(c) /\ b = Block(call[c])

SentGoes ==
    /\ \A b \in Sent' : b \in Sent \/ Asked(b)
    /\ \A b \in late' : b \in late \/ Asked(b)

Executed(b) ==
    /\ b \in late \/ Asked(b)
    /\ FeeAccepted(b)
    /\ blocks' = blocks \cup {b}
    /\ UNCHANGED <<collateral_assets, payments, fund_withdrawal_plans, ledger_fee, clock>>

LEMMA SentStep ==
    ASSUME [Next]_vars
    PROVE  SentGoes /\ (UNCHANGED blocks \/ \E b : Executed(b))
<1>1. CASE UNCHANGED <<blocks, late>>
    BY <1>1 DEF SentGoes, Sent
<1>2. ASSUME NEW r \in Request, Administer(r) PROVE UNCHANGED <<blocks, late>>
    BY <1>2 DEF Administer, UpdateCollateralAsset, UpdateAllowedDomains, UpdateAssetMetrics,
                UpdateAssetPrice, CancelFundWithdrawal, assetVars, ledger
<1>3. ASSUME NEW r \in Request, NEW c \in CallId, BeginCall(c, r)
      PROVE  UNCHANGED <<blocks, late>>
    BY <1>3 DEF BeginCall, BeginRegister, BeginRefresh, BeginOraclePrice, BeginPayment,
                WithdrawFund, ledger
<1>4. ASSUME NEW c \in CallId, Answered(c)
      PROVE  SentGoes /\ (UNCHANGED blocks \/ \E b : Executed(b))
    <2>1. CASE LedgerTransfers(c)
        <3>1. CASE UNCHANGED blocks
            BY <2>1, <3>1 DEF LedgerTransfers, SentGoes, Sent
        <3>2. CASE ~ UNCHANGED blocks
            <4> PICK b : b = Block(call[c])
                OBVIOUS
            <4>1. /\ Transferring(c) /\ FeeAccepted(call[c])
                  /\ blocks' = blocks \cup {b} /\ late' = late
                  /\ UNCHANGED <<collateral_assets, payments, ledger_fee, clock>>
                BY <2>1, <3>2 DEF LedgerTransfers, configuration
            <4>2. Asked(b)
                BY <4>1 DEF Asked
            <4>3. FeeAccepted(b)
                BY <4>1 DEF FeeAccepted, Block
            <4>4. UNCHANGED fund_withdrawal_plans
                BY <1>4, <2>1
                   DEF Answered, fundVars, WithdrawFundDone, LedgerTransfers, Transferring
            <4>5. Executed(b)
                BY <4>1, <4>2, <4>3, <4>4 DEF Executed
            <4> QED BY <4>1, <4>2, <4>5 DEF SentGoes, Sent
        <3> QED BY <3>1, <3>2
    <2>2. CASE TransferFails(c)
        BY <2>2 DEF TransferFails, SentGoes, Sent, Asked
    <2>3. CASE \/ MetadataRead(c) \/ FinishRegister(c) \/ FinishRefresh(c)
               \/ FinishOraclePrice(c) \/ AnswerRefused(c) \/ BadFee(c)
               \/ PaymentDone(c) \/ WithdrawFundDone(c)
        BY <1>1, <2>3
           DEF MetadataRead, FinishRegister, FinishRefresh, FinishOraclePrice, AnswerRefused,
               BadFee, PaymentDone, WithdrawFundDone, ledger
    <2> QED BY <1>4, <2>1, <2>2, <2>3 DEF Answered
<1>5. ASSUME NEW b \in late, LateTransfer(b), UNCHANGED fundVars
      PROVE  SentGoes /\ (UNCHANGED blocks \/ \E x : Executed(x))
    <2>1. SentGoes
        BY <1>5 DEF LateTransfer, SentGoes, Sent
    <2>2. UNCHANGED blocks \/ Executed(b)
        BY <1>5 DEF LateTransfer, Executed, configuration, fundVars
    <2> QED BY <2>1, <2>2
<1>6. CASE Upgrade
    BY <1>6 DEF Upgrade, SentGoes, Sent, Asked
<1>7. CASE \/ \E e \in Earnings : CreditFees(e)
           \/ \E l \in Ledger : LedgerChangesFee(l)
           \/ UNCHANGED vars
    BY <1>1, <1>7 DEF CreditFees, LedgerChangesFee, vars, assetVars, ledger
<1> QED BY <1>1, <1>2, <1>3, <1>4, <1>5, <1>6, <1>7 DEF Next

-----------------------------------------------------------------------------
(* Configuration methods, one of an asset at a time. *)

Configures(c) == call[c] # None /\ call[c].op \in {"register", "refresh"}

(* The configuration methods under way are those of before, and what they
   are about is as it was. *)
ConfiguringKept ==
    \A c \in CallId : Configures(c)' =>
        /\ Configures(c)
        /\ call'[c].op = call[c].op /\ call'[c].asset_id = call[c].asset_id
        /\ call'[c].terms = call[c].terms
        /\ LET a == call[c].asset_id IN
           /\ a \in DOMAIN collateral_assets' <=> a \in DOMAIN collateral_assets
           /\ a \in DOMAIN collateral_assets => collateral_assets'[a] = collateral_assets[a]

LEMMA KeptConfig ==
    ASSUME Unconfigured, OneCallPerAsset, ConfiguringKept
    PROVE  Unconfigured' /\ OneCallPerAsset'
<1>1. Unconfigured'
    <2> SUFFICES ASSUME NEW c \in CallId, call'[c] # None,
                        call'[c].op = "register" \/ call'[c].op = "refresh"
                 PROVE  /\ call'[c].op = "register" =>
                              call'[c].asset_id \notin DOMAIN collateral_assets'
                        /\ call'[c].op = "refresh" =>
                              /\ call'[c].asset_id \in DOMAIN collateral_assets'
                              /\ call'[c].terms = collateral_assets'[call'[c].asset_id]
        BY DEF Unconfigured
    <2>1. Configures(c)'
        BY DEF Configures
    <2> QED BY <2>1 DEF ConfiguringKept, Configures, Unconfigured
<1>2. OneCallPerAsset'
    <2> SUFFICES ASSUME NEW c \in CallId, NEW x \in CallId, Configures(c)', Configures(x)',
                        call'[c].asset_id = call'[x].asset_id
                 PROVE  c = x
        BY DEF OneCallPerAsset, Configures
    <2> QED BY DEF ConfiguringKept, Configures, OneCallPerAsset
<1> QED BY <1>1, <1>2

(* Steps that change no configuration and start no such method. *)
LEMMA QuietKept ==
    ASSUME TypeInv, UNCHANGED collateral_assets,
           \/ UNCHANGED call
           \/ \E c \in CallId, k \in AnyCall \cup {None} :
                 /\ k = None \/ k.op \notin {"register", "refresh"}
                 /\ call' = [call EXCEPT ![c] = k]
    PROVE  ConfiguringKept
BY DEF ConfiguringKept, Configures, TypeInv, CallType

LEMMA TransferQuiet ==
    ASSUME TypeInv, NEW c \in CallId,
           \/ LedgerTransfers(c) \/ TransferFails(c) \/ BadFee(c)
           \/ PaymentDone(c) \/ WithdrawFundDone(c)
    PROVE  ConfiguringKept
<1>1. call[c] \in TransferCall
    BY CallKinds
       DEF LedgerTransfers, TransferFails, BadFee, Transferring, TypeInv,
           ConfigCall, PriceCall, PaymentDone, WithdrawFundDone
<1>2. call' \in [CallId -> AnyCall \cup {None}] \/ call' = [call EXCEPT ![c] = None]
      \/ \E a \in {"block", "bad_fee"} : call' = [call EXCEPT ![c].answer = a]
      \/ call' = [call EXCEPT ![c].attempt = 2, ![c].answer = "none",
                              ![c].fee = ledger_fee[call[c].asset]]
    BY DEF LedgerTransfers, TransferFails, BadFee, PaymentDone,
           WithdrawFundDone, Return
<1>3. \A x \in CallId : x # c => call'[x] = call[x]
    BY DEF LedgerTransfers, TransferFails, BadFee, PaymentDone,
           WithdrawFundDone, Return, TypeInv, CallType
<1>4. call'[c] = None \/ call'[c].op = "transfer"
    BY <1>1
       DEF LedgerTransfers, TransferFails, BadFee, PaymentDone,
           WithdrawFundDone, Return, TypeInv, CallType, TransferCall
<1>5. UNCHANGED collateral_assets
    BY DEF LedgerTransfers, TransferFails, BadFee, PaymentDone,
           WithdrawFundDone, configuration
<1> QED BY <1>3, <1>4, <1>5 DEF ConfiguringKept, Configures

(* A method that starts configures an asset that is free. *)
LEMMA BeginConfigures ==
    ASSUME TypeInv, Unconfigured, OneCallPerAsset, "one_per_asset" \in Discipline,
           NEW c \in CallId, NEW r \in Request, BeginRegister(c, r) \/ BeginRefresh(c, r)
    PROVE  Unconfigured' /\ OneCallPerAsset'
<1>1. PICK k : /\ call' = [call EXCEPT ![c] = k] /\ k.asset_id = r.asset_id
               /\ \/ k.op = "register" /\ r.asset_id \notin DOMAIN collateral_assets
                  \/ /\ k.op = "refresh" /\ r.asset_id \in DOMAIN collateral_assets
                     /\ k.terms = collateral_assets[r.asset_id]
    <2>1. CASE BeginRegister(c, r)
        <3> DEFINE k == [op |-> "register", asset_id |-> r.asset_id, terms |-> r.terms,
                         fee |-> None]
        <3>1. call' = [call EXCEPT ![c] = k] /\ r.asset_id \notin DOMAIN collateral_assets
            BY <2>1 DEF BeginRegister, Suspend
        <3>2. k.asset_id = r.asset_id /\ k.op = "register"
            OBVIOUS
        <3> HIDE DEF k
        <3> QED BY <3>1, <3>2
    <2>2. CASE BeginRefresh(c, r)
        <3> DEFINE k == [op |-> "refresh", asset_id |-> r.asset_id,
                         terms |-> collateral_assets[r.asset_id], fee |-> None]
        <3>1. call' = [call EXCEPT ![c] = k] /\ r.asset_id \in DOMAIN collateral_assets
            BY <2>2 DEF BeginRefresh, Suspend
        <3>2. k.asset_id = r.asset_id /\ k.op = "refresh"
              /\ k.terms = collateral_assets[r.asset_id]
            OBVIOUS
        <3> HIDE DEF k
        <3> QED BY <3>1, <3>2
    <2> QED BY <2>1, <2>2
<1>2. UNCHANGED collateral_assets /\ AssetFree(r.asset_id)
    BY DEF BeginRegister, BeginRefresh, configuration
<1>3. call'[c] = k /\ \A x \in CallId : x # c => call'[x] = call[x]
    BY <1>1 DEF TypeInv, CallType
<1>4. Unconfigured'
    BY <1>1, <1>2, <1>3 DEF Unconfigured
<1>5. OneCallPerAsset'
    <2>1. \A x \in CallId : Configures(x) => call[x].asset_id # k.asset_id
        BY <1>1, <1>2 DEF AssetFree, Configures
    <2> SUFFICES ASSUME NEW x \in CallId, NEW y \in CallId, Configures(x)', Configures(y)',
                        call'[x].asset_id = call'[y].asset_id
                 PROVE  x = y
        BY DEF OneCallPerAsset, Configures
    <2> QED BY <1>3, <2>1 DEF OneCallPerAsset, Configures
<1> QED BY <1>4, <1>5

(* A configuration written while others are under way is of another asset. *)
LEMMA WriteKeeps ==
    ASSUME NEW a,
           \A x \in CallId : Configures(x)' =>
               Configures(x) /\ call'[x] = call[x] /\ call[x].asset_id # a,
           \/ \E t : collateral_assets' = Put(collateral_assets, a, t)
           \/ \E d : collateral_assets' = [collateral_assets EXCEPT ![a].domains = d]
    PROVE  ConfiguringKept
<1>1. \A x : x # a =>
          /\ x \in DOMAIN collateral_assets' <=> x \in DOMAIN collateral_assets
          /\ x \in DOMAIN collateral_assets => collateral_assets'[x] = collateral_assets[x]
    <2>1. ASSUME NEW t, collateral_assets' = Put(collateral_assets, a, t)
          PROVE  \A x : x # a =>
                    /\ x \in DOMAIN collateral_assets' <=> x \in DOMAIN collateral_assets
                    /\ x \in DOMAIN collateral_assets =>
                           collateral_assets'[x] = collateral_assets[x]
        BY ONLY <2>1 DEF Put
    <2>2. CASE \E d : collateral_assets' = [collateral_assets EXCEPT ![a].domains = d]
        BY <2>2
    <2> QED BY <2>1, <2>2
<1> QED BY <1>1 DEF ConfiguringKept

LEMMA ConfigStep ==
    ASSUME "one_per_asset" \in Discipline, ConfigInv, [Next]_vars
    PROVE  ConfigInv'
<1> USE DEF ConfigInv
<1>1. TypeInv'
    BY TypeStep
<1> SUFFICES Unconfigured' /\ OneCallPerAsset'
    BY <1>1
<1>2. CASE ConfiguringKept
    BY <1>2, KeptConfig
<1>3. ASSUME NEW r \in Request, Administer(r) PROVE ConfiguringKept
    <2>1. CASE UpdateCollateralAsset(r) \/ UpdateAllowedDomains(r)
        <3>1. \A x \in CallId : Configures(x) => call[x].asset_id # r.asset_id
            BY <2>1 DEF UpdateCollateralAsset, UpdateAllowedDomains, AssetFree, Configures
        <3>2. UNCHANGED call
            BY <2>1 DEF UpdateCollateralAsset, UpdateAllowedDomains
        <3>3. \A x \in CallId : Configures(x)' => Configures(x)
            BY <3>2 DEF Configures
        <3> QED BY <2>1, <3>1, <3>2, <3>3, WriteKeeps
                DEF UpdateCollateralAsset, UpdateAllowedDomains
    <2>2. CASE UpdateAssetMetrics(r) \/ UpdateAssetPrice(r) \/ CancelFundWithdrawal(r.id)
        BY <2>2, QuietKept
           DEF UpdateAssetMetrics, UpdateAssetPrice, CancelFundWithdrawal, assetVars, configuration
    <2> QED BY <1>3, <2>1, <2>2 DEF Administer
<1>4. ASSUME NEW r \in Request, NEW c \in CallId, BeginCall(c, r)
      PROVE  Unconfigured' /\ OneCallPerAsset'
    <2>1. CASE BeginRegister(c, r) \/ BeginRefresh(c, r)
        BY <2>1, BeginConfigures
    <2>2. CASE BeginOraclePrice(c, r) \/ BeginPayment(c, r) \/ WithdrawFund(c, r)
        <3>1. UNCHANGED collateral_assets
            BY <2>2 DEF BeginOraclePrice, BeginPayment, WithdrawFund, configuration
        <3>2. \/ UNCHANGED call
              \/ \E k : k.op \notin {"register", "refresh"} /\ call' = [call EXCEPT ![c] = k]
            BY <2>2 DEF BeginOraclePrice, BeginPayment, WithdrawFund, Suspend, Transfer
        <3>3. ConfiguringKept
            BY <3>1, <3>2 DEF ConfiguringKept, Configures, TypeInv, CallType
        <3> QED BY <1>2, <3>3
    <2> QED BY <1>4, <2>1, <2>2 DEF BeginCall
<1>5. ASSUME NEW c \in CallId, Answered(c) PROVE ConfiguringKept
    <2>1. CASE MetadataRead(c)
        <3>1. call[c] \in ConfigCall
            BY <2>1, CallKinds DEF MetadataRead, TypeInv, Transferring, PriceCall
        <3> QED BY <2>1, <3>1
                DEF MetadataRead, ConfiguringKept, Configures, TypeInv, CallType, ConfigCall,
                    configuration
    <2>2. CASE FinishRegister(c) \/ FinishRefresh(c)
        <3>1. \A x \in CallId : Configures(x) /\ x # c => call[x].asset_id # call[c].asset_id
            BY <2>2 DEF FinishRegister, FinishRefresh, Configures, OneCallPerAsset
        <3>2. \A x \in CallId : Configures(x)' =>
                  x # c /\ Configures(x) /\ call'[x] = call[x]
            BY <2>2 DEF FinishRegister, FinishRefresh, Return, Configures, TypeInv, CallType
        <3> QED BY <2>2, <3>1, <3>2, WriteKeeps DEF FinishRegister, FinishRefresh
    <2>3. CASE FinishOraclePrice(c) \/ AnswerRefused(c)
        BY <2>3, QuietKept DEF FinishOraclePrice, AnswerRefused, Return, configuration
    <2>4. CASE \/ LedgerTransfers(c) \/ TransferFails(c) \/ BadFee(c)
               \/ PaymentDone(c) \/ WithdrawFundDone(c)
        BY <2>4, TransferQuiet
    <2> QED BY <1>5, <2>1, <2>2, <2>3, <2>4 DEF Answered
<1>6. CASE \/ \E e \in Earnings : CreditFees(e)
           \/ \E b \in late : LateTransfer(b)
           \/ \E l \in Ledger : LedgerChangesFee(l)
           \/ UNCHANGED vars
    BY <1>2, <1>6, QuietKept
       DEF CreditFees, LateTransfer, LedgerChangesFee, vars, assetVars, configuration
<1>7. CASE Upgrade
    BY <1>2, <1>7 DEF Upgrade, ConfiguringKept, Configures
<1> QED BY <1>2, <1>3, <1>4, <1>5, <1>6, <1>7, KeptConfig DEF Next

LEMMA ConfigInit == Init => ConfigInv
BY TypeInit DEF Init, AssetsInit, ConfigInv, Unconfigured, OneCallPerAsset

(* What an answer may change of the configuration. *)
NothingUndone ==
    \A c \in CallId : call[c] # None /\ call'[c] = None =>
        /\ \A a \in DOMAIN collateral_assets : collateral_assets'[a] = collateral_assets[a]
        /\ \A a \in DOMAIN asset_metrics :
              call[c].op # "price" => asset_metrics'[a].price = asset_metrics[a].price

LEMMA FeeKeepsPrice ==
    ASSUME TypeInv, NEW a, NEW f, asset_metrics' = UpdatedFee(a, f)
    PROVE  \A x \in DOMAIN asset_metrics : asset_metrics'[x].price = asset_metrics[x].price
BY DEF UpdatedFee, TypeInv, ConfigType, Metrics

LEMMA UndoneStep ==
    ASSUME ConfigInv, [Next]_vars
    PROVE  NothingUndone
<1> USE DEF ConfigInv
<1>1. CASE UNCHANGED call
    BY <1>1 DEF NothingUndone
<1>2. CASE UNCHANGED configuration
    BY <1>2 DEF NothingUndone, configuration
<1>3. ASSUME NEW c \in CallId, Answered(c) PROVE NothingUndone
    <2>1. CASE FinishRegister(c)
        <3> DEFINE a == call[c].asset_id
        <3>1. a \notin DOMAIN collateral_assets
            BY <2>1 DEF FinishRegister, Unconfigured
        <3>2. \A x \in DOMAIN collateral_assets : collateral_assets'[x] = collateral_assets[x]
            BY <2>1, <3>1 DEF FinishRegister, Put
        <3>3. \A x \in DOMAIN asset_metrics : asset_metrics'[x].price = asset_metrics[x].price
            BY <2>1 DEF FinishRegister, RegisteredMetrics, Put
        <3> QED BY <3>2, <3>3 DEF NothingUndone
    <2>2. CASE FinishRefresh(c)
        <3> DEFINE a == call[c].asset_id
        <3>1. call[c].terms = collateral_assets[a]
            BY <2>2 DEF FinishRefresh, Unconfigured
        <3>2. \A x \in DOMAIN collateral_assets : collateral_assets'[x] = collateral_assets[x]
            BY <2>2, <3>1 DEF FinishRefresh, Put
        <3>3. \A x \in DOMAIN asset_metrics : asset_metrics'[x].price = asset_metrics[x].price
            BY <2>2, FeeKeepsPrice DEF FinishRefresh
        <3> QED BY <3>2, <3>3 DEF NothingUndone
    <2>3. CASE FinishOraclePrice(c)
        <3>1. UNCHANGED collateral_assets /\ call[c].op = "price"
            BY <2>3 DEF FinishOraclePrice
        <3>2. \A x \in CallId : call[x] # None /\ call'[x] = None => x = c
            BY <2>3 DEF FinishOraclePrice, Return, TypeInv, CallType
        <3> QED BY <3>1, <3>2 DEF NothingUndone
    <2>4. CASE BadFee(c)
        BY <2>4, FeeKeepsPrice DEF BadFee, NothingUndone
    <2>5. CASE \/ MetadataRead(c) \/ AnswerRefused(c) \/ LedgerTransfers(c) \/ TransferFails(c)
               \/ PaymentDone(c) \/ WithdrawFundDone(c)
        BY <1>2, <2>5
           DEF MetadataRead, AnswerRefused, LedgerTransfers, TransferFails,
               PaymentDone, WithdrawFundDone
    <2> QED BY <1>3, <2>1, <2>2, <2>3, <2>4, <2>5 DEF Answered
<1>4. ASSUME NEW r \in Request, Administer(r) PROVE NothingUndone
    BY <1>1, <1>4
       DEF Administer, UpdateCollateralAsset, UpdateAllowedDomains, UpdateAssetMetrics,
           UpdateAssetPrice, CancelFundWithdrawal, assetVars
<1>5. ASSUME NEW r \in Request, NEW c \in CallId, BeginCall(c, r) PROVE NothingUndone
    BY <1>2, <1>5
       DEF BeginCall, BeginRegister, BeginRefresh, BeginOraclePrice, BeginPayment, WithdrawFund
<1>6. CASE \/ \E e \in Earnings : CreditFees(e)
           \/ \E b \in late : LateTransfer(b)
           \/ \E l \in Ledger : LedgerChangesFee(l)
           \/ Upgrade
           \/ UNCHANGED vars
    BY <1>2, <1>6 DEF CreditFees, LateTransfer, LedgerChangesFee, Upgrade, vars, assetVars
<1> QED BY <1>3, <1>4, <1>5, <1>6 DEF Next

(* register_icrc_asset and refresh_icrc_asset_metadata, answered after any
   delay, write over nothing that was configured or priced meanwhile, when
   one method at a time configures an asset. *)
THEOREM AnswersUndoNothingHolds ==
    ASSUME "one_per_asset" \in Discipline
    PROVE  Spec => AnswersUndoNothing
<1>1. ConfigInv /\ [Next]_vars => ConfigInv' /\ NothingUndone
    BY ConfigStep, UndoneStep
<1> QED BY <1>1, ConfigInit, PTL DEF Spec, AnswersUndoNothing, NothingUndone

-----------------------------------------------------------------------------
(* The sums of the model are those of the lemmas. *)

LEMMA FundsIsSum ==
    ASSUME NEW books, NEW a
    PROVE  MapThenSumSet(LAMBDA f : books[f][a], FundType)
               = SumOver([f \in FundType |-> books[f][a]], FundType)
<1> DEFINE h == [f \in FundType |-> books[f][a]]
           Fold(g) == g = [s \in SUBSET FundType |->
                              IF s = {} THEN 0 ELSE books[Pick(s)][a] + g[s \ {Pick(s)}]]
<1>1. \A g : Fold(g) <=> IsFold(g, h, FundType)
    <2>1. \A s \in SUBSET FundType : s # {} => h[Pick(s)] = books[Pick(s)][a]
        BY PickIn
    <2> QED BY <2>1 DEF IsFold
<1>2. (CHOOSE g : Fold(g)) = (CHOOSE g : IsFold(g, h, FundType))
    <2> HIDE DEF Fold, h
    <2> QED BY <1>1
<1>3. MapThenSumSet(LAMBDA f : books[f][a], FundType) = (CHOOSE g : Fold(g))[FundType]
    BY DEF MapThenSumSet, MapThenFoldSet, Pick
<1> QED BY <1>2, <1>3, SumIsFold

(* The sum over the two funds. *)
LEMMA FundsFinite == IsFiniteSet({"Insurance"}) /\ IsFiniteSet(FundType)
<1>1. IsFiniteSet({"Insurance"})
    BY FS_Singleton
<1>2. FundType = {"Insurance"} \cup {"Treasury"}
    BY DEF FundType
<1> QED BY <1>1, <1>2, FS_AddElement

LEMMA TwoFunds ==
    ASSUME NEW f, f["Insurance"] \in Int, f["Treasury"] \in Int
    PROVE  SumOver(f, FundType) = f["Insurance"] + f["Treasury"]
<1>1. FundType \ {"Treasury"} = {"Insurance"} /\ {"Insurance"} \ {"Insurance"} = {}
    BY DEF FundType
<1>2. SumOver(f, FundType) = f["Treasury"] + SumOver(f, {"Insurance"})
    BY <1>1, FundsFinite, SumRemove DEF FundType
<1>3. SumOver(f, {"Insurance"}) = f["Insurance"] + SumOver(f, {})
    BY <1>1, FundsFinite, SumRemove
<1>4. SumOver(f, {}) = 0
    BY SumEmpty
<1> QED BY <1>2, <1>3, <1>4

LEMMA OpeningType ==
    ASSUME NEW a \in AssetId
    PROVE  /\ \A f \in FundType : OpeningOf(a)[f] \in Int
           /\ SumOver(OpeningOf(a), FundType) \in Int
<1>1. \A f \in FundType : OpeningOf(a)[f] \in Int
    BY FundsAssumption DEF OpeningOf, FundType
<1> QED BY <1>1, FundsFinite, SumType

-----------------------------------------------------------------------------
(* Steps that move a withdrawal between the funds and the plans. *)

LEMMA BooksMove ==
    ASSUME TypeInv, TypeInv', BooksWhole, IsFiniteSet(RequestId), UNCHANGED earned,
           NEW f \in FundType, NEW asset \in AssetId, NEW id \in RequestId, NEW delta \in Int,
           \A g \in FundType, a \in AssetId :
               funds'[g][a] = funds[g][a] - IF g = f /\ a = asset THEN delta ELSE 0,
           \A r \in RequestId, a \in AssetId :
               TakenOf(a)'[r] = TakenOf(a)[r] + IF r = id /\ a = asset THEN delta ELSE 0
    PROVE  BooksWhole'
<1> SUFFICES ASSUME NEW a \in AssetId
             PROVE  SumOver(FundsOf(a), FundType)' + SumOver(TakenOf(a), RequestId)'
                        = SumOver(OpeningOf(a), FundType) + IF a = Internal THEN earned ELSE 0
    BY DEF BooksWhole, OpeningOf
<1> DEFINE t == TakenOf(a)
           u == TakenOf(a)'
           x == SumOver(FundsOf(a), FundType)
           y == SumOver(FundsOf(a), FundType)'
<1>1. \A r \in RequestId : /\ t[r] \in Int /\ u[r] \in Int
                           /\ u[r] = t[r] + IF r = id /\ a = asset THEN delta ELSE 0
    <2>1. \A r \in RequestId : t[r] \in Int
        BY DEF TakenOf, TypeInv, PlansType, FundPlan
    <2>2. \A r \in RequestId : u[r] \in Int
        BY DEF TakenOf, TypeInv, PlansType, FundPlan
    <2> QED BY <2>1, <2>2
<1>2. y = x - IF a = asset THEN delta ELSE 0
    <2>1. \A g \in FundType : funds[g][a] \in Int /\ funds'[g][a] \in Int
        BY DEF TypeInv, BooksType
    <2>2. x = funds["Insurance"][a] + funds["Treasury"][a]
        BY <2>1, TwoFunds DEF FundsOf, FundType
    <2>3. y = funds'["Insurance"][a] + funds'["Treasury"][a]
        <3> DEFINE h == [g \in FundType |-> funds'[g][a]]
        <3>1. SumOver(h, FundType) = h["Insurance"] + h["Treasury"]
            BY <2>1, TwoFunds DEF FundType
        <3>2. y = SumOver(h, FundType)
            BY DEF FundsOf
        <3> QED BY <3>1, <3>2 DEF FundType
    <2> QED BY <2>1, <2>2, <2>3 DEF FundType
<1>3. x \in Int
    <2>1. \A g \in FundType : FundsOf(a)[g] \in Int
        BY DEF FundsOf, TypeInv, BooksType
    <2> QED BY <2>1, FundsFinite, SumType
<1>4. x + SumOver(t, RequestId)
          = SumOver(OpeningOf(a), FundType) + IF a = Internal THEN earned ELSE 0
    BY DEF BooksWhole
<1>5. SumOver(TakenOf(a), RequestId)' = SumOver(u, RequestId)
    OBVIOUS
<1> HIDE DEF t, u, x
<1>6. SumOver(t, RequestId) \in Int
    BY <1>1, SumType
<1>7. SumOver(u, RequestId) = SumOver(t, RequestId) + IF a = asset THEN delta ELSE 0
    <2>1. CASE a = asset
        <3>1. SumOver(u, RequestId) = SumOver(t, RequestId) - t[id] + u[id]
            BY <1>1, SumUpdate
        <3> QED BY <1>1, <1>6, <2>1, <3>1
    <2>2. CASE a # asset
        <3>1. \A r \in RequestId : t[r] = u[r]
            BY <1>1, <2>2
        <3>2. SumOver(t, RequestId) = SumOver(u, RequestId)
            BY <3>1, SumSame
        <3> QED BY <1>6, <2>2, <3>2
    <2> QED BY <2>1, <2>2
<1> HIDE DEF y
<1>8. y + SumOver(u, RequestId) = x + SumOver(t, RequestId)
    BY <1>2, <1>3, <1>6, <1>7
<1> QED BY <1>4, <1>5, <1>8 DEF y

-----------------------------------------------------------------------------
(* Steps that store a plan. *)

(* p is stored under key: with the stamp of the plan it replaces, or with a
   new one. *)
PlanStored(key, p) ==
    /\ key \in PaymentId \cup RequestId
    /\ Keys' = Keys \cup {key}
    /\ PlanOf(key)' = p
    /\ \A k \in Keys : k # key => PlanOf(k)' = PlanOf(k)
    /\ p.stamp \in Nat /\ clock' \in Nat
    /\ key \in Keys =>
          /\ p.stamp = PlanOf(key).stamp /\ clock' = clock
          /\ key \in RequestId =>
                /\ p.asset_id = PlanOf(key).asset_id /\ p.amount = PlanOf(key).amount
                /\ PlanOf(key).status # "Planned" => p.status # "Planned"
    /\ key \notin Keys => p.stamp = clock + 1 /\ clock' = clock + 1
    /\ UNCHANGED Sent

LEMMA KeysType ==
    ASSUME TypeInv, NEW k \in Keys
    PROVE  /\ k \in PaymentId \cup RequestId /\ PlanOf(k).stamp \in Nat
           /\ k \in RequestId => /\ k \notin PaymentId /\ k \in DOMAIN fund_withdrawal_plans
                                 /\ PlanOf(k) = fund_withdrawal_plans[k] /\ PlanOf(k) \in FundPlan
           /\ k \in PaymentId => /\ k \notin RequestId /\ k \in DOMAIN payments
                                 /\ PlanOf(k) = payments[k] /\ PlanOf(k) \in PaymentPlans
<1>1. k \in DOMAIN payments => k \in PaymentId /\ k \notin RequestId /\ payments[k] \in PaymentPlans
    BY AssetsAssumption DEF TypeInv, PlansType
<1>2. k \in DOMAIN fund_withdrawal_plans =>
          k \in RequestId /\ k \notin PaymentId /\ fund_withdrawal_plans[k] \in FundPlan
    BY AssetsAssumption DEF TypeInv, PlansType
<1> QED BY <1>1, <1>2 DEF Keys, PlanOf, FundPlan, PaymentPlans

LEMMA StoreKeeps ==
    ASSUME TypeInv, StampsDistinct, SentPlanned, NEW key, NEW p, PlanStored(key, p)
    PROVE  StampsDistinct' /\ SentPlanned'
<1> DEFINE Old(k) == PlanOf(k)
           New(k) == PlanOf(k)'
<1>1. /\ \A k \in Keys : Old(k).stamp \in Nat /\ Old(k).stamp <= clock
      /\ clock \in Nat
    BY KeysType DEF StampsDistinct, TypeInv, BooksType
<1>3. /\ \A k \in Keys \cup {key} : New(k).stamp <= clock'
      /\ \A k, l \in Keys \cup {key} : New(k).stamp = New(l).stamp => k = l
    <2> HIDE DEF Old, New
    <2>1. \A k, l \in Keys : Old(k).stamp = Old(l).stamp => k = l
        BY DEF StampsDistinct, Old
    <2>2. New(key) = p /\ \A k \in Keys : k # key => New(k) = Old(k)
        BY DEF PlanStored, Old, New
    <2>3. CASE key \in Keys
        <3>1. p.stamp = Old(key).stamp /\ clock' = clock
            BY <2>3 DEF PlanStored, Old
        <3>2. \A k \in Keys : New(k).stamp = Old(k).stamp
            BY <2>2, <3>1
        <3> QED BY <1>1, <2>1, <2>3, <3>1, <3>2
    <2>4. CASE key \notin Keys
        <3>1. p.stamp = clock + 1 /\ clock' = clock + 1
            BY <2>4 DEF PlanStored
        <3>2. New(key).stamp = clock + 1 /\ \A k \in Keys : New(k).stamp = Old(k).stamp
            BY <2>2, <2>4, <3>1
        <3> QED BY <1>1, <2>1, <2>4, <3>1, <3>2
    <2> QED BY <2>3, <2>4
<1>4. StampsDistinct'
    BY <1>3 DEF StampsDistinct, PlanStored
<1>5. ASSUME NEW b \in Sent
      PROVE  b.key \in Keys \cup {key} /\ PlannedBy(b, New(b.key))
    <2>1. b.key \in Keys /\ PlannedBy(b, Old(b.key))
        BY DEF SentPlanned
    <2>2. New(key) = p /\ \A k \in Keys : k # key => New(k) = Old(k)
        BY DEF PlanStored
    <2>3. CASE b.key = key
        <3>1. /\ p.stamp = Old(key).stamp
              /\ key \in RequestId =>
                    /\ p.asset_id = Old(key).asset_id /\ p.amount = Old(key).amount
                    /\ Old(key).status # "Planned" => p.status # "Planned"
            BY <2>1, <2>3 DEF PlanStored
        <3> HIDE DEF Old, New
        <3> QED BY <2>1, <2>2, <2>3, <3>1 DEF PlannedBy
    <2>4. CASE b.key # key
        <3> HIDE DEF Old, New
        <3> QED BY <2>1, <2>2, <2>4
    <2> QED BY <2>3, <2>4
<1>6. SentPlanned'
    BY <1>5 DEF SentPlanned, PlanStored, PlannedBy
<1> QED BY <1>4, <1>6

(* A transfer under way is that of its plan. *)
LEMMA CallPlan ==
    ASSUME TypeInv, CallsPlanned, NEW c \in CallId, Transferring(c)
    PROVE  /\ call[c] \in TransferCall /\ call[c].key \in Keys
           /\ call[c].plan.stamp = PlanOf(call[c].key).stamp
           /\ call[c].key \in RequestId => /\ call[c].asset_id = PlanOf(call[c].key).asset_id
                                          /\ call[c].amount = PlanOf(call[c].key).amount
                                          /\ PlanOf(call[c].key).status # "Planned"
<1> DEFINE q == call[c]
<1>1. /\ q \in TransferCall /\ q.key \in Keys
      /\ q.plan = [PlanOf(q.key) EXCEPT !.status = "Executing"]
      /\ q.key \in RequestId => /\ q.asset_id = q.plan.asset_id /\ q.amount = q.plan.amount
                               /\ PlanOf(q.key).status # "Planned"
    BY CallKinds DEF CallsPlanned, Matches, TypeInv, Transferring, ConfigCall, PriceCall
<1>2. /\ q.key \in RequestId => PlanOf(q.key) \in FundPlan
      /\ q.key \in PaymentId => PlanOf(q.key) \in PaymentPlans
      /\ q.key \in PaymentId \cup RequestId
    BY <1>1, KeysType
<1> HIDE DEF q
<1>3. /\ q.plan.stamp = PlanOf(q.key).stamp
      /\ q.key \in RequestId => /\ q.plan.asset_id = PlanOf(q.key).asset_id
                                /\ q.plan.amount = PlanOf(q.key).amount
    BY <1>1, <1>2 DEF FundPlan, PaymentPlans
<1> QED BY <1>1, <1>3 DEF q

LEMMA AskedPlanned ==
    ASSUME TypeInv, CallsPlanned, NEW b, Asked(b)
    PROVE  b.key \in Keys /\ PlannedBy(b, PlanOf(b.key))
<1>1. PICK c \in CallId : Transferring(c) /\ b = Block(call[c])
    BY DEF Asked
<1> PICK q : q = call[c]
    OBVIOUS
<1>2. /\ q.key \in Keys /\ q.plan.stamp = PlanOf(q.key).stamp
      /\ q.key \in RequestId => /\ q.asset_id = PlanOf(q.key).asset_id
                                /\ q.amount = PlanOf(q.key).amount
                                /\ PlanOf(q.key).status # "Planned"
    BY <1>1, CallPlan
<1>3. /\ b.key = q.key /\ b.stamp = q.plan.stamp
      /\ b.asset_id = q.asset_id /\ b.amount = q.amount
    BY <1>1 DEF Block
<1> QED BY <1>2, <1>3 DEF PlannedBy

(* Nothing is stored, and what is sent was asked for. *)
LEMMA PlansRest ==
    ASSUME TypeInv, StampsDistinct, SentPlanned, CallsPlanned, SentGoes,
           UNCHANGED <<payments, fund_withdrawal_plans, clock>>
    PROVE  StampsDistinct' /\ SentPlanned'
<1>1. Keys' = Keys /\ \A k : PlanOf(k)' = PlanOf(k)
    BY DEF Keys, PlanOf
<1>2. StampsDistinct'
    BY <1>1 DEF StampsDistinct
<1>3. \A b \in Sent' : b.key \in Keys /\ PlannedBy(b, PlanOf(b.key))
    BY AskedPlanned DEF SentGoes, SentPlanned
<1>4. SentPlanned'
    BY <1>1, <1>3 DEF SentPlanned, PlannedBy
<1> QED BY <1>2, <1>4

-----------------------------------------------------------------------------
(* Suspended transfers and the plans they are for. *)

SameTransfer(c) ==
    /\ Transferring(c) /\ call'[c].key = call[c].key /\ call'[c].plan = call[c].plan
    /\ call'[c].asset_id = call[c].asset_id /\ call'[c].amount = call[c].amount

(* q is the transfer c had. *)
LEMMA SameMatches ==
    ASSUME CallsPlanned, NEW c \in CallId, SameTransfer(c), NEW q, q = call'[c]
    PROVE  q.key \in Keys /\ Matches(q, PlanOf(q.key))
<1> DEFINE k == call[c]
<1>1. Transferring(c) /\ q.key = k.key /\ q.plan = k.plan /\ q.asset_id = k.asset_id
      /\ q.amount = k.amount
    BY DEF SameTransfer
<1>2. k.key \in Keys /\ Matches(k, PlanOf(k.key))
    BY <1>1 DEF CallsPlanned
<1> HIDE DEF k
<1> QED BY <1>1, <1>2 DEF Matches

LEMMA QuietCalls ==
    ASSUME CallsPlanned, UNCHANGED <<payments, fund_withdrawal_plans>>,
           \A c \in CallId : Transferring(c)' => SameTransfer(c)
    PROVE  CallsPlanned'
<1>1. Keys' = Keys /\ \A k : PlanOf(k)' = PlanOf(k)
    BY DEF Keys, PlanOf
<1>2. ASSUME NEW c \in CallId, NEW q, q = call'[c], Transferring(c)'
      PROVE  q.key \in Keys' /\ Matches(q, PlanOf(q.key)')
    BY <1>1, <1>2, SameMatches
<1> QED BY <1>2 DEF CallsPlanned, Matches

LEMMA PaymentPut ==
    ASSUME TypeInv, NEW key \in PaymentId, NEW p, payments' = Put(payments, key, p),
           UNCHANGED fund_withdrawal_plans
    PROVE  /\ Keys' = Keys \cup {key} /\ PlanOf(key)' = p
           /\ \A k \in Keys : k # key => PlanOf(k)' = PlanOf(k)
<1>1. DOMAIN payments' = DOMAIN payments \cup {key} /\ payments'[key] = p
    BY DEF Put
<1>2. \A k \in DOMAIN payments : k # key => payments'[k] = payments[k]
    BY DEF Put
<1> QED BY <1>1, <1>2 DEF Keys, PlanOf

LEMMA WithdrawalPut ==
    ASSUME TypeInv, NEW key \in RequestId, NEW p,
           fund_withdrawal_plans' = Put(fund_withdrawal_plans, key, p), UNCHANGED payments
    PROVE  /\ Keys' = Keys \cup {key} /\ PlanOf(key)' = p
           /\ \A k \in Keys : k # key => PlanOf(k)' = PlanOf(k)
<1>1. /\ DOMAIN fund_withdrawal_plans' = DOMAIN fund_withdrawal_plans \cup {key}
      /\ fund_withdrawal_plans'[key] = p
    BY DEF Put
<1>2. \A k \in DOMAIN fund_withdrawal_plans :
          k # key => fund_withdrawal_plans'[k] = fund_withdrawal_plans[k]
    BY DEF Put
<1>3. key \notin DOMAIN payments
    BY AssetsAssumption DEF TypeInv, PlansType
<1> QED BY <1>1, <1>2, <1>3 DEF Keys, PlanOf

(* A plan is stored, at the start or at the end of a transfer of it. *)
LEMMA StoreCalls ==
    ASSUME CallsPlanned, NEW key, NEW p, PlanStored(key, p),
           key \in Keys =>
               /\ [p EXCEPT !.status = "Executing"] = [PlanOf(key) EXCEPT !.status = "Executing"]
               /\ PlanOf(key).status # "Planned" => p.status # "Planned",
           \A c \in CallId : Transferring(c)' =>
               \/ SameTransfer(c)
               \/ call'[c].key = key /\ Matches(call'[c], p)
    PROVE  CallsPlanned'
<1>1. ASSUME NEW c \in CallId, NEW q, q = call'[c], Transferring(c)'
      PROVE  q.key \in Keys' /\ Matches(q, PlanOf(q.key)')
    <2>1. CASE SameTransfer(c)
        <3>1. q.key \in Keys /\ Matches(q, PlanOf(q.key))
            BY <1>1, <2>1, SameMatches
        <3>2. q.key \in Keys'
            BY <3>1 DEF PlanStored
        <3>3. CASE q.key = key
            <4>1. Matches(q, p)
                BY <3>1, <3>3 DEF Matches
            <4> QED BY <3>2, <3>3, <4>1 DEF PlanStored
        <3>4. CASE q.key # key
            BY <3>1, <3>2, <3>4 DEF PlanStored
        <3> QED BY <3>3, <3>4
    <2>2. CASE q.key = key /\ Matches(q, p)
        BY <2>2 DEF PlanStored
    <2> QED BY <1>1, <2>1, <2>2
<1> QED BY <1>1 DEF CallsPlanned, Matches

-----------------------------------------------------------------------------
(* The steps. *)

LEMMA BooksRest ==
    ASSUME BooksWhole, UNCHANGED <<funds, fund_withdrawal_plans, earned>>
    PROVE  BooksWhole'
<1>1. \A a \in AssetId : FundsOf(a)' = FundsOf(a) /\ TakenOf(a)' = TakenOf(a)
    BY DEF FundsOf, TakenOf
<1> QED BY <1>1 DEF BooksWhole

LEMMA QuietSound ==
    ASSUME SoundInv, TypeInv', SentGoes,
           UNCHANGED <<payments, fund_withdrawal_plans, clock, funds, earned>>,
           \A c \in CallId : Transferring(c)' => SameTransfer(c)
    PROVE  SoundInv'
BY PlansRest, QuietCalls, BooksRest DEF SoundInv

(* At most one call changes. *)
LEMMA OtherCalls ==
    ASSUME CallType, NEW c \in CallId, NEW k,
           UNCHANGED call \/ call' = [call EXCEPT ![c] = k],
           NEW x \in CallId, Transferring(x)', x # c \/ UNCHANGED call
    PROVE  SameTransfer(x)
BY DEF CallType, SameTransfer, Transferring

LEMMA CreditSound ==
    ASSUME SoundInv, TypeInv', SentGoes, IsFiniteSet(RequestId), NEW e \in Earnings,
           CreditFees(e)
    PROVE  SoundInv'
<1> USE DEF SoundInv
<1>1. UNCHANGED <<payments, fund_withdrawal_plans, clock, call>>
    BY DEF CreditFees, assetVars
<1>2. StampsDistinct' /\ SentPlanned'
    BY <1>1, PlansRest
<1>3. CallsPlanned'
    BY <1>1, QuietCalls DEF SameTransfer, Transferring
<1>4. ASSUME NEW a \in AssetId
      PROVE  SumOver(FundsOf(a), FundType)' + SumOver(TakenOf(a), RequestId)'
                 = SumOver(OpeningOf(a), FundType) + IF a = Internal THEN earned' ELSE 0
    <2> DEFINE f == FundsOf(a)
               g == FundsOf(a)'
               y == SumOver(TakenOf(a), RequestId)
               o == SumOver(OpeningOf(a), FundType)
    <2>1. /\ e.protocol \in Nat /\ e.insurance \in Nat /\ earned \in Nat
          /\ earned' = earned + e.protocol + e.insurance
        BY FundsAssumption DEF CreditFees, TypeInv, BooksType
    <2>2. /\ f["Insurance"] \in Int /\ f["Treasury"] \in Int
          /\ g["Insurance"] = f["Insurance"] + IF a = Internal THEN e.insurance ELSE 0
          /\ g["Treasury"] = f["Treasury"] + IF a = Internal THEN e.protocol ELSE 0
        <3>1. Internal \in AssetId
            BY AssetsAssumption
        <3>2. \A h \in FundType : funds[h][a] \in Nat /\ funds[h] \in [AssetId -> Nat]
            BY DEF TypeInv, BooksType
        <3>3. funds \in [FundType -> [AssetId -> Nat]]
            BY DEF TypeInv, BooksType
        <3> QED BY <2>1, <3>1, <3>2, <3>3 DEF CreditFees, FundsOf, FundType
    <2>3. SumOver(TakenOf(a), RequestId)' = y
        <3>1. TakenOf(a)' = TakenOf(a)
            BY <1>1 DEF TakenOf
        <3> QED BY <3>1
    <2>4. SumOver(f, FundType) + y = o + IF a = Internal THEN earned ELSE 0
        BY DEF BooksWhole
    <2>5. SumOver(FundsOf(a), FundType)' = SumOver(g, FundType)
        OBVIOUS
    <2> HIDE DEF f, g, y, o
    <2>6. SumOver(f, FundType) = f["Insurance"] + f["Treasury"]
        BY <2>2, TwoFunds
    <2>7. SumOver(g, FundType) = g["Insurance"] + g["Treasury"]
        BY <2>1, <2>2, TwoFunds
    <2>8. y \in Int
        <3>1. \A r \in RequestId : TakenOf(a)[r] \in Int
            BY DEF TakenOf, TypeInv, PlansType, FundPlan
        <3> QED BY <3>1, SumType DEF y
    <2>9. o \in Int
        BY OpeningType DEF o
    <2>10. SumOver(g, FundType) + y = o + IF a = Internal THEN earned' ELSE 0
        BY <2>1, <2>2, <2>4, <2>6, <2>7, <2>8, <2>9
    <2> QED BY <2>3, <2>5, <2>10 DEF o
<1>5. BooksWhole'
    BY <1>4 DEF BooksWhole, OpeningOf
<1> QED BY <1>2, <1>3, <1>5

LEMMA BeginPaymentSound ==
    ASSUME SoundInv, TypeInv', NEW c \in CallId, NEW r \in Request, r.op = "pay",
           BeginPayment(c, r), UNCHANGED fundVars
    PROVE  SoundInv'
<1> USE DEF SoundInv
<1> DEFINE p == PaymentPlan(r)
           key == r.id
<1>1. key \in PaymentId
    BY RequestKinds
<1>2. payments' = Put(payments, key, p) /\ UNCHANGED <<fund_withdrawal_plans, funds, earned, Sent>>
    BY DEF BeginPayment, fundVars, ledger, Sent
<1>3. key \notin RequestId /\ (key \in Keys <=> key \in DOMAIN payments)
    BY <1>1, AssetsAssumption DEF Keys, TypeInv, PlansType
<1>4. key \in Keys => p = PlanOf(key)
    BY <1>3 DEF PaymentPlan, PlanOf
<1>5. p \in PaymentPlans /\ p.status = "Executing" /\ p = [p EXCEPT !.status = "Executing"]
    <2>1. CASE key \in DOMAIN payments
        BY <2>1 DEF PaymentPlan, TypeInv, PlansType, PaymentPlans, BeginPayment
    <2>2. CASE key \notin DOMAIN payments
        <3>1. p = [asset_id |-> r.asset_id, stamp |-> clock + 1, status |-> "Executing"]
            BY <2>2 DEF PaymentPlan
        <3> QED BY <3>1, RequestKinds DEF PaymentPlans, TypeInv, BooksType
    <2> QED BY <2>1, <2>2
<1>6. clock \in Nat /\ clock' \in Nat /\ p.stamp \in Nat
    BY <1>5 DEF TypeInv, BooksType, PaymentPlans
<1>7. clock' = IF p.stamp > clock THEN p.stamp ELSE clock
    BY DEF BeginPayment
<1>8. key \in Keys => p.stamp = PlanOf(key).stamp /\ clock' = clock
    BY <1>4, <1>6, <1>7 DEF StampsDistinct
<1>9. key \notin Keys => p.stamp = clock + 1 /\ clock' = clock + 1
    BY <1>3, <1>6, <1>7 DEF PaymentPlan
<1>10. \A x \in CallId : Transferring(x)' =>
           \/ SameTransfer(x)
           \/ call'[x].key = key /\ Matches(call'[x], p)
    <2> DEFINE k == Transfer(key, r.asset_id, collateral_assets[r.asset_id].asset, 1, p)
    <2>1. call' = [call EXCEPT ![c] = k]
        BY DEF BeginPayment, Suspend
    <2>2. call'[c] = k
        BY <2>1 DEF TypeInv, CallType
    <2>3. k.key = key /\ k.plan = p
        BY DEF Transfer
    <2> HIDE DEF k, p
    <2>4. Matches(k, p)
        BY <1>3, <1>5, <2>3 DEF Matches
    <2> QED BY <2>1, <2>2, <2>3, <2>4, OtherCalls DEF TypeInv
<1> HIDE DEF p
<1>11. /\ Keys' = Keys \cup {key} /\ PlanOf(key)' = p
       /\ \A k \in Keys : k # key => PlanOf(k)' = PlanOf(k)
    BY <1>1, <1>2, PaymentPut
<1>12. PlanStored(key, p)
    BY <1>1, <1>2, <1>3, <1>6, <1>8, <1>9, <1>11 DEF PlanStored
<1>13. StampsDistinct' /\ SentPlanned'
    BY <1>12, StoreKeeps
<1>14. CallsPlanned'
    BY <1>4, <1>5, <1>10, <1>12, StoreCalls
<1> QED BY <1>2, <1>13, <1>14, BooksRest

(* The plan a method kept is that stored, when its answer comes. *)
LEMMA DonePlan ==
    ASSUME SoundInv, NEW c \in CallId, Transferring(c),
           NEW p, p = [call[c].plan EXCEPT !.status = "Finalised"]
    PROVE  /\ call[c].key \in Keys
           /\ call[c].key \in RequestId => PlanOf(call[c].key).status # "Planned"
           /\ p = [PlanOf(call[c].key) EXCEPT !.status = "Finalised"]
           /\ p.status = "Finalised"
           /\ [p EXCEPT !.status = "Executing"]
                 = [PlanOf(call[c].key) EXCEPT !.status = "Executing"]
<1> USE DEF SoundInv
<1> DEFINE k == call[c]
           old == PlanOf(k.key)
<1>1. k.key \in Keys /\ Matches(k, old)
    BY DEF CallsPlanned
<1>2. old \in FundPlan \/ old \in PaymentPlans
    BY <1>1, KeysType
<1> HIDE DEF k, old
<1>3. p = [old EXCEPT !.status = "Finalised"]
      /\ [p EXCEPT !.status = "Executing"] = [old EXCEPT !.status = "Executing"]
      /\ p.status = "Finalised"
    BY <1>1, <1>2 DEF Matches, FundPlan, PaymentPlans, k
<1> QED BY <1>1, <1>3 DEF Matches, k, old

(* The stored plan, Finalised, is stored again. *)
LEMMA DoneStored ==
    ASSUME SoundInv, NEW c \in CallId, Transferring(c), call' = [call EXCEPT ![c] = None],
           NEW key, key = call[c].key, NEW p, p = [call[c].plan EXCEPT !.status = "Finalised"],
           Keys' = Keys \cup {key}, PlanOf(key)' = p,
           \A k \in Keys : k # key => PlanOf(k)' = PlanOf(k),
           UNCHANGED <<clock, Sent>>
    PROVE  StampsDistinct' /\ SentPlanned' /\ CallsPlanned'
<1> USE DEF SoundInv
<1>1. /\ key \in Keys /\ p = [PlanOf(key) EXCEPT !.status = "Finalised"]
      /\ p.status = "Finalised"
      /\ [p EXCEPT !.status = "Executing"] = [PlanOf(key) EXCEPT !.status = "Executing"]
    BY DonePlan
<1>2. /\ key \in PaymentId \cup RequestId /\ PlanOf(key).stamp \in Nat
      /\ PlanOf(key) \in FundPlan \/ PlanOf(key) \in PaymentPlans
      /\ key \in RequestId => PlanOf(key) \in FundPlan
    BY <1>1, KeysType
<1>3. p.stamp = PlanOf(key).stamp
    BY <1>1, <1>2 DEF FundPlan, PaymentPlans
<1>4. key \in RequestId => p.asset_id = PlanOf(key).asset_id /\ p.amount = PlanOf(key).amount
    BY <1>1, <1>2 DEF FundPlan
<1>5. PlanStored(key, p)
    BY <1>1, <1>2, <1>3, <1>4 DEF PlanStored, TypeInv, BooksType
<1>6. StampsDistinct' /\ SentPlanned'
    BY <1>5, StoreKeeps
<1>7. \A x \in CallId : Transferring(x)' => SameTransfer(x)
    BY OtherCalls DEF TypeInv, CallType, Transferring
<1>8. p.status # "Planned"
    BY <1>1
<1>9. CallsPlanned'
    BY <1>1, <1>5, <1>7, <1>8, StoreCalls
<1> QED BY <1>6, <1>9

LEMMA PaymentDoneSound ==
    ASSUME SoundInv, TypeInv', NEW c \in CallId, PaymentDone(c), UNCHANGED fundVars
    PROVE  SoundInv'
<1> PICK key : key = call[c].key
    OBVIOUS
<1> PICK p : p = [call[c].plan EXCEPT !.status = "Finalised"]
    OBVIOUS
<1>1. /\ Transferring(c) /\ key \in PaymentId /\ payments' = Put(payments, key, p)
      /\ call' = [call EXCEPT ![c] = None]
      /\ UNCHANGED <<clock, Sent, fund_withdrawal_plans, funds, earned>>
    BY DEF PaymentDone, Return, ledger, fundVars, Sent
<1>2. /\ Keys' = Keys \cup {key} /\ PlanOf(key)' = p
      /\ \A k \in Keys : k # key => PlanOf(k)' = PlanOf(k)
    BY <1>1, PaymentPut DEF SoundInv
<1>3. StampsDistinct' /\ SentPlanned' /\ CallsPlanned'
    BY <1>1, <1>2, DoneStored
<1> QED BY <1>1, <1>3, BooksRest DEF SoundInv

Deducted(id) ==
    id \in DOMAIN fund_withdrawal_plans /\ fund_withdrawal_plans[id].status # "Planned"

(* The funds, when a plan is stored: deducted, if that is what is new in it. *)
LEMMA BooksPut ==
    ASSUME SoundInv, TypeInv', IsFiniteSet(RequestId), UNCHANGED earned,
           NEW id \in RequestId, NEW p \in FundPlan,
           fund_withdrawal_plans' = Put(fund_withdrawal_plans, id, p),
           id \in DOMAIN fund_withdrawal_plans =>
               p.asset_id = fund_withdrawal_plans[id].asset_id
               /\ p.amount = fund_withdrawal_plans[id].amount,
           Deducted(id) => p.status # "Planned",
           NEW f \in FundType,
           funds' = IF ~Deducted(id) /\ p.status # "Planned"
                    THEN [funds EXCEPT ![f][p.asset_id] = @ - p.amount] ELSE funds
    PROVE  BooksWhole'
<1> USE DEF SoundInv
<1> DEFINE delta == IF ~Deducted(id) /\ p.status # "Planned" THEN p.amount ELSE 0
<1>1. p.asset_id \in AssetId /\ p.amount \in Nat /\ delta \in Int
    BY DEF FundPlan
<1>2. \A g \in FundType, a \in AssetId :
          funds'[g][a] = funds[g][a] - IF g = f /\ a = p.asset_id THEN delta ELSE 0
    BY <1>1 DEF TypeInv, BooksType
<1>3. ASSUME NEW r \in RequestId, NEW a \in AssetId
      PROVE  TakenOf(a)'[r] = TakenOf(a)[r] + IF r = id /\ a = p.asset_id THEN delta ELSE 0
    <2>1. TakenOf(a)[r] \in Int
        BY DEF TakenOf, TypeInv, PlansType, FundPlan
    <2>2. CASE r # id
        <3>1. TakenOf(a)'[r] = TakenOf(a)[r]
            BY <2>2 DEF TakenOf, Put
        <3> QED BY <2>1, <2>2, <3>1
    <2>3. CASE r = id
        <3>1. TakenOf(a)'[id] = IF p.asset_id = a /\ p.status # "Planned" THEN p.amount ELSE 0
            BY DEF TakenOf, Put
        <3>2. TakenOf(a)[id] = IF Deducted(id) /\ p.asset_id = a THEN p.amount ELSE 0
            BY DEF TakenOf, Deducted
        <3> QED BY <1>1, <2>3, <3>1, <3>2
    <2> QED BY <2>2, <2>3
<1> HIDE DEF delta
<1> QED BY <1>1, <1>2, <1>3, BooksMove

LEMMA WithdrawFundDoneSound ==
    ASSUME SoundInv, TypeInv', IsFiniteSet(RequestId), NEW c \in CallId, WithdrawFundDone(c)
    PROVE  SoundInv'
<1> USE DEF SoundInv
<1> PICK key : key = call[c].key
    OBVIOUS
<1> PICK p : p = [call[c].plan EXCEPT !.status = "Finalised"]
    OBVIOUS
<1>1. /\ Transferring(c) /\ key \in RequestId
      /\ fund_withdrawal_plans' = Put(fund_withdrawal_plans, key, p)
      /\ call' = [call EXCEPT ![c] = None]
      /\ UNCHANGED <<clock, Sent, payments, funds, earned>>
    BY DEF WithdrawFundDone, Return, ledger, Sent
<1>2. /\ Keys' = Keys \cup {key} /\ PlanOf(key)' = p
      /\ \A k \in Keys : k # key => PlanOf(k)' = PlanOf(k)
    BY <1>1, WithdrawalPut
<1>3. StampsDistinct' /\ SentPlanned' /\ CallsPlanned'
    BY <1>1, <1>2, DoneStored
<1>4. /\ key \in Keys /\ p = [PlanOf(key) EXCEPT !.status = "Finalised"]
      /\ p.status = "Finalised" /\ PlanOf(key).status # "Planned"
    BY <1>1, DonePlan
<1>5. /\ key \in DOMAIN fund_withdrawal_plans /\ PlanOf(key) = fund_withdrawal_plans[key]
      /\ PlanOf(key) \in FundPlan
    BY <1>1, <1>4, KeysType
<1>6. PlanOf(key).fund \in FundType
    BY <1>5 DEF FundPlan
<1>7. p \in FundPlan /\ p.asset_id = PlanOf(key).asset_id /\ p.amount = PlanOf(key).amount
    BY <1>4, <1>5 DEF FundPlan
<1>8. p.status # "Planned" /\ Deducted(key)
    BY <1>4, <1>5 DEF Deducted
<1>9. BooksWhole'
    BY <1>1, <1>4, <1>5, <1>6, <1>7, <1>8, BooksPut
<1> QED BY <1>3, <1>9

(* The plan a call of withdraw_fund works on, and stores. *)
LEMMA WithdrawPlan ==
    ASSUME SoundInv, NEW r \in Request, r.op = "withdraw", SameTerms(r),
           "same_terms" \in Discipline, NEW plan, plan = PlanFor(r), plan.status # "Finalised"
    PROVE  /\ r.id \in RequestId /\ plan \in FundPlan
           /\ plan.asset_id = r.asset_id /\ plan.amount = r.amount
           /\ r.id \in Keys <=> r.id \in DOMAIN fund_withdrawal_plans
           /\ r.id \in Keys => plan = PlanOf(r.id) /\ plan = fund_withdrawal_plans[r.id]
           /\ r.id \notin Keys => plan.stamp = clock + 1 /\ plan.status = "Planned"
<1> USE DEF SoundInv
<1>1. /\ r.id \in RequestId /\ r.fund \in FundType /\ r.asset_id \in AssetId
      /\ r.amount \in Nat
    BY RequestKinds
<1>2. r.id \notin DOMAIN payments
    BY <1>1, AssetsAssumption DEF TypeInv, PlansType
<1>3. r.id \in Keys <=> r.id \in DOMAIN fund_withdrawal_plans
    BY <1>2 DEF Keys
<1>4. CASE r.id \in DOMAIN fund_withdrawal_plans
    <2>1. plan = fund_withdrawal_plans[r.id] /\ plan \in FundPlan
        BY <1>4 DEF PlanFor, TypeInv, PlansType
    <2>2. plan = PlanOf(r.id)
        BY <1>2, <2>1 DEF PlanOf
    <2>3. plan.asset_id = r.asset_id /\ plan.amount = r.amount
        BY DEF SameTerms
    <2> QED BY <1>1, <1>3, <1>4, <2>1, <2>2, <2>3
<1>5. CASE r.id \notin DOMAIN fund_withdrawal_plans
    <2>1. plan = [fund |-> r.fund, asset_id |-> r.asset_id, amount |-> r.amount,
                  stamp |-> clock + 1, status |-> "Planned"]
        BY <1>5 DEF PlanFor
    <2>2. clock + 1 \in Nat
        BY DEF TypeInv, BooksType
    <2>3. plan \in FundPlan
        BY <1>1, <2>1, <2>2 DEF FundPlan
    <2> QED BY <1>1, <1>3, <1>5, <2>1, <2>3
<1> QED BY <1>4, <1>5

LEMMA WithdrawFundSound ==
    ASSUME SoundInv, TypeInv', IsFiniteSet(RequestId), "same_terms" \in Discipline,
           NEW c \in CallId, NEW r \in Request, r.op = "withdraw", WithdrawFund(c, r)
    PROVE  SoundInv'
<1> USE DEF SoundInv
<1> PICK key : key = r.id
    OBVIOUS
<1> PICK plan : plan = PlanFor(r)
    OBVIOUS
<1> PICK executing : executing = [plan EXCEPT !.status = "Executing"]
    OBVIOUS
<1> DEFINE deduct == plan.status = "Planned"
           short == deduct /\ InsufficientFunds(r)
<1> PICK p : p = IF short THEN plan ELSE executing
    OBVIOUS
<1>1. /\ SameTerms(r) /\ plan.status # "Finalised"
      /\ clock' = IF key \in DOMAIN fund_withdrawal_plans THEN clock ELSE clock + 1
      /\ fund_withdrawal_plans' = Put(fund_withdrawal_plans, key, p)
      /\ funds' = IF deduct /\ ~short
                  THEN [funds EXCEPT ![r.fund][r.asset_id] = @ - r.amount] ELSE funds
      /\ UNCHANGED <<Sent, payments, earned>>
    BY DEF WithdrawFund, MustDeduct, ledger, Sent
<1>2. \/ UNCHANGED call
      \/ /\ ~short
         /\ call' = [call EXCEPT ![c] =
                Transfer(key, r.asset_id, collateral_assets[r.asset_id].asset, r.amount, executing)]
    BY DEF WithdrawFund, MustDeduct, Suspend
<1>3. /\ key \in RequestId /\ plan \in FundPlan
      /\ plan.asset_id = r.asset_id /\ plan.amount = r.amount
      /\ key \in Keys <=> key \in DOMAIN fund_withdrawal_plans
      /\ key \in Keys => plan = PlanOf(key) /\ plan = fund_withdrawal_plans[key]
      /\ key \notin Keys => plan.stamp = clock + 1 /\ plan.status = "Planned"
    BY <1>1, WithdrawPlan
<1>4. /\ executing \in FundPlan /\ executing.status = "Executing"
      /\ executing.asset_id = plan.asset_id /\ executing.amount = plan.amount
      /\ executing.stamp = plan.stamp
      /\ executing = [executing EXCEPT !.status = "Executing"]
    BY <1>3 DEF FundPlan
<1>5. /\ p \in FundPlan /\ p.asset_id = plan.asset_id /\ p.amount = plan.amount
      /\ p.stamp = plan.stamp /\ p.stamp \in Nat
      /\ plan.status # "Planned" => p.status # "Planned"
      /\ [p EXCEPT !.status = "Executing"] = executing
    BY <1>3, <1>4 DEF FundPlan
<1>6. deduct /\ ~short <=> deduct /\ p.status # "Planned"
    BY <1>4
<1>7. key \in Keys => PlanOf(key).stamp = p.stamp /\ clock' = clock
    BY <1>1, <1>3, <1>5
<1>8. key \notin Keys => p.stamp = clock + 1 /\ clock' = clock + 1
    BY <1>1, <1>3, <1>5
<1>9. clock' \in Nat
    BY DEF TypeInv, BooksType
<1>10. \A x \in CallId : Transferring(x)' =>
           \/ SameTransfer(x)
           \/ call'[x].key = key /\ Matches(call'[x], p)
    <2>1. CASE UNCHANGED call
        BY <2>1, OtherCalls DEF TypeInv
    <2>2. CASE ~ UNCHANGED call
        <3> DEFINE k == Transfer(key, r.asset_id, collateral_assets[r.asset_id].asset, r.amount,
                                 executing)
        <3>1. call' = [call EXCEPT ![c] = k] /\ p = executing
            BY <1>2, <2>2
        <3>2. call'[c] = k
            BY <3>1 DEF TypeInv, CallType
        <3>3. /\ k.key = key /\ k.plan = executing /\ k.asset_id = r.asset_id
              /\ k.amount = r.amount
            BY DEF Transfer
        <3> HIDE DEF k
        <3>4. k.plan = [p EXCEPT !.status = "Executing"]
            BY <1>5, <3>3
        <3>5. p.status # "Planned"
            BY <1>4, <3>1
        <3>6. k.asset_id = k.plan.asset_id /\ k.amount = k.plan.amount
            BY <1>3, <1>4, <3>3
        <3>7. Matches(k, p)
            BY <3>4, <3>5, <3>6 DEF Matches
        <3> QED BY <3>1, <3>2, <3>3, <3>7, OtherCalls DEF TypeInv
    <2> QED BY <2>1, <2>2
<1>11. /\ Keys' = Keys \cup {key} /\ PlanOf(key)' = p
       /\ \A k \in Keys : k # key => PlanOf(k)' = PlanOf(k)
    BY <1>1, <1>3, WithdrawalPut
<1> HIDE DEF short, deduct
<1>12. PlanStored(key, p)
    BY <1>1, <1>3, <1>5, <1>7, <1>8, <1>9, <1>11 DEF PlanStored
<1>13. StampsDistinct' /\ SentPlanned'
    BY <1>12, StoreKeeps
<1>14. CallsPlanned'
    <2>1. key \in Keys =>
              /\ [p EXCEPT !.status = "Executing"] = [PlanOf(key) EXCEPT !.status = "Executing"]
              /\ PlanOf(key).status # "Planned" => p.status # "Planned"
        BY <1>3, <1>5
    <2> QED BY ONLY CallsPlanned, <1>10, <1>12, <2>1, StoreCalls
<1>15. BooksWhole'
    <2>1. ~Deducted(key) <=> deduct
        BY <1>3 DEF deduct, Deducted
    <2>2. r.fund \in FundType
        BY RequestKinds
    <2>3. funds' = IF ~Deducted(key) /\ p.status # "Planned"
                   THEN [funds EXCEPT ![r.fund][p.asset_id] = @ - p.amount] ELSE funds
        BY <1>1, <1>3, <1>5, <1>6, <2>1
    <2>4. Deducted(key) => p.status # "Planned"
        BY <1>3, <1>5 DEF Deducted
    <2>5. key \in DOMAIN fund_withdrawal_plans =>
              p.asset_id = fund_withdrawal_plans[key].asset_id
              /\ p.amount = fund_withdrawal_plans[key].amount
        BY <1>3, <1>5
    <2>6. key \in RequestId /\ p \in FundPlan /\ UNCHANGED earned
          /\ fund_withdrawal_plans' = Put(fund_withdrawal_plans, key, p)
        BY <1>1, <1>3, <1>5
    <2> QED BY ONLY SoundInv, TypeInv', IsFiniteSet(RequestId), <2>2, <2>3, <2>4, <2>5, <2>6,
                    BooksPut
<1> QED BY <1>13, <1>14, <1>15

LEMMA CancelSound ==
    ASSUME SoundInv, TypeInv', IsFiniteSet(RequestId), "settled_cancel" \in Discipline,
           NEW id \in RequestId, CancelFundWithdrawal(id)
    PROVE  SoundInv'
<1> USE DEF SoundInv
<1> PICK plan : plan = fund_withdrawal_plans[id]
    OBVIOUS
<1>1. /\ id \in DOMAIN fund_withdrawal_plans /\ plan.status = "Executing"
      /\ \A c \in CallId : Transferring(c) => call[c].key # id
      /\ \A b \in Sent : b.key = id => b.stamp # plan.stamp
      /\ funds' = [funds EXCEPT ![plan.fund][plan.asset_id] = @ + plan.amount]
      /\ DOMAIN fund_withdrawal_plans' = DOMAIN fund_withdrawal_plans \ {id}
      /\ \A r \in DOMAIN fund_withdrawal_plans \ {id} :
             fund_withdrawal_plans'[r] = fund_withdrawal_plans[r]
      /\ UNCHANGED <<payments, clock, call, Sent, earned>>
    BY DEF CancelFundWithdrawal, MayBePaid, Refunded, Restrict, assetVars, ledger, Sent
<1>2. /\ plan \in FundPlan /\ plan.fund \in FundType /\ plan.asset_id \in AssetId
      /\ plan.amount \in Nat
    BY <1>1 DEF TypeInv, PlansType, FundPlan
<1>3. id \notin DOMAIN payments
    BY AssetsAssumption DEF TypeInv, PlansType
<1>4. Keys' = Keys \ {id} /\ \A k \in Keys \ {id} : PlanOf(k)' = PlanOf(k)
    BY <1>1, <1>3 DEF Keys, PlanOf
<1>5. StampsDistinct'
    BY <1>1, <1>4 DEF StampsDistinct
<1>6. SentPlanned'
    <2>1. ASSUME NEW b \in Sent PROVE b.key \in Keys \ {id} /\ PlannedBy(b, PlanOf(b.key))
        <3>1. b.key \in Keys /\ PlannedBy(b, PlanOf(b.key))
            BY DEF SentPlanned
        <3>2. PlanOf(id) = plan
            BY <1>3 DEF PlanOf
        <3> QED BY <1>1, <3>1, <3>2 DEF PlannedBy
    <2> QED BY <1>1, <1>4, <2>1 DEF SentPlanned, PlannedBy
<1>7. CallsPlanned'
    <2>1. ASSUME NEW c \in CallId, NEW q, q = call'[c], Transferring(c)'
          PROVE  q.key \in Keys' /\ Matches(q, PlanOf(q.key)')
        <3>1. Transferring(c) /\ q = call[c] /\ q.key # id
            BY <1>1, <2>1 DEF Transferring
        <3>2. q.key \in Keys /\ Matches(q, PlanOf(q.key))
            BY <3>1 DEF CallsPlanned
        <3> QED BY <1>4, <3>1, <3>2
    <2> QED BY <2>1 DEF CallsPlanned, Matches
<1>8. BooksWhole'
    <2> DEFINE delta == 0 - plan.amount
    <2>1. delta \in Int
        BY <1>2
    <2>2. \A g \in FundType, a \in AssetId :
              funds'[g][a] = funds[g][a] - IF g = plan.fund /\ a = plan.asset_id THEN delta ELSE 0
        BY <1>1, <1>2 DEF TypeInv, BooksType
    <2>3. ASSUME NEW r \in RequestId, NEW a \in AssetId
          PROVE  TakenOf(a)'[r] = TakenOf(a)[r] + IF r = id /\ a = plan.asset_id THEN delta ELSE 0
        <3>1. TakenOf(a)[r] \in Int
            BY DEF TakenOf, TypeInv, PlansType, FundPlan
        <3>2. CASE r # id
            <4>1. TakenOf(a)'[r] = TakenOf(a)[r]
                BY <1>1, <3>2 DEF TakenOf
            <4> QED BY <3>1, <3>2, <4>1
        <3>3. CASE r = id
            <4>1. TakenOf(a)'[id] = 0
                BY <1>1 DEF TakenOf
            <4>2. TakenOf(a)[id] = IF plan.asset_id = a THEN plan.amount ELSE 0
                BY <1>1 DEF TakenOf
            <4> QED BY <1>2, <3>3, <4>1, <4>2
        <3> QED BY <3>2, <3>3
    <2> HIDE DEF delta
    <2> QED BY <1>1, <1>2, <2>1, <2>2, <2>3, BooksMove
<1> QED BY <1>5, <1>6, <1>7, <1>8

(* The steps that store no plan and touch no fund. *)
LEMMA ConfigSound ==
    ASSUME SoundInv, TypeInv', SentGoes, NEW c \in CallId, NEW r \in Request,
           UNCHANGED fundVars,
           BeginRegister(c, r) \/ BeginRefresh(c, r) \/ BeginOraclePrice(c, r)
    PROVE  SoundInv'
<1>1. UNCHANGED <<payments, fund_withdrawal_plans, clock, funds, earned>>
    BY DEF BeginRegister, BeginRefresh, BeginOraclePrice, fundVars
<1>2. \E k : k.op # "transfer" /\ call' = [call EXCEPT ![c] = k]
    BY DEF BeginRegister, BeginRefresh, BeginOraclePrice, Suspend
<1>3. \A x \in CallId : Transferring(x)' => SameTransfer(x)
    BY <1>2 DEF SameTransfer, Transferring, SoundInv, TypeInv, CallType
<1> QED BY <1>1, <1>3, QuietSound

LEMMA AnswerSound ==
    ASSUME SoundInv, TypeInv', SentGoes, NEW c \in CallId, UNCHANGED fundVars,
           \/ MetadataRead(c) \/ FinishRegister(c) \/ FinishRefresh(c) \/ FinishOraclePrice(c)
           \/ AnswerRefused(c) \/ LedgerTransfers(c) \/ TransferFails(c) \/ BadFee(c)
    PROVE  SoundInv'
<1>1. UNCHANGED <<payments, fund_withdrawal_plans, clock, funds, earned>>
    BY DEF MetadataRead, FinishRegister, FinishRefresh, FinishOraclePrice, AnswerRefused,
           LedgerTransfers, TransferFails, BadFee, fundVars
<1>3. CASE ~Transferring(c)
    <2>1. \A x \in CallId : x # c => call'[x] = call[x]
        BY <1>3 DEF MetadataRead, FinishRegister, FinishRefresh, FinishOraclePrice, AnswerRefused,
                    LedgerTransfers, TransferFails, BadFee, Return,
                    SoundInv, TypeInv, CallType
    <2>2. ~Transferring(c)'
        <3>1. CASE MetadataRead(c)
            <4>1. call[c] \in ConfigCall
                BY <1>3, <3>1, CallKinds
                   DEF MetadataRead, PriceCall, SoundInv, TypeInv, Transferring
            <4> QED BY <3>1, <4>1
                    DEF MetadataRead, Transferring, SoundInv, TypeInv, CallType, ConfigCall
        <3>2. CASE ~MetadataRead(c)
            BY <1>3, <3>2
               DEF FinishRegister, FinishRefresh, FinishOraclePrice, AnswerRefused,
                   LedgerTransfers, TransferFails, BadFee, Return,
                   Transferring, SoundInv, TypeInv, CallType
        <3> QED BY <3>1, <3>2
    <2>3. \A x \in CallId : Transferring(x)' => SameTransfer(x)
        BY <2>1, <2>2 DEF Transferring, SameTransfer
    <2> QED BY <1>1, <2>3, QuietSound
<1>4. CASE Transferring(c)
    <2>1. call[c] \in TransferCall
        BY <1>4, CallKinds DEF SoundInv, TypeInv, Transferring, ConfigCall, PriceCall
    <2>2. \/ LedgerTransfers(c) \/ TransferFails(c) \/ BadFee(c)
        BY <1>4 DEF MetadataRead, FinishRegister, FinishRefresh, FinishOraclePrice, AnswerRefused,
                    Transferring
    <2>3. \A x \in CallId : Transferring(x)' => SameTransfer(x)
        BY <1>4, <2>1, <2>2
           DEF LedgerTransfers, TransferFails, BadFee, Return,
               Transferring, SameTransfer, SoundInv, TypeInv, CallType, TransferCall
    <2> QED BY <1>1, <2>3, QuietSound
<1> QED BY <1>3, <1>4

LEMMA SoundStep ==
    ASSUME {"same_terms", "settled_cancel"} \subseteq Discipline, IsFiniteSet(RequestId),
           SoundInv, [Next]_vars
    PROVE  SoundInv'
<1>1. TypeInv' /\ SentGoes
    BY TypeStep, SentStep DEF SoundInv
<1>2. ASSUME NEW r \in Request, Administer(r) PROVE SoundInv'
    <2>1. CASE r.op = "cancel" /\ CancelFundWithdrawal(r.id)
        BY <1>1, <2>1, CancelSound, RequestKinds
    <2>2. CASE /\ UNCHANGED fundVars
               /\ \/ UpdateCollateralAsset(r) \/ UpdateAllowedDomains(r)
                  \/ UpdateAssetMetrics(r) \/ UpdateAssetPrice(r)
        <3>1. UNCHANGED <<payments, fund_withdrawal_plans, clock, funds, earned, call>>
            BY <2>2 DEF UpdateCollateralAsset, UpdateAllowedDomains, UpdateAssetMetrics,
                        UpdateAssetPrice, fundVars
        <3>2. \A x \in CallId : Transferring(x)' => SameTransfer(x)
            BY <3>1 DEF SameTransfer, Transferring
        <3> QED BY <1>1, <3>1, <3>2, QuietSound
    <2> QED BY <1>2, <2>1, <2>2 DEF Administer
<1>3. ASSUME NEW r \in Request, NEW c \in CallId, BeginCall(c, r) PROVE SoundInv'
    <2>1. CASE r.op = "pay" /\ BeginPayment(c, r) /\ UNCHANGED fundVars
        BY <1>1, <2>1, BeginPaymentSound
    <2>2. CASE r.op = "withdraw" /\ WithdrawFund(c, r)
        BY <1>1, <2>2, WithdrawFundSound
    <2>3. CASE /\ UNCHANGED fundVars
               /\ BeginRegister(c, r) \/ BeginRefresh(c, r) \/ BeginOraclePrice(c, r)
        BY <1>1, <2>3, ConfigSound
    <2> QED BY <1>3, <2>1, <2>2, <2>3 DEF BeginCall
<1>4. ASSUME NEW c \in CallId, Answered(c) PROVE SoundInv'
    <2>1. CASE PaymentDone(c) /\ UNCHANGED fundVars
        BY <1>1, <2>1, PaymentDoneSound
    <2>2. CASE WithdrawFundDone(c)
        BY <1>1, <2>2, WithdrawFundDoneSound
    <2> QED BY <1>1, <1>4, <2>1, <2>2, AnswerSound DEF Answered
<1>5. CASE \E e \in Earnings : CreditFees(e)
    BY <1>1, <1>5, CreditSound
<1>6. CASE \/ \E b \in late : LateTransfer(b) /\ UNCHANGED fundVars
           \/ \E l \in Ledger : LedgerChangesFee(l)
           \/ Upgrade
           \/ UNCHANGED vars
    <2>1. UNCHANGED <<payments, fund_withdrawal_plans, clock, funds, earned>>
        BY <1>6 DEF LateTransfer, LedgerChangesFee, Upgrade, vars, assetVars, fundVars
    <2>2. UNCHANGED call \/ call' = [c \in CallId |-> None]
        BY <1>6 DEF LateTransfer, LedgerChangesFee, Upgrade, vars, assetVars
    <2>3. \A x \in CallId : Transferring(x)' => SameTransfer(x)
        BY <2>2 DEF SameTransfer, Transferring
    <2> QED BY <1>1, <2>1, <2>3, QuietSound
<1> QED BY <1>2, <1>3, <1>4, <1>5, <1>6 DEF Next

LEMMA SoundInit ==
    ASSUME IsFiniteSet(RequestId), Init
    PROVE  SoundInv
<1>1. TypeInv
    BY TypeInit
<1>2. Keys = {} /\ Sent = {} /\ \A c \in CallId : ~Transferring(c)
    BY DEF Init, AssetsInit, EmptyMap, Keys, Transferring, Sent
<1>3. ASSUME NEW a \in AssetId
      PROVE  SumOver(FundsOf(a), FundType) + SumOver(TakenOf(a), RequestId)
                 = SumOver(OpeningOf(a), FundType) + IF a = Internal THEN earned ELSE 0
    <2>1. FundsOf(a) = OpeningOf(a)
        BY DEF FundsOf, OpeningOf, Init
    <2>2. \A r \in RequestId : TakenOf(a)[r] = 0
        BY DEF TakenOf, Init, EmptyMap
    <2>3. SumOver(OpeningOf(a), FundType) \in Int
        BY OpeningType
    <2>4. SumOver(TakenOf(a), RequestId) = 0
        BY <2>2, SumZero
    <2>5. earned = 0
        BY DEF Init
    <2> QED BY <2>1, <2>3, <2>4, <2>5
<1> QED BY <1>1, <1>2, <1>3
        DEF SoundInv, StampsDistinct, CallsPlanned, SentPlanned, BooksWhole

-----------------------------------------------------------------------------
(* A payment is made once. *)

(* What is asked of controllers and users besides: a fee is published with
   the metrics of an asset, and a payment is asked for again with its asset. *)
FeesPublished == \A r \in Request : r.op = "metrics" => r.metrics.fee # None

PaymentsRepeated ==
    \A r, s \in Request :
        r.op = "pay" /\ s.op = "pay" /\ r.id = s.id => r.asset_id = s.asset_id

(* An asset keeps its ledger, or becomes one of none. *)
AssetsStay ==
    \A a \in DOMAIN collateral_assets :
        /\ a \in DOMAIN collateral_assets'
        /\ collateral_assets'[a].asset \in {collateral_assets[a].asset, Evm}

LEMMA CachedRest ==
    ASSUME FeesCached, UNCHANGED collateral_assets,
           DOMAIN asset_metrics \subseteq DOMAIN asset_metrics',
           \A a \in DOMAIN asset_metrics' : asset_metrics'[a].fee \in Fees
    PROVE  FeesCached' /\ AssetsStay
BY DEF FeesCached, AssetsStay

LEMMA FeeUpdated ==
    ASSUME TypeInv, FeesCached, NEW a, NEW f \in Fees, asset_metrics' = UpdatedFee(a, f)
    PROVE  /\ DOMAIN asset_metrics' = DOMAIN asset_metrics
           /\ \A x \in DOMAIN asset_metrics' : asset_metrics'[x].fee \in Fees
BY DEF FeesCached, UpdatedFee, TypeInv, ConfigType, Metrics

LEMMA PricedFee ==
    ASSUME TypeInv, FeesCached, NEW r, asset_metrics' = Priced(r)
    PROVE  /\ DOMAIN asset_metrics' = DOMAIN asset_metrics
           /\ \A x \in DOMAIN asset_metrics' : asset_metrics'[x].fee \in Fees
BY DEF FeesCached, Priced, TypeInv, ConfigType, Metrics

LEMMA AssetsStep ==
    ASSUME FeesPublished, ConfigInv, FeesCached, [Next]_vars
    PROVE  FeesCached' /\ AssetsStay
<1> USE DEF ConfigInv
<1>1. CASE UNCHANGED configuration
    BY <1>1, CachedRest DEF configuration, FeesCached
<1>2. ASSUME NEW r \in Request, Administer(r) PROVE FeesCached' /\ AssetsStay
    <2>1. CASE UpdateCollateralAsset(r)
        <3>1. /\ r.terms.asset = Evm /\ UNCHANGED asset_metrics
              /\ collateral_assets' = Put(collateral_assets, r.asset_id, r.terms)
            BY <2>1 DEF UpdateCollateralAsset
        <3>2. Evm \notin Ledger
            BY AssetsAssumption
        <3> QED BY <3>1, <3>2 DEF FeesCached, AssetsStay, Put
    <2>2. CASE UpdateAllowedDomains(r)
        BY <2>2 DEF UpdateAllowedDomains, FeesCached, AssetsStay, TypeInv, ConfigType, Terms
    <2>3. CASE r.op = "metrics" /\ UpdateAssetMetrics(r)
        <3>1. r.metrics.fee \in Fees
            BY <2>3, RequestKinds DEF FeesPublished, Metrics
        <3>2. /\ asset_metrics' = Put(asset_metrics, r.asset_id, r.metrics)
              /\ UNCHANGED collateral_assets
            BY <2>3 DEF UpdateAssetMetrics
        <3> QED BY <3>1, <3>2, CachedRest DEF FeesCached, Put
    <2>4. CASE UpdateAssetPrice(r)
        BY <2>4, PricedFee, CachedRest DEF UpdateAssetPrice
    <2>5. CASE CancelFundWithdrawal(r.id)
        BY <1>1, <2>5 DEF CancelFundWithdrawal, assetVars
    <2> QED BY <1>2, <2>1, <2>2, <2>3, <2>4, <2>5 DEF Administer
<1>3. ASSUME NEW c \in CallId, Answered(c) PROVE FeesCached' /\ AssetsStay
    <2>1. CASE FinishRegister(c)
        <3> DEFINE a == call[c].asset_id
        <3>1. call[c] \in ConfigCall
            BY <2>1, CallKinds DEF FinishRegister, TypeInv, Transferring, PriceCall
        <3>2. call[c].fee \in Fees /\ a \notin DOMAIN collateral_assets
            BY <2>1, <3>1 DEF FinishRegister, ConfigCall, Unconfigured
        <3>3. /\ collateral_assets' = Put(collateral_assets, a, call[c].terms)
              /\ asset_metrics' = Put(asset_metrics, a, RegisteredMetrics(a, call[c].fee))
            BY <2>1 DEF FinishRegister
        <3>4. RegisteredMetrics(a, call[c].fee).fee \in Fees
            BY <3>2 DEF RegisteredMetrics
        <3> HIDE DEF a
        <3> QED BY <3>2, <3>3, <3>4 DEF FeesCached, AssetsStay, Put
    <2>2. CASE FinishRefresh(c)
        <3> DEFINE a == call[c].asset_id
        <3>1. call[c] \in ConfigCall
            BY <2>2, CallKinds DEF FinishRefresh, TypeInv, Transferring, PriceCall
        <3>2. /\ call[c].fee \in Fees /\ a \in DOMAIN collateral_assets
              /\ call[c].terms = collateral_assets[a]
            BY <2>2, <3>1 DEF FinishRefresh, ConfigCall, Unconfigured
        <3>3. /\ collateral_assets' = Put(collateral_assets, a, call[c].terms)
              /\ asset_metrics' = UpdatedFee(a, call[c].fee)
            BY <2>2 DEF FinishRefresh
        <3>4. /\ DOMAIN asset_metrics' = DOMAIN asset_metrics
              /\ \A x \in DOMAIN asset_metrics' : asset_metrics'[x].fee \in Fees
            BY <3>2, <3>3, FeeUpdated
        <3>5. /\ DOMAIN collateral_assets' = DOMAIN collateral_assets
              /\ \A x \in DOMAIN collateral_assets : collateral_assets'[x] = collateral_assets[x]
            BY <3>2, <3>3 DEF Put
        <3> QED BY <3>4, <3>5 DEF FeesCached, AssetsStay
    <2>3. CASE FinishOraclePrice(c)
        BY <2>3, PricedFee, CachedRest DEF FinishOraclePrice
    <2>4. CASE BadFee(c)
        <3>1. call[c] \in TransferCall
            BY <2>4, CallKinds DEF BadFee, TypeInv, Transferring, ConfigCall, PriceCall
        <3>2. ledger_fee[call[c].asset] \in Fees
            BY <3>1 DEF TransferCall, TypeInv, LedgerType
        <3>3. UNCHANGED collateral_assets
              /\ asset_metrics' = UpdatedFee(call[c].asset_id, ledger_fee[call[c].asset])
            BY <2>4 DEF BadFee
        <3> QED BY <3>2, <3>3, FeeUpdated, CachedRest
    <2>5. CASE \/ MetadataRead(c) \/ AnswerRefused(c) \/ LedgerTransfers(c) \/ TransferFails(c)
               \/ PaymentDone(c) \/ WithdrawFundDone(c)
        BY <1>1, <2>5 DEF MetadataRead, AnswerRefused, LedgerTransfers, TransferFails,
                          PaymentDone, WithdrawFundDone
    <2> QED BY <1>3, <2>1, <2>2, <2>3, <2>4, <2>5 DEF Answered
<1>4. ASSUME NEW r \in Request, NEW c \in CallId, BeginCall(c, r) PROVE UNCHANGED configuration
    BY <1>4 DEF BeginCall, BeginRegister, BeginRefresh, BeginOraclePrice, BeginPayment, WithdrawFund
<1>5. CASE \/ \E e \in Earnings : CreditFees(e)
           \/ \E b \in late : LateTransfer(b)
           \/ \E l \in Ledger : LedgerChangesFee(l)
           \/ Upgrade
           \/ UNCHANGED vars
    BY <1>1, <1>5 DEF CreditFees, LateTransfer, LedgerChangesFee, Upgrade, vars, assetVars
<1> QED BY <1>1, <1>2, <1>3, <1>4, <1>5 DEF Next

-----------------------------------------------------------------------------
(* What a step does to transfers: one goes on, or is begun for a plan that
   is not Finalised. *)

Carried(c) ==
    /\ SameTransfer(c) /\ call'[c].asset = call[c].asset
    /\ call'[c].fee \in {call[c].fee, ledger_fee[call[c].asset]}

MayBegin(stamp) ==
    \/ stamp > clock
    \/ \E k \in Keys : PlanOf(k).stamp = stamp /\ PlanOf(k).status # "Finalised"

Begun(c, r) ==
    /\ \/ r.op = "pay" /\ r.id \in PaymentId /\ call'[c].amount = 1
       \/ r.op = "withdraw" /\ r.id \in RequestId
    /\ r.asset_id \in DOMAIN collateral_assets
    /\ collateral_assets[r.asset_id].asset \in Ledger
    /\ call'[c].key = r.id /\ call'[c].asset_id = r.asset_id
    /\ call'[c].asset = collateral_assets[r.asset_id].asset
    /\ call'[c].fee = CachedFee(r.asset_id)
    /\ MayBegin(call'[c].plan.stamp)

TransfersGo ==
    \A c \in CallId : Transferring(c)' => Carried(c) \/ \E r \in Request : Begun(c, r)

LEMMA OthersCarried ==
    ASSUME CallType, NEW c \in CallId, NEW k,
           UNCHANGED call \/ call' = [call EXCEPT ![c] = k],
           NEW x \in CallId, Transferring(x)', x # c \/ UNCHANGED call
    PROVE  Carried(x)
BY DEF CallType, SameTransfer, Carried, Transferring

LEMMA PaymentBegun ==
    ASSUME SoundInv, TypeInv', NEW c \in CallId, NEW r \in Request, r.op = "pay",
           BeginPayment(c, r)
    PROVE  TransfersGo
<1> USE DEF SoundInv
<1> PICK p : p = PaymentPlan(r)
    OBVIOUS
<1> PICK k : k = Transfer(r.id, r.asset_id, collateral_assets[r.asset_id].asset, 1, p)
    OBVIOUS
<1>1. /\ r.asset_id \in DOMAIN collateral_assets /\ collateral_assets[r.asset_id].asset \in Ledger
      /\ p.status # "Finalised" /\ call' = [call EXCEPT ![c] = k]
    BY DEF BeginPayment, Suspend
<1>2. call'[c] = k
    BY <1>1 DEF TypeInv, CallType
<1>3. /\ k.key = r.id /\ k.asset_id = r.asset_id /\ k.amount = 1 /\ k.plan = p
      /\ k.asset = collateral_assets[r.asset_id].asset /\ k.fee = CachedFee(r.asset_id)
    BY DEF Transfer
<1>4. r.id \in PaymentId
    BY RequestKinds
<1>5. MayBegin(p.stamp)
    <2>1. CASE r.id \in DOMAIN payments
        <3>1. r.id \in Keys /\ p = PlanOf(r.id)
            BY <2>1 DEF PaymentPlan, Keys, PlanOf
        <3> QED BY <1>1, <3>1 DEF MayBegin
    <2>2. CASE r.id \notin DOMAIN payments
        <3>1. p.stamp = clock + 1 /\ clock \in Nat
            BY <2>2 DEF PaymentPlan, TypeInv, BooksType
        <3> QED BY <3>1 DEF MayBegin
    <2> QED BY <2>1, <2>2
<1>6. Begun(c, r)
    BY <1>1, <1>2, <1>3, <1>4, <1>5 DEF Begun
<1>7. \A x \in CallId : Transferring(x)' /\ x # c => Carried(x)
    BY <1>1, OthersCarried DEF TypeInv
<1> QED BY <1>6, <1>7 DEF TransfersGo

LEMMA WithdrawalBegun ==
    ASSUME SoundInv, TypeInv', "same_terms" \in Discipline, NEW c \in CallId, NEW r \in Request,
           r.op = "withdraw", WithdrawFund(c, r)
    PROVE  TransfersGo
<1> USE DEF SoundInv
<1> PICK plan : plan = PlanFor(r)
    OBVIOUS
<1> PICK p : p = [plan EXCEPT !.status = "Executing"]
    OBVIOUS
<1> PICK k : k = Transfer(r.id, r.asset_id, collateral_assets[r.asset_id].asset, r.amount, p)
    OBVIOUS
<1>1. /\ r.asset_id \in DOMAIN collateral_assets /\ SameTerms(r)
      /\ plan.status # "Finalised"
      /\ \/ UNCHANGED call
         \/ /\ collateral_assets[r.asset_id].asset # Evm
            /\ call' = [call EXCEPT ![c] = k]
    BY DEF WithdrawFund, Suspend
<1>2. CASE UNCHANGED call
    BY <1>2, OthersCarried DEF TypeInv, TransfersGo
<1>3. CASE ~ UNCHANGED call
    <2>1. call'[c] = k /\ collateral_assets[r.asset_id].asset # Evm
        BY <1>1, <1>3 DEF TypeInv, CallType
    <2>2. collateral_assets[r.asset_id].asset \in Ledger
        BY <1>1, <2>1 DEF TypeInv, ConfigType, Terms
    <2>3. /\ k.key = r.id /\ k.asset_id = r.asset_id /\ k.plan = p
          /\ k.asset = collateral_assets[r.asset_id].asset /\ k.fee = CachedFee(r.asset_id)
        BY DEF Transfer
    <2>4. /\ r.id \in RequestId /\ plan \in FundPlan
          /\ r.id \in Keys => plan = PlanOf(r.id)
          /\ r.id \notin Keys => plan.stamp = clock + 1
        BY <1>1, WithdrawPlan
    <2>5. p.stamp = plan.stamp
        BY <2>4 DEF FundPlan
    <2>6. clock \in Nat
        BY DEF TypeInv, BooksType
    <2>7. MayBegin(p.stamp)
        <3>1. CASE r.id \in Keys
            BY <1>1, <2>4, <2>5, <3>1 DEF MayBegin
        <3>2. CASE r.id \notin Keys
            BY <2>4, <2>5, <2>6, <3>2 DEF MayBegin
        <3> QED BY <3>1, <3>2
    <2>8. Begun(c, r)
        BY <1>1, <2>1, <2>2, <2>3, <2>4, <2>7 DEF Begun
    <2>9. \A x \in CallId : Transferring(x)' /\ x # c => Carried(x)
        BY <1>1, <1>3, OthersCarried DEF TypeInv
    <2> QED BY <2>8, <2>9 DEF TransfersGo
<1> QED BY <1>2, <1>3

LEMMA AnswerGoes ==
    ASSUME SoundInv, TypeInv', NEW c \in CallId,
           \/ MetadataRead(c) \/ FinishRegister(c) \/ FinishRefresh(c) \/ FinishOraclePrice(c)
           \/ AnswerRefused(c) \/ LedgerTransfers(c) \/ TransferFails(c) \/ BadFee(c)
           \/ PaymentDone(c) \/ WithdrawFundDone(c)
    PROVE  TransfersGo
<1> USE DEF SoundInv
<1>1. CASE call' = [call EXCEPT ![c] = None]
    <2>1. \A x \in CallId : Transferring(x)' => x # c
        BY <1>1 DEF TypeInv, CallType, Transferring
    <2> QED BY <1>1, <2>1, OthersCarried DEF TypeInv, TransfersGo
<1>2. CASE MetadataRead(c)
    <2>1. call[c] \in ConfigCall
        BY <1>2, CallKinds DEF MetadataRead, PriceCall, TypeInv, Transferring
    <2>2. \A x \in CallId : Transferring(x)' => x # c
        BY <1>2, <2>1 DEF MetadataRead, Transferring, TypeInv, CallType, ConfigCall
    <2>3. \E k : call' = [call EXCEPT ![c] = k]
        BY <1>2 DEF MetadataRead
    <2> QED BY <2>2, <2>3, OthersCarried DEF TypeInv, TransfersGo
<1>3. CASE LedgerTransfers(c) \/ BadFee(c)
    <2>1. call[c] \in TransferCall /\ Transferring(c)
        BY <1>3, CallIsTransfer DEF TypeInv, LedgerTransfers, BadFee
    <2>2. PICK k : /\ call' = [call EXCEPT ![c] = k]
                   /\ k = None \/ /\ k.key = call[c].key /\ k.plan = call[c].plan
                                  /\ k.asset_id = call[c].asset_id /\ k.amount = call[c].amount
                                  /\ k.asset = call[c].asset
                                  /\ k.fee \in {call[c].fee, ledger_fee[call[c].asset]}
        <3>1. CASE LedgerTransfers(c)
            <4>1. PICK a \in {"block", "bad_fee"} : call' = [call EXCEPT ![c].answer = a]
                BY <3>1 DEF LedgerTransfers
            <4> DEFINE k == [call[c] EXCEPT !.answer = a]
            <4>2. call' = [call EXCEPT ![c] = k]
                BY <4>1 DEF TypeInv, CallType
            <4>3. /\ k.key = call[c].key /\ k.plan = call[c].plan
                  /\ k.asset_id = call[c].asset_id /\ k.amount = call[c].amount
                  /\ k.asset = call[c].asset /\ k.fee = call[c].fee
                BY <2>1 DEF TransferCall
            <4> HIDE DEF k
            <4> QED BY <4>2, <4>3
        <3>2. CASE BadFee(c)
            <4> DEFINE f == ledger_fee[call[c].asset]
                       k == [call[c] EXCEPT !.attempt = 2, !.answer = "none", !.fee = f]
            <4>1. call' = [call EXCEPT ![c] = k] \/ call' = [call EXCEPT ![c] = None]
                BY <3>2 DEF BadFee, TypeInv, CallType
            <4>2. /\ k.key = call[c].key /\ k.plan = call[c].plan
                  /\ k.asset_id = call[c].asset_id /\ k.amount = call[c].amount
                  /\ k.asset = call[c].asset /\ k.fee = f
                BY <2>1 DEF TransferCall
            <4> HIDE DEF k
            <4> QED BY <4>1, <4>2
        <3> QED BY <1>3, <3>1, <3>2
    <2>3. call'[c] = k
        BY <2>2 DEF TypeInv, CallType
    <2>4. Transferring(c)' => Carried(c)
        BY <2>1, <2>2, <2>3 DEF Transferring, Carried, SameTransfer
    <2>5. \A x \in CallId : Transferring(x)' /\ x # c => Carried(x)
        BY <2>2, OthersCarried DEF TypeInv
    <2> QED BY <2>4, <2>5 DEF TransfersGo
<1> QED BY <1>1, <1>2, <1>3
        DEF FinishRegister, FinishRefresh, FinishOraclePrice, AnswerRefused, TransferFails,
            PaymentDone, WithdrawFundDone, Return

LEMMA TransferStep ==
    ASSUME "same_terms" \in Discipline, SoundInv, TypeInv', [Next]_vars
    PROVE  TransfersGo
<1>1. ASSUME NEW r \in Request, Administer(r) PROVE UNCHANGED call
    BY <1>1 DEF Administer, UpdateCollateralAsset, UpdateAllowedDomains, UpdateAssetMetrics,
                UpdateAssetPrice, CancelFundWithdrawal, assetVars
<1>2. ASSUME NEW r \in Request, NEW c \in CallId, BeginCall(c, r) PROVE TransfersGo
    <2>1. CASE BeginRegister(c, r) \/ BeginRefresh(c, r) \/ BeginOraclePrice(c, r)
        <3>1. \E k : k.op # "transfer" /\ call' = [call EXCEPT ![c] = k]
            BY <2>1 DEF BeginRegister, BeginRefresh, BeginOraclePrice, Suspend
        <3>2. \A x \in CallId : Transferring(x)' => x # c
            BY <3>1 DEF SoundInv, TypeInv, CallType, Transferring
        <3> QED BY <3>1, <3>2, OthersCarried DEF SoundInv, TypeInv, TransfersGo
    <2> QED BY <1>2, <2>1, PaymentBegun, WithdrawalBegun DEF BeginCall
<1>3. ASSUME NEW c \in CallId, Answered(c) PROVE TransfersGo
    BY <1>3, AnswerGoes DEF Answered
<1>4. CASE UNCHANGED call
    BY <1>4 DEF TransfersGo, Carried, SameTransfer, Transferring
<1>5. CASE Upgrade
    BY <1>5 DEF Upgrade, TransfersGo, Transferring
<1> QED BY <1>1, <1>2, <1>3, <1>4, <1>5
        DEF Next, CreditFees, LateTransfer, LedgerChangesFee, vars, assetVars

LEMMA FeesSentStep ==
    ASSUME TypeInv, FeesCached, FeesSent, TransfersGo, SentGoes
    PROVE  FeesSent'
<1>1. ASSUME NEW c \in CallId, Transferring(c)' PROVE call'[c].fee \in Fees
    <2>1. CASE Carried(c)
        <3>1. Transferring(c)
            BY <2>1 DEF Carried, SameTransfer
        <3>2. call[c] \in TransferCall
            BY <3>1, CallKinds DEF TypeInv, Transferring, ConfigCall, PriceCall
        <3> QED BY <2>1, <3>1, <3>2 DEF Carried, FeesSent, TransferCall, TypeInv, LedgerType
    <2>2. CASE \E r \in Request : Begun(c, r)
        BY <2>2 DEF Begun, FeesCached, CachedFee
    <2> QED BY <1>1, <2>1, <2>2 DEF TransfersGo
<1>2. \A b : Asked(b) => b.fee \in Fees
    BY DEF Asked, Block, FeesSent
<1>3. \A b \in late' : b.fee \in Fees
    BY <1>2 DEF FeesSent, SentGoes
<1> QED BY <1>1, <1>3 DEF FeesSent

(* A transfer asked for is on its ledger. *)
LEMMA AskedOn == ASSUME NEW b, Asked(b) PROVE OnLedger(b.asset_id, b.asset)
<1>1. PICK c \in CallId : Transferring(c) /\ b = Block(call[c])
    BY DEF Asked
<1>2. b.asset_id = call[c].asset_id /\ b.asset = call[c].asset
    BY <1>1 DEF Block
<1> QED BY <1>1, <1>2 DEF OnLedger

LEMMA LedgersStep ==
    ASSUME TypeInv, LedgersKept, AssetsStay, TransfersGo, SentGoes
    PROVE  LedgersKept'
<1> DEFINE Own(a, l) == a \in DOMAIN collateral_assets /\ collateral_assets[a].asset = l
<1>1. ASSUME NEW a, NEW l, OnLedger(a, l)'
      PROVE  OnLedger(a, l) \/ Own(a, l)
    <2>1. ASSUME NEW c \in CallId, Transferring(c)', call'[c].asset_id = a, call'[c].asset = l
          PROVE  OnLedger(a, l) \/ Own(a, l)
        BY <2>1 DEF TransfersGo, Carried, SameTransfer, Begun, OnLedger
    <2>2. ASSUME NEW b \in Sent', b.asset_id = a, b.asset = l
          PROVE  OnLedger(a, l)
        BY <2>2, AskedOn DEF SentGoes, OnLedger
    <2> QED BY <1>1, <2>1, <2>2 DEF OnLedger
<1>2. ASSUME NEW a \in AssetId, NEW l \in Ledger, OnLedger(a, l)'
      PROVE  LedgerKept(a, l)
    BY <1>1, <1>2 DEF LedgersKept, LedgerKept
<1>3. ASSUME NEW a \in AssetId, NEW l \in Ledger, NEW m \in Ledger,
             OnLedger(a, l)', OnLedger(a, m)'
      PROVE  l = m
    <2>1. LedgerKept(a, l) /\ LedgerKept(a, m)
        BY <1>2, <1>3
    <2>2. l # Evm /\ m # Evm
        BY AssetsAssumption
    <2> QED BY <1>1, <1>3, <2>1, <2>2 DEF LedgersKept, LedgerKept
<1>4. ASSUME NEW a, NEW l, LedgerKept(a, l) PROVE LedgerKept(a, l)'
    BY <1>4 DEF LedgerKept, AssetsStay
<1> QED BY <1>2, <1>3, <1>4 DEF LedgersKept

(* A plan keeps its stamp, and stays Finalised; a new one has a new stamp. *)
PlansGo ==
    \A k \in Keys' :
        \/ PlanOf(k)'.stamp > clock
        \/ /\ k \in Keys /\ PlanOf(k)'.stamp = PlanOf(k).stamp
           /\ PlanOf(k)'.status # "Finalised" => PlanOf(k).status # "Finalised"

PaymentsGo ==
    /\ \A p \in DOMAIN payments :
          /\ p \in DOMAIN payments' /\ payments'[p].stamp = payments[p].stamp
          /\ payments'[p].asset_id = payments[p].asset_id
    /\ \A p \in DOMAIN payments' \ DOMAIN payments : \E r \in Request :
          r.op = "pay" /\ r.id = p /\ r.asset_id = payments'[p].asset_id

LEMMA StoredGoes ==
    ASSUME NEW key, NEW p, Keys' = Keys \cup {key}, PlanOf(key)' = p,
           \A k \in Keys : k # key => PlanOf(k)' = PlanOf(k),
           key \in Keys => /\ p.stamp = PlanOf(key).stamp
                           /\ p.status # "Finalised" => PlanOf(key).status # "Finalised",
           key \notin Keys => p.stamp > clock
    PROVE  PlansGo
BY DEF PlansGo

LEMMA RestGoes ==
    ASSUME UNCHANGED <<payments, fund_withdrawal_plans>>
    PROVE  PlansGo /\ PaymentsGo
<1>1. Keys' = Keys /\ \A k : PlanOf(k)' = PlanOf(k)
    BY DEF Keys, PlanOf
<1> QED BY <1>1 DEF PlansGo, PaymentsGo

LEMMA BeginPaymentGoes ==
    ASSUME SoundInv, NEW c \in CallId, NEW r \in Request, r.op = "pay",
           BeginPayment(c, r), UNCHANGED fundVars
    PROVE  PlansGo /\ PaymentsGo
<1> USE DEF SoundInv
<1> PICK p : p = PaymentPlan(r)
    OBVIOUS
<1> PICK key : key = r.id
    OBVIOUS
<1>1. /\ key \in PaymentId /\ payments' = Put(payments, key, p)
      /\ UNCHANGED fund_withdrawal_plans /\ p.status # "Finalised"
    BY RequestKinds DEF BeginPayment, fundVars
<1>2. clock \in Nat
    BY DEF TypeInv, BooksType
<1>3. key \in DOMAIN payments => p = payments[key] /\ key \in Keys /\ p = PlanOf(key)
    BY DEF PaymentPlan, Keys, PlanOf
<1>4. key \notin DOMAIN payments =>
          key \notin Keys /\ p.stamp = clock + 1 /\ p.asset_id = r.asset_id
    BY <1>1, AssetsAssumption DEF PaymentPlan, Keys, TypeInv, PlansType
<1>5. /\ Keys' = Keys \cup {key} /\ PlanOf(key)' = p
      /\ \A k \in Keys : k # key => PlanOf(k)' = PlanOf(k)
    BY <1>1, PaymentPut
<1>6. PlansGo
    BY <1>2, <1>3, <1>4, <1>5, StoredGoes
<1>7. PaymentsGo
    BY <1>1, <1>3, <1>4 DEF PaymentsGo, Put
<1> QED BY <1>6, <1>7

LEMMA DoneGoes ==
    ASSUME SoundInv, NEW c \in CallId,
           (PaymentDone(c) /\ UNCHANGED fundVars) \/ WithdrawFundDone(c)
    PROVE  PlansGo /\ PaymentsGo
<1> USE DEF SoundInv
<1> PICK p : p = [call[c].plan EXCEPT !.status = "Finalised"]
    OBVIOUS
<1> PICK key : key = call[c].key
    OBVIOUS
<1>1. Transferring(c)
    BY DEF PaymentDone, WithdrawFundDone
<1>2. /\ key \in Keys /\ p.status = "Finalised"
      /\ p = [PlanOf(key) EXCEPT !.status = "Finalised"]
    BY <1>1, DonePlan
<1>3. PlanOf(key) \in FundPlan \/ PlanOf(key) \in PaymentPlans
    BY <1>2, KeysType
<1>4. p.stamp = PlanOf(key).stamp /\ p.asset_id = PlanOf(key).asset_id
    BY <1>2, <1>3 DEF FundPlan, PaymentPlans
<1>5. CASE PaymentDone(c) /\ UNCHANGED fundVars
    <2>1. /\ key \in PaymentId /\ payments' = Put(payments, key, p)
          /\ UNCHANGED fund_withdrawal_plans
        BY <1>5 DEF PaymentDone, fundVars
    <2>2. /\ Keys' = Keys \cup {key} /\ PlanOf(key)' = p
          /\ \A k \in Keys : k # key => PlanOf(k)' = PlanOf(k)
        BY <2>1, PaymentPut
    <2>3. PlansGo
        BY <1>2, <1>4, <2>2, StoredGoes
    <2>4. key \in DOMAIN payments /\ PlanOf(key) = payments[key]
        BY <1>2, <2>1, KeysType
    <2>5. PaymentsGo
        BY <1>4, <2>1, <2>4 DEF PaymentsGo, Put
    <2> QED BY <2>3, <2>5
<1>6. CASE WithdrawFundDone(c)
    <2>1. /\ key \in RequestId /\ fund_withdrawal_plans' = Put(fund_withdrawal_plans, key, p)
          /\ UNCHANGED payments
        BY <1>6 DEF WithdrawFundDone
    <2>2. /\ Keys' = Keys \cup {key} /\ PlanOf(key)' = p
          /\ \A k \in Keys : k # key => PlanOf(k)' = PlanOf(k)
        BY <2>1, WithdrawalPut
    <2>3. PlansGo
        BY <1>2, <1>4, <2>2, StoredGoes
    <2> QED BY <2>1, <2>3 DEF PaymentsGo
<1> QED BY <1>5, <1>6

LEMMA WithdrawFundGoes ==
    ASSUME SoundInv, "same_terms" \in Discipline, NEW c \in CallId, NEW r \in Request,
           r.op = "withdraw", WithdrawFund(c, r)
    PROVE  PlansGo /\ PaymentsGo
<1> USE DEF SoundInv
<1> PICK key : key = r.id
    OBVIOUS
<1> PICK plan : plan = PlanFor(r)
    OBVIOUS
<1> PICK p : p = IF MustDeduct(plan) /\ InsufficientFunds(r) THEN plan
                 ELSE [plan EXCEPT !.status = "Executing"]
    OBVIOUS
<1>1. /\ SameTerms(r) /\ plan.status # "Finalised"
      /\ fund_withdrawal_plans' = Put(fund_withdrawal_plans, key, p)
      /\ UNCHANGED payments
    BY DEF WithdrawFund
<1>2. /\ key \in RequestId /\ plan \in FundPlan
      /\ key \in Keys => plan = PlanOf(key)
      /\ key \notin Keys => plan.stamp = clock + 1
    BY <1>1, WithdrawPlan
<1>3. p.stamp = plan.stamp
    BY <1>2 DEF FundPlan
<1>4. clock \in Nat
    BY DEF TypeInv, BooksType
<1>5. /\ Keys' = Keys \cup {key} /\ PlanOf(key)' = p
      /\ \A k \in Keys : k # key => PlanOf(k)' = PlanOf(k)
    BY <1>1, <1>2, WithdrawalPut
<1>6. PlansGo
    <2>1. /\ key \in Keys => p.stamp = PlanOf(key).stamp /\ PlanOf(key).status # "Finalised"
          /\ key \notin Keys => p.stamp > clock
        BY <1>1, <1>2, <1>3, <1>4
    <2> QED BY ONLY <1>5, <2>1, StoredGoes
<1> QED BY <1>1, <1>6 DEF PaymentsGo

LEMMA CancelGoes ==
    ASSUME TypeInv, NEW id \in RequestId, CancelFundWithdrawal(id)
    PROVE  PlansGo /\ PaymentsGo
<1>1. /\ DOMAIN fund_withdrawal_plans' = DOMAIN fund_withdrawal_plans \ {id}
      /\ \A r \in DOMAIN fund_withdrawal_plans \ {id} :
             fund_withdrawal_plans'[r] = fund_withdrawal_plans[r]
      /\ UNCHANGED payments
    BY DEF CancelFundWithdrawal, Restrict, assetVars
<1>2. id \notin DOMAIN payments
    BY AssetsAssumption DEF TypeInv, PlansType
<1>3. Keys' = Keys \ {id} /\ \A k \in Keys \ {id} : PlanOf(k)' = PlanOf(k)
    BY <1>1, <1>2 DEF Keys, PlanOf
<1> QED BY <1>1, <1>3 DEF PlansGo, PaymentsGo

LEMMA PlansStep ==
    ASSUME "same_terms" \in Discipline, SoundInv, [Next]_vars
    PROVE  PlansGo /\ PaymentsGo
<1> USE DEF SoundInv
<1>1. ASSUME NEW r \in Request, Administer(r) PROVE PlansGo /\ PaymentsGo
    <2>1. CASE r.op = "cancel" /\ CancelFundWithdrawal(r.id)
        BY <2>1, CancelGoes, RequestKinds
    <2>2. CASE /\ UNCHANGED fundVars
               /\ \/ UpdateCollateralAsset(r) \/ UpdateAllowedDomains(r)
                  \/ UpdateAssetMetrics(r) \/ UpdateAssetPrice(r)
        BY <2>2, RestGoes DEF UpdateCollateralAsset, UpdateAllowedDomains, UpdateAssetMetrics,
                              UpdateAssetPrice, fundVars
    <2> QED BY <1>1, <2>1, <2>2 DEF Administer
<1>2. ASSUME NEW r \in Request, NEW c \in CallId, BeginCall(c, r) PROVE PlansGo /\ PaymentsGo
    <2>1. CASE /\ UNCHANGED fundVars
               /\ BeginRegister(c, r) \/ BeginRefresh(c, r) \/ BeginOraclePrice(c, r)
        BY <2>1, RestGoes DEF BeginRegister, BeginRefresh, BeginOraclePrice, fundVars
    <2> QED BY <1>2, <2>1, BeginPaymentGoes, WithdrawFundGoes DEF BeginCall
<1>3. ASSUME NEW c \in CallId, Answered(c) PROVE PlansGo /\ PaymentsGo
    <2>1. CASE (PaymentDone(c) /\ UNCHANGED fundVars) \/ WithdrawFundDone(c)
        BY <2>1, DoneGoes
    <2>2. CASE /\ UNCHANGED fundVars
               /\ \/ MetadataRead(c) \/ FinishRegister(c) \/ FinishRefresh(c)
                  \/ FinishOraclePrice(c) \/ AnswerRefused(c) \/ LedgerTransfers(c)
                  \/ TransferFails(c) \/ BadFee(c)
        BY <2>2, RestGoes DEF MetadataRead, FinishRegister, FinishRefresh, FinishOraclePrice,
                              AnswerRefused, LedgerTransfers, TransferFails, BadFee,
                              fundVars
    <2> QED BY <1>3, <2>1, <2>2 DEF Answered
<1>4. CASE \/ \E e \in Earnings : CreditFees(e)
           \/ \E b \in late : LateTransfer(b) /\ UNCHANGED fundVars
           \/ \E l \in Ledger : LedgerChangesFee(l)
           \/ Upgrade
           \/ UNCHANGED vars
    BY <1>4, RestGoes
       DEF CreditFees, LateTransfer, LedgerChangesFee, Upgrade, vars, assetVars, fundVars
<1> QED BY <1>1, <1>2, <1>3, <1>4 DEF Next

(* What may be asked for again after a step, might have been before it. *)
LEMMA RepeatGoes ==
    ASSUME SoundInv, TransfersGo, PlansGo, SentGoes, NEW b \in blocks, MayRepeat(b)'
    PROVE  MayRepeat(b)
<1>1. b.stamp \in Nat /\ b.stamp <= clock /\ clock \in Nat
    <2>1. b \in Sent
        BY DEF Sent
    <2>2. b.key \in Keys /\ b.stamp = PlanOf(b.key).stamp /\ PlanOf(b.key).stamp <= clock
        BY <2>1 DEF SoundInv, SentPlanned, PlannedBy, StampsDistinct
    <2> QED BY <2>1, <2>2 DEF SoundInv, TypeInv, LedgerType, AnyBlock, BooksType
<1>2. ASSUME NEW c \in CallId, Transferring(c)', call'[c].plan.stamp = b.stamp
      PROVE  MayRepeat(b)
    <2>1. CASE Carried(c)
        BY <1>2, <2>1 DEF Carried, SameTransfer, MayRepeat
    <2>2. CASE \E r \in Request : Begun(c, r)
        <3>1. MayBegin(b.stamp)
            BY <1>2, <2>2 DEF Begun
        <3> QED BY <1>1, <3>1 DEF MayBegin, MayRepeat
    <2> QED BY <1>2, <2>1, <2>2 DEF TransfersGo
<1>3. ASSUME NEW k \in Keys', PlanOf(k)'.stamp = b.stamp, PlanOf(k)'.status # "Finalised"
      PROVE  MayRepeat(b)
    BY <1>1, <1>3 DEF PlansGo, MayRepeat
<1>4. ASSUME NEW x \in late', x.stamp = b.stamp PROVE MayRepeat(b)
    BY <1>4 DEF SentGoes, Asked, Block, MayRepeat
<1>5. \/ \E c \in CallId : Transferring(c)' /\ call'[c].plan.stamp = b.stamp
      \/ \E k \in Keys' : PlanOf(k)'.stamp = b.stamp /\ PlanOf(k)'.status # "Finalised"
      \/ \E x \in late' : x.stamp = b.stamp
    BY DEF MayRepeat
<1> QED BY <1>2, <1>3, <1>4, <1>5

LEMMA FeeStep ==
    ASSUME "steady_fee" \in Discipline, SoundInv, [Next]_vars,
           NEW b \in blocks, MayRepeat(b)
    PROVE  ledger_fee'[b.asset] = ledger_fee[b.asset]
<1>1. ASSUME NEW l \in Ledger, LedgerChangesFee(l)
      PROVE  ledger_fee'[b.asset] = ledger_fee[b.asset]
    <2>1. ~Unanswered(l) /\ \E f : ledger_fee' = [ledger_fee EXCEPT ![l] = f]
        BY <1>1 DEF LedgerChangesFee
    <2>2. b.asset = l => Unanswered(l)
        <3>1. \A k \in Keys :
                  \/ k \in DOMAIN payments /\ PlanOf(k) = payments[k]
                  \/ k \in DOMAIN fund_withdrawal_plans /\ PlanOf(k) = fund_withdrawal_plans[k]
            BY DEF Keys, PlanOf
        <3> QED BY <3>1 DEF MayRepeat, Unanswered
    <2>3. b.asset \in Ledger /\ b.asset # l
        BY <2>1, <2>2 DEF SoundInv, TypeInv, LedgerType, Sent, AnyBlock
    <2> QED BY <2>1, <2>3 DEF SoundInv, TypeInv, LedgerType
<1>2. ASSUME NEW r \in Request, Administer(r) PROVE UNCHANGED ledger_fee
    BY <1>2 DEF Administer, UpdateCollateralAsset, UpdateAllowedDomains, UpdateAssetMetrics,
                UpdateAssetPrice, CancelFundWithdrawal, assetVars, ledger
<1>3. ASSUME NEW r \in Request, NEW c \in CallId, BeginCall(c, r) PROVE UNCHANGED ledger_fee
    BY <1>3 DEF BeginCall, BeginRegister, BeginRefresh, BeginOraclePrice, BeginPayment,
                WithdrawFund, ledger
<1>4. ASSUME NEW c \in CallId, Answered(c) PROVE UNCHANGED ledger_fee
    BY <1>4 DEF Answered, MetadataRead, FinishRegister, FinishRefresh, FinishOraclePrice,
                AnswerRefused, LedgerTransfers, TransferFails, BadFee,
                PaymentDone, WithdrawFundDone, ledger
<1>5. CASE \/ \E e \in Earnings : CreditFees(e)
           \/ \E x \in late : LateTransfer(x)
           \/ Upgrade
           \/ UNCHANGED vars
    BY <1>5 DEF CreditFees, LateTransfer, Upgrade, vars, assetVars, ledger
<1> QED BY <1>1, <1>2, <1>3, <1>4, <1>5 DEF Next

LEMMA SteadyStep ==
    ASSUME "steady_fee" \in Discipline, SoundInv, FeesSent, FeesSteady, TransfersGo, PlansGo,
           SentGoes, [Next]_vars
    PROVE  FeesSteady'
<1>1. ASSUME NEW b \in blocks, MayRepeat(b)' PROVE b.fee = ledger_fee'[b.asset]
    <2>1. MayRepeat(b)
        BY <1>1, RepeatGoes
    <2>2. ledger_fee'[b.asset] = ledger_fee[b.asset]
        BY <2>1, FeeStep
    <2> QED BY <2>1, <2>2 DEF FeesSteady
<1>2. ASSUME NEW b, Executed(b) PROVE b.fee = ledger_fee'[b.asset]
    <2>1. b.fee \in Fees /\ None \notin Fees
        BY <1>2, AssetsAssumption DEF Executed, Asked, Block, FeesSent
    <2> QED BY <1>2, <2>1 DEF Executed, FeeAccepted
<1>3. CASE UNCHANGED blocks
    BY <1>1, <1>3 DEF FeesSteady
<1>4. ASSUME NEW b, Executed(b) PROVE FeesSteady'
    <2>1. blocks' = blocks \cup {b}
        BY <1>4 DEF Executed
    <2> QED BY <1>1, <1>2, <1>4, <2>1 DEF FeesSteady
<1> QED BY <1>3, <1>4, SentStep

LEMMA AgreedStep ==
    ASSUME PaymentsRepeated, SoundInv, SoundInv', PaymentsAgreed, TransfersGo, PaymentsGo,
           SentGoes
    PROVE  PaymentsAgreed'
<1> USE DEF SoundInv
<1>1. \A p \in DOMAIN payments' : \E r \in Request :
          r.op = "pay" /\ r.id = p /\ r.asset_id = payments'[p].asset_id
    BY DEF PaymentsAgreed, PaymentsGo
<1>2. \A k \in Keys : k \in PaymentId => k \in DOMAIN payments /\ PlanOf(k) = payments[k]
    BY KeysType
<1>3. ASSUME NEW c \in CallId, Transferring(c)', NEW k, k = call'[c].key, k \in PaymentId
      PROVE  call'[c].asset_id = PlanOf(k)'.asset_id /\ call'[c].amount = 1
    <2>1. CASE Carried(c)
        <3>1. Transferring(c) /\ call[c].key = k /\ call'[c].asset_id = call[c].asset_id
              /\ call'[c].amount = call[c].amount
            BY <1>3, <2>1 DEF Carried, SameTransfer
        <3>2. k \in DOMAIN payments /\ PlanOf(k) = payments[k]
            BY <1>2, <1>3, <3>1, CallPlan
        <3>3. PlanOf(k)'.asset_id = payments[k].asset_id
            BY <3>2 DEF PaymentsGo, PlanOf
        <3> QED BY <1>3, <3>1, <3>2, <3>3 DEF PaymentsAgreed
    <2>2. ASSUME NEW r \in Request, Begun(c, r)
          PROVE  call'[c].asset_id = PlanOf(k)'.asset_id /\ call'[c].amount = 1
        <3>1. /\ r.op = "pay" /\ r.id = k /\ call'[c].amount = 1
              /\ call'[c].asset_id = r.asset_id
            BY <1>3, <2>2, AssetsAssumption DEF Begun
        <3>2. k \in Keys'
            BY <1>3 DEF CallsPlanned
        <3>3. k \in DOMAIN payments' /\ PlanOf(k)' = payments'[k]
            BY <1>3, <3>2, AssetsAssumption DEF Keys, PlanOf, TypeInv, PlansType
        <3> QED BY <1>1, <3>1, <3>3 DEF PaymentsRepeated
    <2> QED BY <1>3, <2>1, <2>2 DEF TransfersGo
<1>4. ASSUME NEW b \in Sent', b.key \in PaymentId
      PROVE  b.asset_id = PlanOf(b.key)'.asset_id /\ b.amount = 1
    <2>1. b.key \in Keys /\ b.asset_id = PlanOf(b.key).asset_id /\ b.amount = 1
        <3>1. CASE b \in Sent
            BY <1>4, <3>1 DEF PaymentsAgreed, SentPlanned
        <3>2. ASSUME NEW c \in CallId, Transferring(c), b = Block(call[c])
              PROVE  b.key \in Keys /\ b.asset_id = PlanOf(b.key).asset_id /\ b.amount = 1
            <4>1. /\ b.key = call[c].key /\ b.asset_id = call[c].asset_id
                  /\ b.amount = call[c].amount
                BY <3>2 DEF Block
            <4>2. call[c].key \in Keys
                BY <3>2, CallPlan
            <4> QED BY <1>4, <3>2, <4>1, <4>2 DEF PaymentsAgreed
        <3> QED BY <1>4, <3>1, <3>2 DEF SentGoes, Asked
    <2>2. b.key \in DOMAIN payments /\ PlanOf(b.key) = payments[b.key]
        BY <1>2, <1>4, <2>1
    <2>3. PlanOf(b.key)'.asset_id = payments[b.key].asset_id
        BY <2>2 DEF PaymentsGo, PlanOf
    <2> QED BY <2>1, <2>2, <2>3
<1>5. ASSUME NEW c \in CallId, Transferring(c)', call'[c].key \in PaymentId
      PROVE  call'[c].asset_id = PlanOf(call[c].key)'.asset_id /\ call'[c].amount = 1
    BY <1>3, <1>5
<1> QED BY <1>1, <1>4, <1>5 DEF PaymentsAgreed

(* A transfer the ledger executes again is the block it has. *)
LEMMA AgainSame ==
    ASSUME SoundInv, FeesSent, LedgersKept, PaymentsAgreed, FeesSteady,
           NEW b, Executed(b), NEW d \in blocks, b.key = d.key
    PROVE  b = d
<1> USE DEF SoundInv
<1>1. d \in Sent
    BY DEF Sent
<1>2. b \in late \/ Asked(b)
    BY DEF Executed
<1>3. b \in AnyBlock /\ d \in AnyBlock
    <2>1. Asked(b) => b \in AnyBlock
        BY CallIsTransfer, BlockType DEF Asked, TypeInv
    <2> QED BY <1>1, <1>2, <2>1 DEF TypeInv, LedgerType, Sent
<1>4. b.key \in Keys /\ PlannedBy(b, PlanOf(b.key)) /\ PlannedBy(d, PlanOf(b.key))
    <2>1. PlannedBy(d, PlanOf(b.key))
        BY <1>1 DEF SentPlanned
    <2>2. CASE b \in late
        BY <2>1, <2>2 DEF SentPlanned, Sent
    <2> QED BY <1>2, <2>1, <2>2, AskedPlanned
<1>5. b.key \in PaymentId \cup RequestId
    BY <1>4, KeysType
<1>6. d.stamp = b.stamp /\ d.asset_id = b.asset_id /\ d.amount = b.amount
    <2>1. CASE b.key \in RequestId
        BY <1>4, <2>1 DEF PlannedBy
    <2>2. CASE b.key \in PaymentId
        <3>1. d.asset_id = PlanOf(b.key).asset_id /\ d.amount = 1
            BY <1>1, <2>2 DEF PaymentsAgreed
        <3>2. b.asset_id = PlanOf(b.key).asset_id /\ b.amount = 1
            <4>1. CASE b \in late
                BY <2>2, <4>1 DEF PaymentsAgreed, Sent
            <4>2. CASE Asked(b)
                BY <2>2, <4>2 DEF PaymentsAgreed, Asked, Block
            <4> QED BY <1>2, <4>1, <4>2
        <3> QED BY <1>4, <3>1, <3>2 DEF PlannedBy
    <2> QED BY <1>5, <2>1, <2>2
<1>7. d.asset = b.asset
    <2>1. OnLedger(b.asset_id, b.asset)
        BY <1>2, AskedOn DEF OnLedger, Sent
    <2>2. OnLedger(b.asset_id, d.asset)
        BY <1>1, <1>6 DEF OnLedger
    <2>3. b.asset_id \in AssetId /\ b.asset \in Ledger /\ d.asset \in Ledger
        BY <1>3 DEF AnyBlock
    <2> QED BY <2>1, <2>2, <2>3 DEF LedgersKept
<1>8. d.fee = b.fee
    <2>1. MayRepeat(d)
        BY <1>2, <1>6 DEF MayRepeat, Asked, Block
    <2>2. d.fee = ledger_fee[b.asset]
        BY <1>7, <2>1 DEF FeesSteady
    <2>3. b.fee \in Fees /\ None \notin Fees
        BY <1>2, AssetsAssumption DEF FeesSent, Asked, Block
    <2> QED BY <2>2, <2>3 DEF Executed, FeeAccepted
<1> QED BY <1>3, <1>6, <1>7, <1>8 DEF AnyBlock

LEMMA OnceStep ==
    ASSUME SoundInv, FeesSent, LedgersKept, PaymentsAgreed, FeesSteady, PaidOnce,
           UNCHANGED blocks \/ \E b : Executed(b)
    PROVE  PaidOnce'
<1>1. CASE UNCHANGED blocks
    BY <1>1 DEF PaidOnce
<1>2. ASSUME NEW b, Executed(b) PROVE PaidOnce'
    <2>1. blocks' = blocks \cup {b}
        BY <1>2 DEF Executed
    <2>2. \A d \in blocks : b.key = d.key => b = d
        BY <1>2, AgainSame
    <2> QED BY <2>1, <2>2 DEF PaidOnce
<1> QED BY <1>1, <1>2

LEMMA PaidStep ==
    ASSUME {"one_per_asset", "same_terms", "settled_cancel", "steady_fee"} \subseteq Discipline,
           FeesPublished, PaymentsRepeated, IsFiniteSet(RequestId), PaidInv, [Next]_vars
    PROVE  PaidInv'
<1> USE DEF PaidInv
<1>1. SoundInv' /\ ConfigInv'
    BY SoundStep, ConfigStep
<1>2. TypeInv /\ TypeInv'
    BY <1>1 DEF SoundInv
<1>3. TransfersGo
    BY <1>2, TransferStep
<1>4. SentGoes /\ (UNCHANGED blocks \/ \E b : Executed(b))
    BY SentStep
<1>5. PlansGo /\ PaymentsGo
    BY PlansStep
<1>6. FeesCached' /\ AssetsStay
    BY AssetsStep
<1>7. FeesSent'
    BY <1>2, <1>3, <1>4, FeesSentStep
<1>8. LedgersKept'
    BY <1>2, <1>3, <1>4, <1>6, LedgersStep
<1>9. PaymentsAgreed'
    BY <1>1, <1>3, <1>4, <1>5, AgreedStep
<1>10. FeesSteady'
    BY <1>3, <1>4, <1>5, SteadyStep
<1>11. PaidOnce'
    BY <1>4, OnceStep
<1> QED BY <1>1, <1>6, <1>7, <1>8, <1>9, <1>10, <1>11

LEMMA PaidInit ==
    ASSUME IsFiniteSet(RequestId), Init
    PROVE  PaidInv
<1>1. SoundInv /\ ConfigInv
    BY SoundInit, ConfigInit
<1>2. /\ blocks = {} /\ late = {} /\ Sent = {} /\ \A c \in CallId : ~Transferring(c)
      /\ DOMAIN asset_metrics = {} /\ DOMAIN collateral_assets = {} /\ DOMAIN payments = {}
    BY DEF Init, AssetsInit, EmptyMap, Transferring, Sent
<1> QED BY <1>1, <1>2
        DEF PaidInv, FeesCached, FeesSent, LedgersKept, OnLedger, PaymentsAgreed, FeesSteady,
            PaidOnce

(* A payment or a fund withdrawal is made by one transfer at most, whatever is
   retried, cancelled and asked for again, in any order and after any loss,
   transfers executed late included: when one method at a time configures an
   asset, controllers repeat a request with its terms, publish the fee with
   the metrics and cancel no request that may be paid, users repeat a payment
   with its asset, and a ledger does not change its fee while a transfer it
   executed may be asked for again.
   (IcrcHandler::transfer, withdraw_collateral, withdraw_fund) *)
THEOREM PaidOnceHolds ==
    ASSUME {"one_per_asset", "same_terms", "settled_cancel", "steady_fee"} \subseteq Discipline,
           FeesPublished, PaymentsRepeated, IsFiniteSet(RequestId)
    PROVE  Spec => []PaidOnce
<1>1. Init => PaidInv
    BY PaidInit
<1>2. PaidInv /\ [Next]_vars => PaidInv'
    BY PaidStep
<1>3. PaidInv => PaidOnce
    BY DEF PaidInv
<1> QED BY <1>1, <1>2, <1>3, PTL DEF Spec

-----------------------------------------------------------------------------
(* What is paid is counted by blocks, what was taken by withdrawals: a paid
   withdrawal is one block. *)

Taken(r, a) ==
    /\ r \in DOMAIN fund_withdrawal_plans
    /\ fund_withdrawal_plans[r].asset_id = a
    /\ fund_withdrawal_plans[r].status # "Planned"

BlocksOf(r) == {b \in blocks : b.stamp = fund_withdrawal_plans[r].stamp}

Open(a) == {r \in RequestId : Taken(r, a) /\ BlocksOf(r) = {}}
Settled(a) == {r \in RequestId : Taken(r, a) /\ BlocksOf(r) # {}}
BlockOf == [r \in RequestId |-> CHOOSE b \in blocks : b.stamp = fund_withdrawal_plans[r].stamp]

PaidBlocks(a) == {b \in blocks : b.key \in RequestId /\ b.asset_id = a}
BlockAmount == [b \in blocks |-> b.amount]

LEMMA OutstandingIsSum ==
    ASSUME TypeInv, NEW a
    PROVE  Outstanding(a) = SumOver(TakenOf(a), Open(a))
<1> DEFINE f == TakenOf(a)
           S == Open(a)
           Fold(g) == g = [s \in SUBSET S |->
                              IF s = {} THEN 0
                              ELSE fund_withdrawal_plans[Pick(s)].amount + g[s \ {Pick(s)}]]
<1>1. \A r \in S : f[r] = fund_withdrawal_plans[r].amount
    BY DEF TakenOf, Open, Taken
<1>2. S = {r \in DOMAIN fund_withdrawal_plans :
             /\ fund_withdrawal_plans[r].asset_id = a
             /\ fund_withdrawal_plans[r].status # "Planned"
             /\ \A b \in blocks : b.stamp # fund_withdrawal_plans[r].stamp}
    BY DEF Open, Taken, BlocksOf, TypeInv, PlansType
<1> HIDE DEF f, S
<1>3. \A g : Fold(g) <=> IsFold(g, f, S)
    <2>1. \A s \in SUBSET S : s # {} => f[Pick(s)] = fund_withdrawal_plans[Pick(s)].amount
        BY <1>1, PickIn
    <2> QED BY <2>1 DEF IsFold
<1>4. (CHOOSE g : Fold(g)) = (CHOOSE g : IsFold(g, f, S))
    <2> HIDE DEF Fold
    <2> QED BY <1>3
<1>5. Outstanding(a) = (CHOOSE g : Fold(g))[S]
    BY <1>2 DEF Outstanding, MapThenSumSet, MapThenFoldSet, Pick
<1> QED BY <1>4, <1>5, SumIsFold DEF f, S

LEMMA PaidIsSum ==
    ASSUME NEW a
    PROVE  Paid(a) = SumOver(BlockAmount, PaidBlocks(a))
<1> DEFINE f == BlockAmount
           S == PaidBlocks(a)
           Fold(g) == g = [s \in SUBSET S |->
                              IF s = {} THEN 0 ELSE Pick(s).amount + g[s \ {Pick(s)}]]
<1>1. \A b \in S : f[b] = b.amount
    BY DEF BlockAmount, PaidBlocks
<1>2. S = {b \in blocks : b.key \in RequestId /\ b.asset_id = a}
    BY DEF PaidBlocks
<1> HIDE DEF f, S
<1>3. \A g : Fold(g) <=> IsFold(g, f, S)
    <2>1. \A s \in SUBSET S : s # {} => f[Pick(s)] = Pick(s).amount
        BY <1>1, PickIn
    <2> QED BY <2>1 DEF IsFold
<1>4. (CHOOSE g : Fold(g)) = (CHOOSE g : IsFold(g, f, S))
    <2> HIDE DEF Fold
    <2> QED BY <1>3
<1>5. Paid(a) = (CHOOSE g : Fold(g))[S]
    BY <1>2 DEF Paid, MapThenSumSet, MapThenFoldSet, Pick
<1> QED BY <1>4, <1>5, SumIsFold DEF f, S

(* A block with the stamp of a withdrawal is its transfer. *)
LEMMA SettledBlock ==
    ASSUME SoundInv, NEW r \in RequestId, r \in DOMAIN fund_withdrawal_plans,
           NEW b \in blocks, b.stamp = fund_withdrawal_plans[r].stamp
    PROVE  /\ b.key = r /\ b.asset_id = fund_withdrawal_plans[r].asset_id
           /\ b.amount = fund_withdrawal_plans[r].amount
<1> USE DEF SoundInv
<1>1. b.key \in Keys /\ PlannedBy(b, PlanOf(b.key))
    BY DEF SentPlanned, Sent
<1>2. r \in Keys /\ PlanOf(r) = fund_withdrawal_plans[r]
    BY AssetsAssumption DEF TypeInv, PlansType, Keys, PlanOf
<1>3. b.key = r
    BY <1>1, <1>2 DEF PlannedBy, StampsDistinct
<1> QED BY <1>1, <1>2, <1>3 DEF PlannedBy

LEMMA PaidRenames ==
    ASSUME PaidInv, NEW a \in AssetId
    PROVE  Renames(BlockOf, TakenOf(a), Settled(a), BlockAmount, PaidBlocks(a))
<1> USE DEF PaidInv, SoundInv
<1>1. ASSUME NEW r \in Settled(a)
      PROVE  /\ BlockOf[r] \in PaidBlocks(a) /\ BlockOf[r].key = r
             /\ BlockAmount[BlockOf[r]] = TakenOf(a)[r]
    <2> PICK b : b = BlockOf[r]
        OBVIOUS
    <2>1. /\ r \in RequestId /\ r \in DOMAIN fund_withdrawal_plans
          /\ fund_withdrawal_plans[r].asset_id = a
          /\ fund_withdrawal_plans[r].status # "Planned"
        BY DEF Settled, Taken
    <2>2. b \in blocks /\ b.stamp = fund_withdrawal_plans[r].stamp
        BY DEF BlockOf, Settled, BlocksOf
    <2>3. b.key = r /\ b.asset_id = a /\ b.amount = fund_withdrawal_plans[r].amount
        BY <2>1, <2>2, SettledBlock
    <2> QED BY <2>1, <2>2, <2>3 DEF PaidBlocks, BlockAmount, TakenOf
<1>2. ASSUME NEW b \in PaidBlocks(a)
      PROVE  \E r \in Settled(a) : BlockOf[r] = b
    <2>1. b \in blocks /\ b.key \in RequestId /\ b.asset_id = a
        BY DEF PaidBlocks
    <2>2. b.key \in Keys /\ PlannedBy(b, PlanOf(b.key))
        BY <2>1 DEF SentPlanned, Sent
    <2>3. b.key \in DOMAIN fund_withdrawal_plans
          /\ PlanOf(b.key) = fund_withdrawal_plans[b.key]
        BY <2>1, <2>2, KeysType
    <2>4. b.key \in Settled(a)
        BY <2>1, <2>2, <2>3 DEF PlannedBy, Settled, Taken, BlocksOf
    <2>5. BlockOf[b.key] \in blocks /\ BlockOf[b.key].key = b.key
        BY <1>1, <2>4 DEF PaidBlocks
    <2>6. BlockOf[b.key] = b
        BY <2>1, <2>5 DEF PaidOnce
    <2> QED BY <2>4, <2>6
<1> QED BY <1>1, <1>2 DEF Renames

LEMMA WholeGives ==
    ASSUME PaidInv, IsFiniteSet(RequestId)
    PROVE  FundsWhole
<1> USE DEF PaidInv, SoundInv
<1> SUFFICES ASSUME NEW a \in AssetId
             PROVE  MapThenSumSet(LAMBDA f : funds[f][a], FundType) + Outstanding(a) + Paid(a)
                        = MapThenSumSet(LAMBDA f : Opening[f][a], FundType)
                              + IF a = Internal THEN earned ELSE 0
    BY DEF FundsWhole
<1> DEFINE t == TakenOf(a)
           O == Open(a)
           S == Settled(a)
           h == SumOver(FundsOf(a), FundType)
           o == SumOver(OpeningOf(a), FundType)
<1>1. /\ MapThenSumSet(LAMBDA f : funds[f][a], FundType) = h
      /\ MapThenSumSet(LAMBDA f : Opening[f][a], FundType) = o
    BY FundsIsSum DEF FundsOf, OpeningOf
<1>2. h + SumOver(t, RequestId) = o + IF a = Internal THEN earned ELSE 0
    BY DEF BooksWhole
<1>3. \A r \in RequestId : t[r] \in Int
    BY DEF TakenOf, TypeInv, PlansType, FundPlan
<1>4. /\ O \cup S \subseteq RequestId /\ O \cap S = {}
      /\ \A r \in RequestId \ (O \cup S) : t[r] = 0
    BY DEF Open, Settled, Taken, TakenOf
<1>5. Outstanding(a) = SumOver(t, O)
    BY OutstandingIsSum
<1>6. Paid(a) = SumOver(t, S)
    <2>1. Renames(BlockOf, t, S, BlockAmount, PaidBlocks(a))
        BY PaidRenames
    <2>2. IsFiniteSet(S) /\ \A r \in S : t[r] \in Int
        BY <1>3, <1>4, FS_Subset
    <2> HIDE DEF t, S
    <2>3. SumOver(t, S) = SumOver(BlockAmount, PaidBlocks(a))
        BY <2>1, <2>2, SumRenamed
    <2> QED BY <2>3, PaidIsSum
<1>7. h \in Int
    <2>1. \A g \in FundType : FundsOf(a)[g] \in Int
        BY DEF FundsOf, TypeInv, BooksType
    <2> QED BY <2>1, FundsFinite, SumType
<1> HIDE DEF t, O, S, h, o
<1>8. SumOver(t, RequestId) = SumOver(t, O) + SumOver(t, S)
    <2>1. SumOver(t, O \cup S) = SumOver(t, RequestId)
        BY <1>3, <1>4, SumFilter
    <2>2. IsFiniteSet(O \cup S) /\ \A r \in O \cup S : t[r] \in Int
        BY <1>3, <1>4, FS_Subset
    <2> PICK T : T = O \cup S
        OBVIOUS
    <2>3. \A r \in O \cup S \cup T : Term(t, T, r) = Term(t, O, r) + Term(t, S, r)
        BY <1>4, <2>2 DEF Term
    <2>4. /\ IsFiniteSet(O) /\ IsFiniteSet(S) /\ IsFiniteSet(T)
          /\ \A r \in O : t[r] \in Int
          /\ \A r \in S : t[r] \in Int
          /\ \A r \in T : t[r] \in Int
        BY <1>4, <2>2, FS_Subset
    <2>5. SumOver(t, T) = SumOver(t, O) + SumOver(t, S)
        BY ONLY <2>3, <2>4, SumSplit
    <2> QED BY <2>1, <2>5
<1>9. SumOver(t, O) \in Int /\ SumOver(t, S) \in Int
    <2>1. IsFiniteSet(O) /\ IsFiniteSet(S)
        BY <1>4, FS_Subset
    <2> QED BY <1>3, <1>4, <2>1, SumType
<1>10. h + SumOver(t, O) + SumOver(t, S) = h + SumOver(t, RequestId)
    BY <1>7, <1>8, <1>9
<1> QED BY <1>1, <1>2, <1>5, <1>6, <1>10

(* What settlements credited to the funds is in them, with a withdrawal that
   is not paid, or was paid by a ledger, for any number of withdrawals and
   calls, whatever is lost, executed late, cancelled or cut off by upgrades:
   under the same assumptions as PaidOnceHolds.  Of those, settled_cancel is
   the one the code leaves to the controllers: a request that is cancelled
   while a ledger may still pay it is refunded all the same.
   (withdraw_fund, cancel_fund_withdrawal) *)
THEOREM FundsSoundHolds ==
    ASSUME {"one_per_asset", "same_terms", "settled_cancel", "steady_fee"} \subseteq Discipline,
           FeesPublished, PaymentsRepeated, IsFiniteSet(RequestId)
    PROVE  Spec => []FundsSound
<1>1. Init => PaidInv
    BY PaidInit
<1>2. PaidInv /\ [Next]_vars => PaidInv'
    BY PaidStep
<1>3. PaidInv => FundsSound
    BY TypeGives, WholeGives DEF PaidInv, SoundInv, FundsSound
<1> QED BY <1>1, <1>2, <1>3, PTL DEF Spec
=============================================================================
