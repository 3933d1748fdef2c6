------------------------------- MODULE Assets -------------------------------
(***************************************************************************)
(* The collateral assets of the clearing canister: their configuration and *)
(* metrics, the controller and oracle methods of api/admin/api.rs that set *)
(* them, and the ICRC handler's transfer, which reads the fee to send from *)
(* the metrics and corrects it there.                                      *)
(*                                                                         *)
(* A configuration is its ledger (or Evm), its domains and its oracle.     *)
(* Symbol, decimals and haircut are left out: nothing here depends on them.*)
(* A payment is the transfer of a withdrawal plan, one token; reserving    *)
(* and refunding it are Collateral's.                                      *)
(***************************************************************************)
EXTENDS Integers, FiniteSets, FiniteSetsExt, Functions

CONSTANTS
    AssetId,
    Internal,     \* config.internal_ledger: the asset id of vUSD
    Ledger,
    InternalLedger,
    Evm,          \* any asset that is not an ICRC ledger
    Domain,
    Price,        \* prices that may be published
    Fees,         \* fees a ledger may charge
    PaymentId,
    RequestId,    \* of fund withdrawals, see Funds
    CallId,       \* methods suspended at once (bound)
    None,         \* no fee, no oracle, an idle call
    Request,      \* the calls that may be made
    MaxPlans,     \* bound on the plans ever created
    MaxPayments,  \* ... of which users' are among the first so many (bound)
    Discipline,   \* what is assumed of controllers, see Funds
    Faults        \* subset of {"refused", "lost", "upgrade", "fee_change"}

Terms == [asset : Ledger \cup {Evm}, domains : SUBSET Domain, oracle : BOOLEAN]

Metrics == [price : Nat, fee : Fees \cup {None}]

(* The methods and their arguments. *)
AssetRequest ==
    [op : {"update", "register"}, asset_id : AssetId, terms : Terms]
        \cup [op : {"refresh"}, asset_id : AssetId]
        \cup [op : {"domains"}, asset_id : AssetId, domains : SUBSET Domain]
        \cup [op : {"metrics"}, asset_id : AssetId, metrics : Metrics]
        \cup [op : {"price", "oracle"}, asset_id : AssetId, price : Price]
        \cup [op : {"pay"}, id : PaymentId, asset_id : AssetId]

ASSUME AssetsAssumption ==
    /\ Internal \in AssetId
    /\ InternalLedger \in Ledger
    /\ Evm \notin Ledger
    /\ Price \subseteq Nat /\ Fees \subseteq Nat /\ Fees # {} /\ None \notin Fees
    /\ PaymentId \cap RequestId = {}
    /\ MaxPlans \in Nat /\ MaxPayments \in Nat
    /\ Faults \subseteq {"refused", "lost", "upgrade", "fee_change"}

VARIABLES
    collateral_assets,   \* COLLATERAL_ASSETS: the terms, by asset id
    asset_metrics,       \* ASSET_METRICS: price and latest_transfer_fee
    payments,            \* the withdrawal plans of users, by PaymentId
    clock,               \* plans created: idempotency_ns, which the ledger sees
    call,                \* methods suspended at an await
    ledger_fee,          \* the ledgers: what they charge
    blocks,              \* ... the transfers they executed
    late                 \* ... and those nobody waits for, which they may still execute

configuration == <<collateral_assets, asset_metrics>>
ledger == <<ledger_fee, blocks, late>>
assetVars == <<configuration, payments, clock, call, ledger>>

EmptyMap == [x \in {} |-> 0]
Put(map, k, v) == [x \in DOMAIN map \cup {k} |-> IF x = k THEN v ELSE map[x]]

Suspend(c, k) == call[c] = None /\ call' = [call EXCEPT ![c] = k]
Return(c) == call' = [call EXCEPT ![c] = None]

(* one_per_asset: while a registration or refresh of an asset is under way,
   its configuration is left alone. *)
AssetFree(a) ==
    "one_per_asset" \in Discipline =>
        \A c \in CallId :
            call[c] # None /\ call[c].op \in {"register", "refresh"} => call[c].asset_id # a

AssetsInit ==
    /\ collateral_assets = EmptyMap
    /\ asset_metrics = EmptyMap
    /\ payments = EmptyMap
    /\ clock = 0
    /\ call = [c \in CallId |-> None]
    /\ ledger_fee \in [Ledger -> {Min(Fees)}]
    /\ blocks = {} /\ late = {}

-----------------------------------------------------------------------------
(* Configuration *)

(* update_collateral_asset: any id, but never an ICRC asset. *)
UpdateCollateralAsset(r) ==
    /\ r.terms.asset = Evm
    /\ AssetFree(r.asset_id)
    /\ collateral_assets' = Put(collateral_assets, r.asset_id, r.terms)
    /\ UNCHANGED <<asset_metrics, payments, clock, call, ledger>>

(* update_collateral_allowed_domains *)
UpdateAllowedDomains(r) ==
    /\ r.domains # {}
    /\ r.asset_id \in DOMAIN collateral_assets
    /\ AssetFree(r.asset_id)
    /\ collateral_assets' = [collateral_assets EXCEPT ![r.asset_id].domains = r.domains]
    /\ UNCHANGED <<asset_metrics, payments, clock, call, ledger>>

(* update_asset_metrics *)
UpdateAssetMetrics(r) ==
    /\ asset_metrics' = Put(asset_metrics, r.asset_id, r.metrics)
    /\ UNCHANGED <<collateral_assets, payments, clock, call, ledger>>

(* register_icrc_asset up to get_metadata. *)
BeginRegister(c, r) ==
    /\ r.terms.domains # {}
    /\ r.terms.asset \in Ledger \ {InternalLedger}
    /\ r.asset_id \notin DOMAIN collateral_assets \cup {Internal}
    /\ AssetFree(r.asset_id)
    /\ Suspend(c, [op |-> "register", asset_id |-> r.asset_id, terms |-> r.terms, fee |-> None])
    /\ UNCHANGED <<configuration, payments, clock, ledger>>

(* refresh_icrc_asset_metadata up to get_metadata: it keeps a copy. *)
BeginRefresh(c, r) ==
    /\ r.asset_id \in DOMAIN collateral_assets
    /\ collateral_assets[r.asset_id].asset \in Ledger
    /\ AssetFree(r.asset_id)
    /\ Suspend(c, [op |-> "refresh", asset_id |-> r.asset_id,
                   terms |-> collateral_assets[r.asset_id], fee |-> None])
    /\ UNCHANGED <<configuration, payments, clock, ledger>>

(* get_metadata: the last of its three calls asks for the fee. *)
MetadataRead(c) ==
    /\ call[c] # None /\ call[c].op \in {"register", "refresh"} /\ call[c].fee = None
    /\ call' = [call EXCEPT ![c].fee = ledger_fee[call[c].terms.asset]]
    /\ UNCHANGED <<configuration, payments, clock, ledger>>

RegisteredMetrics_NewPrice(a, fee) == [price |-> 0, fee |-> fee]

(* The price current when the answer arrives is kept. *)
RegisteredMetrics(a, fee) ==
    [price |-> IF a \in DOMAIN asset_metrics THEN asset_metrics[a].price ELSE 0, fee |-> fee]

(* The answer: whether the id is taken is not asked again. *)
FinishRegister(c) ==
    /\ call[c] # None /\ call[c].op = "register" /\ call[c].fee # None
    /\ collateral_assets' = Put(collateral_assets, call[c].asset_id, call[c].terms)
    /\ asset_metrics' = Put(asset_metrics, call[c].asset_id,
                            RegisteredMetrics(call[c].asset_id, call[c].fee))
    /\ Return(c)
    /\ UNCHANGED <<payments, clock, ledger>>

(* set_fee of a cached entry; without one there is nothing to set. *)
UpdatedFee(a, fee) ==
    IF a \in DOMAIN asset_metrics
    THEN [asset_metrics EXCEPT ![a].fee = fee] ELSE asset_metrics

(* The answer: the copy is written back, the fee set in place. *)
FinishRefresh(c) ==
    /\ call[c] # None /\ call[c].op = "refresh" /\ call[c].fee # None
    /\ collateral_assets' = Put(collateral_assets, call[c].asset_id, call[c].terms)
    /\ asset_metrics' = UpdatedFee(call[c].asset_id, call[c].fee)
    /\ Return(c)
    /\ UNCHANGED <<payments, clock, ledger>>

(* A ledger or the registry does not answer, or the registry refuses. *)
AnswerRefused(c) ==
    /\ call[c] # None /\ call[c].op \in {"register", "refresh", "price"}
    /\ Return(c)
    /\ UNCHANGED <<configuration, payments, clock, ledger>>

-----------------------------------------------------------------------------
(* update_asset_price: at once for a controller, after the registry's
   authorisation for an oracle. *)

Priced(r) == [asset_metrics EXCEPT ![r.asset_id].price = r.price]

UpdateAssetPrice(r) ==
    /\ r.asset_id \in DOMAIN collateral_assets \cap DOMAIN asset_metrics
    /\ asset_metrics' = Priced(r)
    /\ UNCHANGED <<collateral_assets, payments, clock, call, ledger>>

BeginOraclePrice(c, r) ==
    /\ r.asset_id \in DOMAIN collateral_assets
    /\ collateral_assets[r.asset_id].oracle
    /\ Suspend(c, [op |-> "price", asset_id |-> r.asset_id, price |-> r.price])
    /\ UNCHANGED <<configuration, payments, clock, ledger>>

FinishOraclePrice(c) ==
    /\ call[c] # None /\ call[c].op = "price"
    /\ call[c].asset_id \in DOMAIN asset_metrics
    /\ asset_metrics' = Priced(call[c])
    /\ Return(c)
    /\ UNCHANGED <<collateral_assets, payments, clock, ledger>>
-----------------------------------------------------------------------------
(* IcrcHandler::transfer.  A transfer is suspended twice at most: with the
   cached fee, and with the fee the ledger says it expects. *)

Transferring(c) == call[c] # None /\ call[c].op = "transfer"

CachedFee(a) == IF a \in DOMAIN asset_metrics THEN asset_metrics[a].fee ELSE None

(* The method keeps its copy of the plan the transfer is for. *)
Transfer(key, a, asset, amount, plan) ==
    [op |-> "transfer", key |-> key, asset_id |-> a, asset |-> asset, amount |-> amount,
     plan |-> plan, fee |-> CachedFee(a), attempt |-> 1, answer |-> "none"]

(* What makes two transfers one to the ledger: all their arguments. *)
Block(k) == [key |-> k.key, asset_id |-> k.asset_id, asset |-> k.asset, amount |-> k.amount,
             stamp |-> k.plan.stamp, fee |-> k.fee]

(* The ledger checks the fee before it looks for a duplicate. *)
FeeAccepted(k) == k.fee \in {None, ledger_fee[k.asset]}

LedgerTransfers(c) ==
    /\ Transferring(c) /\ call[c].answer = "none"
    /\ IF FeeAccepted(call[c])
       THEN /\ blocks' = blocks \cup {Block(call[c])}
            /\ call' = [call EXCEPT ![c].answer = "block"]
       ELSE /\ call' = [call EXCEPT ![c].answer = "bad_fee"]
            /\ UNCHANGED blocks
    /\ UNCHANGED <<configuration, payments, clock, ledger_fee, late>>

(* The ledger refuses for another reason, or the bounded wait ends before its
   answer: the transfer was executed, or may still be.  The plan stays as it
   is, to be retried. *)
TransferFails(c) ==
    /\ Transferring(c)
    /\ \/ "refused" \in Faults /\ call[c].answer = "none" /\ UNCHANGED late
       \/ "lost" \in Faults /\ call[c].answer = "none" /\ late' = late \cup {Block(call[c])}
       \/ "lost" \in Faults /\ call[c].answer = "block" /\ UNCHANGED late
    /\ Return(c)
    /\ UNCHANGED <<configuration, payments, clock, ledger_fee, blocks>>

(* The ledger works off a transfer nobody waits for, or drops it. *)
LateTransfer(b) ==
    /\ b \in late
    /\ late' = late \ {b}
    /\ \/ FeeAccepted(b) /\ blocks' = blocks \cup {b}
       \/ UNCHANGED blocks
    /\ UNCHANGED <<configuration, payments, clock, call, ledger_fee>>

(* run_cached_fee_transfer after BadFee: the cache is refreshed; the second
   attempt sends what the ledger expects, and is the last. *)
BadFee(c) ==
    /\ Transferring(c) /\ call[c].answer = "bad_fee"
    /\ asset_metrics' = UpdatedFee(call[c].asset_id, ledger_fee[call[c].asset])
    /\ call' = IF call[c].attempt = 1
               THEN [call EXCEPT ![c].attempt = 2, ![c].answer = "none",
                                 ![c].fee = ledger_fee[call[c].asset]]
               ELSE [call EXCEPT ![c] = None]
    /\ UNCHANGED <<collateral_assets, payments, clock, ledger>>

-----------------------------------------------------------------------------
(* Payments: withdraw_collateral from its plan on. *)

PaymentPlan_Now(r) == [asset_id |-> r.asset_id, stamp |-> clock + 1, status |-> "Executing"]

(* WithdrawalPlan::get_or_create: the time of a plan's first call, its stamp,
   is sent with every one. *)
PaymentPlan(r) ==
    IF r.id \in DOMAIN payments THEN payments[r.id]
    ELSE [asset_id |-> r.asset_id, stamp |-> clock + 1, status |-> "Executing"]

BeginPayment(c, r) ==
    LET plan == PaymentPlan(r) IN
    /\ r.asset_id \in DOMAIN collateral_assets \cap DOMAIN asset_metrics
    /\ collateral_assets[r.asset_id].asset \in Ledger
    /\ plan.status # "Finalised"
    /\ r.id \in DOMAIN payments \/ clock < MaxPayments
    /\ payments' = Put(payments, r.id, plan)
    /\ clock' = IF plan.stamp > clock THEN plan.stamp ELSE clock
    /\ Suspend(c, Transfer(r.id, r.asset_id, collateral_assets[r.asset_id].asset, 1, plan))
    /\ UNCHANGED <<configuration, ledger>>

PaymentDone(c) ==
    /\ Transferring(c) /\ call[c].answer = "block" /\ call[c].key \in PaymentId
    /\ payments' = Put(payments, call[c].key, [call[c].plan EXCEPT !.status = "Finalised"])
    /\ Return(c)
    /\ UNCHANGED <<configuration, clock, ledger>>
=============================================================================
