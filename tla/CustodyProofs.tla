---------------------------- MODULE CustodyProofs ----------------------------
(***************************************************************************)
(* Theorems about Collateral, for any users, ids, amounts, fees and        *)
(* faults.  Then: Collateral implements CustodyPromise, and custody covers *)
(* the balances, when the ledger answers withdrawals and the clients keep  *)
(* to the discipline below.  Whatever they do, margin stays covered: that  *)
(* is proved last.                                                         *)
(***************************************************************************)
EXTENDS Collateral, SumProofs

(* What a suspended method's local record always is: an Executing plan of
   the right kind of id, and for a withdrawal the amount to send. *)
CallOK ==
    \A c \in CallId : call[c] # None =>
        /\ call[c].plan.status = "Executing"
        /\ call[c].op = "deposit" => call[c].id \in DepositId
        /\ call[c].op = "withdrawal" =>
              call[c].id \in WithdrawalId /\ call[c].plan.reserved_amount \in Nat

TypeInv == TypeOK /\ CallOK

(* The ledger received a well-formed request from every suspended call. *)
LEMMA RequestType ==
    ASSUME TypeInv, NEW c \in CallId, call[c] # None
    PROVE  RequestOf(call[c]) \in Request
<1>1. call[c] \in Call
    BY DEF TypeInv, TypeOK
<1>2. CASE call[c].op = "deposit"
    BY <1>1, <1>2 DEF RequestOf, Request, Call, Terms, Plan
<1>3. CASE call[c].op = "withdrawal"
    BY <1>1, <1>3 DEF RequestOf, Request, Call, Terms, Plan, TypeInv, CallOK
<1> QED BY <1>1, <1>2, <1>3 DEF Call

(* Assigning one entry of a two-level table keeps the table's type. *)
LEMMA UpdateType ==
    ASSUME NEW S, NEW T, NEW R, NEW f \in [S -> [T -> R]], NEW s \in S, NEW t \in T, NEW x \in R
    PROVE  [f EXCEPT ![s][t] = x] \in [S -> [T -> R]]
OBVIOUS

(* A transfer of an accepted request leaves no account negative, and is
   recorded. *)
LEMMA TransferType ==
    ASSUME TypeOK, NEW r \in Request, Accepts(r), Transfer(r)
    PROVE  /\ wallet' \in [User -> [Asset -> Nat]]
           /\ custody' \in [User -> [Asset -> Nat]]
           /\ blocks' \subseteq Request
           /\ blocks \subseteq blocks'
           /\ r \in blocks'
<1>1. CASE r \in blocks
    BY <1>1 DEF Transfer, ledger, TypeOK
<1>2. CASE r \notin blocks
    <2>1. Funds(r) >= r.amount + Fee
        BY <1>2 DEF Accepts
    <2>2. /\ r.user \in User /\ r.asset \in Asset /\ r.amount \in Nat /\ Fee \in Nat
          /\ r.op \in {"deposit", "withdrawal"}
        BY CollateralAssumption DEF Request
    <2>3. blocks' = blocks \cup {r}
        BY <1>2 DEF Transfer
    <2>4. /\ wallet \in [User -> [Asset -> Nat]] /\ wallet[r.user][r.asset] \in Nat
          /\ custody \in [User -> [Asset -> Nat]] /\ custody[r.user][r.asset] \in Nat
        BY <2>2 DEF TypeOK
    <2>5. CASE r.op = "deposit"
        <3> DEFINE x == wallet[r.user][r.asset] - r.amount - Fee
                   y == custody[r.user][r.asset] + r.amount
        <3>1. x \in Nat /\ y \in Nat
            BY <2>1, <2>2, <2>4, <2>5 DEF Funds
        <3>2. /\ wallet' = [wallet EXCEPT ![r.user][r.asset] = x]
              /\ custody' = [custody EXCEPT ![r.user][r.asset] = y]
            BY <1>2, <2>5 DEF Transfer
        <3> QED BY <2>2, <2>3, <2>4, <3>1, <3>2, UpdateType DEF TypeOK
    <2>6. CASE r.op = "withdrawal"
        <3> DEFINE x == wallet[r.user][r.asset] + r.amount
                   y == custody[r.user][r.asset] - r.amount - Fee
        <3>1. x \in Nat /\ y \in Nat
            BY <2>1, <2>2, <2>4, <2>6 DEF Funds
        <3>2. /\ wallet' = [wallet EXCEPT ![r.user][r.asset] = x]
              /\ custody' = [custody EXCEPT ![r.user][r.asset] = y]
            BY <1>2, <2>6 DEF Transfer
        <3> QED BY <2>2, <2>3, <2>4, <3>1, <3>2, UpdateType DEF TypeOK
    <2> QED BY <2>2, <2>5, <2>6
<1> QED BY <1>1, <1>2

(* get_or_create returns a plan. *)
LEMMA GetOrCreateType ==
    ASSUME NEW p \in Plan \cup {None}, NEW a \in Asset, clock \in Nat
    PROVE  GetOrCreate(p, a) \in Plan
BY DEF GetOrCreate, NewPlan, Plan, PlanStatus

(* saturating_sub never goes below zero. *)
LEMMA LessType == ASSUME NEW x \in Nat, NEW y \in Nat PROVE Less(x, y) \in Nat
BY DEF Less

(* set_balance writes one entry of the balances. *)
LEMMA SetBalanceType ==
    ASSUME TypeOK, NEW u \in User, NEW t \in Terms, NEW x \in Nat,
           SetBalance(u, t.domain, t.asset, x)
    PROVE  balances' \in [User -> [Domain -> [Asset -> Nat]]]
BY DEF SetBalance, TypeOK, Terms

-----------------------------------------------------------------------------
(* Every action preserves the types and the local records. *)

(* deposit_collateral, up to its await. *)
LEMMA BeginDepositType ==
    ASSUME TypeInv, NEW c \in CallId, NEW u \in User, NEW id \in DepositId,
           NEW t \in Intent[id], BeginDeposit(c, u, id, t)
    PROVE  TypeInv'
<1> DEFINE plan == GetOrCreate(deposit_plans[u][id], t.asset)
           executing == [plan EXCEPT !.status = "Executing"]
           new == [op |-> "deposit", user |-> u, id |-> id, terms |-> t,
                   plan |-> executing, stage |-> "sent"]
<1>1. t \in Terms
    BY CollateralAssumption
<1>2. plan \in Plan
    <2>1. deposit_plans[u][id] \in Plan \cup {None} /\ clock \in Nat /\ t.asset \in Asset
        BY <1>1 DEF TypeInv, TypeOK, Terms
    <2> QED BY <2>1, GetOrCreateType
<1>3. executing \in Plan /\ executing.status = "Executing"
    BY <1>2 DEF Plan, PlanStatus
<1>4. new \in Call
    BY <1>1, <1>3 DEF Call
<1>5. /\ deposit_plans' = [deposit_plans EXCEPT ![u][id] = executing]
      /\ call' = [call EXCEPT ![c] = new]
      /\ UNCHANGED <<withdrawal_plans, balances, reserved_margin, accounts, ledger, late, clock>>
    BY DEF BeginDeposit, Suspend
<1>6. deposit_plans' \in [User -> [DepositId -> Plan \cup {None}]]
    BY <1>3, <1>5, UpdateType DEF TypeInv, TypeOK
<1>7. call' \in [CallId -> Call \cup {None}]
    BY <1>4, <1>5 DEF TypeInv, TypeOK
<1>8. TypeOK'
    BY <1>5, <1>6, <1>7 DEF TypeInv, TypeOK, ledger
<1>9. CallOK'
    BY <1>3, <1>5 DEF TypeInv, CallOK, TypeOK
<1> QED BY <1>8, <1>9 DEF TypeInv

(* withdraw_collateral, up to its await. *)
LEMMA BeginWithdrawalType ==
    ASSUME TypeInv, NEW c \in CallId, NEW u \in User, NEW id \in WithdrawalId,
           NEW t \in Intent[id], BeginWithdrawal(c, u, id, t)
    PROVE  TypeInv'
<1> DEFINE plan == GetOrCreate(withdrawal_plans[u][id], t.asset)
           amount == IF plan.reserved_amount = None THEN t.amount ELSE plan.reserved_amount
           executing == [plan EXCEPT !.status = "Executing", !.reserved_amount = amount]
           new == [op |-> "withdrawal", user |-> u, id |-> id, terms |-> t,
                   plan |-> executing, stage |-> "sent"]
<1>1. t \in Terms
    BY CollateralAssumption
<1>2. plan \in Plan
    <2>1. withdrawal_plans[u][id] \in Plan \cup {None} /\ clock \in Nat /\ t.asset \in Asset
        BY <1>1 DEF TypeInv, TypeOK, Terms
    <2> QED BY <2>1, GetOrCreateType
<1>3. amount \in Nat
    BY <1>1, <1>2 DEF Plan, Terms
<1>4. /\ executing \in Plan /\ executing.status = "Executing"
      /\ executing.reserved_amount \in Nat
    BY <1>2, <1>3 DEF Plan, PlanStatus
<1>5. new \in Call
    BY <1>1, <1>4 DEF Call
<1>6. /\ withdrawal_plans' = [withdrawal_plans EXCEPT ![u][id] = executing]
      /\ call' = [call EXCEPT ![c] = new]
      /\ UNCHANGED <<deposit_plans, reserved_margin, accounts, ledger, late, clock>>
    <2> HIDE DEF plan
    <2>1. /\ withdrawal_plans' = [withdrawal_plans EXCEPT ![u][id] =
                 [plan EXCEPT !.status = "Executing",
                              !.reserved_amount = IF @ = None THEN t.amount ELSE @]]
          /\ call' = [call EXCEPT ![c] = [op |-> "withdrawal", user |-> u, id |-> id,
                 terms |-> t, stage |-> "sent",
                 plan |-> [plan EXCEPT !.status = "Executing",
                              !.reserved_amount = IF @ = None THEN t.amount ELSE @]]]
          /\ UNCHANGED <<deposit_plans, reserved_margin, accounts, ledger, late, clock>>
        BY DEF BeginWithdrawal, Suspend, plan
    <2>2. [plan EXCEPT !.status = "Executing",
                       !.reserved_amount = IF @ = None THEN t.amount ELSE @] = executing
        BY <1>2 DEF Plan
    <2> QED BY <2>1, <2>2
<1>7. balances' \in [User -> [Domain -> [Asset -> Nat]]]
    <2>1. CASE UNCHANGED balances
        BY <2>1 DEF TypeInv, TypeOK
    <2>2. CASE SetBalance(u, t.domain, t.asset, Less(balances[u][t.domain][t.asset], t.amount))
        <3>1. balances[u][t.domain][t.asset] \in Nat /\ t.amount \in Nat
            BY <1>1 DEF TypeInv, TypeOK, Terms
        <3>2. Less(balances[u][t.domain][t.asset], t.amount) \in Nat
            BY <3>1, LessType
        <3> QED BY <1>1, <2>2, <3>2, SetBalanceType DEF TypeInv
    <2> QED BY <2>1, <2>2 DEF BeginWithdrawal
<1> HIDE DEF executing
<1>8. withdrawal_plans' \in [User -> [WithdrawalId -> Plan \cup {None}]]
    BY <1>4, <1>6, UpdateType DEF TypeInv, TypeOK
<1>9. call' \in [CallId -> Call \cup {None}]
    BY <1>5, <1>6 DEF TypeInv, TypeOK
<1>10. TypeOK'
    BY <1>6, <1>7, <1>8, <1>9 DEF TypeInv, TypeOK, ledger
<1>11. CallOK'
    BY <1>4, <1>6 DEF TypeInv, CallOK, TypeOK
<1> QED BY <1>10, <1>11 DEF TypeInv

(* The steps after the await take the plan from the local record. *)
LEMMA ReturnType ==
    ASSUME TypeInv, NEW c \in CallId,
           \/ DepositSettled(c) \/ DepositFailed(c) \/ WithdrawalSettled(c) \/ WithdrawalFailed(c)
    PROVE  TypeInv'
<1> DEFINE k == call[c]
<1>1. k \in Call /\ k # None
    BY DEF TypeInv, TypeOK, DepositSettled, DepositFailed, WithdrawalSettled, WithdrawalFailed
<1>2. /\ k.user \in User /\ k.terms \in Terms /\ k.plan \in Plan /\ k.terms.amount \in Nat
      /\ balances[k.user][k.terms.domain][k.terms.asset] \in Nat
    BY <1>1 DEF Call, Terms, TypeInv, TypeOK
<1>3. call' = [call EXCEPT ![c] = None]
    BY DEF DepositSettled, DepositFailed, WithdrawalSettled, WithdrawalFailed, Return
<1>4. call' \in [CallId -> Call \cup {None}] /\ CallOK'
    BY <1>3 DEF TypeInv, TypeOK, CallOK
<1>5. CASE DepositSettled(c)
    <2> DEFINE final == [k.plan EXCEPT !.status = "Finalised"]
               x == balances[k.user][k.terms.domain][k.terms.asset] + k.terms.amount
    <2>1. final \in Plan /\ x \in Nat /\ k.id \in DepositId
        <3>1. k.id \in DepositId
            BY <1>1, <1>5 DEF TypeInv, CallOK, DepositSettled
        <3>2. final \in Plan
            BY <1>2 DEF Plan, PlanStatus
        <3>3. x \in Nat
            BY <1>2
        <3> QED BY <3>1, <3>2, <3>3
    <2>2. /\ deposit_plans' = [deposit_plans EXCEPT ![k.user][k.id] = final]
          /\ SetBalance(k.user, k.terms.domain, k.terms.asset, x)
          /\ accounts' = accounts \cup {k.user}
          /\ UNCHANGED <<withdrawal_plans, reserved_margin, ledger, late, clock>>
        BY <1>5 DEF DepositSettled
    <2> HIDE DEF x, final, k
    <2>3. deposit_plans' \in [User -> [DepositId -> Plan \cup {None}]]
        BY <1>2, <2>1, <2>2, UpdateType DEF TypeInv, TypeOK
    <2>4. balances' \in [User -> [Domain -> [Asset -> Nat]]]
        BY <1>2, <2>1, <2>2, SetBalanceType DEF TypeInv
    <2>5. TypeOK'
        BY <1>2, <1>4, <2>2, <2>3, <2>4 DEF TypeInv, TypeOK, ledger
    <2> QED BY <1>4, <2>5 DEF TypeInv
<1>6. CASE DepositFailed(c)
    <2>1. /\ k.id \in DepositId
          /\ deposit_plans' = [deposit_plans EXCEPT ![k.user][k.id] = k.plan]
          /\ UNCHANGED <<withdrawal_plans, balances, reserved_margin, accounts, ledger, late, clock>>
        BY <1>1, <1>6 DEF DepositFailed, TypeInv, CallOK
    <2>2. deposit_plans' \in [User -> [DepositId -> Plan \cup {None}]]
        BY <1>2, <2>1, UpdateType DEF TypeInv, TypeOK
    <2> QED BY <1>4, <2>1, <2>2 DEF TypeInv, TypeOK, ledger
<1>7. CASE WithdrawalSettled(c)
    <2> DEFINE final == [k.plan EXCEPT !.status = "Finalised"]
    <2>1. final \in Plan /\ k.id \in WithdrawalId
        BY <1>1, <1>2, <1>7 DEF Plan, PlanStatus, TypeInv, CallOK, WithdrawalSettled
    <2>2. /\ withdrawal_plans' = [withdrawal_plans EXCEPT ![k.user][k.id] = final]
          /\ UNCHANGED <<deposit_plans, balances, reserved_margin, accounts, ledger, late, clock>>
        BY <1>7 DEF WithdrawalSettled
    <2>3. withdrawal_plans' \in [User -> [WithdrawalId -> Plan \cup {None}]]
        BY <1>2, <2>1, <2>2, UpdateType DEF TypeInv, TypeOK
    <2> QED BY <1>4, <2>2, <2>3 DEF TypeInv, TypeOK, ledger
<1>8. CASE WithdrawalFailed(c)
    <2> DEFINE open == Compensated(k.plan)
               x == balances[k.user][k.terms.domain][k.terms.asset] + k.plan.reserved_amount
    <2>1. open \in Plan /\ x \in Nat /\ k.id \in WithdrawalId
        <3>1. k.id \in WithdrawalId /\ k.plan.reserved_amount \in Nat
            BY <1>1, <1>8 DEF TypeInv, CallOK, WithdrawalFailed
        <3>2. open \in Plan
            BY <1>2 DEF Plan, Compensated
        <3>3. x \in Nat
            BY <1>2, <3>1
        <3> QED BY <3>1, <3>2, <3>3
    <2>2. /\ withdrawal_plans' = [withdrawal_plans EXCEPT ![k.user][k.id] = open]
          /\ SetBalance(k.user, k.terms.domain, k.terms.asset, x)
          /\ UNCHANGED <<deposit_plans, reserved_margin, accounts, ledger, late, clock>>
        BY <1>8 DEF WithdrawalFailed
    <2> HIDE DEF x, open, k
    <2>3. withdrawal_plans' \in [User -> [WithdrawalId -> Plan \cup {None}]]
        BY <1>2, <2>1, <2>2, UpdateType DEF TypeInv, TypeOK
    <2>4. balances' \in [User -> [Domain -> [Asset -> Nat]]]
        BY <1>2, <2>1, <2>2, SetBalanceType DEF TypeInv
    <2>5. TypeOK'
        BY <1>2, <1>4, <2>2, <2>3, <2>4 DEF TypeInv, TypeOK, ledger
    <2> QED BY <1>4, <2>5 DEF TypeInv
<1> QED BY <1>5, <1>6, <1>7, <1>8

(* An answer changes nothing of a suspended call but its stage. *)
LEMMA AnswerType ==
    ASSUME TypeInv, NEW c \in CallId, call[c] # None,
           NEW s \in {"sent", "ok", "err"}, Answer(c, s)
    PROVE  call' \in [CallId -> Call \cup {None}] /\ CallOK'
<1>1. call[c] \in Call
    BY DEF TypeInv, TypeOK
<1>2. [call[c] EXCEPT !.stage = s] \in Call
    BY <1>1 DEF Call
<1>3. call' = [call EXCEPT ![c] = [call[c] EXCEPT !.stage = s]]
    BY DEF Answer
<1>4. call' \in [CallId -> Call \cup {None}]
    BY <1>2, <1>3 DEF TypeInv, TypeOK
<1>5. \A x \in CallId : /\ call'[x] # None => call[x] # None
                        /\ call'[x] # None => /\ call'[x].plan = call[x].plan
                                              /\ call'[x].op = call[x].op
                                              /\ call'[x].id = call[x].id
    BY <1>1, <1>3 DEF TypeInv, TypeOK, Call
<1> QED BY <1>4, <1>5 DEF TypeInv, CallOK

(* The ledger's answers and the time-outs. *)
LEMMA LedgerType ==
    ASSUME TypeInv, NEW c \in CallId, LedgerAccepts(c) \/ LedgerRejects(c) \/ TimeOut(c)
    PROVE  TypeInv'
<1>1. call[c] # None
    BY DEF LedgerAccepts, LedgerRejects, TimeOut
<1>2. RequestOf(call[c]) \in Request
    BY <1>1, RequestType
<1>3. CASE LedgerAccepts(c)
    BY <1>1, <1>2, <1>3, AnswerType, TransferType DEF LedgerAccepts, TypeInv, TypeOK, canister
<1>4. CASE LedgerRejects(c)
    BY <1>1, <1>4, AnswerType DEF LedgerRejects, TypeInv, TypeOK, canister, ledger
<1>5. CASE TimeOut(c)
    <2>1. late' \subseteq Request /\ clock' \in Nat
        BY <1>2, <1>5 DEF TimeOut, TypeInv, TypeOK
    <2> QED BY <1>1, <1>5, <2>1, AnswerType DEF TimeOut, TypeInv, TypeOK, canister, ledger
<1> QED BY <1>3, <1>4, <1>5

(* Upgrades, time, and requests the ledger executes late. *)
LEMMA EnvironmentType ==
    ASSUME TypeInv, \/ Upgrade \/ Tick \/ \E r \in late : LedgerExecutesLate(r)
    PROVE  TypeInv'
<1>1. CASE Upgrade
    <2>1. Unanswered \subseteq Request
        BY RequestType DEF Unanswered
    <2> QED BY <1>1, <2>1 DEF Upgrade, TypeInv, TypeOK, CallOK, canister, ledger
<1>2. CASE Tick
    BY <1>2 DEF Tick, TypeInv, TypeOK, CallOK, canister, ledger
<1>3. ASSUME NEW r \in late, LedgerExecutesLate(r) PROVE TypeInv'
    <2>1. r \in Request
        BY DEF TypeInv, TypeOK
    <2> QED BY <1>3, <2>1, TransferType DEF LedgerExecutesLate, TypeInv, TypeOK, CallOK, canister
<1> QED BY <1>1, <1>2, <1>3

(* The order methods' margin updates. *)
LEMMA OrderType ==
    ASSUME TypeInv, NEW u \in User, NEW d \in Domain,
           ReserveOrderMargin(u, d) \/ ReleaseOrderMargin(u, d)
    PROVE  TypeInv'
<1>1. reserved_margin[u][d] \in Nat /\ reserved_margin[u][d] + 1 \in Nat
    BY DEF TypeInv, TypeOK
<1>2. Less(reserved_margin[u][d], 1) \in Nat
    BY <1>1, LessType
<1>3. reserved_margin \in [User -> [Domain -> Nat]]
    BY DEF TypeInv, TypeOK
<1>4. PICK x \in Nat : reserved_margin' = [reserved_margin EXCEPT ![u][d] = x]
    <2>1. CASE ReserveOrderMargin(u, d)
        <3>1. \/ reserved_margin' = [reserved_margin EXCEPT ![u][d] = reserved_margin[u][d] + 1]
              \/ reserved_margin' = [reserved_margin EXCEPT ![u][d] = reserved_margin[u][d]]
            BY <2>1 DEF ReserveOrderMargin
        <3> QED BY <1>1, <3>1
    <2>2. CASE ReleaseOrderMargin(u, d)
        BY <1>2, <2>2 DEF ReleaseOrderMargin
    <2> QED BY <2>1, <2>2
<1>5. reserved_margin' \in [User -> [Domain -> Nat]]
    BY <1>3, <1>4, UpdateType
<1> QED BY <1>5 DEF ReserveOrderMargin, ReleaseOrderMargin, TypeInv, TypeOK, CallOK, ledger

(* A refused withdrawal leaves a Planned plan. *)
LEMMA RejectType ==
    ASSUME TypeInv, NEW u \in User, NEW id \in WithdrawalId, NEW t \in Intent[id],
           RejectWithdrawal(u, id, t)
    PROVE  TypeInv'
<1>1. t \in Terms
    BY CollateralAssumption
<1>2. NewPlan(t.asset) \in Plan \cup {None}
    BY <1>1 DEF NewPlan, Plan, PlanStatus, Terms, TypeInv, TypeOK
<1>3. withdrawal_plans' \in [User -> [WithdrawalId -> Plan \cup {None}]]
    BY <1>2, UpdateType DEF RejectWithdrawal, TypeInv, TypeOK
<1> QED BY <1>3 DEF RejectWithdrawal, TypeInv, TypeOK, CallOK, ledger

(* The canister starts well formed. *)
LEMMA TypeInit == Init => TypeInv
BY CollateralAssumption DEF Init, TypeInv, TypeOK, CallOK

(* Every step keeps the types and the local records. *)
LEMMA TypeStep == TypeInv /\ [Next]_vars => TypeInv'
<1> SUFFICES ASSUME TypeInv, [Next]_vars PROVE TypeInv'
    OBVIOUS
<1>1. CASE UNCHANGED vars
    BY <1>1 DEF vars, canister, ledger, TypeInv, TypeOK, CallOK
<1>2. CASE Next
    BY <1>2, BeginDepositType, BeginWithdrawalType, RejectType, ReturnType, LedgerType,
       OrderType, EnvironmentType DEF Next
<1> QED BY <1>1, <1>2

(* The state of collateral custody, the canister's and the ledger's, is
   always well formed: no balance, margin or token account ever underflows,
   and a suspended withdrawal always has an amount to send. *)
THEOREM TypeCorrect == Spec => []TypeOK
<1>1. Spec => []TypeInv
    BY TypeInit, TypeStep, PTL DEF Spec
<1> QED BY <1>1, PTL DEF TypeInv

-----------------------------------------------------------------------------
(* What a step does to the plans and to the suspended calls, in four kinds.  *)

IdOK(k) == k.id \in (IF k.op = "deposit" THEN DepositId ELSE WithdrawalId)

SetPlan(k, p) ==
    IF k.op = "deposit"
    THEN /\ deposit_plans' = [deposit_plans EXCEPT ![k.user][k.id] = p]
         /\ UNCHANGED withdrawal_plans
    ELSE /\ withdrawal_plans' = [withdrawal_plans EXCEPT ![k.user][k.id] = p]
         /\ UNCHANGED deposit_plans

Begins(c, k) ==
    /\ call[c] = None /\ call' = [call EXCEPT ![c] = k]
    /\ k \in Call /\ k.stage = "sent" /\ k.plan.status = "Executing" /\ IdOK(k)
    /\ StoredPlan(k) # None => StoredPlan(k).status # "Finalised"
    /\ "serial" \in Discipline => ~InFlight(k.op, k.user, k.id)
    /\ SetPlan(k, k.plan)
    /\ UNCHANGED blocks

Returns(c, p) ==
    /\ call[c] # None /\ call[c] \in Call /\ IdOK(call[c])
    /\ call' = [call EXCEPT ![c] = None]
    /\ p \in Plan
    /\ \/ p.status = "Executing"
       \/ call[c].stage = "ok" /\ p = [call[c].plan EXCEPT !.status = "Finalised"]
    /\ SetPlan(call[c], p)
    /\ UNCHANGED blocks

Refuses(u, id, p) ==
    /\ withdrawal_plans[u][id] = None
    /\ p \in Plan /\ p.status = "Planned"
    /\ withdrawal_plans' = [withdrawal_plans EXCEPT ![u][id] = p]
    /\ UNCHANGED <<deposit_plans, call, blocks>>

(* The call goes on unchanged but for its stage, and is told "ok" only of a
   recorded transfer. *)
GoesOn(c) ==
    /\ call[c] # None /\ call[c] \in Call
    /\ \E s \in {"sent", "ok", "err"} :
          /\ call'[c] = [call[c] EXCEPT !.stage = s]
          /\ s = "ok" => call[c].stage = "ok" \/ RequestOf(call[c]) \in blocks'

Elsewhere ==
    /\ UNCHANGED <<deposit_plans, withdrawal_plans>>
    /\ blocks \subseteq blocks'
    /\ \A c \in CallId : call'[c] = None \/ GoesOn(c)

Kinds ==
    \/ \E c \in CallId : \E k \in Call : Begins(c, k)
    \/ \E c \in CallId : \E p \in Plan : Returns(c, p)
    \/ \E u \in User, id \in WithdrawalId : \E p \in Plan : Refuses(u, id, p)
    \/ Elsewhere

(* deposit_collateral up to its await, as a step of its kind. *)
LEMMA BeginDepositKind ==
    ASSUME TypeInv, NEW c \in CallId, NEW u \in User, NEW id \in DepositId,
           NEW t \in Intent[id], BeginDeposit(c, u, id, t)
    PROVE  Kinds
<1> DEFINE plan == GetOrCreate(deposit_plans[u][id], t.asset)
           executing == [plan EXCEPT !.status = "Executing"]
           new == [op |-> "deposit", user |-> u, id |-> id, terms |-> t,
                   plan |-> executing, stage |-> "sent"]
<1>1. t \in Terms
    BY CollateralAssumption
<1>2. plan \in Plan
    <2>1. deposit_plans[u][id] \in Plan \cup {None} /\ clock \in Nat /\ t.asset \in Asset
        BY <1>1 DEF TypeInv, TypeOK, Terms
    <2> QED BY <2>1, GetOrCreateType
<1>3. executing \in Plan /\ executing.status = "Executing"
    BY <1>2 DEF Plan, PlanStatus
<1>4. new \in Call
    BY <1>1, <1>3 DEF Call
<1>5. deposit_plans[u][id] # None => deposit_plans[u][id].status # "Finalised"
    BY DEF BeginDeposit, GetOrCreate, Open
<1>6. Begins(c, new)
    <2>1. /\ call[c] = None /\ call' = [call EXCEPT ![c] = new]
          /\ deposit_plans' = [deposit_plans EXCEPT ![u][id] = executing]
          /\ UNCHANGED <<withdrawal_plans, blocks>>
          /\ "serial" \in Discipline => ~InFlight("deposit", u, id)
        BY DEF BeginDeposit, Suspend, ClientMay, ledger
    <2> HIDE DEF executing
    <2> QED BY <1>3, <1>4, <1>5, <2>1 DEF Begins, StoredPlan, SetPlan, IdOK
<1> QED BY <1>4, <1>6 DEF Kinds

(* withdraw_collateral up to its await, as a step of its kind. *)
LEMMA BeginWithdrawalKind ==
    ASSUME TypeInv, NEW c \in CallId, NEW u \in User, NEW id \in WithdrawalId,
           NEW t \in Intent[id], BeginWithdrawal(c, u, id, t)
    PROVE  Kinds
<1> DEFINE plan == GetOrCreate(withdrawal_plans[u][id], t.asset)
           executing == [plan EXCEPT !.status = "Executing",
                                     !.reserved_amount = IF @ = None THEN t.amount ELSE @]
           new == [op |-> "withdrawal", user |-> u, id |-> id, terms |-> t,
                   plan |-> executing, stage |-> "sent"]
<1>1. t \in Terms
    BY CollateralAssumption
<1>2. plan \in Plan
    <2>1. withdrawal_plans[u][id] \in Plan \cup {None} /\ clock \in Nat /\ t.asset \in Asset
        BY <1>1 DEF TypeInv, TypeOK, Terms
    <2> QED BY <2>1, GetOrCreateType
<1>3. executing \in Plan /\ executing.status = "Executing"
    <2> HIDE DEF plan
    <2>1. t.amount \in Nat
        BY <1>1 DEF Terms
    <2> QED BY <1>2, <2>1 DEF Plan, PlanStatus
<1>4. new \in Call
    <2> HIDE DEF executing
    <2> QED BY <1>1, <1>3 DEF Call
<1>5. withdrawal_plans[u][id] # None => withdrawal_plans[u][id].status # "Finalised"
    BY DEF BeginWithdrawal, GetOrCreate, Open
<1>6. Begins(c, new)
    <2>1. /\ call[c] = None /\ call' = [call EXCEPT ![c] = new]
          /\ withdrawal_plans' = [withdrawal_plans EXCEPT ![u][id] = executing]
          /\ UNCHANGED <<deposit_plans, blocks>>
          /\ "serial" \in Discipline => ~InFlight("withdrawal", u, id)
        <3> HIDE DEF plan
        <3> QED BY DEF BeginWithdrawal, Suspend, ClientMay, ledger, plan
    <2> HIDE DEF executing
    <2> QED BY <1>3, <1>4, <1>5, <2>1 DEF Begins, StoredPlan, SetPlan, IdOK
<1> QED BY <1>4, <1>6 DEF Kinds

(* The steps after the await, as steps of their kind. *)
LEMMA ReturnKind ==
    ASSUME TypeInv, NEW c \in CallId,
           \/ DepositSettled(c) \/ DepositFailed(c) \/ WithdrawalSettled(c) \/ WithdrawalFailed(c)
    PROVE  Kinds
<1> DEFINE k == call[c]
<1>1. k \in Call /\ k # None
    BY DEF TypeInv, TypeOK, DepositSettled, DepositFailed, WithdrawalSettled, WithdrawalFailed
<1>2. k.plan \in Plan /\ k.plan.status = "Executing" /\ IdOK(k)
    BY <1>1 DEF Call, TypeInv, CallOK, IdOK
<1>3. [k.plan EXCEPT !.status = "Finalised"] \in Plan
    BY <1>2 DEF Plan, PlanStatus
<1>4. Compensated(k.plan) \in Plan /\ Compensated(k.plan).status = "Executing"
    BY <1>2 DEF Plan, Compensated
<1>5. call' = [call EXCEPT ![c] = None] /\ UNCHANGED blocks
    BY DEF DepositSettled, DepositFailed, WithdrawalSettled, WithdrawalFailed, Return, ledger
<1>6. CASE DepositSettled(c) \/ WithdrawalSettled(c)
    <2> DEFINE final == [k.plan EXCEPT !.status = "Finalised"]
    <2>1. SetPlan(k, final) /\ k.stage = "ok"
        BY <1>6 DEF SetPlan, DepositSettled, WithdrawalSettled
    <2>2. Returns(c, final)
        <3> HIDE DEF SetPlan
        <3> QED BY <1>1, <1>2, <1>3, <1>5, <2>1 DEF Returns
    <2> QED BY <1>3, <2>2 DEF Kinds
<1>7. CASE DepositFailed(c)
    <2>1. Returns(c, k.plan)
        BY <1>1, <1>2, <1>5, <1>7 DEF Returns, SetPlan, DepositFailed
    <2> QED BY <1>2, <2>1 DEF Kinds
<1>8. CASE WithdrawalFailed(c)
    <2>1. SetPlan(k, Compensated(k.plan))
        BY <1>8 DEF SetPlan, WithdrawalFailed
    <2>2. Returns(c, Compensated(k.plan))
        BY <1>1, <1>2, <1>4, <1>5, <2>1 DEF Returns
    <2> QED BY <1>4, <2>2 DEF Kinds
<1> QED BY <1>6, <1>7, <1>8

(* Steps that leave the plans alone. *)
LEMMA ElsewhereKind ==
    ASSUME TypeInv,
           \/ \E c \in CallId : LedgerAccepts(c) \/ LedgerRejects(c) \/ TimeOut(c)
           \/ \E u \in User, d \in Domain : ReserveOrderMargin(u, d) \/ ReleaseOrderMargin(u, d)
           \/ \E r \in late : LedgerExecutesLate(r)
           \/ Upgrade \/ Tick \/ UNCHANGED vars
    PROVE  Elsewhere
<1>1. ASSUME NEW x \in CallId, call'[x] = call[x] PROVE call'[x] = None \/ GoesOn(x)
    <2>1. CASE call[x] # None
        <3>1. call[x] \in Call
            BY <2>1 DEF TypeInv, TypeOK
        <3>2. call[x] = [call[x] EXCEPT !.stage = call[x].stage]
              /\ call[x].stage \in {"sent", "ok", "err"}
            BY <3>1 DEF Call
        <3> QED BY <1>1, <2>1, <3>1, <3>2 DEF GoesOn
    <2> QED BY <1>1, <2>1
<1>2. ASSUME NEW c \in CallId, LedgerAccepts(c) \/ LedgerRejects(c) \/ TimeOut(c)
      PROVE  Elsewhere
    <2>1. call[c] # None /\ call[c] \in Call
        BY <1>2 DEF TypeInv, TypeOK, LedgerAccepts, LedgerRejects, TimeOut
    <2>2. RequestOf(call[c]) \in Request
        BY <2>1, RequestType
    <2>3. PICK s \in {"ok", "err"} :
              /\ call' = [call EXCEPT ![c] = [call[c] EXCEPT !.stage = s]]
              /\ s = "ok" => RequestOf(call[c]) \in blocks'
              /\ blocks \subseteq blocks'
        <3>1. CASE LedgerAccepts(c)
            BY <2>2, <3>1, TransferType DEF LedgerAccepts, Answer, TypeInv
        <3>2. CASE LedgerRejects(c) \/ TimeOut(c)
            BY <3>2 DEF LedgerRejects, TimeOut, Answer, ledger
        <3> QED BY <1>2, <3>1, <3>2
    <2>4. GoesOn(c)
        BY <2>1, <2>3 DEF GoesOn, TypeInv, TypeOK
    <2>5. \A x \in CallId \ {c} : call'[x] = call[x]
        BY <2>3 DEF TypeInv, TypeOK
    <2>6. UNCHANGED <<deposit_plans, withdrawal_plans>>
        BY <1>2 DEF LedgerAccepts, LedgerRejects, TimeOut, canister
    <2> QED BY <1>1, <2>3, <2>4, <2>5, <2>6 DEF Elsewhere
<1>3. CASE \E u \in User, d \in Domain : ReserveOrderMargin(u, d) \/ ReleaseOrderMargin(u, d)
    BY <1>1, <1>3 DEF ReserveOrderMargin, ReleaseOrderMargin, Elsewhere, ledger
<1>4. ASSUME NEW r \in late, LedgerExecutesLate(r) PROVE Elsewhere
    <2>1. r \in Request
        BY DEF TypeInv, TypeOK
    <2> QED BY <1>1, <1>4, <2>1, TransferType DEF LedgerExecutesLate, TypeInv, Elsewhere, canister
<1>5. CASE Upgrade
    BY <1>5 DEF Upgrade, Elsewhere, canister, ledger
<1>6. CASE Tick \/ UNCHANGED vars
    BY <1>1, <1>6 DEF Tick, vars, Elsewhere, canister, ledger
<1> QED BY <1>2, <1>3, <1>4, <1>5, <1>6

(* Every step is of one of the four kinds. *)
LEMMA StepKinds == TypeInv /\ [Next]_vars => Kinds
<1> SUFFICES ASSUME TypeInv, [Next]_vars PROVE Kinds
    OBVIOUS
<1>1. ASSUME NEW u \in User, NEW id \in WithdrawalId, NEW t \in Intent[id],
             RejectWithdrawal(u, id, t)
      PROVE  Kinds
    <2>1. NewPlan(t.asset) \in Plan /\ NewPlan(t.asset).status = "Planned"
        BY CollateralAssumption DEF NewPlan, Plan, PlanStatus, Terms, TypeInv, TypeOK
    <2>2. Refuses(u, id, NewPlan(t.asset))
        BY <1>1, <2>1 DEF Refuses, RejectWithdrawal, ledger
    <2> QED BY <2>1, <2>2 DEF Kinds
<1> QED BY <1>1, BeginDepositKind, BeginWithdrawalKind, ReturnKind, ElsewhereKind DEF Next, Kinds

-----------------------------------------------------------------------------
(* What is finalised has a block. *)

BackedInv ==
    /\ TypeInv
    /\ FinalisedHasBlock
    /\ \A c \in CallId : call[c] # None /\ call[c].stage = "ok" => RequestOf(call[c]) \in blocks

(* Only the entry assigned to changes. *)
LEMMA UpdateRead ==
    ASSUME NEW S, NEW T, NEW R, NEW f \in [S -> [T -> R]], NEW g,
           NEW s \in S, NEW t \in T, NEW x, g = [f EXCEPT ![s][t] = x]
    PROVE  /\ g[s][t] = x
           /\ \A i \in S, j \in T : i # s \/ j # t => g[i][j] = f[i][j]
OBVIOUS

(* Persisting a plan changes that plan only. *)
LEMMA SetPlanRead ==
    ASSUME TypeInv, NEW k \in Call, IdOK(k), NEW p, SetPlan(k, p)
    PROVE  /\ \A u \in User, id \in DepositId :
                 IF k.op = "deposit" /\ u = k.user /\ id = k.id
                 THEN deposit_plans'[u][id] = p
                 ELSE deposit_plans'[u][id] = deposit_plans[u][id]
           /\ \A u \in User, id \in WithdrawalId :
                 IF k.op = "withdrawal" /\ u = k.user /\ id = k.id
                 THEN withdrawal_plans'[u][id] = p
                 ELSE withdrawal_plans'[u][id] = withdrawal_plans[u][id]
<1>1. k.user \in User /\ k.op \in {"deposit", "withdrawal"}
    BY DEF Call
<1>2. /\ deposit_plans \in [User -> [DepositId -> Plan \cup {None}]]
      /\ withdrawal_plans \in [User -> [WithdrawalId -> Plan \cup {None}]]
    BY DEF TypeInv, TypeOK
<1>3. CASE k.op = "deposit"
    <2>1. k.id \in DepositId /\ UNCHANGED withdrawal_plans
          /\ deposit_plans' = [deposit_plans EXCEPT ![k.user][k.id] = p]
        BY <1>3 DEF IdOK, SetPlan
    <2> QED BY <1>1, <1>2, <1>3, <2>1, UpdateRead
<1>4. CASE k.op = "withdrawal"
    <2>1. k.id \in WithdrawalId /\ UNCHANGED deposit_plans
          /\ withdrawal_plans' = [withdrawal_plans EXCEPT ![k.user][k.id] = p]
        BY <1>4 DEF IdOK, SetPlan
    <2> QED BY <1>1, <1>2, <1>4, <2>1, UpdateRead
<1> QED BY <1>1, <1>3, <1>4

(* Blocks are never taken back, so a plan that had one has it still. *)
LEMMA BackedByGrowth ==
    ASSUME FinalisedHasBlock, blocks \subseteq blocks',
           \A u \in User, id \in DepositId :
              \/ deposit_plans'[u][id] = deposit_plans[u][id]
              \/ DepositHasBlock(u, deposit_plans[u][id])',
           \A u \in User, id \in WithdrawalId :
              \/ withdrawal_plans'[u][id] = withdrawal_plans[u][id]
              \/ WithdrawalHasBlock(u, withdrawal_plans[u][id])'
    PROVE  FinalisedHasBlock'
<1>1. ASSUME NEW u \in User, NEW id \in DepositId
      PROVE  DepositHasBlock(u, deposit_plans[u][id])'
    BY DEF FinalisedHasBlock, DepositHasBlock
<1>2. ASSUME NEW u \in User, NEW id \in WithdrawalId
      PROVE  WithdrawalHasBlock(u, withdrawal_plans[u][id])'
    BY DEF FinalisedHasBlock, WithdrawalHasBlock
<1> QED BY <1>1, <1>2 DEF FinalisedHasBlock

(* The block that answered a suspended call is the one its finalised plan
   needs; every other plan a step writes is not finalised. *)
LEMMA BackedStep == BackedInv /\ [Next]_vars => BackedInv'
<1> SUFFICES ASSUME BackedInv, [Next]_vars PROVE BackedInv'
    OBVIOUS
<1>1. TypeInv /\ TypeInv' /\ Kinds /\ FinalisedHasBlock
    BY TypeStep, StepKinds DEF BackedInv
<1>2. ASSUME NEW c \in CallId, NEW k \in Call, Begins(c, k)
      PROVE  BackedInv'
    <2>1. \A x \in CallId : call'[x] # None /\ call'[x].stage = "ok" => RequestOf(call'[x]) \in blocks'
        BY <1>2 DEF BackedInv, Begins, TypeInv, TypeOK
    <2>2. k.plan.status = "Executing" /\ IdOK(k) /\ SetPlan(k, k.plan) /\ blocks' = blocks
        BY <1>2 DEF Begins
    <2>3. FinalisedHasBlock'
        BY <1>1, <2>2, SetPlanRead, BackedByGrowth DEF DepositHasBlock, WithdrawalHasBlock
    <2>4. \A x \in CallId : call'[x] # None /\ call'[x].stage = "ok" => RequestOf(call[x])' \in blocks'
        BY <2>1 DEF RequestOf
    <2> QED BY <1>1, <2>3, <2>4 DEF BackedInv
<1>3. ASSUME NEW c \in CallId, NEW p \in Plan, Returns(c, p)
      PROVE  BackedInv'
    <2>. PICK k \in Call : k = call[c]
        BY <1>3 DEF Returns
    <2>1. \A x \in CallId : call'[x] # None => call'[x] = call[x]
        BY <1>3 DEF Returns, TypeInv, TypeOK, BackedInv
    <2>2. k # None /\ k \in Call /\ IdOK(k) /\ blocks' = blocks /\ SetPlan(k, p)
        BY <1>3 DEF Returns
    <2>3. /\ k.op = "deposit" => DepositHasBlock(k.user, p)'
          /\ k.op = "withdrawal" => WithdrawalHasBlock(k.user, p)'
        <3>1. CASE p.status = "Executing"
            BY <3>1 DEF DepositHasBlock, WithdrawalHasBlock
        <3>2. CASE k.stage = "ok" /\ p = [k.plan EXCEPT !.status = "Finalised"]
            <4>1. RequestOf(k) \in blocks'
                BY <2>2, <3>2 DEF BackedInv
            <4>2. /\ p.created_at = k.plan.created_at
                  /\ p.reserved_amount = k.plan.reserved_amount
                BY <2>2, <3>2 DEF Call, Plan
            <4>3. /\ RequestOf(k).op = k.op /\ RequestOf(k).user = k.user
                  /\ RequestOf(k).created_at = k.plan.created_at
                  /\ k.op = "withdrawal" => RequestOf(k).amount = k.plan.reserved_amount
                BY DEF RequestOf
            <4> QED BY <4>1, <4>2, <4>3 DEF DepositHasBlock, WithdrawalHasBlock
        <3> QED BY <1>3, <3>1, <3>2 DEF Returns
    <2>4. FinalisedHasBlock'
        <3>1. \A u \in User, id \in DepositId :
                 \/ deposit_plans'[u][id] = deposit_plans[u][id]
                 \/ DepositHasBlock(u, deposit_plans[u][id])'
            BY <1>1, <2>2, <2>3, SetPlanRead
        <3>2. \A u \in User, id \in WithdrawalId :
                 \/ withdrawal_plans'[u][id] = withdrawal_plans[u][id]
                 \/ WithdrawalHasBlock(u, withdrawal_plans[u][id])'
            BY <1>1, <2>2, <2>3, SetPlanRead DEF Call
        <3> QED BY <1>1, <2>2, <3>1, <3>2, BackedByGrowth
    <2>5. \A x \in CallId : call'[x] # None /\ call'[x].stage = "ok" => RequestOf(call[x])' \in blocks'
        BY <2>1, <2>2 DEF BackedInv, RequestOf
    <2> QED BY <1>1, <2>4, <2>5 DEF BackedInv
<1>4. ASSUME NEW u \in User, NEW id \in WithdrawalId, NEW p \in Plan, Refuses(u, id, p)
      PROVE  BackedInv'
    <2>1. /\ deposit_plans' = deposit_plans /\ call' = call /\ blocks' = blocks
          /\ withdrawal_plans' = [withdrawal_plans EXCEPT ![u][id] = p]
          /\ p.status = "Planned"
        BY <1>4 DEF Refuses
    <2>2. withdrawal_plans \in [User -> [WithdrawalId -> Plan \cup {None}]]
        BY <1>1 DEF TypeInv, TypeOK
    <2>3. \A v \in User, i \in WithdrawalId :
              \/ withdrawal_plans'[v][i] = withdrawal_plans[v][i]
              \/ withdrawal_plans'[v][i] = p
        BY <2>1, <2>2, UpdateRead
    <2>4. FinalisedHasBlock'
        BY <1>1, <2>1, <2>3, BackedByGrowth DEF WithdrawalHasBlock
    <2> QED BY <1>1, <2>1, <2>4 DEF BackedInv, RequestOf
<1>5. CASE Elsewhere
    <2>1. blocks \subseteq blocks' /\ deposit_plans' = deposit_plans
          /\ withdrawal_plans' = withdrawal_plans
        BY <1>5 DEF Elsewhere
    <2>2. FinalisedHasBlock'
        BY <1>1, <2>1, BackedByGrowth
    <2>3. ASSUME NEW x \in CallId, call'[x] # None, call'[x].stage = "ok"
          PROVE  RequestOf(call[x])' \in blocks'
        <3>1. PICK s \in {"sent", "ok", "err"} :
                  /\ call[x] # None /\ call[x] \in Call
                  /\ call'[x] = [call[x] EXCEPT !.stage = s]
                  /\ s = "ok" => call[x].stage = "ok" \/ RequestOf(call[x]) \in blocks'
            BY <1>5, <2>3 DEF Elsewhere, GoesOn
        <3>2. s = "ok"
            BY <2>3, <3>1 DEF Call
        <3>3. RequestOf(call[x]) \in blocks'
            BY <2>1, <3>1, <3>2 DEF BackedInv
        <3>4. /\ call'[x].op = call[x].op /\ call'[x].user = call[x].user
              /\ call'[x].terms = call[x].terms /\ call'[x].plan = call[x].plan
            BY <3>1 DEF Call
        <3>5. RequestOf(call[x])' = RequestOf(call[x])
            BY <3>4 DEF RequestOf
        <3> QED BY <3>3, <3>5
    <2> QED BY <1>1, <2>2, <2>3 DEF BackedInv
<1> QED BY <1>1, <1>2, <1>3, <1>4, <1>5 DEF Kinds

(* deposit_collateral and withdraw_collateral finalise only what the ledger
   recorded, for any clients and any faults: a finalised withdrawal was paid
   exactly what it reserved. *)
THEOREM FinalisedBacked == Spec => []FinalisedHasBlock
<1>1. Init => BackedInv
    BY TypeInit DEF BackedInv, Init, FinalisedHasBlock, DepositHasBlock, WithdrawalHasBlock
<1>2. BackedInv => FinalisedHasBlock
    BY DEF BackedInv
<1> QED BY <1>1, <1>2, BackedStep, PTL DEF Spec

-----------------------------------------------------------------------------
(* Clients that do not repeat an id while a call of it is in flight. *)

Same(j, k) == j.op = k.op /\ j.user = k.user /\ j.id = k.id

OneCallPerPlan ==
    \A x, y \in CallId :
        call[x] # None /\ call[y] # None /\ Same(call[x], call[y]) => x = y

SerialInv == TypeInv /\ OneCallPerPlan /\ LocalCopiesFresh

(* Persisting one call's plan changes the stored plan of its own id only. *)
LEMMA StoredPlanRead ==
    ASSUME TypeInv, NEW k \in Call, IdOK(k), NEW p, SetPlan(k, p), NEW j \in Call, IdOK(j)
    PROVE  IF Same(j, k) THEN StoredPlan(j)' = p ELSE StoredPlan(j)' = StoredPlan(j)
<1>1. j.user \in User /\ j.op \in {"deposit", "withdrawal"}
    BY DEF Call
<1>2. CASE j.op = "deposit"
    <2>1. j.id \in DepositId /\ StoredPlan(j) = deposit_plans[j.user][j.id]
          /\ StoredPlan(j)' = deposit_plans'[j.user][j.id]
        BY <1>2 DEF IdOK, StoredPlan
    <2> QED BY <1>1, <1>2, <2>1, SetPlanRead DEF Same
<1>3. CASE j.op = "withdrawal"
    <2>1. j.id \in WithdrawalId /\ StoredPlan(j) = withdrawal_plans[j.user][j.id]
          /\ StoredPlan(j)' = withdrawal_plans'[j.user][j.id]
        BY <1>3 DEF IdOK, StoredPlan
    <2> QED BY <1>1, <1>3, <2>1, SetPlanRead DEF Same
<1> QED BY <1>1, <1>2, <1>3

(* What is known of a suspended call. *)
LEMMA SuspendedCall ==
    ASSUME SerialInv, NEW x \in CallId, call[x] # None
    PROVE  /\ call[x] \in Call /\ IdOK(call[x]) /\ call[x].plan \in Plan
           /\ call[x].plan = StoredPlan(call[x]) /\ call[x].plan.status = "Executing"
<1>1. call[x] \in Call
    BY DEF SerialInv, TypeInv, TypeOK
<1> QED BY <1>1 DEF SerialInv, TypeInv, CallOK, IdOK, LocalCopiesFresh, Call

(* A step keeps one call per plan, and with it the local copies fresh: the
   plans it writes are those of its own call. *)
LEMMA SerialStep ==
    ASSUME "serial" \in Discipline, SerialInv, [Next]_vars
    PROVE  SerialInv'
<1>1. TypeInv /\ TypeInv' /\ Kinds
    BY TypeStep, StepKinds DEF SerialInv
<1>2. ASSUME NEW c \in CallId, NEW k \in Call, Begins(c, k)
      PROVE  SerialInv'
    <2>1. /\ k.plan.status = "Executing" /\ IdOK(k) /\ SetPlan(k, k.plan)
          /\ ~InFlight(k.op, k.user, k.id)
        BY <1>2 DEF Begins
    <2>2. call'[c] = k /\ \A x \in CallId : x # c => call'[x] = call[x]
        BY <1>1, <1>2 DEF Begins, TypeInv, TypeOK
    <2>3. \A x \in CallId : call[x] # None => ~Same(call[x], k)
        BY <2>1 DEF InFlight, Same
    <2>4. OneCallPerPlan'
        BY <2>2, <2>3 DEF SerialInv, OneCallPerPlan, Same
    <2>5. ASSUME NEW x \in CallId, call'[x] # None
          PROVE  call'[x].plan = StoredPlan(call[x])' /\ call'[x].plan.status = "Executing"
        <3>1. CASE x = c
            <4>1. StoredPlan(k)' = k.plan
                BY <1>1, <2>1, StoredPlanRead DEF Same
            <4> QED BY <2>1, <2>2, <3>1, <4>1 DEF StoredPlan
        <3>2. CASE x # c
            <4>1. PICK j \in Call : j = call[x] /\ j = call'[x]
                BY <2>2, <2>5, <3>2, SuspendedCall
            <4>2. IdOK(j) /\ j.plan = StoredPlan(j) /\ j.plan.status = "Executing"
                BY <2>2, <2>5, <3>2, <4>1, SuspendedCall
            <4>3. StoredPlan(j)' = StoredPlan(j)
                BY <1>1, <2>1, <2>2, <2>3, <2>5, <3>2, <4>1, <4>2, StoredPlanRead
            <4> QED BY <4>1, <4>2, <4>3 DEF StoredPlan
        <3> QED BY <3>1, <3>2
    <2> QED BY <1>1, <2>4, <2>5 DEF SerialInv, LocalCopiesFresh
<1>3. ASSUME NEW c \in CallId, NEW p \in Plan, Returns(c, p)
      PROVE  SerialInv'
    <2>1. PICK k \in Call : k = call[c]
        BY <1>3 DEF Returns
    <2>2. k # None /\ IdOK(k) /\ SetPlan(k, p)
        BY <1>3, <2>1 DEF Returns
    <2>3. call'[c] = None /\ \A x \in CallId : x # c => call'[x] = call[x]
        BY <1>1, <1>3 DEF Returns, TypeInv, TypeOK
    <2>4. OneCallPerPlan'
        BY <2>3 DEF SerialInv, OneCallPerPlan, Same
    <2>5. ASSUME NEW x \in CallId, call'[x] # None
          PROVE  call'[x].plan = StoredPlan(call[x])' /\ call'[x].plan.status = "Executing"
        <3>1. x # c /\ call[x] # None
            BY <2>3, <2>5
        <3>2. PICK j \in Call : j = call[x] /\ j = call'[x]
            BY <2>3, <2>5, <3>1, SuspendedCall
        <3>3. IdOK(j) /\ j.plan = StoredPlan(j) /\ j.plan.status = "Executing"
            BY <3>1, <3>2, SuspendedCall
        <3>4. ~Same(j, k)
            BY <2>1, <2>2, <3>1, <3>2 DEF SerialInv, OneCallPerPlan
        <3>5. StoredPlan(j)' = StoredPlan(j)
            BY <1>1, <2>2, <3>3, <3>4, StoredPlanRead
        <3> QED BY <3>2, <3>3, <3>5 DEF StoredPlan
    <2> QED BY <1>1, <2>4, <2>5 DEF SerialInv, LocalCopiesFresh
<1>4. ASSUME NEW u \in User, NEW id \in WithdrawalId, NEW p \in Plan, Refuses(u, id, p)
      PROVE  SerialInv'
    <2>1. /\ withdrawal_plans[u][id] = None
          /\ call' = call /\ deposit_plans' = deposit_plans
          /\ withdrawal_plans' = [withdrawal_plans EXCEPT ![u][id] = p]
        BY <1>4 DEF Refuses
    <2>2. \A v \in User, i \in WithdrawalId :
              v # u \/ i # id => withdrawal_plans'[v][i] = withdrawal_plans[v][i]
        BY <1>1, <2>1, UpdateRead DEF TypeInv, TypeOK
    <2>3. ASSUME NEW x \in CallId, call'[x] # None
          PROVE  call'[x].plan = StoredPlan(call[x])' /\ call'[x].plan.status = "Executing"
        <3>1. PICK j \in Call : j = call[x] /\ j = call'[x]
            BY <2>1, <2>3, SuspendedCall
        <3>2. /\ IdOK(j) /\ j.plan = StoredPlan(j) /\ j.plan.status = "Executing"
              /\ j.plan \in Plan
            BY <2>1, <2>3, <3>1, SuspendedCall
        <3>3. j.op = "withdrawal" => j.user # u \/ j.id # id
            BY <2>1, <3>2, CollateralAssumption DEF StoredPlan
        <3>4. StoredPlan(j)' = StoredPlan(j)
            BY <2>1, <2>2, <3>2, <3>3 DEF StoredPlan, IdOK, Call
        <3> QED BY <3>1, <3>2, <3>4 DEF StoredPlan
    <2> QED BY <1>1, <2>1, <2>3 DEF SerialInv, OneCallPerPlan, LocalCopiesFresh, Same
<1>5. CASE Elsewhere
    <2>1. /\ deposit_plans' = deposit_plans /\ withdrawal_plans' = withdrawal_plans
          /\ \A x \in CallId : call'[x] # None =>
                /\ call[x] # None
                /\ call'[x].op = call[x].op /\ call'[x].user = call[x].user
                /\ call'[x].id = call[x].id /\ call'[x].plan = call[x].plan
        BY <1>5 DEF Elsewhere, GoesOn, Call
    <2>2. OneCallPerPlan'
        BY <2>1 DEF SerialInv, OneCallPerPlan, Same
    <2>3. \A x \in CallId : call'[x] # None => StoredPlan(call[x])' = StoredPlan(call[x])
        BY <2>1 DEF StoredPlan
    <2> QED BY <1>1, <2>1, <2>2, <2>3 DEF SerialInv, LocalCopiesFresh
<1> QED BY <1>1, <1>2, <1>3, <1>4, <1>5 DEF Kinds

(* No call is suspended at the start. *)
LEMMA SerialInit == Init => SerialInv
BY TypeInit DEF Init, SerialInv, OneCallPerPlan, LocalCopiesFresh

(* The plan a method of a serial client holds across its await is the one
   that is stored. *)
THEOREM SerialCopiesFresh ==
    ASSUME "serial" \in Discipline
    PROVE  Spec => []LocalCopiesFresh
<1>1. SerialInv /\ [Next]_vars => SerialInv'
    BY SerialStep
<1>2. SerialInv => LocalCopiesFresh
    BY DEF SerialInv
<1> QED BY <1>1, <1>2, SerialInit, PTL DEF Spec

(* A step writes the plan of a call that begins, which is not finalised, or
   of one that returns, whose stored plan is its Executing copy. *)
LEMMA FinalisedStep ==
    ASSUME "serial" \in Discipline, SerialInv, [Next]_vars
    PROVE  FinalisedKept
<1>1. TypeInv /\ Kinds
    BY StepKinds DEF SerialInv
<1>2. ASSUME NEW k \in Call, NEW p, IdOK(k), SetPlan(k, p),
             StoredPlan(k) # None => StoredPlan(k).status # "Finalised"
      PROVE  FinalisedKept
    <2>1. ASSUME NEW u \in User, NEW id \in DepositId, deposit_plans[u][id] # None,
                 deposit_plans[u][id].status = "Finalised"
          PROVE  deposit_plans'[u][id] = deposit_plans[u][id]
        BY <1>1, <1>2, <2>1, SetPlanRead DEF StoredPlan
    <2>2. ASSUME NEW u \in User, NEW id \in WithdrawalId, withdrawal_plans[u][id] # None,
                 withdrawal_plans[u][id].status = "Finalised"
          PROVE  withdrawal_plans'[u][id] = withdrawal_plans[u][id]
        BY <1>1, <1>2, <2>2, SetPlanRead DEF StoredPlan
    <2> QED BY <2>1, <2>2 DEF FinalisedKept
<1>3. ASSUME NEW c \in CallId, NEW k \in Call, Begins(c, k)
      PROVE  FinalisedKept
    BY <1>2, <1>3 DEF Begins
<1>4. ASSUME NEW c \in CallId, NEW p \in Plan, Returns(c, p)
      PROVE  FinalisedKept
    <2>1. /\ call[c] \in Call /\ IdOK(call[c]) /\ SetPlan(call[c], p)
          /\ StoredPlan(call[c]).status = "Executing"
        BY <1>4, SuspendedCall DEF Returns
    <2> QED BY <1>2, <2>1
<1>5. ASSUME NEW u \in User, NEW id \in WithdrawalId, NEW p \in Plan, Refuses(u, id, p)
      PROVE  FinalisedKept
    <2>1. \A v \in User, i \in WithdrawalId :
              withdrawal_plans[v][i] # None => withdrawal_plans'[v][i] = withdrawal_plans[v][i]
        BY <1>1, <1>5, UpdateRead DEF Refuses, TypeInv, TypeOK
    <2> QED BY <1>5, <2>1 DEF Refuses, FinalisedKept
<1>6. CASE Elsewhere
    BY <1>6 DEF Elsewhere, FinalisedKept
<1> QED BY <1>1, <1>3, <1>4, <1>5, <1>6 DEF Kinds

(* For clients that keep one call per id in flight, the early return on a
   finalised plan is sound: no suspended call reopens one. *)
THEOREM SerialFinalisedIsFinal ==
    ASSUME "serial" \in Discipline
    PROVE  Spec => FinalisedIsFinal
<1>1. SerialInv /\ [Next]_vars => SerialInv'
    BY SerialStep
<1>2. SerialInv /\ [Next]_vars => [FinalisedKept]_vars
    BY FinalisedStep
<1> QED BY <1>1, <1>2, SerialInit, PTL DEF Spec, FinalisedIsFinal

(* An assignment to one balance, seen from every balance. *)
LEMMA BalanceRead ==
    ASSUME TypeOK, NEW u \in User, NEW t \in Terms, NEW x,
           SetBalance(u, t.domain, t.asset, x),
           NEW v \in User, NEW d \in Domain, NEW a \in Asset,
           balances'[v][d][a] # balances[v][d][a]
    PROVE  v = u /\ d = t.domain /\ a = t.asset /\ balances'[v][d][a] = x
BY DEF SetBalance, TypeOK, Terms

(* A deposit credits in the step that finalises its stored plan, a withdrawal
   refunds in the step that clears its stored reservation. *)
LEMMA GrowthStep ==
    ASSUME "serial" \in Discipline, SerialInv, [Next]_vars
    PROVE  GrowthBooked
<1> SUFFICES ASSUME NEW v \in User, NEW d \in Domain, NEW a \in Asset,
                    balances'[v][d][a] > balances[v][d][a]
             PROVE  \/ \E id \in DepositId : DepositFinalised(v, id)
                    \/ \E id \in WithdrawalId :
                          ReservationCleared(v, id, balances'[v][d][a] - balances[v][d][a])
    BY DEF GrowthBooked
<1>1. TypeInv /\ TypeOK /\ balances[v][d][a] \in Nat
    BY DEF SerialInv, TypeInv, TypeOK
<1>2. balances'[v][d][a] # balances[v][d][a]
    BY <1>1
<1>3. ASSUME NEW c \in CallId, DepositSettled(c)
      PROVE  \E id \in DepositId : DepositFinalised(v, id)
    <2>1. PICK k \in Call : k = call[c] /\ k # None
        BY <1>3, SuspendedCall DEF DepositSettled
    <2>2. /\ IdOK(k) /\ k.plan = StoredPlan(k) /\ k.plan.status = "Executing"
          /\ k.plan \in Plan /\ k.op = "deposit" /\ k.terms \in Terms /\ k.user \in User
        BY <1>3, <2>1, SuspendedCall DEF DepositSettled, Call
    <2>3. v = k.user
        <3> DEFINE x == balances[k.user][k.terms.domain][k.terms.asset] + k.terms.amount
        <3>1. SetBalance(k.user, k.terms.domain, k.terms.asset, x)
            BY <1>3, <2>1 DEF DepositSettled
        <3> HIDE DEF x
        <3>2. PICK u \in User, t \in Terms : u = k.user /\ t = k.terms
            BY <2>2
        <3>3. SetBalance(u, t.domain, t.asset, x)
            BY <3>1, <3>2
        <3>4. v = u /\ d = t.domain /\ a = t.asset /\ balances'[v][d][a] = x
            BY <1>1, <1>2, <3>3, BalanceRead
        <3> QED BY <3>2, <3>4
    <2>4. SetPlan(k, [k.plan EXCEPT !.status = "Finalised"])
        BY <1>3, <2>1, <2>2 DEF DepositSettled, SetPlan
    <2>5. deposit_plans'[v][k.id] = [k.plan EXCEPT !.status = "Finalised"]
        BY <1>1, <2>2, <2>3, <2>4, SetPlanRead DEF IdOK
    <2>6. /\ [k.plan EXCEPT !.status = "Finalised"] \in Plan
          /\ [k.plan EXCEPT !.status = "Finalised"].status = "Finalised"
        BY <2>2 DEF Plan, PlanStatus
    <2>7. DepositFinalised(v, k.id)
        BY <2>2, <2>3, <2>5, <2>6, CollateralAssumption DEF DepositFinalised, StoredPlan
    <2> QED BY <2>2, <2>7 DEF IdOK
<1>4. ASSUME NEW c \in CallId, WithdrawalFailed(c)
      PROVE  \E id \in WithdrawalId :
                ReservationCleared(v, id, balances'[v][d][a] - balances[v][d][a])
    <2>1. PICK k \in Call : k = call[c] /\ k # None
        BY <1>4, SuspendedCall DEF WithdrawalFailed
    <2>2. /\ IdOK(k) /\ k.plan = StoredPlan(k)
          /\ k.plan \in Plan /\ k.op = "withdrawal" /\ k.terms \in Terms /\ k.user \in User
        BY <1>4, <2>1, SuspendedCall DEF WithdrawalFailed, Call
    <2>3. k.plan.reserved_amount \in Nat
        BY <2>1, <2>2 DEF SerialInv, TypeInv, CallOK
    <2>4. v = k.user /\ balances'[v][d][a] = balances[v][d][a] + k.plan.reserved_amount
        <3> DEFINE x == balances[k.user][k.terms.domain][k.terms.asset] + k.plan.reserved_amount
        <3>1. SetBalance(k.user, k.terms.domain, k.terms.asset, x)
            BY <1>4, <2>1 DEF WithdrawalFailed
        <3> HIDE DEF x
        <3>2. PICK u \in User, t \in Terms : u = k.user /\ t = k.terms
            BY <2>2
        <3>3. SetBalance(u, t.domain, t.asset, x)
            BY <3>1, <3>2
        <3>4. v = u /\ d = t.domain /\ a = t.asset /\ balances'[v][d][a] = x
            BY <1>1, <1>2, <3>3, BalanceRead
        <3> QED BY <3>2, <3>4 DEF x
    <2>5. SetPlan(k, Compensated(k.plan))
        BY <1>4, <2>1, <2>2 DEF WithdrawalFailed, SetPlan
    <2>6. withdrawal_plans'[v][k.id] = Compensated(k.plan)
        BY <1>1, <2>2, <2>4, <2>5, SetPlanRead DEF IdOK
    <2>7. Compensated(k.plan) \in Plan /\ Compensated(k.plan).reserved_amount = None
        BY <2>2 DEF Plan, Compensated
    <2>8. balances'[v][d][a] - balances[v][d][a] = k.plan.reserved_amount
        BY <1>1, <2>3, <2>4
    <2>9. ReservationCleared(v, k.id, k.plan.reserved_amount)
        BY <2>2, <2>4, <2>6, <2>7, CollateralAssumption DEF ReservationCleared, StoredPlan
    <2> QED BY <2>2, <2>8, <2>9 DEF IdOK
<1>5. ASSUME NEW c \in CallId, NEW u \in User, NEW id \in WithdrawalId, NEW t \in Intent[id],
             BeginWithdrawal(c, u, id, t)
      PROVE  FALSE
    <2>1. t \in Terms
        BY CollateralAssumption
    <2> DEFINE x == Less(balances[u][t.domain][t.asset], t.amount)
    <2>2. SetBalance(u, t.domain, t.asset, x)
        BY <1>2, <1>5 DEF BeginWithdrawal
    <2>3. balances'[v][d][a] = Less(balances[v][d][a], t.amount)
        <3> HIDE DEF x
        <3>1. v = u /\ d = t.domain /\ a = t.asset /\ balances'[v][d][a] = x
            BY <1>1, <1>2, <2>1, <2>2, BalanceRead
        <3> QED BY <3>1 DEF x
    <2>4. t.amount \in Nat
        BY <2>1 DEF Terms
    <2> QED BY <1>1, <2>3, <2>4 DEF Less
<1>6. ~UNCHANGED balances
    BY <1>2
<1> QED
    BY ZenonT(30), <1>3, <1>4, <1>5, <1>6
    DEF Next, vars, canister, BeginDeposit, RejectWithdrawal, DepositFailed, WithdrawalSettled,
        LedgerAccepts, LedgerRejects, TimeOut, ReserveOrderMargin, ReleaseOrderMargin,
        LedgerExecutesLate, Upgrade, Tick

(* For such clients no credit and no refund is given twice, whatever is
   lost, late, refused or upgraded. *)
THEOREM SerialGrowsOnce ==
    ASSUME "serial" \in Discipline
    PROVE  Spec => BalanceGrowsOnce
<1>1. SerialInv /\ [Next]_vars => SerialInv'
    BY SerialStep
<1>2. SerialInv /\ [Next]_vars => [GrowthBooked]_vars
    BY GrowthStep
<1> QED BY <1>1, <1>2, SerialInit, PTL DEF Spec, BalanceGrowsOnce

-----------------------------------------------------------------------------
(* The promise of custody. *)


(* What the promise rests on.  The ledger answers every withdrawal, and one it
   has paid with its block: it is the withdrawal refunded on an unknown answer
   that breaks the promise (MCCollateral_lost_reply.cfg); of deposits nothing
   is assumed, their answers may be lost or refused for any reason, inside the
   deduplication window or after it.  A client repeats an id with the same
   terms, one call at a time, and withdraws what it has; no two plans of a
   user and kind are created at one instant; the ledger charges no fee. *)
PromiseAssumption ==
    /\ {"serial", "within_balance", "distinct_times", "answered"} \subseteq Discipline
    /\ \A i \in DepositId \cup WithdrawalId : \E t : Intent[i] = {t}
    /\ Fee = 0

-----------------------------------------------------------------------------
(* The inductive invariant. *)

(* One plan of a user and kind per instant. *)
TimesDistinct ==
    \A u \in User :
        /\ \A i, j \in DepositId :
              LET p == deposit_plans[u][i] q == deposit_plans[u][j] IN
              p # None /\ q # None /\ p.created_at = q.created_at => i = j
        /\ \A i, j \in WithdrawalId :
              LET p == withdrawal_plans[u][i] q == withdrawal_plans[u][j] IN
              p # None /\ q # None /\ p.created_at = q.created_at => i = j

(* A reservation is of the amount asked for. *)
AmountsAgreed ==
    \A u \in User, i \in WithdrawalId :
        LET p == withdrawal_plans[u][i] IN
        p # None => p.reserved_amount \in {None, Agreed[i].amount}

(* The request the plan p of an id sends to the ledger. *)
PlanRequest(op, u, i, p) ==
    [op |-> op, user |-> u, asset |-> Agreed[i].asset, amount |-> Agreed[i].amount,
     created_at |-> p.created_at]

(* A stored plan sends r, and holds its amount when r is a withdrawal. *)
Planned(r) ==
    \/ \E i \in DepositId : LET p == deposit_plans[r.user][i] IN
          p # None /\ r = PlanRequest("deposit", r.user, i, p)
    \/ \E i \in WithdrawalId : LET p == withdrawal_plans[r.user][i] IN
          /\ p # None /\ p.reserved_amount # None
          /\ r = PlanRequest("withdrawal", r.user, i, p)

(* The ledger only ever has requests of stored plans. *)
RequestsPlanned == \A r \in blocks \cup late : Planned(r)

(* A suspended call is for the agreed terms, and a withdrawal that is told of
   an error has no transfer at the ledger, executed or under way. *)
CallsAgreed ==
    \A c \in CallId : call[c] # None =>
        /\ call[c].terms = Agreed[call[c].id] /\ call[c].terms \in Intent[call[c].id]
        /\ call[c].op = "withdrawal" /\ call[c].stage = "err" =>
              RequestOf(call[c]) \notin blocks \cup late

OwnInv ==
    TimesDistinct /\ AmountsAgreed /\ RequestsPlanned /\ CallsAgreed

CustodyInv == SerialInv /\ BackedInv /\ OwnInv

-----------------------------------------------------------------------------
(* What the invariant says of one plan and of one suspended call. *)

(* The ledger's record of a plan is the transfer of the plan's own request. *)
LEMMA RecordedDeposit ==
    ASSUME CustodyInv, NEW u \in User, NEW i \in DepositId, deposit_plans[u][i] # None
    PROVE  LET p == deposit_plans[u][i] IN
           Recorded("deposit", u, p) <=> PlanRequest("deposit", u, i, p) \in blocks
<1> DEFINE p == deposit_plans[u][i]
<1>1. ASSUME NEW r \in blocks, r.op = "deposit", r.user = u, r.created_at = p.created_at
      PROVE  r = PlanRequest("deposit", u, i, p)
    <2>1. PICK j \in DepositId : deposit_plans[u][j] # None
                                 /\ r = PlanRequest("deposit", u, j, deposit_plans[u][j])
        BY <1>1 DEF CustodyInv, OwnInv, RequestsPlanned, Planned, PlanRequest
    <2>2. i = j
        BY <1>1, <2>1 DEF CustodyInv, OwnInv, TimesDistinct, PlanRequest
    <2> QED BY <2>1, <2>2
<1> QED BY <1>1 DEF Recorded, PlanRequest

LEMMA RecordedWithdrawal ==
    ASSUME CustodyInv, NEW u \in User, NEW i \in WithdrawalId, withdrawal_plans[u][i] # None
    PROVE  LET p == withdrawal_plans[u][i] IN
           /\ Recorded("withdrawal", u, p) <=> PlanRequest("withdrawal", u, i, p) \in blocks
           /\ PlanRequest("withdrawal", u, i, p) \in blocks \cup late => p.reserved_amount # None
<1> DEFINE p == withdrawal_plans[u][i]
<1>1. ASSUME NEW r \in blocks \cup late,
             r.op = "withdrawal", r.user = u, r.created_at = p.created_at
      PROVE  r = PlanRequest("withdrawal", u, i, p) /\ p.reserved_amount # None
    <2>1. PICK j \in WithdrawalId :
              /\ withdrawal_plans[u][j] # None /\ withdrawal_plans[u][j].reserved_amount # None
              /\ r = PlanRequest("withdrawal", u, j, withdrawal_plans[u][j])
        BY <1>1 DEF CustodyInv, OwnInv, RequestsPlanned, Planned, PlanRequest
    <2>2. i = j
        BY <1>1, <2>1 DEF CustodyInv, OwnInv, TimesDistinct, PlanRequest
    <2> QED BY <2>1, <2>2
<1> QED BY <1>1 DEF Recorded, PlanRequest

(* A suspended method's copy is the stored plan, and its request the plan's. *)
LEMMA CallRequest ==
    ASSUME CustodyInv, NEW c \in CallId, call[c] # None
    PROVE  LET k == call[c] IN
           /\ k \in Call /\ IdOK(k) /\ k.user \in User
           /\ k.plan = StoredPlan(k) /\ k.plan \in Plan /\ k.plan # None
           /\ k.plan.status = "Executing"
           /\ RequestOf(k) = PlanRequest(k.op, k.user, k.id, k.plan)
           /\ k.op = "withdrawal" => k.plan.reserved_amount = k.terms.amount
<1> DEFINE k == call[c]
<1>1. k \in Call /\ IdOK(k) /\ k.terms = Agreed[k.id]
    BY DEF CustodyInv, OwnInv, SerialInv, TypeInv, TypeOK, CallOK, CallsAgreed, IdOK, Call
<1>2. k.plan = StoredPlan(k) /\ k.plan.status = "Executing"
    BY DEF CustodyInv, SerialInv, LocalCopiesFresh
<1>3. k.user \in User /\ k.plan \in Plan /\ k.plan # None /\ k.terms \in Terms
    BY <1>1, CollateralAssumption DEF Call
<1>4. ASSUME k.op = "withdrawal" PROVE k.plan.reserved_amount = k.terms.amount
    <2>1. k.plan.reserved_amount # None
        BY <1>4, CollateralAssumption DEF CustodyInv, SerialInv, TypeInv, CallOK
    <2>2. k.id \in WithdrawalId /\ k.plan = withdrawal_plans[k.user][k.id]
        BY <1>1, <1>2, <1>4 DEF IdOK, StoredPlan
    <2> QED BY <1>1, <1>3, <2>1, <2>2 DEF CustodyInv, OwnInv, AmountsAgreed
<1>5. RequestOf(k) = PlanRequest(k.op, k.user, k.id, k.plan)
    <2>1. k.op \in {"deposit", "withdrawal"}
        BY <1>1 DEF Call
    <2> QED BY <1>1, <1>4, <2>1 DEF RequestOf, PlanRequest
<1> QED BY <1>1, <1>2, <1>3, <1>4, <1>5

(* Two suspended calls send different requests. *)
LEMMA OneCallPerRequest ==
    ASSUME CustodyInv, NEW c \in CallId, NEW x \in CallId, call[c] # None, call[x] # None,
           RequestOf(call[c]) = RequestOf(call[x])
    PROVE  c = x
<1> DEFINE k == call[c]
           j == call[x]
<1>1. /\ k \in Call /\ IdOK(k) /\ k.plan = StoredPlan(k) /\ k.plan # None /\ k.user \in User
      /\ j \in Call /\ IdOK(j) /\ j.plan = StoredPlan(j) /\ j.plan # None
      /\ RequestOf(k) = PlanRequest(k.op, k.user, k.id, k.plan)
      /\ RequestOf(j) = PlanRequest(j.op, j.user, j.id, j.plan)
    BY CallRequest
<1>2. k.op = j.op /\ k.user = j.user /\ k.plan.created_at = j.plan.created_at
    <2>1. PlanRequest(k.op, k.user, k.id, k.plan) = PlanRequest(j.op, j.user, j.id, j.plan)
        BY <1>1
    <2> QED BY ONLY <2>1 DEF PlanRequest
<1>3. k.id = j.id
    BY <1>1, <1>2 DEF IdOK, StoredPlan, CustodyInv, OwnInv, TimesDistinct
<1> QED BY <1>2, <1>3 DEF CustodyInv, SerialInv, OneCallPerPlan, Same

-----------------------------------------------------------------------------
(* How a step that changes one plan's progress looks to the promise. *)

LEMMA DepositMove ==
    ASSUME NEW u \in User, NEW id \in DepositId, NEW from, NEW to,
           DepositState(u, deposit_plans[u][id]) = from,
           DepositState(u, deposit_plans[u][id])' = to,
           \A v \in User, i \in DepositId : v # u \/ i # id =>
               DepositState(v, deposit_plans[v][i])' = DepositState(v, deposit_plans[v][i])
    PROVE  Promise!MoveDeposit(u, id, from, to)
BY DEF Promise!MoveDeposit, DepositStates

LEMMA WithdrawalMove ==
    ASSUME NEW u \in User, NEW id \in WithdrawalId, NEW from, NEW to,
           WithdrawalState(u, withdrawal_plans[u][id]) = from,
           WithdrawalState(u, withdrawal_plans[u][id])' = to,
           \A v \in User, i \in WithdrawalId : v # u \/ i # id =>
               WithdrawalState(v, withdrawal_plans[v][i])'
                   = WithdrawalState(v, withdrawal_plans[v][i])
    PROVE  Promise!MoveWithdrawal(u, id, from, to)
BY DEF Promise!MoveWithdrawal, WithdrawalStates

LEMMA DepositsRest ==
    ASSUME \A v \in User, i \in DepositId :
               DepositState(v, deposit_plans[v][i])' = DepositState(v, deposit_plans[v][i])
    PROVE  DepositStates' = DepositStates
BY DEF DepositStates

LEMMA WithdrawalsRest ==
    ASSUME \A v \in User, i \in WithdrawalId :
               WithdrawalState(v, withdrawal_plans[v][i])'
                   = WithdrawalState(v, withdrawal_plans[v][i])
    PROVE  WithdrawalStates' = WithdrawalStates
BY DEF WithdrawalStates

-----------------------------------------------------------------------------
(* Steps that store a deposit plan. *)

LEMMA DepositRewritten ==
    ASSUME CustodyInv, NEW u \in User, NEW id \in DepositId, NEW q \in Plan,
           deposit_plans' = [deposit_plans EXCEPT ![u][id] = q],
           UNCHANGED <<withdrawal_plans, blocks, late>>,
           deposit_plans[u][id] # None => q.created_at = deposit_plans[u][id].created_at,
           deposit_plans[u][id] = None =>
               \A j \in DepositId : deposit_plans[u][j] # None =>
                   deposit_plans[u][j].created_at # q.created_at
    PROVE  /\ TimesDistinct' /\ AmountsAgreed' /\ RequestsPlanned'
           /\ WithdrawalStates' = WithdrawalStates
           /\ \A v \in User, i \in DepositId : v # u \/ i # id =>
                 DepositState(v, deposit_plans[v][i])' = DepositState(v, deposit_plans[v][i])
           /\ DepositState(u, deposit_plans[u][id])' =
                 IF q.status = "Finalised" THEN "credited"
                 ELSE IF /\ deposit_plans[u][id] # None
                         /\ Recorded("deposit", u, deposit_plans[u][id])
                      THEN "moved" ELSE "open"
<1> USE DEF CustodyInv, OwnInv
<1>1. /\ deposit_plans'[u][id] = q /\ q # None
      /\ \A v \in User, i \in DepositId :
            v # u \/ i # id => deposit_plans'[v][i] = deposit_plans[v][i]
    BY CollateralAssumption DEF SerialInv, TypeInv, TypeOK
<1>2. TimesDistinct'
    <2> SUFFICES ASSUME NEW v \in User, NEW i \in DepositId, NEW j \in DepositId,
                        deposit_plans'[v][i] # None, deposit_plans'[v][j] # None,
                        deposit_plans'[v][i].created_at = deposit_plans'[v][j].created_at,
                        i # j
                 PROVE  FALSE
        BY DEF TimesDistinct
    <2>1. CASE v = u /\ i = id
        BY <1>1, <2>1 DEF TimesDistinct
    <2>2. CASE v = u /\ j = id
        BY <1>1, <2>2 DEF TimesDistinct
    <2>3. CASE v # u \/ (i # id /\ j # id)
        BY <1>1, <2>3 DEF TimesDistinct
    <2> QED BY <2>1, <2>2, <2>3
<1>3. AmountsAgreed'
    BY DEF AmountsAgreed
<1>4. RequestsPlanned'
    <2> SUFFICES ASSUME NEW r \in blocks \cup late, NEW i \in DepositId,
                        deposit_plans[r.user][i] # None,
                        r = PlanRequest("deposit", r.user, i, deposit_plans[r.user][i])
                 PROVE  /\ deposit_plans'[r.user][i] # None
                        /\ r = PlanRequest("deposit", r.user, i, deposit_plans'[r.user][i])
        BY DEF RequestsPlanned, Planned
    <2>1. r.user \in User
        BY DEF SerialInv, TypeInv, TypeOK, Request
    <2> QED BY <1>1, <2>1 DEF PlanRequest
<1>5. WithdrawalStates' = WithdrawalStates
    BY DEF WithdrawalStates, WithdrawalState, Recorded
<1>6. ASSUME NEW v \in User, NEW i \in DepositId, v # u \/ i # id
      PROVE  DepositState(v, deposit_plans[v][i])' = DepositState(v, deposit_plans[v][i])
    BY <1>1, <1>6 DEF DepositState, Recorded
<1>7. Recorded("deposit", u, q)' <=> Recorded("deposit", u, q)
    BY DEF Recorded
<1>8. ASSUME Recorded("deposit", u, q)
      PROVE  deposit_plans[u][id] # None /\ Recorded("deposit", u, deposit_plans[u][id])
    <2>1. PICK r \in blocks : r.op = "deposit" /\ r.user = u /\ r.created_at = q.created_at
        BY <1>8 DEF Recorded
    <2>2. PICK i \in DepositId : deposit_plans[u][i] # None
                                 /\ r = PlanRequest("deposit", u, i, deposit_plans[u][i])
        BY <2>1 DEF RequestsPlanned, Planned, PlanRequest
    <2>3. deposit_plans[u][i].created_at = q.created_at
        BY <2>1, <2>2 DEF PlanRequest
    <2>4. deposit_plans[u][id] # None
        BY <2>2, <2>3
    <2> QED BY <2>1, <2>4 DEF Recorded
<1>9. DepositState(u, deposit_plans[u][id])' =
          IF q.status = "Finalised" THEN "credited"
          ELSE IF Recorded("deposit", u, q) THEN "moved" ELSE "open"
    BY <1>1, <1>7 DEF DepositState
<1>10. deposit_plans[u][id] # None /\ Recorded("deposit", u, deposit_plans[u][id])
           => Recorded("deposit", u, q)
    BY DEF Recorded
<1> QED BY <1>2, <1>3, <1>4, <1>5, <1>6, <1>8, <1>9, <1>10

(* The agreed terms are the only ones. *)
LEMMA OnlyTerms ==
    ASSUME PromiseAssumption, NEW i \in DepositId \cup WithdrawalId, NEW t \in Intent[i]
    PROVE  t = Agreed[i] /\ t \in Terms
BY CollateralAssumption DEF Agreed, PromiseAssumption

(* A new suspended call, and one that returns, leave the others as agreed. *)
LEMMA CallsAgreedBegin ==
    ASSUME CustodyInv, NEW c \in CallId, NEW k, call' = [call EXCEPT ![c] = k],
           UNCHANGED <<blocks, late>>,
           k # None => k.terms = Agreed[k.id] /\ k.terms \in Intent[k.id] /\ k.stage = "sent"
    PROVE  CallsAgreed'
<1> SUFFICES ASSUME NEW x \in CallId, call'[x] # None
             PROVE  /\ call'[x].terms = Agreed[call'[x].id]
                    /\ call'[x].terms \in Intent[call'[x].id]
                    /\ call'[x].op = "withdrawal" /\ call'[x].stage = "err" =>
                          RequestOf(call'[x]) \notin blocks \cup late
    BY DEF CallsAgreed, RequestOf
<1>1. CASE x = c
    BY <1>1 DEF CustodyInv, SerialInv, TypeInv, TypeOK
<1>2. CASE x # c
    <2>1. call'[x] = call[x]
        BY <1>2 DEF CustodyInv, SerialInv, TypeInv, TypeOK
    <2> QED BY <2>1 DEF CustodyInv, OwnInv, CallsAgreed
<1> QED BY <1>1, <1>2

(* deposit_collateral up to its await: nothing has moved yet. *)
LEMMA BeginDepositKeeps ==
    ASSUME CustodyInv, PromiseAssumption, NEW c \in CallId, NEW u \in User,
           NEW id \in DepositId, NEW t \in Intent[id], BeginDeposit(c, u, id, t)
    PROVE  OwnInv' /\ UNCHANGED Promise!promised
<1> DEFINE old == deposit_plans[u][id]
           plan == GetOrCreate(old, t.asset)
           q == [plan EXCEPT !.status = "Executing"]
           new == [op |-> "deposit", user |-> u, id |-> id, terms |-> t,
                   plan |-> q, stage |-> "sent"]
<1>1. t = Agreed[id] /\ t \in Terms
    BY OnlyTerms
<1>2. plan \in Plan
    <2>1. old \in Plan \cup {None} /\ clock \in Nat /\ t.asset \in Asset
        BY <1>1 DEF CustodyInv, SerialInv, TypeInv, TypeOK, Terms
    <2> QED BY <2>1, GetOrCreateType
<1>3. /\ q \in Plan /\ q.status = "Executing" /\ q.created_at = plan.created_at
    BY <1>2 DEF Plan, PlanStatus
<1>4. /\ deposit_plans' = [deposit_plans EXCEPT ![u][id] = q]
      /\ call' = [call EXCEPT ![c] = new]
      /\ UNCHANGED <<withdrawal_plans, blocks, late, clock, balances, custody>>
      /\ plan.status # "Finalised"
      /\ old = None => FreshTime(deposit_plans[u])
    BY DEF BeginDeposit, Suspend, ledger, Open
<1>5. /\ old # None => q.created_at = old.created_at /\ old.status # "Finalised"
      /\ old = None => q.created_at = clock
    BY <1>3, <1>4 DEF GetOrCreate, NewPlan
<1>6. old = None => \A j \in DepositId :
          deposit_plans[u][j] # None => deposit_plans[u][j].created_at # q.created_at
    <2>1. DOMAIN deposit_plans[u] = DepositId
        BY DEF CustodyInv, SerialInv, TypeInv, TypeOK
    <2> QED BY <1>4, <1>5, <2>1 DEF FreshTime, PromiseAssumption
<1> HIDE DEF q, plan
<1>7. /\ TimesDistinct' /\ AmountsAgreed' /\ RequestsPlanned'
      /\ WithdrawalStates' = WithdrawalStates
      /\ \A v \in User, i \in DepositId : v # u \/ i # id =>
            DepositState(v, deposit_plans[v][i])' = DepositState(v, deposit_plans[v][i])
      /\ DepositState(u, deposit_plans[u][id])' =
            IF q.status = "Finalised" THEN "credited"
            ELSE IF old # None /\ Recorded("deposit", u, old) THEN "moved" ELSE "open"
    BY <1>3, <1>4, <1>5, <1>6, DepositRewritten
<1>8. DepositState(u, deposit_plans[u][id])' = DepositState(u, deposit_plans[u][id])
    BY <1>3, <1>5, <1>7 DEF DepositState
<1>9. DepositStates' = DepositStates
    <2>1. \A v \in User, i \in DepositId :
            DepositState(v, deposit_plans[v][i])' = DepositState(v, deposit_plans[v][i])
        BY <1>7, <1>8
    <2> QED BY <2>1, DepositsRest
<1>10. CallsAgreed'
    <2>1. new.terms = Agreed[new.id] /\ new.terms \in Intent[new.id] /\ new.stage = "sent"
        BY <1>1
    <2> QED BY <1>4, <2>1, CallsAgreedBegin
<1> QED BY <1>4, <1>7, <1>9, <1>10 DEF OwnInv, CustodyInv, Promise!promised

(* A returning deposit call: it credits what has moved, or leaves the plan as
   it was. *)
LEMMA ReturnDepositKeeps ==
    ASSUME CustodyInv, PromiseAssumption, NEW c \in CallId,
           DepositSettled(c) \/ DepositFailed(c),
           NEW u \in User, NEW id \in DepositId, call[c].user = u, call[c].id = id
    PROVE  OwnInv' /\ [Promise!Next]_(Promise!promised)
<1> DEFINE k == call[c]
           old == deposit_plans[u][id]
           q == IF DepositSettled(c) THEN [k.plan EXCEPT !.status = "Finalised"] ELSE k.plan
<1>1. k # None /\ k.op = "deposit"
    BY DEF DepositSettled, DepositFailed
<1>2. /\ k \in Call /\ k.plan = StoredPlan(k) /\ k.plan \in Plan
      /\ k.plan # None /\ k.plan.status = "Executing"
      /\ RequestOf(k) = PlanRequest(k.op, u, id, k.plan)
    BY <1>1, CallRequest
<1>3. old = k.plan
    BY <1>1, <1>2 DEF StoredPlan
<1>4. /\ deposit_plans' = [deposit_plans EXCEPT ![u][id] = q]
      /\ call' = [call EXCEPT ![c] = None]
      /\ UNCHANGED <<withdrawal_plans, blocks, late, clock, custody>>
    BY DEF DepositSettled, DepositFailed, Return, ledger
<1>5. /\ q \in Plan /\ q.created_at = old.created_at
      /\ q.status = IF DepositSettled(c) THEN "Finalised" ELSE "Executing"
    BY <1>2, <1>3 DEF Plan, PlanStatus
<1> HIDE DEF q
<1>6. /\ TimesDistinct' /\ AmountsAgreed' /\ RequestsPlanned'
      /\ WithdrawalStates' = WithdrawalStates
      /\ \A v \in User, i \in DepositId : v # u \/ i # id =>
            DepositState(v, deposit_plans[v][i])' = DepositState(v, deposit_plans[v][i])
      /\ DepositState(u, deposit_plans[u][id])' =
            IF q.status = "Finalised" THEN "credited"
            ELSE IF old # None /\ Recorded("deposit", u, old) THEN "moved" ELSE "open"
    BY ZenonT(30), <1>2, <1>3, <1>4, <1>5, DepositRewritten
<1>7. CallsAgreed'
    BY <1>4, CallsAgreedBegin
<1>8. OwnInv'
    BY <1>4, <1>6, <1>7 DEF OwnInv, CustodyInv
<1>9. CASE DepositSettled(c)
    <2>1. Recorded("deposit", u, old)
        <3>1. RequestOf(k) \in blocks
            BY <1>1, <1>9 DEF CustodyInv, BackedInv, DepositSettled
        <3> QED BY <1>1, <1>2, <1>3, <3>1 DEF Recorded, PlanRequest
    <2>2. DepositState(u, old) = "moved"
        BY <1>2, <1>3, <2>1 DEF DepositState
    <2>3. DepositState(u, deposit_plans[u][id])' = "credited"
        BY <1>5, <1>6, <1>9
    <2>4. Promise!MoveDeposit(u, id, "moved", "credited")
        BY <1>6, <2>2, <2>3, DepositMove
    <2>5. k.terms = Agreed[id] /\ k.terms \in Terms
        BY <1>1, <1>2 DEF CustodyInv, OwnInv, CallsAgreed, Call
    <2>6. Promise!Book(u, Agreed[id], Agreed[id].amount)
        <3>1. balances' = [balances EXCEPT ![u][k.terms.domain][k.terms.asset] =
                              balances[u][k.terms.domain][k.terms.asset] + k.terms.amount]
            BY <1>9 DEF DepositSettled, SetBalance
        <3>2. balances \in [User -> [Domain -> [Asset -> Nat]]]
            BY DEF CustodyInv, SerialInv, TypeInv, TypeOK
        <3> QED BY <2>5, <3>1, <3>2 DEF Promise!Book, Terms
    <2>7. Promise!Credit(u, id)
        BY <1>4, <1>6, <2>4, <2>6 DEF Promise!Credit
    <2> QED BY <1>8, <2>7 DEF Promise!Next
<1>10. CASE ~DepositSettled(c)
    <2>1. DepositState(u, deposit_plans[u][id])' = DepositState(u, deposit_plans[u][id])
        BY <1>2, <1>3, <1>5, <1>6, <1>10 DEF DepositState
    <2>2. DepositStates' = DepositStates
        <3>1. \A v \in User, i \in DepositId :
                DepositState(v, deposit_plans[v][i])' = DepositState(v, deposit_plans[v][i])
            BY <1>6, <2>1
        <3> QED BY <3>1, DepositsRest
    <2>3. UNCHANGED balances
        BY <1>10 DEF DepositFailed
    <2> QED BY <1>4, <1>6, <1>8, <2>2, <2>3 DEF Promise!promised
<1> QED BY <1>9, <1>10

-----------------------------------------------------------------------------
(* Steps that store a withdrawal plan. *)

LEMMA WithdrawalRewritten ==
    ASSUME CustodyInv, NEW u \in User, NEW id \in WithdrawalId, NEW q \in Plan,
           withdrawal_plans' = [withdrawal_plans EXCEPT ![u][id] = q],
           UNCHANGED <<deposit_plans, blocks, late>>,
           withdrawal_plans[u][id] # None => q.created_at = withdrawal_plans[u][id].created_at,
           withdrawal_plans[u][id] = None =>
               \A j \in WithdrawalId : withdrawal_plans[u][j] # None =>
                   withdrawal_plans[u][j].created_at # q.created_at,
           q.reserved_amount \in {None, Agreed[id].amount},
           q.reserved_amount = None /\ withdrawal_plans[u][id] # None =>
               PlanRequest("withdrawal", u, id, withdrawal_plans[u][id]) \notin blocks \cup late
    PROVE  /\ TimesDistinct' /\ AmountsAgreed' /\ RequestsPlanned'
           /\ DepositStates' = DepositStates
           /\ \A v \in User, i \in WithdrawalId : v # u \/ i # id =>
                 WithdrawalState(v, withdrawal_plans[v][i])'
                     = WithdrawalState(v, withdrawal_plans[v][i])
           /\ WithdrawalState(u, withdrawal_plans[u][id])' =
                 IF q.reserved_amount = None THEN "open"
                 ELSE IF /\ withdrawal_plans[u][id] # None
                         /\ Recorded("withdrawal", u, withdrawal_plans[u][id])
                      THEN "paid" ELSE "reserved"
<1> USE DEF CustodyInv, OwnInv
<1>1. /\ withdrawal_plans'[u][id] = q /\ q # None
      /\ \A v \in User, i \in WithdrawalId :
            v # u \/ i # id => withdrawal_plans'[v][i] = withdrawal_plans[v][i]
    BY CollateralAssumption DEF SerialInv, TypeInv, TypeOK
<1>2. TimesDistinct'
    <2> SUFFICES ASSUME NEW v \in User, NEW i \in WithdrawalId, NEW j \in WithdrawalId,
                        withdrawal_plans'[v][i] # None, withdrawal_plans'[v][j] # None,
                        withdrawal_plans'[v][i].created_at = withdrawal_plans'[v][j].created_at,
                        i # j
                 PROVE  FALSE
        BY DEF TimesDistinct
    <2>1. CASE v = u /\ i = id
        BY <1>1, <2>1 DEF TimesDistinct
    <2>2. CASE v = u /\ j = id
        BY <1>1, <2>2 DEF TimesDistinct
    <2>3. CASE v # u \/ (i # id /\ j # id)
        BY <1>1, <2>3 DEF TimesDistinct
    <2> QED BY <2>1, <2>2, <2>3
<1>3. AmountsAgreed'
    <2> SUFFICES ASSUME NEW v \in User, NEW i \in WithdrawalId, withdrawal_plans'[v][i] # None
                 PROVE  withdrawal_plans'[v][i].reserved_amount \in {None, Agreed[i].amount}
        BY DEF AmountsAgreed
    <2>1. CASE v = u /\ i = id
        BY <1>1, <2>1
    <2>2. CASE v # u \/ i # id
        BY <1>1, <2>2 DEF AmountsAgreed
    <2> QED BY <2>1, <2>2
<1>4. RequestsPlanned'
    <2> SUFFICES ASSUME NEW r \in blocks \cup late, NEW i \in WithdrawalId,
                        withdrawal_plans[r.user][i] # None,
                        withdrawal_plans[r.user][i].reserved_amount # None,
                        r = PlanRequest("withdrawal", r.user, i, withdrawal_plans[r.user][i])
                 PROVE  /\ withdrawal_plans'[r.user][i] # None
                        /\ withdrawal_plans'[r.user][i].reserved_amount # None
                        /\ r = PlanRequest("withdrawal", r.user, i, withdrawal_plans'[r.user][i])
        BY DEF RequestsPlanned, Planned
    <2>1. r.user \in User
        BY DEF SerialInv, TypeInv, TypeOK, Request
    <2>2. CASE r.user = u /\ i = id
        BY <1>1, <2>2 DEF PlanRequest
    <2>3. CASE r.user # u \/ i # id
        BY <1>1, <2>1, <2>3
    <2> QED BY <2>2, <2>3
<1>5. DepositStates' = DepositStates
    BY DEF DepositStates, DepositState, Recorded
<1>6. ASSUME NEW v \in User, NEW i \in WithdrawalId, v # u \/ i # id
      PROVE  WithdrawalState(v, withdrawal_plans[v][i])'
                 = WithdrawalState(v, withdrawal_plans[v][i])
    BY <1>1, <1>6 DEF WithdrawalState, Recorded
<1>7. Recorded("withdrawal", u, q)' <=> Recorded("withdrawal", u, q)
    BY DEF Recorded
<1>8. ASSUME Recorded("withdrawal", u, q)
      PROVE  /\ withdrawal_plans[u][id] # None
             /\ Recorded("withdrawal", u, withdrawal_plans[u][id])
    <2>1. PICK r \in blocks : r.op = "withdrawal" /\ r.user = u /\ r.created_at = q.created_at
        BY <1>8 DEF Recorded
    <2>2. PICK i \in WithdrawalId :
              /\ withdrawal_plans[u][i] # None
              /\ r = PlanRequest("withdrawal", u, i, withdrawal_plans[u][i])
        BY <2>1 DEF RequestsPlanned, Planned, PlanRequest
    <2>3. withdrawal_plans[u][i].created_at = q.created_at
        BY <2>1, <2>2 DEF PlanRequest
    <2>4. withdrawal_plans[u][id] # None
        BY <2>2, <2>3
    <2> QED BY <2>1, <2>4 DEF Recorded
<1>9. WithdrawalState(u, withdrawal_plans[u][id])' =
          IF q.reserved_amount = None THEN "open"
          ELSE IF Recorded("withdrawal", u, q) THEN "paid" ELSE "reserved"
    BY <1>1, <1>7 DEF WithdrawalState
<1>10. withdrawal_plans[u][id] # None /\ Recorded("withdrawal", u, withdrawal_plans[u][id])
           => Recorded("withdrawal", u, q)
    BY DEF Recorded
<1> QED BY <1>2, <1>3, <1>4, <1>5, <1>6, <1>8, <1>9, <1>10

(* withdraw_collateral up to its await: a plan that holds nothing reserves, a
   retry of one that does changes nothing. *)
LEMMA BeginWithdrawalKeeps ==
    ASSUME CustodyInv, PromiseAssumption, NEW c \in CallId, NEW u \in User,
           NEW id \in WithdrawalId, NEW t \in Intent[id], BeginWithdrawal(c, u, id, t)
    PROVE  OwnInv' /\ [Promise!Next]_(Promise!promised)
<1> DEFINE old == withdrawal_plans[u][id]
           plan == GetOrCreate(old, t.asset)
           amount == IF plan.reserved_amount = None THEN t.amount ELSE plan.reserved_amount
           q == [plan EXCEPT !.status = "Executing", !.reserved_amount = amount]
           new == [op |-> "withdrawal", user |-> u, id |-> id, terms |-> t,
                   plan |-> q, stage |-> "sent"]
<1>1. t = Agreed[id] /\ t \in Terms
    BY OnlyTerms
<1>2. plan \in Plan
    <2>1. old \in Plan \cup {None} /\ clock \in Nat /\ t.asset \in Asset
        BY <1>1 DEF CustodyInv, SerialInv, TypeInv, TypeOK, Terms
    <2> QED BY <2>1, GetOrCreateType
<1>3. amount = t.amount /\ amount \in Nat /\ amount # None
    <2>1. plan.reserved_amount \in {None, t.amount}
        BY <1>1 DEF GetOrCreate, NewPlan, CustodyInv, OwnInv, AmountsAgreed
    <2> QED BY <1>1, <2>1, CollateralAssumption DEF Terms
<1>4. /\ q \in Plan /\ q.created_at = plan.created_at /\ q.reserved_amount = t.amount
    BY <1>2, <1>3 DEF Plan, PlanStatus
<1>5. /\ withdrawal_plans' = [withdrawal_plans EXCEPT ![u][id] = q]
      /\ call' = [call EXCEPT ![c] = new]
      /\ UNCHANGED <<deposit_plans, blocks, late, clock, custody>>
      /\ old = None => FreshTime(withdrawal_plans[u])
      /\ \/ /\ plan.reserved_amount = None
            /\ "within_balance" \in Discipline =>
                   t.amount <= balances[u][t.domain][t.asset]
            /\ SetBalance(u, t.domain, t.asset, Less(balances[u][t.domain][t.asset], t.amount))
         \/ plan.reserved_amount # None /\ UNCHANGED balances
    BY DEF BeginWithdrawal, Suspend, ledger
<1>6. /\ old # None => plan = old
      /\ old = None => plan.created_at = clock /\ plan.reserved_amount = None
    BY DEF GetOrCreate, NewPlan
<1>7. old = None => \A j \in WithdrawalId :
          withdrawal_plans[u][j] # None => withdrawal_plans[u][j].created_at # q.created_at
    <2>1. DOMAIN withdrawal_plans[u] = WithdrawalId
        BY DEF CustodyInv, SerialInv, TypeInv, TypeOK
    <2> QED BY <1>4, <1>5, <1>6, <2>1 DEF FreshTime, PromiseAssumption
<1> HIDE DEF q, plan, amount
<1>8. /\ TimesDistinct' /\ AmountsAgreed' /\ RequestsPlanned'
      /\ DepositStates' = DepositStates
      /\ \A v \in User, i \in WithdrawalId : v # u \/ i # id =>
            WithdrawalState(v, withdrawal_plans[v][i])'
                = WithdrawalState(v, withdrawal_plans[v][i])
      /\ WithdrawalState(u, withdrawal_plans[u][id])' =
            IF q.reserved_amount = None THEN "open"
            ELSE IF old # None /\ Recorded("withdrawal", u, old) THEN "paid" ELSE "reserved"
    BY ZenonT(30), <1>1, <1>3, <1>4, <1>5, <1>6, <1>7, WithdrawalRewritten
<1>9. OwnInv'
    <2>1. CallsAgreed'
        <3>1. new.terms = Agreed[new.id] /\ new.terms \in Intent[new.id] /\ new.stage = "sent"
            BY <1>1
        <3> QED BY <1>5, <3>1, CallsAgreedBegin
    <2> QED BY <1>5, <1>8, <2>1 DEF OwnInv, CustodyInv
<1>10. CASE plan.reserved_amount = None
    <2>1. old # None => ~Recorded("withdrawal", u, old)
        BY <1>6, <1>10, RecordedWithdrawal
    <2>2. /\ WithdrawalState(u, withdrawal_plans[u][id]) = "open"
          /\ WithdrawalState(u, withdrawal_plans[u][id])' = "reserved"
        BY <1>3, <1>4, <1>6, <1>8, <1>10, <2>1 DEF WithdrawalState
    <2>3. Promise!MoveWithdrawal(u, id, "open", "reserved")
        BY <1>8, <2>2, WithdrawalMove
    <2>4. balances[u][t.domain][t.asset] \in Nat /\ t.amount \in Nat
        BY <1>1 DEF CustodyInv, SerialInv, TypeInv, TypeOK, Terms
    <2>5. balances[u][t.domain][t.asset] >= t.amount
        BY <1>5, <1>10, <2>4 DEF PromiseAssumption
    <2>6. Less(balances[u][t.domain][t.asset], t.amount)
              = balances[u][t.domain][t.asset] + (-t.amount)
        BY <2>4, <2>5 DEF Less
    <2>7. Promise!Book(u, Agreed[id], -Agreed[id].amount)
        <3>1. balances' = [balances EXCEPT ![u][t.domain][t.asset] =
                              balances[u][t.domain][t.asset] + (-t.amount)]
            BY <1>5, <1>10, <2>6 DEF SetBalance
        <3>2. balances \in [User -> [Domain -> [Asset -> Nat]]]
            BY DEF CustodyInv, SerialInv, TypeInv, TypeOK
        <3> QED BY <1>1, <3>1, <3>2 DEF Promise!Book, Terms
    <2>8. Promise!Reserve(u, id)
        BY <1>1, <1>5, <1>8, <2>3, <2>5, <2>7 DEF Promise!Reserve
    <2> QED BY <1>9, <2>8 DEF Promise!Next
<1>11. CASE plan.reserved_amount # None
    <2>1. WithdrawalState(u, withdrawal_plans[u][id])' = WithdrawalState(u, withdrawal_plans[u][id])
        BY <1>3, <1>4, <1>6, <1>8, <1>11 DEF WithdrawalState
    <2>2. WithdrawalStates' = WithdrawalStates
        <3>1. \A v \in User, i \in WithdrawalId :
                WithdrawalState(v, withdrawal_plans[v][i])'
                    = WithdrawalState(v, withdrawal_plans[v][i])
            BY <1>8, <2>1
        <3> QED BY <3>1, WithdrawalsRest
    <2> QED BY <1>5, <1>8, <1>9, <1>11, <2>2 DEF Promise!promised
<1> QED BY <1>10, <1>11

(* A refused withdrawal has created its plan, and nothing else. *)
LEMMA RejectWithdrawalKeeps ==
    ASSUME CustodyInv, PromiseAssumption, NEW u \in User, NEW id \in WithdrawalId,
           NEW t \in Intent[id], RejectWithdrawal(u, id, t)
    PROVE  OwnInv' /\ UNCHANGED Promise!promised
<1> DEFINE old == withdrawal_plans[u][id]
           q == NewPlan(t.asset)
<1>1. q \in Plan /\ q.reserved_amount = None /\ q.created_at = clock
    BY OnlyTerms DEF NewPlan, Plan, PlanStatus, Terms, CustodyInv, SerialInv, TypeInv, TypeOK
<1>2. /\ withdrawal_plans' = [withdrawal_plans EXCEPT ![u][id] = q]
      /\ UNCHANGED <<deposit_plans, blocks, late, call, clock, balances, custody>>
      /\ old = None /\ FreshTime(withdrawal_plans[u])
    BY DEF RejectWithdrawal, ledger
<1>3. \A j \in WithdrawalId :
          withdrawal_plans[u][j] # None => withdrawal_plans[u][j].created_at # q.created_at
    <2>1. DOMAIN withdrawal_plans[u] = WithdrawalId
        BY DEF CustodyInv, SerialInv, TypeInv, TypeOK
    <2> QED BY <1>1, <1>2, <2>1 DEF FreshTime, PromiseAssumption
<1> HIDE DEF q
<1>4. /\ TimesDistinct' /\ AmountsAgreed' /\ RequestsPlanned'
      /\ DepositStates' = DepositStates
      /\ \A v \in User, i \in WithdrawalId : v # u \/ i # id =>
            WithdrawalState(v, withdrawal_plans[v][i])'
                = WithdrawalState(v, withdrawal_plans[v][i])
      /\ WithdrawalState(u, withdrawal_plans[u][id])' =
            IF q.reserved_amount = None THEN "open"
            ELSE IF old # None /\ Recorded("withdrawal", u, old) THEN "paid" ELSE "reserved"
    BY <1>1, <1>2, <1>3, WithdrawalRewritten
<1>5. WithdrawalStates' = WithdrawalStates
    <2>1. WithdrawalState(u, withdrawal_plans[u][id]) = "open"
        BY <1>2 DEF WithdrawalState
    <2>2. \A v \in User, i \in WithdrawalId :
            WithdrawalState(v, withdrawal_plans[v][i])'
                = WithdrawalState(v, withdrawal_plans[v][i])
        BY <1>1, <1>4, <2>1
    <2> QED BY <2>2, WithdrawalsRest
<1>6. CallsAgreed'
    BY <1>2 DEF CustodyInv, OwnInv, CallsAgreed, RequestOf
<1> QED BY <1>2, <1>4, <1>5, <1>6 DEF OwnInv, CustodyInv, Promise!promised

(* A returning withdrawal: what was paid stays paid, and what the ledger did
   not transfer is refunded. *)
LEMMA ReturnWithdrawalKeeps ==
    ASSUME CustodyInv, PromiseAssumption, NEW c \in CallId,
           WithdrawalSettled(c) \/ WithdrawalFailed(c),
           NEW u \in User, NEW id \in WithdrawalId, call[c].user = u, call[c].id = id
    PROVE  OwnInv' /\ [Promise!Next]_(Promise!promised)
<1> DEFINE k == call[c]
           old == withdrawal_plans[u][id]
           q == IF WithdrawalSettled(c) THEN [k.plan EXCEPT !.status = "Finalised"]
                ELSE Compensated(k.plan)
<1>1. k # None /\ k.op = "withdrawal"
    BY DEF WithdrawalSettled, WithdrawalFailed
<1>2. /\ k \in Call /\ k.plan = StoredPlan(k) /\ k.plan \in Plan
      /\ k.plan # None /\ k.plan.status = "Executing"
      /\ RequestOf(k) = PlanRequest(k.op, u, id, k.plan)
      /\ k.plan.reserved_amount = k.terms.amount
    BY <1>1, CallRequest
<1>3. old = k.plan
    BY <1>1, <1>2 DEF StoredPlan
<1>4. k.terms = Agreed[id] /\ k.terms \in Terms /\ k.terms.amount \in Nat
    BY <1>1, <1>2 DEF CustodyInv, OwnInv, CallsAgreed, Call, Terms
<1>5. k.terms.amount # None
    BY <1>4, CollateralAssumption
<1>6. /\ withdrawal_plans' = [withdrawal_plans EXCEPT ![u][id] = q]
      /\ call' = [call EXCEPT ![c] = None]
      /\ UNCHANGED <<deposit_plans, blocks, late, clock, custody>>
    <2>1. WithdrawalSettled(c) => k.stage = "ok"
        BY DEF WithdrawalSettled
    <2>2. WithdrawalFailed(c) => k.stage = "err"
        BY DEF WithdrawalFailed
    <2> QED BY <2>1, <2>2 DEF WithdrawalSettled, WithdrawalFailed, Return, ledger
<1>7. /\ q \in Plan /\ q.created_at = old.created_at
      /\ q.reserved_amount = IF WithdrawalSettled(c) THEN k.terms.amount ELSE None
    BY <1>2, <1>3 DEF Plan, PlanStatus, Compensated
<1>8. ~WithdrawalSettled(c) => PlanRequest("withdrawal", u, id, old) \notin blocks \cup late
    BY <1>1, <1>2, <1>3 DEF CustodyInv, OwnInv, CallsAgreed, WithdrawalFailed
<1> HIDE DEF q
<1>9. /\ TimesDistinct' /\ AmountsAgreed' /\ RequestsPlanned'
      /\ DepositStates' = DepositStates
      /\ \A v \in User, i \in WithdrawalId : v # u \/ i # id =>
            WithdrawalState(v, withdrawal_plans[v][i])'
                = WithdrawalState(v, withdrawal_plans[v][i])
      /\ WithdrawalState(u, withdrawal_plans[u][id])' =
            IF q.reserved_amount = None THEN "open"
            ELSE IF old # None /\ Recorded("withdrawal", u, old) THEN "paid" ELSE "reserved"
    <2>1. /\ q.reserved_amount \in {None, Agreed[id].amount}
          /\ q.reserved_amount = None => PlanRequest("withdrawal", u, id, old) \notin blocks \cup late
        BY <1>4, <1>5, <1>7, <1>8
    <2>2. old # None /\ q \in Plan /\ q.created_at = old.created_at
        BY <1>2, <1>3, <1>7
    <2>3. UNCHANGED <<deposit_plans, blocks, late>>
        BY <1>6
    <2> QED BY ONLY CustodyInv, u \in User, id \in WithdrawalId, <1>6, <2>1, <2>2, <2>3,
                    WithdrawalRewritten
<1>10. OwnInv'
    <2>1. CallsAgreed'
        BY <1>6, CallsAgreedBegin
    <2> QED BY <1>6, <1>9, <2>1 DEF OwnInv, CustodyInv
<1>11. CASE WithdrawalSettled(c)
    <2>1. WithdrawalState(u, withdrawal_plans[u][id])' = WithdrawalState(u, withdrawal_plans[u][id])
        BY <1>2, <1>3, <1>5, <1>7, <1>9, <1>11 DEF WithdrawalState
    <2>2. WithdrawalStates' = WithdrawalStates
        <3>1. \A v \in User, i \in WithdrawalId :
                WithdrawalState(v, withdrawal_plans[v][i])'
                    = WithdrawalState(v, withdrawal_plans[v][i])
            BY <1>9, <2>1
        <3> QED BY <3>1, WithdrawalsRest
    <2>3. UNCHANGED balances
        BY <1>11 DEF WithdrawalSettled
    <2> QED BY <1>6, <1>9, <1>10, <2>2, <2>3 DEF Promise!promised
<1>12. CASE ~WithdrawalSettled(c)
    <2>1. ~Recorded("withdrawal", u, old)
        BY <1>2, <1>3, <1>8, <1>12, RecordedWithdrawal
    <2>2. /\ WithdrawalState(u, withdrawal_plans[u][id]) = "reserved"
          /\ WithdrawalState(u, withdrawal_plans[u][id])' = "open"
        BY <1>2, <1>3, <1>5, <1>7, <1>9, <1>12, <2>1 DEF WithdrawalState
    <2>3. Promise!MoveWithdrawal(u, id, "reserved", "open")
        BY <1>9, <2>2, WithdrawalMove
    <2>4. Promise!Book(u, Agreed[id], Agreed[id].amount)
        <3>1. balances' = [balances EXCEPT ![u][k.terms.domain][k.terms.asset] =
                              balances[u][k.terms.domain][k.terms.asset] + k.terms.amount]
            BY <1>2, <1>12 DEF WithdrawalFailed, SetBalance
        <3>2. balances \in [User -> [Domain -> [Asset -> Nat]]]
            BY DEF CustodyInv, SerialInv, TypeInv, TypeOK
        <3> QED BY <1>4, <3>1, <3>2 DEF Promise!Book, Terms
    <2>5. Promise!Refund(u, id)
        BY <1>6, <1>9, <2>3, <2>4 DEF Promise!Refund
    <2> QED BY <1>10, <2>5 DEF Promise!Next
<1> QED BY <1>11, <1>12

-----------------------------------------------------------------------------
(* The ledger's steps. *)

(* Requests leave the methods only for stored plans. *)
LEMMA CallPlanned ==
    ASSUME CustodyInv, NEW c \in CallId, call[c] # None
    PROVE  Planned(RequestOf(call[c])) /\ RequestOf(call[c]) \in Request
<1> DEFINE k == call[c]
<1>1. /\ k \in Call /\ IdOK(k) /\ k.plan = StoredPlan(k) /\ k.plan # None
      /\ RequestOf(k) = PlanRequest(k.op, k.user, k.id, k.plan)
      /\ k.op = "withdrawal" => k.plan.reserved_amount = k.terms.amount
    BY CallRequest
<1>2. RequestOf(k) \in Request
    BY RequestType DEF CustodyInv, SerialInv
<1>3. CASE k.op = "deposit"
    BY SMTT(30), <1>1, <1>2, <1>3 DEF Planned, PlanRequest, IdOK, StoredPlan
<1>4. CASE k.op = "withdrawal"
    <2>1. k.plan.reserved_amount # None
        BY <1>1, <1>4, CollateralAssumption DEF Call, Terms
    <2>2. k.id \in WithdrawalId /\ k.plan = withdrawal_plans[k.user][k.id]
        BY <1>1, <1>4 DEF IdOK, StoredPlan
    <2>3. /\ RequestOf(k).user = k.user
          /\ RequestOf(k) = PlanRequest("withdrawal", k.user, k.id, k.plan)
        BY <1>1, <1>4 DEF PlanRequest
    <2> QED BY <1>1, <1>2, <2>1, <2>2, <2>3 DEF Planned
<1> QED BY <1>1, <1>2, <1>3, <1>4 DEF Call

(* Steps that leave the plans alone keep the invariant, when they invent no
   request and a withdrawal told of an error has none at the ledger. *)
LEMMA PlansRest ==
    ASSUME CustodyInv, UNCHANGED <<deposit_plans, withdrawal_plans>>,
           \A r \in (blocks \cup late)' : Planned(r),
           CallsAgreed'
    PROVE  OwnInv'
BY DEF CustodyInv, OwnInv, TimesDistinct, AmountsAgreed, RequestsPlanned, Planned

LEMMA StatesRest ==
    ASSUME UNCHANGED <<deposit_plans, withdrawal_plans, blocks>>
    PROVE  UNCHANGED <<DepositStates, WithdrawalStates>>
BY DEF DepositStates, DepositState, WithdrawalStates, WithdrawalState, Recorded

(* A new block moves the tokens of one plan, once. *)
LEMMA TransferMoves ==
    ASSUME CustodyInv, PromiseAssumption, NEW r \in Request, Planned(r), Transfer(r),
           UNCHANGED <<deposit_plans, withdrawal_plans, balances>>
    PROVE  [Promise!Next]_(Promise!promised)
<1>1. CASE r \in blocks
    <2>1. UNCHANGED <<blocks, custody>>
        BY <1>1 DEF Transfer, ledger
    <2> QED BY <2>1, StatesRest DEF Promise!promised
<1>2. CASE r \notin blocks
    <2>1. /\ blocks' = blocks \cup {r}
          /\ custody' = [custody EXCEPT ![r.user][r.asset] =
                            IF r.op = "deposit" THEN custody[r.user][r.asset] + r.amount
                            ELSE custody[r.user][r.asset] + (-r.amount)]
        <3>1. custody \in [User -> [Asset -> Nat]] /\ r.user \in User /\ r.asset \in Asset
              /\ r.amount \in Nat
            BY DEF CustodyInv, SerialInv, TypeInv, TypeOK, Request
        <3>2. custody[r.user][r.asset] - r.amount - 0 = custody[r.user][r.asset] + (-r.amount)
            BY <3>1
        <3>3. Fee = 0
            BY DEF PromiseAssumption
        <3> QED BY <1>2, <3>2, <3>3 DEF Transfer
    <2>2. r.user \in User
        BY DEF Request
    <2>3. ASSUME NEW i \in DepositId, deposit_plans[r.user][i] # None,
                 r = PlanRequest("deposit", r.user, i, deposit_plans[r.user][i])
          PROVE  Promise!TokensIn(r.user, i)
        <3> DEFINE p == deposit_plans[r.user][i]
        <3>1. r.op = "deposit" /\ r.created_at = p.created_at
              /\ r.asset = Agreed[i].asset /\ r.amount = Agreed[i].amount
            BY <2>3 DEF PlanRequest
        <3>2. ~Recorded("deposit", r.user, p)
            BY <1>2, <2>2, <2>3, RecordedDeposit
        <3>3. p.status # "Finalised"
            BY <2>2, <2>3, <3>2
               DEF CustodyInv, BackedInv, FinalisedHasBlock, DepositHasBlock, Recorded
        <3>4. DepositState(r.user, p) = "open"
            BY <2>3, <3>2, <3>3 DEF DepositState
        <3>5. DepositState(r.user, deposit_plans[r.user][i])' = "moved"
            BY <2>1, <2>3, <3>1, <3>3 DEF DepositState, Recorded
        <3>6. ASSUME NEW v \in User, NEW j \in DepositId, v # r.user \/ j # i
              PROVE  DepositState(v, deposit_plans[v][j])' = DepositState(v, deposit_plans[v][j])
            <4>1. v = r.user /\ deposit_plans[v][j] # None =>
                      deposit_plans[v][j].created_at # r.created_at
                BY <2>2, <2>3, <3>1, <3>6 DEF CustodyInv, OwnInv, TimesDistinct
            <4> QED BY <2>1, <4>1 DEF DepositState, Recorded
        <3>7. Promise!MoveDeposit(r.user, i, "open", "moved")
            BY <2>2, <3>4, <3>5, <3>6, DepositMove
        <3>8. WithdrawalStates' = WithdrawalStates
            BY <2>1, <3>1 DEF WithdrawalStates, WithdrawalState, Recorded
        <3> QED BY <2>1, <3>1, <3>7, <3>8 DEF Promise!TokensIn, Promise!Hold
    <2>4. ASSUME NEW i \in WithdrawalId, withdrawal_plans[r.user][i] # None,
                 withdrawal_plans[r.user][i].reserved_amount # None,
                 r = PlanRequest("withdrawal", r.user, i, withdrawal_plans[r.user][i])
          PROVE  Promise!PayOut(r.user, i)
        <3> DEFINE p == withdrawal_plans[r.user][i]
        <3>1. r.op = "withdrawal" /\ r.created_at = p.created_at
              /\ r.asset = Agreed[i].asset /\ r.amount = Agreed[i].amount
            BY <2>4 DEF PlanRequest
        <3>2. ~Recorded("withdrawal", r.user, p)
            BY <1>2, <2>2, <2>4, RecordedWithdrawal
        <3>3. WithdrawalState(r.user, p) = "reserved"
            BY <2>4, <3>2 DEF WithdrawalState
        <3>4. WithdrawalState(r.user, withdrawal_plans[r.user][i])' = "paid"
            BY <2>1, <2>4, <3>1 DEF WithdrawalState, Recorded
        <3>5. ASSUME NEW v \in User, NEW j \in WithdrawalId, v # r.user \/ j # i
              PROVE  WithdrawalState(v, withdrawal_plans[v][j])'
                         = WithdrawalState(v, withdrawal_plans[v][j])
            <4>1. v = r.user /\ withdrawal_plans[v][j] # None =>
                      withdrawal_plans[v][j].created_at # r.created_at
                BY <2>2, <2>4, <3>1, <3>5 DEF CustodyInv, OwnInv, TimesDistinct
            <4> QED BY <2>1, <4>1 DEF WithdrawalState, Recorded
        <3>6. Promise!MoveWithdrawal(r.user, i, "reserved", "paid")
            BY <2>2, <3>3, <3>4, <3>5, WithdrawalMove
        <3>7. DepositStates' = DepositStates
            BY <2>1, <3>1 DEF DepositStates, DepositState, Recorded
        <3> QED BY <2>1, <3>1, <3>6, <3>7 DEF Promise!PayOut, Promise!Hold
    <2> QED BY <2>2, <2>3, <2>4 DEF Planned, Promise!Next
<1> QED BY <1>1, <1>2

(* An answer to one call says nothing of the requests of the others. *)
LEMMA CallsAgreedAnswer ==
    ASSUME CustodyInv, NEW c \in CallId, call[c] # None, NEW s \in {"ok", "err"}, Answer(c, s),
           \A r \in (blocks \cup late)' : r \in blocks \cup late \/ r = RequestOf(call[c]),
           s = "err" /\ call[c].op = "withdrawal" =>
              RequestOf(call[c]) \notin (blocks \cup late)'
    PROVE  CallsAgreed'
<1> DEFINE AgreedNow(k) ==
              /\ k.terms = Agreed[k.id] /\ k.terms \in Intent[k.id]
              /\ k.op = "withdrawal" /\ k.stage = "err" =>
                    RequestOf(k) \notin blocks' \cup late'
<1>1. SUFFICES ASSUME NEW x \in CallId, call'[x] # None
               PROVE  AgreedNow(call'[x])
    BY DEF CallsAgreed, RequestOf
<1>2. CASE x = c
    <2>1. call[c] \in Call /\ call'[c] = [call[c] EXCEPT !.stage = s]
        BY CallRequest DEF Answer, CustodyInv, SerialInv, TypeInv, TypeOK
    <2>2. /\ call'[c].terms = call[c].terms /\ call'[c].id = call[c].id
          /\ call'[c].op = call[c].op /\ call'[c].user = call[c].user
          /\ call'[c].plan = call[c].plan /\ call'[c].stage = s
        BY <2>1 DEF Call
    <2>3. RequestOf(call'[c]) = RequestOf(call[c])
        BY <2>2 DEF RequestOf
    <2> QED BY <1>2, <2>2, <2>3 DEF CustodyInv, OwnInv, CallsAgreed
<1>3. CASE x # c
    <2>1. call'[x] = call[x]
        BY <1>3 DEF Answer, CustodyInv, SerialInv, TypeInv, TypeOK
    <2>2. RequestOf(call[x]) # RequestOf(call[c])
        BY <1>1, <1>3, <2>1, OneCallPerRequest
    <2> QED BY <1>1, <2>1, <2>2 DEF CustodyInv, OwnInv, CallsAgreed
<1> QED BY <1>2, <1>3

LEMMA LedgerAcceptsKeeps ==
    ASSUME CustodyInv, PromiseAssumption, NEW c \in CallId, LedgerAccepts(c)
    PROVE  OwnInv' /\ [Promise!Next]_(Promise!promised)
<1> DEFINE r == RequestOf(call[c])
<1>1. /\ call[c] # None /\ Transfer(r) /\ late' = late \ {r} /\ Answer(c, "ok")
      /\ UNCHANGED <<deposit_plans, withdrawal_plans, balances, clock>>
    BY DEF LedgerAccepts, canister
<1>2. Planned(r) /\ r \in Request
    BY <1>1, CallPlanned
<1>3. blocks' \subseteq blocks \cup {r}
    BY <1>1 DEF Transfer, ledger
<1>4. [Promise!Next]_(Promise!promised)
    BY <1>1, <1>2, TransferMoves
<1> HIDE DEF r
<1>5. CallsAgreed'
    BY <1>1, <1>3, CallsAgreedAnswer DEF r
<1>6. \A q \in (blocks \cup late)' : Planned(q)
    BY <1>1, <1>2, <1>3 DEF CustodyInv, OwnInv, RequestsPlanned
<1> QED BY <1>1, <1>4, <1>5, <1>6, PlansRest DEF CustodyInv, OwnInv

(* A withdrawal is refused only if it has no block. *)
LEMMA LedgerRejectsKeeps ==
    ASSUME CustodyInv, PromiseAssumption, NEW c \in CallId, LedgerRejects(c)
    PROVE  OwnInv' /\ UNCHANGED Promise!promised
<1> DEFINE r == RequestOf(call[c])
<1>1. /\ call[c] # None /\ late' = late \ {r} /\ Answer(c, "err")
      /\ UNCHANGED <<deposit_plans, withdrawal_plans, balances, clock, blocks, custody>>
    BY DEF LedgerRejects, canister, ledger
<1>2. Planned(r) /\ r \in Request
    BY <1>1, CallPlanned
<1>3. call[c].op = "withdrawal" => r \notin blocks
    BY DEF LedgerRejects, SureOfAnswer, PromiseAssumption
<1>4. CallsAgreed'
    <2>1. \A q \in (blocks \cup late)' : q \in blocks \cup late \/ q = RequestOf(call[c])
        BY <1>1
    <2>2. call[c].op = "withdrawal" => RequestOf(call[c]) \notin (blocks \cup late)'
        BY <1>1, <1>3
    <2> QED BY <1>1, <2>1, <2>2, CallsAgreedAnswer
<1>5. \A q \in (blocks \cup late)' : Planned(q)
    BY <1>1 DEF CustodyInv, OwnInv, RequestsPlanned
<1>6. OwnInv'
    BY <1>1, <1>4, <1>5, PlansRest DEF CustodyInv, OwnInv
<1> QED BY <1>1, <1>6, StatesRest DEF Promise!promised

(* Only a deposit is given up on, and its request stays that of its plan. *)
LEMMA TimeOutKeeps ==
    ASSUME CustodyInv, PromiseAssumption, NEW c \in CallId, TimeOut(c)
    PROVE  OwnInv' /\ UNCHANGED Promise!promised
<1>1. /\ call[c] # None /\ call[c].op # "withdrawal" /\ Answer(c, "err")
      /\ late' \in {late, late \cup {RequestOf(call[c])}}
      /\ UNCHANGED <<deposit_plans, withdrawal_plans, balances, blocks, custody>>
    BY DEF TimeOut, SureOfAnswer, PromiseAssumption, canister, ledger
<1>2. \A q \in (blocks \cup late)' : q \in blocks \cup late \/ q = RequestOf(call[c])
    BY <1>1
<1>3. CallsAgreed'
    BY <1>1, <1>2, CallsAgreedAnswer
<1>4. \A q \in (blocks \cup late)' : Planned(q)
    BY <1>1, <1>2, CallPlanned DEF CustodyInv, OwnInv, RequestsPlanned
<1>5. OwnInv'
    BY <1>1, <1>3, <1>4, PlansRest
<1> QED BY <1>1, <1>5, StatesRest DEF Promise!promised

(* A request nobody waits for is still that of a stored plan, and of no call
   that was told of an error. *)
LEMMA LedgerExecutesLateKeeps ==
    ASSUME CustodyInv, PromiseAssumption, NEW r \in late, LedgerExecutesLate(r)
    PROVE  OwnInv' /\ [Promise!Next]_(Promise!promised)
<1>1. /\ Transfer(r) /\ late' = late \ {r}
      /\ UNCHANGED <<deposit_plans, withdrawal_plans, balances, clock, call>>
    BY DEF LedgerExecutesLate, canister
<1>2. Planned(r) /\ r \in Request
    BY DEF CustodyInv, OwnInv, RequestsPlanned, SerialInv, TypeInv, TypeOK
<1>3. blocks' \subseteq blocks \cup {r}
    BY <1>1 DEF Transfer, ledger
<1>4. [Promise!Next]_(Promise!promised)
    BY <1>1, <1>2, TransferMoves
<1>5. CallsAgreed'
    BY <1>1, <1>3 DEF CustodyInv, OwnInv, CallsAgreed, RequestOf
<1>6. \A q \in (blocks \cup late)' : Planned(q)
    BY <1>1, <1>2, <1>3 DEF CustodyInv, OwnInv, RequestsPlanned
<1> QED BY <1>1, <1>4, <1>5, <1>6, PlansRest DEF CustodyInv, OwnInv

(* The requests an upgrade leaves behind are those of stored plans. *)
LEMMA UpgradeKeeps ==
    ASSUME CustodyInv, PromiseAssumption, Upgrade
    PROVE  OwnInv' /\ UNCHANGED Promise!promised
<1>1. /\ late' = late \cup Unanswered /\ call' = [c \in CallId |-> None]
      /\ UNCHANGED <<deposit_plans, withdrawal_plans, balances, blocks, custody>>
    BY DEF Upgrade, canister, ledger
<1>2. \A q \in Unanswered : Planned(q)
    BY CallPlanned DEF Unanswered
<1>3. \A q \in (blocks \cup late)' : Planned(q)
    BY <1>1, <1>2 DEF CustodyInv, OwnInv, RequestsPlanned
<1>4. CallsAgreed'
    BY <1>1 DEF CallsAgreed
<1>5. OwnInv'
    BY <1>1, <1>3, <1>4, PlansRest
<1> QED BY <1>1, <1>5, StatesRest DEF Promise!promised

(* The order methods and the passage of time. *)
LEMMA OtherKeeps ==
    ASSUME CustodyInv, Tick \/ UNCHANGED vars
                       \/ \E u \in User, d \in Domain :
                             ReserveOrderMargin(u, d) \/ ReleaseOrderMargin(u, d)
    PROVE  OwnInv' /\ UNCHANGED Promise!promised
<1>1. UNCHANGED <<deposit_plans, withdrawal_plans, balances, call, blocks, late, custody>>
    BY DEF Tick, vars, canister, ledger, ReserveOrderMargin, ReleaseOrderMargin
<1>2. \A q \in (blocks \cup late)' : Planned(q)
    BY <1>1 DEF CustodyInv, OwnInv, RequestsPlanned
<1>3. CallsAgreed'
    BY <1>1 DEF CallsAgreed, CustodyInv, OwnInv, RequestOf
<1>4. OwnInv'
    BY <1>1, <1>2, <1>3, PlansRest
<1> QED BY <1>1, <1>4, StatesRest DEF Promise!promised

-----------------------------------------------------------------------------
(* The refinement. *)

LEMMA CustodyInit == Init => CustodyInv /\ Promise!Init
<1> SUFFICES ASSUME Init PROVE CustodyInv /\ Promise!Init
    OBVIOUS
<1>1. SerialInv
    BY SerialInit
<1>2. BackedInv
    BY TypeInit DEF BackedInv, Init, FinalisedHasBlock, DepositHasBlock, WithdrawalHasBlock
<1>3. OwnInv
    BY CollateralAssumption
       DEF Init, OwnInv, TimesDistinct, AmountsAgreed, RequestsPlanned, CallsAgreed
<1>4. Promise!Init
    BY DEF Init, Promise!Init, DepositStates, DepositState, WithdrawalStates, WithdrawalState
<1> QED BY <1>1, <1>2, <1>3, <1>4 DEF CustodyInv

(* Every step of the methods, the ledger and the clients is a step the
   promise allows, or changes nothing it speaks of. *)
LEMMA CustodyStep ==
    ASSUME PromiseAssumption, CustodyInv, [Next]_vars
    PROVE  CustodyInv' /\ [Promise!Next]_(Promise!promised)
<1>1. SerialInv' /\ BackedInv'
    BY SerialStep, BackedStep DEF CustodyInv, PromiseAssumption
<1> SUFFICES OwnInv' /\ [Promise!Next]_(Promise!promised)
    BY <1>1 DEF CustodyInv
<1>2. CASE \E c \in CallId, u \in User, id \in DepositId :
              \E t \in Intent[id] : BeginDeposit(c, u, id, t)
    BY <1>2, BeginDepositKeeps
<1>3. CASE \E c \in CallId, u \in User, id \in WithdrawalId :
              \E t \in Intent[id] : BeginWithdrawal(c, u, id, t)
    BY <1>3, BeginWithdrawalKeeps
<1>4. CASE \E u \in User, id \in WithdrawalId : \E t \in Intent[id] : RejectWithdrawal(u, id, t)
    BY <1>4, RejectWithdrawalKeeps
<1>5. CASE \E c \in CallId : DepositSettled(c) \/ DepositFailed(c)
    <2>1. PICK c \in CallId : DepositSettled(c) \/ DepositFailed(c)
        BY <1>5
    <2>2. call[c] # None /\ call[c].op = "deposit"
        BY <2>1 DEF DepositSettled, DepositFailed
    <2>3. call[c].user \in User /\ call[c].id \in DepositId
        BY <2>2, CallRequest DEF IdOK
    <2> QED BY <2>1, <2>3, ReturnDepositKeeps
<1>6. CASE \E c \in CallId : WithdrawalSettled(c) \/ WithdrawalFailed(c)
    <2>1. PICK c \in CallId : WithdrawalSettled(c) \/ WithdrawalFailed(c)
        BY <1>6
    <2>2. call[c] # None /\ call[c].op = "withdrawal"
        BY <2>1 DEF WithdrawalSettled, WithdrawalFailed
    <2>3. call[c].user \in User /\ call[c].id \in WithdrawalId
        BY <2>2, CallRequest DEF IdOK
    <2> QED BY <2>1, <2>3, ReturnWithdrawalKeeps
<1>7. CASE \E c \in CallId : LedgerAccepts(c)
    BY <1>7, LedgerAcceptsKeeps
<1>8. CASE \E c \in CallId : LedgerRejects(c)
    BY <1>8, LedgerRejectsKeeps
<1>9. CASE \E c \in CallId : TimeOut(c)
    BY <1>9, TimeOutKeeps
<1>10. CASE \E r \in late : LedgerExecutesLate(r)
    BY <1>10, LedgerExecutesLateKeeps
<1>11. CASE Upgrade
    BY <1>11, UpgradeKeeps
<1>12. CASE Tick \/ UNCHANGED vars
            \/ \E u \in User, d \in Domain : ReserveOrderMargin(u, d) \/ ReleaseOrderMargin(u, d)
    BY <1>12, OtherKeeps
<1> QED BY <1>2, <1>3, <1>4, <1>5, <1>6, <1>7, <1>8, <1>9, <1>10, <1>11, <1>12 DEF Next

(* deposit_collateral and withdraw_collateral, suspended and retried in any
   order over refusals and upgrades, move and book each plan once, as
   CustodyPromise says, whatever becomes of the answers to deposits.  It rests
   on PromiseAssumption: every withdrawal is answered, and one that was paid
   with its block, the ledger charges no fee, and clients call an id with one
   set of terms, once at a time, at times of their own and within their
   balance. *)
THEOREM CustodyKeepsPromise ==
    ASSUME PromiseAssumption
    PROVE  Spec => KeepsPromise
<1>1. CustodyInv /\ [Next]_vars => CustodyInv' /\ [Promise!Next]_(Promise!promised)
    BY CustodyStep
<1> QED BY <1>1, CustodyInit, PTL DEF Spec, KeepsPromise, Promise!Spec

-----------------------------------------------------------------------------
(* Custody covers the balances: what CustodyPromise keeps, counted. *)

BalanceOf(u, a) == [d \in Domain |-> balances[u][d][a]]

(* Deposits that moved tokens and are not credited, reservations that are not
   paid out, in one asset. *)
MovedOf(u, a) ==
    [i \in DepositId |-> IF DepositStates[u][i] = "moved" /\ Agreed[i].asset = a
                         THEN Agreed[i].amount ELSE 0]

HeldOf(u, a) ==
    [i \in WithdrawalId |-> IF WithdrawalStates[u][i] = "reserved" /\ Agreed[i].asset = a
                            THEN Agreed[i].amount ELSE 0]

Counted(u, a) ==
    custody[u][a] = SumOver(BalanceOf(u, a), Domain) + SumOver(MovedOf(u, a), DepositId)
                        + SumOver(HeldOf(u, a), WithdrawalId)

Backing == \A u \in User, a \in Asset : Counted(u, a)

(* The sum of the model is the sum of the lemmas. *)
LEMMA TotalIsSum ==
    ASSUME NEW u, NEW a
    PROVE  TotalBalance(u, a) = SumOver(BalanceOf(u, a), Domain)
<1> DEFINE f == BalanceOf(u, a)
           Fold(g) == g = [s \in SUBSET Domain |->
                              IF s = {} THEN 0 ELSE balances[u][Pick(s)][a] + g[s \ {Pick(s)}]]
<1>1. \A g : Fold(g) <=> IsFold(g, f, Domain)
    <2>1. \A s \in SUBSET Domain : s # {} => f[Pick(s)] = balances[u][Pick(s)][a]
        BY PickIn DEF BalanceOf
    <2> QED BY <2>1 DEF IsFold
<1>2. (CHOOSE g : Fold(g)) = (CHOOSE g : IsFold(g, f, Domain))
    <2> HIDE DEF Fold, f
    <2> QED BY <1>1
<1>3. TotalBalance(u, a) = (CHOOSE g : Fold(g))[Domain]
    BY DEF TotalBalance, MapThenSumSet, MapThenFoldSet, Pick
<1> QED BY <1>2, <1>3, SumIsFold

(* The sets that are summed over. *)
FiniteBooks == IsFiniteSet(Domain) /\ IsFiniteSet(DepositId) /\ IsFiniteSet(WithdrawalId)

(* What delta adds to the books of user v and asset a, when it is booked for
   user u under terms t. *)
Share(v, a, u, t, delta) == IF v = u /\ a = t.asset THEN delta ELSE 0

LEMMA AgreedTerms ==
    ASSUME PromiseAssumption, NEW i \in DepositId \cup WithdrawalId
    PROVE  Agreed[i] \in Terms
<1>1. PICK t : Intent[i] = {t}
    BY DEF PromiseAssumption
<1>2. Intent[i] \subseteq Terms
    BY CollateralAssumption
<1> QED BY <1>1, <1>2 DEF Agreed

LEMMA StatesType ==
    /\ DepositStates \in [User -> [DepositId -> {"open", "moved", "credited"}]]
    /\ WithdrawalStates \in [User -> [WithdrawalId -> {"open", "reserved", "paid"}]]
BY DEF DepositStates, DepositState, WithdrawalStates, WithdrawalState

LEMMA SumOfBalances ==
    ASSUME FiniteBooks, TypeOK, NEW u \in User, NEW t \in Terms, NEW delta \in Int,
           Promise!Book(u, t, delta), NEW v \in User, NEW a \in Asset
    PROVE  SumOver(BalanceOf(v, a), Domain)'
               = SumOver(BalanceOf(v, a), Domain) + Share(v, a, u, t, delta)
<1> DEFINE f == BalanceOf(v, a)
           g == [d \in Domain |-> balances'[v][d][a]]
<1>1. SumOver(f, Domain)' = SumOver(g, Domain)
    BY DEF BalanceOf
<1>2. t.domain \in Domain /\ t.asset \in Asset
    BY DEF Terms
<1>3. \A d \in Domain :
          /\ balances[v][d][a] \in Nat
          /\ balances'[v][d][a] = balances[v][d][a]
                 + IF v = u /\ d = t.domain /\ a = t.asset THEN delta ELSE 0
    BY <1>2 DEF TypeOK, Promise!Book
<1>4. \A d \in Domain :
          /\ f[d] \in Int
          /\ g[d] = f[d] + IF v = u /\ d = t.domain /\ a = t.asset THEN delta ELSE 0
    BY <1>3 DEF BalanceOf
<1> HIDE DEF f, g
<1>5. SumOver(f, Domain) \in Int
    BY <1>4, SumType DEF FiniteBooks
<1>6. CASE v = u /\ a = t.asset
    <2>1. g[t.domain] = f[t.domain] + delta /\ f[t.domain] \in Int /\ g[t.domain] \in Int
        BY <1>2, <1>4, <1>6
    <2>2. \A d \in Domain \ {t.domain} : g[d] = f[d]
        BY <1>4
    <2>3. SumOver(g, Domain) = SumOver(f, Domain) - f[t.domain] + g[t.domain]
        BY <1>2, <1>4, <2>1, <2>2, SumUpdate DEF FiniteBooks
    <2> QED BY <1>1, <1>5, <1>6, <2>1, <2>3 DEF Share, f
<1>7. CASE ~(v = u /\ a = t.asset)
    <2>1. \A d \in Domain : f[d] = g[d]
        BY <1>4, <1>7
    <2>2. SumOver(f, Domain) = SumOver(g, Domain)
        BY <2>1, SumSame DEF FiniteBooks
    <2> QED BY <1>1, <1>5, <1>7, <2>2 DEF Share, f
<1> QED BY <1>6, <1>7

LEMMA CustodyRead ==
    ASSUME TypeOK, NEW u \in User, NEW t \in Terms, NEW delta \in Int,
           Promise!Hold(u, t, delta), NEW v \in User, NEW a \in Asset
    PROVE  custody'[v][a] = custody[v][a] + Share(v, a, u, t, delta)
<1>1. t.asset \in Asset /\ custody[v][a] \in Nat
    BY DEF Terms, TypeOK
<1> QED BY <1>1 DEF TypeOK, Promise!Hold, Share

(* A deposit that moves from one stage to another, and the sum of the moved. *)
LEMMA SumOfMoved ==
    ASSUME FiniteBooks, PromiseAssumption, NEW u \in User, NEW id \in DepositId, NEW from, NEW to,
           Promise!MoveDeposit(u, id, from, to), NEW v \in User, NEW a \in Asset
    PROVE  SumOver(MovedOf(v, a), DepositId)'
               = SumOver(MovedOf(v, a), DepositId)
                     - (IF from = "moved" THEN Share(v, a, u, Agreed[id], Agreed[id].amount) ELSE 0)
                     + (IF to = "moved" THEN Share(v, a, u, Agreed[id], Agreed[id].amount) ELSE 0)
<1> DEFINE f == MovedOf(v, a)
           state == DepositStates'[v]
           g == [i \in DepositId |-> IF state[i] = "moved" /\ Agreed[i].asset = a
                                     THEN Agreed[i].amount ELSE 0]
           s == Agreed[id].amount
<1>1. SumOver(f, DepositId)' = SumOver(g, DepositId)
    BY DEF MovedOf
<1>2. \A i \in DepositId : Agreed[i].amount \in Nat
    BY AgreedTerms DEF Terms
<1>3. /\ v = u => DepositStates[v][id] = from /\ DepositStates'[v][id] = to
      /\ \A i \in DepositId : v # u \/ i # id => DepositStates'[v][i] = DepositStates[v][i]
    BY StatesType DEF Promise!MoveDeposit
<1>4. \A i \in DepositId : f[i] \in Int /\ g[i] \in Int /\ (v # u \/ i # id => g[i] = f[i])
    BY <1>2, <1>3 DEF MovedOf
<1>5. v = u => /\ f[id] = IF from = "moved" /\ a = Agreed[id].asset THEN s ELSE 0
               /\ g[id] = IF to = "moved" /\ a = Agreed[id].asset THEN s ELSE 0
    BY <1>3 DEF MovedOf
<1>6. s \in Int
    BY <1>2
<1> HIDE DEF f, g, s
<1>7. SumOver(f, DepositId) \in Int
    BY <1>4, SumType DEF FiniteBooks
<1>8. CASE v = u
    <2>1. SumOver(g, DepositId) = SumOver(f, DepositId) - f[id] + g[id]
        BY <1>4, SumUpdate DEF FiniteBooks
    <2> QED BY <1>1, <1>5, <1>6, <1>7, <1>8, <2>1 DEF Share, f, s
<1>9. CASE v # u
    <2>1. SumOver(f, DepositId) = SumOver(g, DepositId)
        BY <1>4, <1>9, SumSame DEF FiniteBooks
    <2> QED BY <1>1, <1>7, <1>9, <2>1 DEF Share, f
<1> QED BY <1>8, <1>9

LEMMA SumOfHeld ==
    ASSUME FiniteBooks, PromiseAssumption, NEW u \in User, NEW id \in WithdrawalId,
           NEW from, NEW to,
           Promise!MoveWithdrawal(u, id, from, to), NEW v \in User, NEW a \in Asset
    PROVE  SumOver(HeldOf(v, a), WithdrawalId)'
               = SumOver(HeldOf(v, a), WithdrawalId)
                     - (IF from = "reserved" THEN Share(v, a, u, Agreed[id], Agreed[id].amount)
                                             ELSE 0)
                     + (IF to = "reserved" THEN Share(v, a, u, Agreed[id], Agreed[id].amount)
                                           ELSE 0)
<1> DEFINE f == HeldOf(v, a)
           state == WithdrawalStates'[v]
           g == [i \in WithdrawalId |-> IF state[i] = "reserved" /\ Agreed[i].asset = a
                                        THEN Agreed[i].amount ELSE 0]
           s == Agreed[id].amount
<1>1. SumOver(f, WithdrawalId)' = SumOver(g, WithdrawalId)
    BY DEF HeldOf
<1>2. \A i \in WithdrawalId : Agreed[i].amount \in Nat
    BY AgreedTerms DEF Terms
<1>3. /\ v = u => WithdrawalStates[v][id] = from /\ WithdrawalStates'[v][id] = to
      /\ \A i \in WithdrawalId :
            v # u \/ i # id => WithdrawalStates'[v][i] = WithdrawalStates[v][i]
    BY StatesType DEF Promise!MoveWithdrawal
<1>4. \A i \in WithdrawalId : f[i] \in Int /\ g[i] \in Int /\ (v # u \/ i # id => g[i] = f[i])
    BY <1>2, <1>3 DEF HeldOf
<1>5. v = u => /\ f[id] = IF from = "reserved" /\ a = Agreed[id].asset THEN s ELSE 0
               /\ g[id] = IF to = "reserved" /\ a = Agreed[id].asset THEN s ELSE 0
    BY <1>3 DEF HeldOf
<1>6. s \in Int
    BY <1>2
<1> HIDE DEF f, g, s
<1>7. SumOver(f, WithdrawalId) \in Int
    BY <1>4, SumType DEF FiniteBooks
<1>8. CASE v = u
    <2>1. SumOver(g, WithdrawalId) = SumOver(f, WithdrawalId) - f[id] + g[id]
        BY <1>4, SumUpdate DEF FiniteBooks
    <2> QED BY <1>1, <1>5, <1>6, <1>7, <1>8, <2>1 DEF Share, f, s
<1>9. CASE v # u
    <2>1. SumOver(f, WithdrawalId) = SumOver(g, WithdrawalId)
        BY <1>4, <1>9, SumSame DEF FiniteBooks
    <2> QED BY <1>1, <1>7, <1>9, <2>1 DEF Share, f
<1> QED BY <1>8, <1>9

(* No step of the promise moves tokens without booking them. *)
LEMMA BackingStep ==
    ASSUME FiniteBooks, PromiseAssumption, TypeOK, Backing, [Promise!Next]_(Promise!promised)
    PROVE  Backing'
<1> SUFFICES ASSUME NEW v \in User, NEW a \in Asset PROVE Counted(v, a)'
    BY DEF Backing
<1> DEFINE B == SumOver(BalanceOf(v, a), Domain)
           M == SumOver(MovedOf(v, a), DepositId)
           H == SumOver(HeldOf(v, a), WithdrawalId)
<1>1. custody[v][a] = B + M + H
    BY DEF Backing, Counted
<1>2. B \in Int /\ M \in Int /\ H \in Int
    <2>1. \A i \in DepositId \cup WithdrawalId : Agreed[i].amount \in Int
        BY AgreedTerms DEF Terms
    <2>2. /\ \A d \in Domain : BalanceOf(v, a)[d] \in Int
          /\ \A i \in DepositId : MovedOf(v, a)[i] \in Int
          /\ \A i \in WithdrawalId : HeldOf(v, a)[i] \in Int
        BY <2>1 DEF BalanceOf, MovedOf, HeldOf, TypeOK
    <2> QED BY <2>2, SumType DEF FiniteBooks
<1>3. /\ balances' = balances => B' = B
      /\ DepositStates' = DepositStates => M' = M
      /\ WithdrawalStates' = WithdrawalStates => H' = H
    BY DEF BalanceOf, MovedOf, HeldOf
<1>4. SUFFICES custody'[v][a] = B' + M' + H'
    BY DEF Counted
<1> HIDE DEF B, M, H
<1>5. CASE UNCHANGED Promise!promised
    BY <1>1, <1>3, <1>5 DEF Promise!promised
<1>6. ASSUME NEW u \in User, NEW id \in DepositId, Promise!TokensIn(u, id)
      PROVE  custody'[v][a] = B' + M' + H'
    <2> DEFINE t == Agreed[id]
               s == Share(v, a, u, t, t.amount)
    <2>1. t \in Terms /\ t.amount \in Int
        BY AgreedTerms DEF Terms
    <2>2. custody'[v][a] = custody[v][a] + s
        BY <1>6, <2>1, CustodyRead DEF Promise!TokensIn
    <2>3. M' = M + s
        BY <1>2, <1>6, SumOfMoved DEF Promise!TokensIn, M
    <2>4. B' = B /\ H' = H
        BY <1>3, <1>6 DEF Promise!TokensIn
    <2>5. s \in Int
        BY <2>1 DEF Share
    <2> HIDE DEF s
    <2> QED BY <1>1, <1>2, <2>2, <2>3, <2>4, <2>5
<1>7. ASSUME NEW u \in User, NEW id \in DepositId, Promise!Credit(u, id)
      PROVE  custody'[v][a] = B' + M' + H'
    <2> DEFINE t == Agreed[id]
               s == Share(v, a, u, t, t.amount)
    <2>1. t \in Terms /\ t.amount \in Int
        BY AgreedTerms DEF Terms
    <2>2. s \in Int
        BY <2>1 DEF Share
    <2>3. B' = B + s
        BY <1>7, <2>1, SumOfBalances DEF Promise!Credit, B
    <2>4. M' = M - s
        BY <1>2, <1>7, <2>2, SumOfMoved DEF Promise!Credit, M
    <2>5. custody' = custody /\ H' = H
        BY <1>3, <1>7 DEF Promise!Credit
    <2> HIDE DEF s
    <2> QED BY <1>1, <1>2, <2>2, <2>3, <2>4, <2>5
<1>8. ASSUME NEW u \in User, NEW id \in WithdrawalId, Promise!Reserve(u, id)
      PROVE  custody'[v][a] = B' + M' + H'
    <2> DEFINE t == Agreed[id]
               s == Share(v, a, u, t, t.amount)
    <2>1. t \in Terms /\ t.amount \in Int /\ -t.amount \in Int
        BY AgreedTerms DEF Terms
    <2>2. B' = B + Share(v, a, u, t, -t.amount)
        BY <1>8, <2>1, SumOfBalances DEF Promise!Reserve, B
    <2>3. H' = H + s
        BY <1>2, <1>8, SumOfHeld DEF Promise!Reserve, H
    <2>4. custody' = custody /\ M' = M
        BY <1>3, <1>8 DEF Promise!Reserve
    <2>5. s \in Int /\ Share(v, a, u, t, -t.amount) = -s
        BY <2>1 DEF Share
    <2> HIDE DEF s
    <2> QED BY <1>1, <1>2, <2>2, <2>3, <2>4, <2>5
<1>9. ASSUME NEW u \in User, NEW id \in WithdrawalId, Promise!Refund(u, id)
      PROVE  custody'[v][a] = B' + M' + H'
    <2> DEFINE t == Agreed[id]
               s == Share(v, a, u, t, t.amount)
    <2>1. t \in Terms /\ t.amount \in Int
        BY AgreedTerms DEF Terms
    <2>2. s \in Int
        BY <2>1 DEF Share
    <2>3. B' = B + s
        BY <1>9, <2>1, SumOfBalances DEF Promise!Refund, B
    <2>4. H' = H - s
        BY <1>2, <1>9, <2>2, SumOfHeld DEF Promise!Refund, H
    <2>5. custody' = custody /\ M' = M
        BY <1>3, <1>9 DEF Promise!Refund
    <2> HIDE DEF s
    <2> QED BY <1>1, <1>2, <2>2, <2>3, <2>4, <2>5
<1>10. ASSUME NEW u \in User, NEW id \in WithdrawalId, Promise!PayOut(u, id)
       PROVE  custody'[v][a] = B' + M' + H'
    <2> DEFINE t == Agreed[id]
               s == Share(v, a, u, t, t.amount)
    <2>1. t \in Terms /\ t.amount \in Int /\ -t.amount \in Int
        BY AgreedTerms DEF Terms
    <2>2. s \in Int /\ Share(v, a, u, t, -t.amount) = -s
        BY <2>1 DEF Share
    <2>3. custody'[v][a] = custody[v][a] + Share(v, a, u, t, -t.amount)
        BY <1>10, <2>1, CustodyRead DEF Promise!PayOut
    <2>4. H' = H - s
        BY <1>2, <1>10, <2>2, SumOfHeld DEF Promise!PayOut, H
    <2>5. B' = B /\ M' = M
        BY <1>3, <1>10 DEF Promise!PayOut
    <2> HIDE DEF s
    <2> QED BY <1>1, <1>2, <2>2, <2>3, <2>4, <2>5
<1> QED BY <1>5, <1>6, <1>7, <1>8, <1>9, <1>10 DEF Promise!Next

LEMMA BackingInit == ASSUME FiniteBooks, Init PROVE Backing
<1> SUFFICES ASSUME NEW v \in User, NEW a \in Asset PROVE Counted(v, a)
    BY DEF Backing
<1>1. /\ \A d \in Domain : BalanceOf(v, a)[d] = 0
      /\ \A i \in DepositId : MovedOf(v, a)[i] = 0
      /\ \A i \in WithdrawalId : HeldOf(v, a)[i] = 0
    BY DEF Init, BalanceOf, MovedOf, HeldOf, DepositStates, DepositState,
           WithdrawalStates, WithdrawalState
<1>2. /\ SumOver(BalanceOf(v, a), Domain) = 0 /\ SumOver(MovedOf(v, a), DepositId) = 0
      /\ SumOver(HeldOf(v, a), WithdrawalId) = 0
    BY <1>1, SumZero DEF FiniteBooks
<1> QED BY <1>2 DEF Counted, Init

LEMMA BackingCovers ==
    ASSUME FiniteBooks, PromiseAssumption, TypeOK, Backing
    PROVE  CustodyCoversBalances
<1> SUFFICES ASSUME NEW u \in User, NEW a \in Asset PROVE TotalBalance(u, a) <= custody[u][a]
    BY DEF CustodyCoversBalances
<1>1. \A i \in DepositId \cup WithdrawalId : Agreed[i].amount \in Nat
    BY AgreedTerms DEF Terms
<1>2. /\ \A d \in Domain : BalanceOf(u, a)[d] \in Nat
      /\ \A i \in DepositId : MovedOf(u, a)[i] \in Nat
      /\ \A i \in WithdrawalId : HeldOf(u, a)[i] \in Nat
    BY <1>1 DEF BalanceOf, MovedOf, HeldOf, TypeOK
<1>3. /\ SumOver(BalanceOf(u, a), Domain) \in Nat /\ SumOver(MovedOf(u, a), DepositId) \in Nat
      /\ SumOver(HeldOf(u, a), WithdrawalId) \in Nat
    BY <1>2, SumNat DEF FiniteBooks
<1>4. Counted(u, a)
    BY DEF Backing
<1> QED BY <1>3, <1>4, TotalIsSum DEF Counted

(* The tokens that a user's balances stand for are in its custody account,
   together with those of its deposits not yet credited and its reservations
   not yet paid, in every state that refusals, retries, upgrades and lost
   answers to deposits can lead to.  It rests on PromiseAssumption as well: a
   withdrawal whose answer is lost is refunded though it was paid, and the
   fee of a ledger that charges one is not debited. *)
THEOREM CustodyCovered ==
    ASSUME PromiseAssumption, FiniteBooks
    PROVE  Spec => []CustodyCoversBalances
<1>1. Init => CustodyInv /\ Backing
    BY CustodyInit, BackingInit
<1>2. CustodyInv /\ Backing /\ [Next]_vars => (CustodyInv /\ Backing)'
    BY CustodyStep, BackingStep DEF CustodyInv, SerialInv, TypeInv
<1>3. CustodyInv /\ Backing => CustodyCoversBalances
    BY BackingCovers DEF CustodyInv, SerialInv, TypeInv
<1> QED BY <1>1, <1>2, <1>3, PTL DEF Spec

-----------------------------------------------------------------------------
(* Equity covers the reserved margin, whatever the clients and faults do. *)

ValueOf(balance) == [a \in Asset |-> Price[a] * balance[a]]

(* The equity of the model is the sum of the lemmas. *)
LEMMA EquityIsSum ==
    ASSUME NEW balance
    PROVE  Equity(balance) = SumOver(ValueOf(balance), Enabled)
<1> DEFINE f == ValueOf(balance)
           Fold(g) == g = [s \in SUBSET Enabled |->
                              IF s = {} THEN 0
                              ELSE Price[Pick(s)] * balance[Pick(s)] + g[s \ {Pick(s)}]]
<1>1. \A g : Fold(g) <=> IsFold(g, f, Enabled)
    <2>1. \A s \in SUBSET Enabled : s # {} => f[Pick(s)] = Price[Pick(s)] * balance[Pick(s)]
        BY PickIn, CollateralAssumption DEF ValueOf
    <2> QED BY <2>1 DEF IsFold
<1>2. (CHOOSE g : Fold(g)) = (CHOOSE g : IsFold(g, f, Enabled))
    <2> HIDE DEF Fold, f
    <2> QED BY <1>1
<1>3. Equity(balance) = (CHOOSE g : Fold(g))[Enabled]
    BY DEF Equity, MapThenSumSet, MapThenFoldSet, Pick
<1> QED BY <1>2, <1>3, SumIsFold

LEMMA TimesMonotone ==
    ASSUME NEW p \in Nat, NEW x \in Nat, NEW y \in Nat, x <= y
    PROVE  p * x \in Nat /\ p * x <= p * y
<1>1. p * (y - x) \in Nat
    OBVIOUS
<1>2. p * y = p * x + p * (y - x)
    OBVIOUS
<1> QED BY <1>1, <1>2

LEMMA EquityGrows ==
    ASSUME IsFiniteSet(Enabled), NEW f \in [Asset -> Nat], NEW g \in [Asset -> Nat],
           \A a \in Asset : f[a] <= g[a]
    PROVE  Equity(f) \in Nat /\ Equity(f) <= Equity(g)
<1>1. \A a \in Enabled : /\ ValueOf(f)[a] \in Nat /\ ValueOf(g)[a] \in Nat
                         /\ ValueOf(f)[a] <= ValueOf(g)[a]
    BY TimesMonotone, CollateralAssumption DEF ValueOf
<1> QED BY <1>1, EquityIsSum, SumMonotone, SumNat

LEMMA EquityNat ==
    ASSUME IsFiniteSet(Enabled), NEW f \in [Asset -> Nat]
    PROVE  Equity(f) \in Nat
BY EquityGrows

(* A step that only adds to balances keeps every margin covered. *)
LEMMA GrowthCovers ==
    ASSUME IsFiniteSet(Enabled), TypeOK, TypeOK', MarginCovered, UNCHANGED reserved_margin,
           \A u \in User, d \in Domain, a \in Asset : balances[u][d][a] <= balances'[u][d][a]
    PROVE  MarginCovered'
<1> SUFFICES ASSUME NEW u \in User, NEW d \in Domain
             PROVE  Equity(balances'[u][d]) >= reserved_margin[u][d]
    BY DEF MarginCovered
<1>1. balances[u][d] \in [Asset -> Nat] /\ balances'[u][d] \in [Asset -> Nat]
      /\ reserved_margin[u][d] \in Nat
    BY DEF TypeOK
<1>2. Equity(balances[u][d]) <= Equity(balances'[u][d])
    BY <1>1, EquityGrows
<1>3. Equity(balances[u][d]) \in Nat /\ Equity(balances'[u][d]) \in Nat
    BY <1>1, EquityNat
<1>4. Equity(balances[u][d]) >= reserved_margin[u][d]
    BY DEF MarginCovered
<1> QED BY <1>1, <1>2, <1>3, <1>4

(* withdraw_collateral's check is made on the balance it leaves. *)
LEMMA WithdrawalCovers ==
    ASSUME IsFiniteSet(Enabled), TypeOK, TypeOK', MarginCovered, UNCHANGED reserved_margin,
           NEW u \in User, NEW t \in Terms, WithdrawalCovered(u, t),
           SetBalance(u, t.domain, t.asset, Less(balances[u][t.domain][t.asset], t.amount))
    PROVE  MarginCovered'
<1> SUFFICES ASSUME NEW v \in User, NEW d \in Domain
             PROVE  Equity(balances'[v][d]) >= reserved_margin[v][d]
    BY DEF MarginCovered
<1>1. t.domain \in Domain /\ t.asset \in Asset
    BY DEF Terms
<1>2. CASE v = u /\ d = t.domain
    <2>1. balances'[u][d] = [balances[u][d] EXCEPT ![t.asset] = Less(@, t.amount)]
        BY <1>1, <1>2 DEF SetBalance, TypeOK
    <2> QED BY <1>2, <2>1 DEF WithdrawalCovered
<1>3. CASE ~(v = u /\ d = t.domain)
    <2>1. balances'[v][d] = balances[v][d]
        BY <1>1, <1>3 DEF SetBalance, TypeOK
    <2> QED BY <2>1 DEF MarginCovered
<1> QED BY <1>2, <1>3

LEMMA OrdersCover ==
    ASSUME IsFiniteSet(Enabled), TypeOK, MarginCovered, NEW u \in User, NEW d \in Domain,
           ReserveOrderMargin(u, d) \/ ReleaseOrderMargin(u, d)
    PROVE  MarginCovered'
<1> SUFFICES ASSUME NEW v \in User, NEW e \in Domain
             PROVE  Equity(balances[v][e]) >= reserved_margin'[v][e]
    BY DEF MarginCovered, ReserveOrderMargin, ReleaseOrderMargin
<1>1. balances[v][e] \in [Asset -> Nat] /\ reserved_margin[v][e] \in Nat
    BY DEF TypeOK
<1>2. Equity(balances[v][e]) \in Nat /\ Equity(balances[v][e]) >= reserved_margin[v][e]
    BY <1>1, EquityNat DEF MarginCovered
<1>3. CASE v = u /\ e = d
    <2>1. CASE ReserveOrderMargin(u, d)
        BY <1>2, <1>3, <2>1 DEF ReserveOrderMargin, TypeOK
    <2>2. CASE ReleaseOrderMargin(u, d)
        <3>1. reserved_margin'[v][e] = Less(reserved_margin[v][e], 1)
            BY <1>3, <2>2 DEF ReleaseOrderMargin, TypeOK
        <3> QED BY <1>1, <1>2, <3>1 DEF Less
    <2> QED BY <2>1, <2>2
<1>4. CASE ~(v = u /\ e = d)
    <2>1. reserved_margin'[v][e] = reserved_margin[v][e]
        BY <1>4 DEF ReserveOrderMargin, ReleaseOrderMargin, TypeOK
    <2> QED BY <1>2, <2>1
<1> QED BY <1>3, <1>4

LEMMA ReturnsAdd ==
    ASSUME TypeInv, NEW c \in CallId, DepositSettled(c) \/ WithdrawalFailed(c)
    PROVE  /\ UNCHANGED reserved_margin
           /\ \A u \in User, d \in Domain, a \in Asset : balances[u][d][a] <= balances'[u][d][a]
<1> DEFINE k == call[c]
           added == IF DepositSettled(c) THEN k.terms.amount ELSE k.plan.reserved_amount
<1>1. /\ k.user \in User /\ k.terms.domain \in Domain /\ k.terms.asset \in Asset
      /\ k.terms.amount \in Nat
      /\ k.op = "withdrawal" => k.plan.reserved_amount \in Nat
    BY CollateralAssumption
       DEF TypeInv, TypeOK, CallOK, Call, Terms, DepositSettled, WithdrawalFailed
<1>2. added \in Nat
    BY <1>1 DEF DepositSettled, WithdrawalFailed
<1>3. /\ SetBalance(k.user, k.terms.domain, k.terms.asset,
                    balances[k.user][k.terms.domain][k.terms.asset] + added)
      /\ UNCHANGED reserved_margin
    BY DEF DepositSettled, WithdrawalFailed
<1> HIDE DEF added
<1>4. ASSUME NEW u \in User, NEW d \in Domain, NEW a \in Asset
      PROVE  balances[u][d][a] <= balances'[u][d][a]
    <2>1. balances[u][d][a] \in Nat
        BY DEF TypeInv, TypeOK
    <2>2. balances'[u][d][a] = balances[u][d][a]
          \/ balances'[u][d][a] = balances[u][d][a] + added
        BY SMTT(30), <1>1, <1>3 DEF SetBalance, TypeInv, TypeOK
    <2> QED BY <1>2, <2>1, <2>2
<1> QED BY <1>3, <1>4

LEMMA MarginStep ==
    ASSUME IsFiniteSet(Enabled), TypeInv, MarginCovered, [Next]_vars
    PROVE  MarginCovered'
<1>1. TypeInv' /\ TypeOK /\ TypeOK'
    BY TypeStep DEF TypeInv
<1>2. CASE UNCHANGED <<balances, reserved_margin>>
    BY <1>2 DEF MarginCovered
<1>3. ASSUME NEW c \in CallId, NEW u \in User, NEW id \in WithdrawalId, NEW t \in Intent[id],
             BeginWithdrawal(c, u, id, t)
      PROVE  MarginCovered'
    <2>1. t \in Terms
        BY CollateralAssumption
    <2>2. UNCHANGED reserved_margin
        BY <1>3 DEF BeginWithdrawal
    <2> QED BY <1>1, <1>2, <1>3, <2>1, <2>2, WithdrawalCovers DEF BeginWithdrawal
<1>4. ASSUME NEW c \in CallId, DepositSettled(c) \/ WithdrawalFailed(c)
      PROVE  MarginCovered'
    BY <1>1, <1>4, ReturnsAdd, GrowthCovers
<1>5. ASSUME NEW u \in User, NEW d \in Domain, ReserveOrderMargin(u, d) \/ ReleaseOrderMargin(u, d)
      PROVE  MarginCovered'
    BY <1>1, <1>5, OrdersCover
<1>6. CASE UNCHANGED vars
    BY <1>2, <1>6 DEF vars, canister
<1> QED BY ZenonT(30), <1>2, <1>3, <1>4, <1>5, <1>6
        DEF Next, BeginDeposit, RejectWithdrawal, DepositFailed, WithdrawalSettled,
            LedgerAccepts, LedgerRejects, LedgerExecutesLate, TimeOut, Upgrade, Tick, canister

(* No interleaving of deposits, withdrawals, refunds and orders leaves a
   domain's equity below the margin reserved in it, whatever is lost, late,
   refused or upgraded and whatever terms a client repeats an id with. *)
THEOREM MarginAlwaysCovered ==
    ASSUME IsFiniteSet(Enabled)
    PROVE  Spec => []MarginCovered
<1>1. Init => TypeInv /\ MarginCovered
    <2> SUFFICES ASSUME Init PROVE TypeInv /\ MarginCovered
        OBVIOUS
    <2>1. TypeInv
        BY TypeInit
    <2>2. \A u \in User, d \in Domain : /\ balances[u][d] \in [Asset -> Nat]
                                        /\ reserved_margin[u][d] = 0
        BY DEF Init
    <2> QED BY <2>1, <2>2, EquityNat DEF MarginCovered
<1>2. TypeInv /\ MarginCovered /\ [Next]_vars => (TypeInv /\ MarginCovered)'
    BY TypeStep, MarginStep
<1> QED BY <1>1, <1>2, PTL DEF Spec
=============================================================================
