---------------------------- MODULE Reassignment ----------------------------
(***************************************************************************)
(* admin_reassign_account (account/reassignment.rs): the account moves to  *)
(* another principal in one message, then the custody subaccounts are      *)
(* swept, an asset at a time, over two awaits of the ledger each: the      *)
(* balance of the old subaccount, then the transfer of what it held.       *)
(*                                                                         *)
(* A call works on its LOCAL COPY of the plan and persists it after each   *)
(* asset.  The fee is cached, so get_fee is not awaited: the gap between   *)
(* the balance read and the transfer is there without it.                  *)
(***************************************************************************)
EXTENDS Accounts

CONSTANT Move   \* the reassignments controllers ask for, [id, old, new]

ASSUME ReassignmentAssumption ==
    /\ \A m \in Move : DOMAIN m = {"id", "old", "new"} /\ {m.old, m.new} \subseteq Principal
    /\ Faults \subseteq {"lost", "upgrade"}
    /\ None \notin Nat

PlanKey(m) == <<m.old, m.id>>

IsReassignmentPlan(plan) ==
    /\ plan.new_owner \in Principal /\ plan.status \in {"Executing", "Finalised"}
    /\ DOMAIN plan.sweeps \subseteq Asset
    /\ plan.sweeps \in [DOMAIN plan.sweeps -> Nat \cup {None}]

(* The assets a plan has not drained yet. *)
Unswept(plan) == {a \in DOMAIN plan.sweeps : plan.sweeps[a] = None}

Pending(plan) == plan.status # "Finalised"

-----------------------------------------------------------------------------
(* validate_principals and validate_and_rekey. *)

Quiet(old) ==
    /\ \A id \in DOMAIN limit_orders : limit_orders[id].creator # old
    /\ \A k \in DOMAIN frozen_transfers : k[1] # old

(* check_no_inflight_plans_for_reassignment *)
NoInFlightPlans(p) ==
    /\ \A k \in DOMAIN custody_plans : k[1] = p => custody_plans[k].status = "Finalised"
    /\ \A k \in DOMAIN migration_plans : k[1] = p => migration_plans[k] = "Finalised"
    /\ \A s \in SeriesId : ~InSettlement(p, s)

(* target_has_clearing_state: an empty account does not count. *)
HasClearingState(p) ==
    \/ StateOf(p) # Empty
    \/ \E k \in DOMAIN positions : k[1] = p
    \/ ~Quiet(p)

Held(p, a) == MapThenSumSet(LAMBDA d : StateOf(p).balances[d][a], Domain)

(* custody_assets: the assets with a balance entry in some domain. *)
CustodyAssets(p) == {a \in Asset : Held(p, a) > 0}

MayReassign(m) ==
    /\ m.old # m.new
    /\ ~marks[m.old].locked /\ ~marks[m.new].locked
    /\ m.old \in DOMAIN account_states
    /\ Quiet(m.old)
    /\ NoInFlightPlans(m.old) /\ NoInFlightPlans(m.new)
    /\ ~HasClearingState(m.new)
    /\ CustodyAssets(m.old) \subseteq Icrc

NewPlan(m) == [new_owner |-> m.new, status |-> "Executing",
               sweeps |-> [a \in CustodyAssets(m.old) |-> None]]

(* The account and its positions, under the new principal. *)
Rekey(m) ==
    LET Owner(p) == IF p = m.old THEN m.new ELSE p IN
    /\ account_states' = Put(Without(account_states, {m.old}), m.new, account_states[m.old])
    /\ positions' = [k \in {<<Owner(x[1]), x[2]>> : x \in DOMAIN positions} |->
                        IF k[1] = m.new THEN positions[<<m.old, k[2]>>] ELSE positions[k]]

(* lock_for_reassignment *)
Lock(m) == [p \in Principal |->
    IF p \in {m.old, m.new} THEN [generation |-> marks[p].generation + 1, locked |-> TRUE]
                            ELSE marks[p]]

(* unlock_after_reassignment *)
Unlock(m, marked) == [p \in Principal |->
    IF p \in {m.old, m.new} THEN [marked[p] EXCEPT !.locked = FALSE] ELSE marked[p]]

-----------------------------------------------------------------------------
(* sweep_custody *)

Sweep(m, plan, a, stage, amount) ==
    [op |-> "sweep", move |-> m, plan |-> plan, asset |-> a, stage |-> stage, amount |-> amount]

Continue_UnlockEarly(c, m, plan, marked) ==
    /\ IF Unswept(plan) = {}
       THEN /\ reassignment_plans' = Put(reassignment_plans, PlanKey(m),
                                         [plan EXCEPT !.status = "Finalised"])
            /\ Return(c)
       ELSE /\ reassignment_plans' = Put(reassignment_plans, PlanKey(m), plan)
            /\ \E a \in Unswept(plan) : call' = [call EXCEPT ![c] = Sweep(m, plan, a, "balance", 0)]
    /\ marks' = Unlock(m, marked)

(* The loop from its top: ask for the balance of an asset that is not
   drained yet, or, when there is none, finalise the plan and unlock. *)
Continue(c, m, plan, marked) ==
    IF Unswept(plan) = {}
    THEN /\ reassignment_plans' = Put(reassignment_plans, PlanKey(m),
                                      [plan EXCEPT !.status = "Finalised"])
         /\ marks' = Unlock(m, marked)
         /\ Return(c)
    ELSE /\ reassignment_plans' = Put(reassignment_plans, PlanKey(m), plan)
         /\ marks' = marked
         /\ \E a \in Unswept(plan) : call' = [call EXCEPT ![c] = Sweep(m, plan, a, "balance", 0)]

(* serial: controllers have one call of a reassignment id in flight. *)
MayCall(m) ==
    "serial" \in Discipline =>
        \A c \in CallId : call[c] # None /\ call[c].op = "sweep" => PlanKey(call[c].move) # PlanKey(m)

(* rested_matches: no matched trade of either principal is under way. *)
NoMatchUnderWay(m) ==
    "rested_matches" \in Discipline =>
        \A c \in CallId : call[c] # None /\ call[c].op = "matched" =>
            UsersOf(call[c].req) \cap {m.old, m.new} = {}

BeginReassign(c, m) ==
    /\ call[c] = None /\ MayCall(m) /\ NoMatchUnderWay(m)
    /\ PlanKey(m) \notin DOMAIN reassignment_plans
    /\ MayReassign(m)
    /\ Rekey(m)
    /\ Continue(c, m, NewPlan(m), Lock(m))
    /\ UNCHANGED <<limit_orders, frozen_transfers, settlement_plans, custody_plans,
                   migration_plans, late, custody>>

ResumeReassign_Unswept(c, m) ==
    /\ call[c] = None /\ MayCall(m)
    /\ PlanKey(m) \in DOMAIN reassignment_plans
    /\ LET plan == reassignment_plans[PlanKey(m)] IN
          /\ plan.new_owner = m.new /\ Pending(plan)
          /\ Continue(c, m, [plan EXCEPT !.sweeps = [a \in {} |-> None]], marks)
    /\ UNCHANGED <<book, custody_plans, migration_plans, late, custody>>

(* A pending plan with the same new owner is resumed; with another one the
   call is refused, and a finalised plan returns early. *)
ResumeReassign(c, m) ==
    /\ call[c] = None /\ MayCall(m)
    /\ PlanKey(m) \in DOMAIN reassignment_plans
    /\ LET plan == reassignment_plans[PlanKey(m)] IN
          /\ plan.new_owner = m.new /\ Pending(plan)
          /\ Continue(c, m, plan, marks)
    /\ UNCHANGED <<book, custody_plans, migration_plans, late, custody>>

AtStage(c, stage) == call[c] # None /\ call[c].op = "sweep" /\ call[c].stage = stage

(* The ledger works off what a caller gave up on before a later request. *)
InTurn == "in_order" \in Discipline => late = {}

BalanceRead_Gross(c) ==
    /\ AtStage(c, "balance") /\ InTurn
    /\ LET k == call[c]
           amount == custody[k.move.old][k.asset]
       IN  IF amount = 0
           THEN Continue(c, k.move, [k.plan EXCEPT !.sweeps[k.asset] = 0], marks)
           ELSE /\ call' = [call EXCEPT ![c] = [@ EXCEPT !.stage = "transfer", !.amount = amount]]
                /\ UNCHANGED <<reassignment_plans, marks>>
    /\ UNCHANGED <<book, custody_plans, migration_plans, late, custody>>

(* balance_of: less than a fee is nothing worth moving. *)
BalanceRead(c) ==
    /\ AtStage(c, "balance") /\ InTurn
    /\ LET k == call[c]
           amount == Less(custody[k.move.old][k.asset], Fee)
       IN  IF amount = 0
           THEN Continue(c, k.move, [k.plan EXCEPT !.sweeps[k.asset] = 0], marks)
           ELSE /\ call' = [call EXCEPT ![c] = [@ EXCEPT !.stage = "transfer", !.amount = amount]]
                /\ UNCHANGED <<reassignment_plans, marks>>
    /\ UNCHANGED <<book, custody_plans, migration_plans, late, custody>>

(* What a suspended sweep asks the ledger for. *)
TransferOf(k) == [move |-> k.move, asset |-> k.asset, amount |-> k.amount]

(* The ledger burns its fee from the old subaccount, if it covers it. *)
Moved(t) ==
    [custody EXCEPT ![t.move.old][t.asset] = @ - t.amount - Fee,
                    ![t.move.new][t.asset] = @ + t.amount]

Covers(t) == custody[t.move.old][t.asset] >= t.amount + Fee

Transferred(c) ==
    /\ AtStage(c, "transfer") /\ InTurn
    /\ Covers(TransferOf(call[c]))
    /\ custody' = Moved(TransferOf(call[c]))
    /\ call' = [call EXCEPT ![c].stage = "ok"]
    /\ UNCHANGED <<book, custody_plans, migration_plans, reassignment_plans, marks, late>>

SweepMoved(c) ==
    /\ AtStage(c, "ok")
    /\ LET k == call[c] IN
          Continue(c, k.move, [k.plan EXCEPT !.sweeps[k.asset] = k.amount], marks)
    /\ UNCHANGED <<book, custody_plans, migration_plans, late, custody>>

(* Any error of the ledger: the call returns, the plan stays pending. *)
SweepFailed(c) ==
    /\ AtStage(c, "balance") \/ AtStage(c, "transfer")
    /\ Return(c)
    /\ UNCHANGED <<book, custody_plans, migration_plans, reassignment_plans, marks, late, custody>>

-----------------------------------------------------------------------------
(* Faults. *)

(* lost: the bounded wait ends before the answer of a transfer, which may
   have been made or may still be. *)
SweepTimesOut(c) ==
    /\ "lost" \in Faults
    /\ \/ AtStage(c, "transfer") /\ late' = late \cup {TransferOf(call[c])}
       \/ AtStage(c, "ok") /\ UNCHANGED late
    /\ Return(c)
    /\ UNCHANGED <<book, custody_plans, migration_plans, reassignment_plans, marks, custody>>

LateTransfer(t) ==
    /\ t \in late
    /\ late' = late \ {t}
    /\ \/ Covers(t) /\ custody' = Moved(t)
       \/ UNCHANGED custody
    /\ UNCHANGED <<book, custody_plans, migration_plans, reassignment_plans, marks, call>>

RebuiltMarks_Unlocked == [p \in Principal |-> [generation |-> 0, locked |-> FALSE]]

(* rebuild_reassignment_marks: the principals of the pending plans. *)
RebuiltMarks ==
    [p \in Principal |->
        [generation |-> 0,
         locked |-> \E k \in DOMAIN reassignment_plans :
                        /\ Pending(reassignment_plans[k])
                        /\ p \in {k[1], reassignment_plans[k].new_owner}]]

(* upgrade: suspended calls are gone, their ledger requests are not. *)
Upgrade ==
    /\ "upgrade" \in Faults
    /\ late' = late \cup {TransferOf(call[c]) : c \in {x \in CallId : AtStage(x, "transfer")}}
    /\ call' = [c \in CallId |-> None]
    /\ marks' = RebuiltMarks
    /\ UNCHANGED <<book, custody_plans, migration_plans, reassignment_plans, custody>>

SweepStep(c) == BalanceRead(c) \/ Transferred(c) \/ SweepMoved(c)

ReassignmentNext ==
    \/ \E c \in AdminCallId : \/ \E m \in Move : BeginReassign(c, m) \/ ResumeReassign(c, m)
                              \/ SweepStep(c) \/ SweepFailed(c) \/ SweepTimesOut(c)
    \/ \E t \in late : LateTransfer(t)
    \/ Upgrade
=============================================================================
