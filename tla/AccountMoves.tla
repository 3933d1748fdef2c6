---------------------------- MODULE AccountMoves ----------------------------
(***************************************************************************)
(* Reassignment and migration of accounts in use: the two ways an account  *)
(* moves as a whole, against each other and against deposits, withdrawals, *)
(* orders, trades and settlements that are half done when it moves.        *)
(*                                                                         *)
(* Discipline: "serial", controllers have one call of a reassignment id in *)
(* flight; "in_order", the ledger works off a request nobody waits for     *)
(* before a later one; "flat", users migrate a domain only without         *)
(* positions in it; "no_migrated_fills", migrated orders are not filled;   *)
(* "within_balance", users withdraw no more than they have;                *)
(* "own_order_ids", no two orders are placed under one id at once;         *)
(* "rested_matches", controllers match no trade of a principal under       *)
(* reassignment and reassign none with a matched trade under way.          *)
(***************************************************************************)
EXTENDS Reassignment, Migration

CONSTANT Nobody   \* what a principal without an account owns, see Owns

ASSUME AccountMovesAssumption ==
    /\ Discipline \subseteq {"serial", "in_order", "flat", "no_migrated_fills", "within_balance",
                    "own_order_ids", "rested_matches"}
    /\ Nobody # Empty
    /\ Nobody \notin [state : AccountState, positions : UNION {[S -> Position] : S \in SUBSET SeriesId}]

OrderCall == [op : {"limit", "market"}, user : Principal, generation : Nat, req : Request,
              seen : Order \cup {None}, moves : SUBSET (Principal \X {m.id : m \in Move})]

MatchedCall == [op : {"matched"}, req : Request, moves : SUBSET (Principal \X {m.id : m \in Move})]

IsSweepCall(k) ==
    /\ k.op = "sweep" /\ k.move \in Move /\ IsReassignmentPlan(k.plan)
    /\ k.asset \in DOMAIN k.plan.sweeps
    /\ k.stage \in {"balance", "transfer", "ok"} /\ k.amount \in Nat

TypeOK ==
    /\ DOMAIN account_states \subseteq Principal
    /\ \A p \in DOMAIN account_states : account_states[p] \in AccountState
    /\ DOMAIN positions \cup DOMAIN frozen_transfers \subseteq Principal \X SeriesId
    /\ \A k \in DOMAIN positions : positions[k] \in Position
    /\ DOMAIN limit_orders \subseteq OrderId
    /\ \A id \in DOMAIN limit_orders : limit_orders[id] \in Order
    /\ \A k \in DOMAIN custody_plans : custody_plans[k] \in CustodyPlan
    /\ \A k \in DOMAIN reassignment_plans : IsReassignmentPlan(reassignment_plans[k])
    /\ marks \in [Principal -> Mark]
    /\ \A c \in CallId : \/ call[c] = None
                       \/ call[c] \in OrderCall \cup MatchedCall
                       \/ IsSweepCall(call[c])
    /\ custody \in [Principal -> [Asset -> Nat]]

Opened(p) == [Empty EXCEPT !.balances[OpeningDomain] = Opening[p]]

(* The accounts some earlier deposits opened. *)
Init ==
    /\ account_states = [p \in {q \in Principal : Opened(q) # Empty} |-> Opened(p)]
    /\ positions = EmptyMap
    /\ limit_orders = EmptyMap
    /\ frozen_transfers = EmptyMap
    /\ custody_plans = EmptyMap
    /\ settlement_plans = EmptyMap
    /\ migration_plans = EmptyMap
    /\ reassignment_plans = EmptyMap
    /\ marks = [p \in Principal |-> [generation |-> 0, locked |-> FALSE]]
    /\ call = [c \in CallId |-> None]
    /\ late = {}
    /\ custody = Opening

Next == AccountsNext \/ ReassignmentNext \/ MigrationNext

Spec == Init /\ [][Next]_vars

-----------------------------------------------------------------------------
(* A principal is locked exactly while a reassignment that names it is
   pending, through upgrades and failed sweeps: that is what keeps every
   guarded method out.  (lock_for_reassignment, rebuild_reassignment_marks) *)
LockedWhilePending ==
    \A p \in Principal :
        marks[p].locked <=>
            \E k \in DOMAIN reassignment_plans :
                Pending(reassignment_plans[k]) /\ p \in {k[1], reassignment_plans[k].new_owner}

(* While an account is on its way, nothing of either principal is under way:
   no deposit or withdrawal to be answered, no order on the book, and the
   old principal has no account.  (module comment of reassignment.rs) *)
LockedRests ==
    \A p \in Principal : marks[p].locked =>
        /\ OpenPlans(p) = {}
        /\ \A id \in DOMAIN limit_orders : limit_orders[id].creator # p
        /\ \A k \in DOMAIN reassignment_plans :
              k[1] = p /\ Pending(reassignment_plans[k]) => p \notin DOMAIN account_states

(* The lock of a handover is held exactly while the handover is pending, and
   nothing of the two principals moves under it.  (guard_reassign_accounts,
   rebuild_reassignment_marks, check_no_inflight_plans_for_reassignment) *)
HandoverLocked == LockedWhilePending /\ LockedRests

(* The transfers of p's tokens that cost a fee, or a fee's worth of dust. *)
FeesPaid ==
    Cardinality({k \in DOMAIN reassignment_plans : ~Pending(reassignment_plans[k])})
      + Cardinality({k \in DOMAIN custody_plans :
                        k[2] \in WithdrawalId /\ custody_plans[k].status = "Finalised"})

(* The tokens are where the account is: once nothing is pending, a
   principal's subaccounts hold what its account says it owns, but for the
   ledger's fees.  (reassign_account, sweep_custody, migrate_domain) *)
CustodyWithAccount ==
    \A p \in Principal, a \in Asset :
        ~marks[p].locked => Held(p, a) <= custody[p][a] + Fee * FeesPaid

(* What the orders and positions of p account for in a domain. *)
InUse(p, d) ==
    MapThenSumSet(LAMBDA id : limit_orders[id].blocked, OrdersIn(p, d))
      + MapThenSumSet(LAMBDA k : positions[k].margin, PositionsIn(p, d))
      + MapThenSumSet(LAMBDA k : frozen_transfers[k].margin,
            {x \in DOMAIN frozen_transfers : x[1] = p /\ SeriesDomain[x[2]] = d})
      + MapThenSumSet(LAMBDA s : MapThenSumSet(LAMBDA w : w.margin,
                                     {x \in settlement_plans[s].left : x.user = p}),
            {s \in DOMAIN settlement_plans : SeriesDomain[s] = d})

(* The margin an account reserves in a domain is what its orders and
   positions there need, through migrations and reassignments: a domain is
   not left with margin that nothing releases, nor without the margin of
   what stays in it.  (migrate_domain_impl, cancel_limit_order) *)
MarginInDomain ==
    \A p \in Principal, d \in Domain : StateOf(p).margin[d] = InUse(p, d)

(* A method never books on an account that came or went while it was
   suspended: what it validated is not what the principal holds now.  Orders
   owe that to their guard, matched trades, which take none, to rested_matches.
   (ReassignmentGuard, the module comment's "resurrecting a drained account") *)
BooksOnSameAccount ==
    [][\A c \in CallId :
          call[c] # None /\ call[c].op # "sweep" /\ call'[c] = None /\ book' # book =>
              MovesOf(UsersOf(call[c].req)) = call[c].moves]_vars

(* While a principal is locked its positions change by the settlement of
   their series alone: "no deposit, withdrawal, trade, or transfer can touch
   either of them until the sweep finishes" (module comment of
   reassignment.rs).  Not what the code keeps: submit_matched_trade takes no
   guard. *)
LockedUntouched ==
    [][\A p \in Principal, s \in SeriesId :
          marks[p].locked /\ marks'[p].locked /\ s \notin DOMAIN settlement_plans' =>
              PositionOf(p, s)' = PositionOf(p, s)]_vars

-----------------------------------------------------------------------------
(* The refinement mapping: an account is its state and its positions. *)

Owns(x) ==
    IF x \notin DOMAIN account_states THEN Nobody
    ELSE IF ~HasClearingState(x) THEN Empty
    ELSE [state |-> account_states[x],
          positions |-> [s \in {r \in SeriesId : <<x, r>> \in DOMAIN positions} |->
                            positions[<<x, s>>]]]

HasAsset(owned, a) ==
    owned \notin {Nobody, Empty} /\ \E d \in Domain : owned.state.balances[d][a] > 0

Promise == INSTANCE HandoverPromise WITH
    Blank <- Empty,
    HeldIn <- HasAsset,
    account <- [x \in Principal |-> Owns(x)],
    owed <- UNION {{<<k[1], reassignment_plans[k].new_owner, a>> :
                        a \in Unswept(reassignment_plans[k])} : k \in DOMAIN reassignment_plans}

(* reassign_account keeps the promise of HandoverPromise through failed
   sweeps, lost answers, retries and upgrades: an account passes whole, and
   no principal takes part in a second handover before the first has
   delivered every asset. *)
KeepsPromise == Promise!Spec

-----------------------------------------------------------------------------
(* The controllers replay a reassignment until it is done, suspended methods
   go on, what nobody waits for is worked off, and the ledger does not fail
   every time it is asked. *)
Fairness ==
    /\ \A m \in Move : SF_vars(\E c \in AdminCallId : ResumeReassign(c, m))
    /\ SF_vars(\E c \in AdminCallId : BalanceRead(c))
    /\ SF_vars(\E c \in AdminCallId : Transferred(c))
    /\ \A c \in AdminCallId : WF_vars(SweepMoved(c))
    /\ WF_vars(\E t \in late : LateTransfer(t))

FairSpec == Spec /\ Fairness

Outstanding(m) ==
    PlanKey(m) \in DOMAIN reassignment_plans /\ Pending(reassignment_plans[PlanKey(m)])

(* A reassignment that has begun ends, however often its sweep fails, its
   answers are lost or the canister is upgraded: the account does not stay
   locked for good.  (sweep_custody's "resumed by replaying") *)
HandoversEnd == \A m \in Move : Outstanding(m) ~> ~Outstanding(m)
=============================================================================
