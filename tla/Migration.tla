------------------------------ MODULE Migration ------------------------------
(***************************************************************************)
(* migrate_domain (api/migration/api.rs): a user's balances, cash, margin  *)
(* and order tags move from one balance domain to another, in one message. *)
(* Positions stay where their series is.  The plan is created before       *)
(* anything is checked; the phases after that run without an await, so a   *)
(* plan is never left Executing.                                           *)
(***************************************************************************)
EXTENDS Accounts

CONSTANT Migrations   \* the calls users may make, [user, id, from, to]

ASSUME MigrationAssumption ==
    \A g \in Migrations : /\ DOMAIN g = {"user", "id", "from", "to"}
                          /\ g.user \in Principal /\ {g.from, g.to} \subseteq Domain

MigrationKey(g) == <<g.user, g.id>>

OpenPlans(p) == {k \in DOMAIN custody_plans : k[1] = p /\ custody_plans[k].status # "Finalised"}

(* check_no_inflight_plans: custody plans of any domain, settlements of the
   source domain. *)
NoPlanInTheWay(g) ==
    /\ OpenPlans(g.user) = {}
    /\ \A s \in SeriesId : SeriesDomain[s] = g.from => ~InSettlement(g.user, s)

PositionsIn(p, d) == {k \in DOMAIN positions : k[1] = p /\ SeriesDomain[k[2]] = d}
OrdersIn(p, d) ==
    {id \in DOMAIN limit_orders : limit_orders[id].creator = p /\ limit_orders[id].domain = d}

SomethingToMigrate(g) ==
    /\ g.user \in DOMAIN account_states
    /\ LET state == account_states[g.user] IN
          \/ \E a \in Asset : state.balances[g.from][a] # 0
          \/ state.cash[g.from] # 0 \/ state.margin[g.from] # 0
          \/ PositionsIn(g.user, g.from) # {} \/ OrdersIn(g.user, g.from) # {}

(* A whole column of an account moves from one domain to the other. *)
Merged(x, y) == [a \in Asset |-> x[a] + y[a]]

MovedDomain(state, from, to) ==
    [balances |-> [state.balances EXCEPT ![to] = Merged(@, state.balances[from]),
                                         ![from] = [a \in Asset |-> 0]],
     cash |-> [state.cash EXCEPT ![to] = @ + state.cash[from], ![from] = 0],
     margin |-> [state.margin EXCEPT ![to] = @ + state.margin[from], ![from] = 0]]

Retagged_Not(p, from, to) == limit_orders

(* The orders of the source domain, tagged with the target. *)
Retagged(p, from, to) ==
    [id \in DOMAIN limit_orders |->
        IF id \in OrdersIn(p, from) THEN [limit_orders[id] EXCEPT !.domain = to]
                                    ELSE limit_orders[id]]

(* Refused: the plan it created stays, Planned. *)
RefuseMigration(g) ==
    /\ g.from # g.to
    /\ MigrationKey(g) \notin DOMAIN migration_plans
    /\ ~NoPlanInTheWay(g) \/ ~SomethingToMigrate(g)
    /\ migration_plans' = Put(migration_plans, MigrationKey(g), "Planned")
    /\ UNCHANGED <<book, custody_plans, reassignment_plans, marks, call, late, custody>>

(* flat: users migrate a domain only when they have no position in it, and
   none was frozen. *)
MigrateDomain(g) ==
    /\ g.from # g.to
    /\ "flat" \in Discipline =>
           PositionsIn(g.user, g.from) = {} /\ ~\E s \in SeriesId : <<g.user, s>> \in DOMAIN frozen_transfers
    /\ MigrationKey(g) \in DOMAIN migration_plans =>
           migration_plans[MigrationKey(g)] # "Finalised"
    /\ NoPlanInTheWay(g) /\ SomethingToMigrate(g)
    /\ account_states' = [account_states EXCEPT ![g.user] = MovedDomain(@, g.from, g.to)]
    /\ limit_orders' = Retagged(g.user, g.from, g.to)
    /\ migration_plans' = Put(migration_plans, MigrationKey(g), "Finalised")
    /\ UNCHANGED <<positions, frozen_transfers, settlement_plans, custody_plans,
                   reassignment_plans, marks, call, late, custody>>

MigrationNext == \E g \in Migrations : MigrateDomain(g) \/ RefuseMigration(g)
=============================================================================
