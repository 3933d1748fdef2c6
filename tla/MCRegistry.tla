----------------------------- MODULE MCRegistry -----------------------------
(***************************************************************************)
(* Instances of Admission: a controller, ann and bob, and the populations  *)
(* of clients the configurations let work side by side.                    *)
(***************************************************************************)
EXTENDS Admission

CONSTANTS ctrl, ann, bob, mgmt, Nobody, price

(* Two social markets and a monetary one. *)
Friends == [key |-> 1, domain |-> "Social", unit |-> "NonMonetary", expiry |-> 3, resolvable |-> TRUE]
Bets == [key |-> 2, domain |-> "Social", unit |-> "NonMonetary", expiry |-> 2, resolvable |-> FALSE]
Dollars == [key |-> 3, domain |-> "Other", unit |-> "Usd", expiry |-> 2, resolvable |-> TRUE]
MCMarket == {Friends, Bets, Dollars}

(* One to one: a fork's id is ten times its source's and more, on the other
   side of zero, so that forks are listed before and after their source. *)
NumberOf(p) == IF p = ann THEN 3 ELSE IF p = bob THEN 6 ELSE 0
MCHash(terms) ==
    IF terms.fork = None
    THEN 2 * terms.market.key + (IF terms.start = None THEN 0 ELSE 1)
    ELSE LET source == terms.fork.source
             own == NumberOf(terms.fork.caller) + terms.fork.index
         IN  IF source > 0 THEN -10 * source - own ELSE -10 * source + own

MCLimits == [max_per_hour |-> 1, max_per_user |-> 3]

Nowhere == [open |-> FALSE, groups |-> {}]
In(g) == [open |-> FALSE, groups |-> {g}]
Everyone == [open |-> TRUE, groups |-> {}]

Add(p, m, start, access, e) ==
    [op |-> "add_series", caller |-> p, market |-> m, start |-> start, access |-> access,
     engine |-> e]
Fork(p, source, access, e) ==
    [op |-> "fork_series", caller |-> p, source |-> source, access |-> access, engine |-> e]
Group(op, p, g) == [op |-> op, caller |-> p, group |-> g]
Members(op, p, g, ps) == [op |-> op, caller |-> p, group |-> g, principals |-> ps]
Engine(op, p, e, ps) == [op |-> op, caller |-> p, engine |-> e, principals |-> ps]
Register(name, ps) ==
    [op |-> "register_engine", caller |-> ctrl, name |-> name, principals |-> ps,
     roles |-> EngineRole]
Rename(p, e, name) == [op |-> "update_engine", caller |-> p, engine |-> e, name |-> name]
Roles(e, roles) ==
    [op |-> "update_engine_allowed_roles", caller |-> ctrl, engine |-> e, roles |-> roles]
Role(op, p, e, who, role) ==
    [op |-> op, caller |-> p, engine |-> e, grantee |-> who, role |-> role]
Access(id, access) ==
    [op |-> "update_trading_access", caller |-> ctrl, series |-> id, access |-> access]
Metadata(p, id) ==
    [op |-> "update_series_metadata", caller |-> p, series |-> id, text |-> "edited"]
SetLimits(hour, user) ==
    [op |-> "set_social_limits", caller |-> ctrl,
     limits |-> [max_per_hour |-> hour, max_per_user |-> user]]
List(p, window, text, limit) ==
    [op |-> "list_series", caller |-> p, limit |-> limit,
     filter |-> [window |-> window, text |-> text]]
Order(p, id) == [op |-> "order", caller |-> p, series |-> id]

(* Social series of ann and bob, their forks, and the limits on them. *)
Socialising ==
    {Add(ann, Friends, None, Nowhere, None), Add(ann, Bets, None, Nowhere, None),
     Add(bob, Bets, None, Nowhere, None), Fork(ann, 2, Nowhere, None), Fork(bob, 2, Nowhere, None),
     Fork(ann, -23, Nowhere, None), SetLimits(2, 2), SetLimits(1, 3)}

(* Engines come and go, and with them who may create. *)
Staffing ==
    {Register("a", {}), Register("b", {ann}), Rename(ctrl, 0, "b"), Rename(ann, 1, "a"),
     Roles(0, {"OracleAdmin"}), Roles(0, EngineRole),
     Role("grant_engine_role", ctrl, 0, bob, "Creator"),
     Role("revoke_engine_role", ann, 0, bob, "Creator"),
     Engine("add_engine_admins", ctrl, 0, {ann}), Engine("remove_engine_admins", ann, 0, {ann}),
     Add(bob, Dollars, None, Nowhere, 0), Add(bob, Friends, None, Nowhere, 0),
     Fork(bob, 6, Nowhere, 0), Metadata(ann, 6)}

(* Series listed while they are added, forked and edited. *)
Browsing ==
    {Add(ctrl, Friends, None, Nowhere, None), Add(ctrl, Dollars, 1, None, None),
     Add(ctrl, Bets, None, In(0), None), Fork(ctrl, 2, In(0), None), Metadata(ctrl, 2),
     Group("create_group", ann, 0)} \cup
    {List(ann, "any", "any", 0), List(ctrl, "tradeable_now", "any", 1),
     List(ctrl, "only_unexpired", "new", 2), List(ann, "due", "any", 1)}

(* Groups change while orders ask for access. *)
Circling ==
    {Group("create_group", ann, 0), Group("delete_group", ann, 0), Group("create_group", bob, 0),
     Members("add_group_members", ann, 0, {bob}), Members("remove_group_members", ann, 0, {bob}),
     Add(ctrl, Dollars, None, In(0), None), Fork(ctrl, 6, In(1), None),
     Access(6, Everyone), Access(6, In(1)), Order(bob, 6)}

(* Oracles under the role that manages them, and the admins of a group. *)
Appointing ==
    {Group("create_group", ann, 0), Members("add_group_admins", ann, 0, {bob}),
     Members("remove_group_admins", bob, 0, {bob}),
     Register("a", {}), Role("grant_engine_role", ctrl, 0, ann, "OracleAdmin"),
     Roles(0, {}), Roles(0, EngineRole),
     [op |-> "add_oracle", caller |-> ann, oracle |-> price, principals |-> {ann}],
     [op |-> "manage_oracle_principals", caller |-> ann, oracle |-> price,
      add |-> {bob}, remove |-> {ann}],
     [op |-> "manage_oracle_principals", caller |-> ctrl, oracle |-> price,
      add |-> {ann}, remove |-> {bob}],
     [op |-> "oracle", caller |-> ann, oracle |-> price],
     [op |-> "oracle", caller |-> bob, oracle |-> price]}

Scheduling ==
    {Add(ctrl, Dollars, 1, None, None), Add(ctrl, Dollars, None, None, None),
     Add(ann, Friends, None, Nowhere, None), Order(bob, 6), Order(bob, 7), Order(bob, 2)}

MCClients == {Socialising, Staffing, Browsing, Circling, Appointing, Scheduling}
CirclingClients == {Circling}
SchedulingClients == {Scheduling}
=============================================================================
