------------------------------ MODULE Registry ------------------------------
(***************************************************************************)
(* The registry canister: groups (closed circles), engines and their       *)
(* roles, oracles, the series and the limits on social ones, and the       *)
(* listing of series page by page.  Each update method is one action: none *)
(* of them awaits.                                                         *)
(*                                                                         *)
(* A market is what a series id is hashed from, with the start and the     *)
(* fork; identifiers are canonical.  An access list is whether it holds    *)
(* Open, and the groups its Restricted entries name; None is the empty     *)
(* list.  Names, wording, audit stamps and the length checks on them are   *)
(* left out, but for an engine's name and a series' description (text).    *)
(***************************************************************************)
EXTENDS Integers, SequencesExt

CONSTANTS
    Principal,
    Controller,
    Management,   \* the management canister, creator of the migrated engine
    FlatCreators, \* the creators an older version may have kept in a map
    Market,       \* [key, domain, unit, expiry, resolvable]
    Hash(_),      \* SHA-256 over the terms of a series
    LegacyName,   \* "Legacy"
    Limits,       \* the SocialLimits at the start
    HOUR,
    MaxForks,     \* MAX_FORKS_PER_SOURCE_PER_USER
    None,
    Clients,      \* sets of requests, one for each population of clients
    MaxTime, MaxSeries, MaxGroups, MaxEngines,   \* bounds
    Discipline    \* see Admission

EngineRole == {"Creator", "OracleAdmin"}

ASSUME RegistryAssumption ==
    /\ Controller \subseteq Principal /\ FlatCreators \subseteq Principal
    /\ Management \notin Principal
    /\ HOUR \in Nat \ {0} /\ MaxForks \in Nat \ {0}
    /\ \A m \in Market : m.expiry \in Nat
    /\ Limits.max_per_hour \in Nat /\ Limits.max_per_user \in Nat

VARIABLES
    groups, next_group_id,             \* GROUPS_STORE, NEXT_GROUP_ID
    engines, next_engine_id,           \* ENGINE_STORE, NEXT_ENGINE_ID
    oracles,                           \* ORACLE_STORE
    series_store,                      \* SERIES_STORE
    social_limits,                     \* SOCIAL_LIMITS
    social_creation_log,               \* SOCIAL_CREATION_LOG
    now,
    reading                            \* a client that lists page by page

groupVars == <<groups, next_group_id>>
engineVars == <<engines, next_engine_id, oracles>>
seriesVars == <<series_store, social_limits, social_creation_log>>
registryVars == <<groupVars, engineVars, seriesVars, now, reading>>

EmptyMap == [x \in {} |-> 0]
Put(map, k, v) == [x \in DOMAIN map \cup {k} |-> IF x = k THEN v ELSE map[x]]

-----------------------------------------------------------------------------
(* Groups *)

IsGroupAdmin(p, g) ==
    /\ g \in DOMAIN groups
    /\ p \in Controller \cup {groups[g].creator} \cup groups[g].admins

NewGroupId_Count == Cardinality(DOMAIN groups)

NewGroupId == next_group_id

CreateGroup(r) ==
    /\ next_group_id < MaxGroups
    /\ groups' = Put(groups, NewGroupId,
                     [creator |-> r.caller, admins |-> {}, members |-> {r.caller}])
    /\ next_group_id' = next_group_id + 1

(* The series that name the group are not looked at. *)
DeleteGroup(r) ==
    /\ IsGroupAdmin(r.caller, r.group)
    /\ groups' = Restrict(groups, DOMAIN groups \ {r.group})
    /\ UNCHANGED next_group_id

AddGroupAdmins(r) ==
    /\ IsGroupAdmin(r.caller, r.group)
    /\ groups' = [groups EXCEPT ![r.group].admins = @ \cup r.principals]
    /\ UNCHANGED next_group_id

RemoveGroupAdmins(r) ==
    /\ IsGroupAdmin(r.caller, r.group)
    /\ groups' = [groups EXCEPT ![r.group].admins = @ \ r.principals]
    /\ UNCHANGED next_group_id

AddGroupMembers(r) ==
    /\ IsGroupAdmin(r.caller, r.group)
    /\ groups' = [groups EXCEPT ![r.group].members = @ \cup r.principals]
    /\ UNCHANGED next_group_id

RemoveGroupMembers(r) ==
    /\ IsGroupAdmin(r.caller, r.group)
    /\ groups' = [groups EXCEPT ![r.group].members = @ \ r.principals]
    /\ UNCHANGED next_group_id

-----------------------------------------------------------------------------
(* Engines and oracles *)

HasRoleOn(p, role, e) ==
    e \in DOMAIN engines /\ role \in engines[e].allowed /\ <<p, role>> \in engines[e].grants

HasRole(p, role) == \E e \in DOMAIN engines : HasRoleOn(p, role, e)

IsEngineAdmin(p, e) ==
    /\ e \in DOMAIN engines
    /\ p \in Controller \cup {engines[e].creator} \cup engines[e].admins

RegisterEngine(r) ==
    /\ r.caller \in Controller
    /\ \A e \in DOMAIN engines : engines[e].name # r.name
    /\ next_engine_id < MaxEngines
    /\ engines' = Put(engines, next_engine_id,
                      [name |-> r.name, creator |-> r.caller,
                       admins |-> r.principals \cup {r.caller},
                       allowed |-> r.roles, grants |-> {}])
    /\ next_engine_id' = next_engine_id + 1
    /\ UNCHANGED oracles

UpdateEngine(r) ==
    /\ IsEngineAdmin(r.caller, r.engine)
    /\ \A e \in DOMAIN engines \ {r.engine} : engines[e].name # r.name
    /\ engines' = [engines EXCEPT ![r.engine].name = r.name]
    /\ UNCHANGED <<next_engine_id, oracles>>

(* Grants of a role that is no longer allowed stay, and count for nothing. *)
UpdateEngineAllowedRoles(r) ==
    /\ r.caller \in Controller
    /\ r.engine \in DOMAIN engines
    /\ engines' = [engines EXCEPT ![r.engine].allowed = r.roles]
    /\ UNCHANGED <<next_engine_id, oracles>>

GrantEngineRole(r) ==
    /\ IsEngineAdmin(r.caller, r.engine)
    /\ r.role \in engines[r.engine].allowed
    /\ <<r.grantee, r.role>> \notin engines[r.engine].grants
    /\ engines' = [engines EXCEPT ![r.engine].grants = @ \cup {<<r.grantee, r.role>>}]
    /\ UNCHANGED <<next_engine_id, oracles>>

RevokeEngineRole(r) ==
    /\ IsEngineAdmin(r.caller, r.engine)
    /\ <<r.grantee, r.role>> \in engines[r.engine].grants
    /\ engines' = [engines EXCEPT ![r.engine].grants = @ \ {<<r.grantee, r.role>>}]
    /\ UNCHANGED <<next_engine_id, oracles>>

AddEngineAdmins(r) ==
    /\ IsEngineAdmin(r.caller, r.engine)
    /\ engines' = [engines EXCEPT ![r.engine].admins = @ \cup r.principals]
    /\ UNCHANGED <<next_engine_id, oracles>>

RemoveEngineAdmins(r) ==
    /\ IsEngineAdmin(r.caller, r.engine)
    /\ engines[r.engine].creator \notin r.principals
    /\ engines' = [engines EXCEPT ![r.engine].admins = @ \ r.principals]
    /\ UNCHANGED <<next_engine_id, oracles>>

IsOracleAdmin(p) == p \in Controller \/ HasRole(p, "OracleAdmin")

AddOracle(r) ==
    /\ IsOracleAdmin(r.caller)
    /\ r.oracle \notin DOMAIN oracles
    /\ oracles' = Put(oracles, r.oracle, [manager |-> r.caller, authorized |-> r.principals])
    /\ UNCHANGED <<engines, next_engine_id>>

(* Added first, then removed. *)
ManageOraclePrincipals(r) ==
    /\ r.oracle \in DOMAIN oracles
    /\ r.caller = oracles[r.oracle].manager \/ IsOracleAdmin(r.caller)
    /\ oracles' = [oracles EXCEPT ![r.oracle].authorized = (@ \cup r.add) \ r.remove]
    /\ UNCHANGED <<engines, next_engine_id>>

IsOracleAuthorized(o, p) == o \in DOMAIN oracles /\ p \in oracles[o].authorized

-----------------------------------------------------------------------------
(* Who may trade a series, and who sees it. *)

Grants(access, p) ==
    access.open \/ \E g \in access.groups \cap DOMAIN groups : p \in groups[g].members

IsTradingAuthorized(p, id) ==
    \/ p \in Controller
    \/ id \in DOMAIN series_store /\ Grants(series_store[id].access, p)

CanSee(p, id) ==
    \/ p \in Controller \cup {series_store[id].creator}
    \/ Grants(series_store[id].access, p)

AllRestricted(access) == access # None /\ ~access.open

-----------------------------------------------------------------------------
(* The limits on social series. *)

IsSocial(m) == m.domain = "Social" /\ m.unit = "NonMonetary"

Logged(p) == IF p \in DOMAIN social_creation_log THEN social_creation_log[p] ELSE <<>>

Recent_Exclusive(p) == {i \in DOMAIN Logged(p) : Logged(p)[i] > now - HOUR}

(* The window includes its first instant. *)
Recent(p) == {i \in DOMAIN Logged(p) : Logged(p)[i] >= now - HOUR}

(* check_social_rate_limits *)
WithinLimits(p) ==
    /\ Len(Logged(p)) < social_limits.max_per_user
    /\ Cardinality(Recent(p)) < social_limits.max_per_hour

(* record_social_creation *)
Recorded(p) == Put(social_creation_log, p, Append(Logged(p), now))

(* CreationTier *)
Tier(p, engine, social) ==
    IF p \in Controller \/ HasRoleOn(p, "Creator", engine) THEN "Creator"
    ELSE IF engine = None /\ social THEN "Social"
    ELSE "Refused"

-----------------------------------------------------------------------------
(* Series *)

generate_id_AnyCaller(market, start, fork) ==
    Hash([market |-> market, start |-> start,
          fork |-> IF fork = None THEN None ELSE [fork EXCEPT !.caller = None]])

generate_id(market, start, fork) ==
    Hash([market |-> market, start |-> start, fork |-> fork])

(* add_series and fork_series both end here. *)
Insert(id, s, tier) ==
    /\ id \notin DOMAIN series_store
    /\ Cardinality(DOMAIN series_store) < MaxSeries
    /\ series_store' = Put(series_store, id, s)
    /\ social_creation_log' = IF tier = "Social" THEN Recorded(s.creator) ELSE social_creation_log
    /\ UNCHANGED social_limits

AddSeries(r) ==
    LET m == r.market
        tier == Tier(r.caller, r.engine, IsSocial(m))
    IN  /\ tier # "Refused"
        /\ m.domain = "Social" => m.unit = "NonMonetary" /\ AllRestricted(r.access)
        /\ tier = "Creator" => IsSocial(m) \/ m.unit = "Usd"
        /\ tier = "Social" => WithinLimits(r.caller)
        /\ r.start # None => now < r.start /\ r.start < m.expiry
        /\ Insert(generate_id(m, r.start, None),
                  [market |-> m, start |-> r.start, creator |-> r.caller, created_at |-> now,
                   access |-> IF r.access = None THEN [open |-> TRUE, groups |-> {}] ELSE r.access,
                   engine |-> r.engine, forked_from |-> None, text |-> "new"],
                  tier)

Forks(source, p) ==
    {id \in DOMAIN series_store :
        series_store[id].forked_from = source /\ series_store[id].creator = p}

NextForkId(source, p) ==
    generate_id(series_store[source].market, series_store[source].start,
                [source |-> source, caller |-> p, index |-> Cardinality(Forks(source, p))])

(* The terms are the source's, a start that has passed included. *)
ForkSeries(r) ==
    LET source == series_store[r.source]
        tier == Tier(r.caller, r.engine, IsSocial(source.market))
    IN  /\ AllRestricted(r.access)
        /\ r.source \in DOMAIN series_store
        /\ tier # "Refused"
        /\ tier = "Social" => WithinLimits(r.caller)
        /\ Cardinality(Forks(r.source, r.caller)) < MaxForks
        /\ Insert(NextForkId(r.source, r.caller),
                  [source EXCEPT !.creator = r.caller, !.created_at = now, !.access = r.access,
                                 !.engine = r.engine, !.forked_from = r.source],
                  tier)

(* caller_can_manage_series_metadata: the admins an engine lists. *)
CanManageMetadata(p, id) ==
    \/ p \in Controller \cup {series_store[id].creator}
    \/ series_store[id].engine \in DOMAIN engines /\ p \in engines[series_store[id].engine].admins

UpdateSeriesMetadata(r) ==
    /\ r.series \in DOMAIN series_store
    /\ CanManageMetadata(r.caller, r.series)
    /\ series_store' = [series_store EXCEPT ![r.series].text = r.text]
    /\ UNCHANGED <<social_limits, social_creation_log>>

UpdateTradingAccess(r) ==
    /\ r.caller \in Controller
    /\ r.access # None
    /\ r.series \in DOMAIN series_store
    /\ series_store' = [series_store EXCEPT ![r.series].access = r.access]
    /\ UNCHANGED <<social_limits, social_creation_log>>

SetSocialLimits(r) ==
    /\ r.caller \in Controller
    /\ social_limits' = r.limits
    /\ UNCHANGED <<series_store, social_creation_log>>

-----------------------------------------------------------------------------
(* Listing.  A client asks for page after page, each where the last one
   ended, until it is given no cursor. *)

(* Series::status *)
Status(s) ==
    IF now >= s.market.expiry THEN "Expired"
    ELSE IF s.start # None /\ now < s.start THEN "Upcoming"
    ELSE "Live"

(* ListSeriesParams::matches and matches_time; "any" sets no filter. *)
Matches(filter, s) ==
    /\ filter.text \in {"any", s.text}
    /\ CASE filter.window = "any" -> TRUE
         [] filter.window = "only_unexpired" -> s.market.expiry > now
         [] filter.window = "tradeable_now" -> Status(s) = "Live"
         [] filter.window = "due" -> Status(s) = "Expired" /\ s.market.resolvable

Listed ==
    {id \in DOMAIN series_store :
        Matches(reading.filter, series_store[id]) /\ CanSee(reading.caller, id)}

(* The order of the store's keys. *)
InOrder(ids) ==
    CHOOSE f \in [1 .. Cardinality(ids) -> ids] :
        \A i, j \in 1 .. Cardinality(ids) : i < j => f[i] < f[j]

PageSize(limit) == IF limit = 0 THEN 1 ELSE limit

NextCursor_FirstLeft(page, rest) == IF rest = <<>> THEN None ELSE Head(rest)

(* The last id given out, if one more is left. *)
NextCursor(page, rest) == IF rest = <<>> THEN None ELSE Last(page)

BeginListing(r) ==
    /\ reading = None
    /\ reading' = [caller |-> r.caller, filter |-> r.filter, limit |-> r.limit,
                   cursor |-> None, more |-> TRUE, got |-> <<>>]

(* list_series_with, PaginationParams::apply *)
NextPage ==
    /\ reading # None /\ reading.more
    /\ LET ids == {id \in Listed : reading.cursor # None => id > reading.cursor}
           ordered == InOrder(ids)
           size == IF Len(ordered) < PageSize(reading.limit)
                   THEN Len(ordered) ELSE PageSize(reading.limit)
           page == SubSeq(ordered, 1, size)
           cursor == NextCursor(page, SubSeq(ordered, size + 1, Len(ordered)))
       IN  reading' = [reading EXCEPT !.got = @ \o page, !.cursor = cursor,
                                      !.more = cursor # None]

EndListing ==
    /\ reading # None /\ ~reading.more
    /\ reading' = None

-----------------------------------------------------------------------------
(* migrate_v3_to_engines: the creators an older version kept in a map. *)
MigratedEngines(creators) ==
    IF creators = {} THEN EmptyMap
    ELSE [e \in {0} |-> [name |-> LegacyName, creator |-> Management, admins |-> {},
                         allowed |-> {"Creator"}, grants |-> creators \X {"Creator"}]]

RegistryInit ==
    /\ groups = EmptyMap /\ next_group_id = 0
    /\ engines \in {MigratedEngines({}), MigratedEngines(FlatCreators)}
    /\ next_engine_id = Cardinality(DOMAIN engines)
    /\ oracles = EmptyMap
    /\ series_store = EmptyMap
    /\ social_limits = Limits
    /\ social_creation_log = EmptyMap
    /\ now = 0
    /\ reading = None

GroupCall(r) ==
    \/ r.op = "create_group" /\ CreateGroup(r)
    \/ r.op = "delete_group" /\ DeleteGroup(r)
    \/ r.op = "add_group_admins" /\ AddGroupAdmins(r)
    \/ r.op = "remove_group_admins" /\ RemoveGroupAdmins(r)
    \/ r.op = "add_group_members" /\ AddGroupMembers(r)
    \/ r.op = "remove_group_members" /\ RemoveGroupMembers(r)

EngineCall(r) ==
    \/ r.op = "register_engine" /\ RegisterEngine(r)
    \/ r.op = "update_engine" /\ UpdateEngine(r)
    \/ r.op = "update_engine_allowed_roles" /\ UpdateEngineAllowedRoles(r)
    \/ r.op = "grant_engine_role" /\ GrantEngineRole(r)
    \/ r.op = "revoke_engine_role" /\ RevokeEngineRole(r)
    \/ r.op = "add_engine_admins" /\ AddEngineAdmins(r)
    \/ r.op = "remove_engine_admins" /\ RemoveEngineAdmins(r)
    \/ r.op = "add_oracle" /\ AddOracle(r)
    \/ r.op = "manage_oracle_principals" /\ ManageOraclePrincipals(r)

SeriesCall(r) ==
    \/ r.op = "add_series" /\ AddSeries(r)
    \/ r.op = "fork_series" /\ ForkSeries(r)
    \/ r.op = "update_series_metadata" /\ UpdateSeriesMetadata(r)
    \/ r.op = "update_trading_access" /\ UpdateTradingAccess(r)
    \/ r.op = "set_social_limits" /\ SetSocialLimits(r)
=============================================================================
