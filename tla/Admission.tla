----------------------------- MODULE Admission ------------------------------
(***************************************************************************)
(* The clearing canister asking the registry who may act: orders, admitted *)
(* from the copy of a series that clearing caches for good                 *)
(* (ensure_series_registered, check_trading_access), and prices and        *)
(* settlements, for which the oracle is asked about each time.             *)
(* What is done once a call is granted is Trading's and Settlement's,      *)
(* which also have the settled series that are refused before all this.    *)
(*                                                                         *)
(* Discipline: "known_groups", series are restricted only to groups that   *)
(* have been created; "stays_open", access that is open is not restricted. *)
(***************************************************************************)
EXTENDS Registry

CONSTANTS CallId

ASSUME AdmissionAssumption == Discipline \subseteq {"known_groups", "stays_open"}

VARIABLES
    cached,     \* clearing's SERIES: what of a series matters here
    call,       \* its suspended methods
    clients,    \* the requests of this behaviour
    entitled,   \* history: calls whose caller was entitled at some point of them
    kept        \* history: series the reader could see from its start on

clearingVars == <<cached, call>>
vars == <<registryVars, clearingVars, clients, entitled, kept>>

Copy(s) == [market |-> s.market, start |-> s.start, access |-> s.access]

NamesKnownGroups(r) ==
    /\ "known_groups" \in Discipline
    /\ r.op \in {"add_series", "fork_series", "update_trading_access"}
    /\ r.access # None
    => r.access.groups \subseteq 0 .. next_group_id - 1

StaysOpen(r) ==
    /\ "stays_open" \in Discipline
    /\ r.op = "update_trading_access"
    /\ r.series \in DOMAIN series_store /\ series_store[r.series].access.open
    => r.access # None /\ r.access.open

-----------------------------------------------------------------------------
Suspended(c, stage) == call[c] # None /\ call[c].stage = stage
Return(c) == call' = [call EXCEPT ![c] = None]

(* assert_series_started, assert_series_not_expired *)
Trading(s) == (s.start # None => now >= s.start) /\ now < s.market.expiry

(* A copy that is open to all is not asked about. *)
CachedOpen(s) == s.access.open

(* The rest of ensure_series_registered, and check_trading_access: k is the
   call as it is when it has a copy of the series. *)
Admitted(c, k, s) ==
    call' = [call EXCEPT ![c] = IF ~Trading(s) THEN None
                                ELSE [k EXCEPT !.stage = IF CachedOpen(s) THEN "granted"
                                                         ELSE "is_trading_authorized"]]

(* submit_limit_order, submit_market_order *)
SubmitOrder(c, r) ==
    LET k == [op |-> "order", user |-> r.caller, on |-> r.series, stage |-> "get_series",
              answer |-> None]
    IN  /\ call[c] = None
        /\ IF r.series \in DOMAIN cached
           THEN Admitted(c, k, cached[r.series])
           ELSE call' = [call EXCEPT ![c] = k]
        /\ UNCHANGED cached

(* settle_series, update_asset_price *)
SubmitOracle(c, r) ==
    /\ call[c] = None
    /\ call' = [call EXCEPT ![c] = [op |-> "oracle", user |-> r.caller, on |-> r.oracle,
                                    stage |-> "is_oracle_authorized", answer |-> None]]
    /\ UNCHANGED cached

(* The registry evaluates the query; its answer is on the way. *)
RegistryAnswers(c) ==
    /\ \/ /\ Suspended(c, "get_series")
          /\ call' = [call EXCEPT ![c].stage = "series",
                                  ![c].answer = IF call[c].on \in DOMAIN series_store
                                                THEN series_store[call[c].on] ELSE None]
       \/ /\ Suspended(c, "is_trading_authorized")
          /\ call' = [call EXCEPT ![c].stage = "access",
                                  ![c].answer = IsTradingAuthorized(call[c].user, call[c].on)]
       \/ /\ Suspended(c, "is_oracle_authorized")
          /\ call' = [call EXCEPT ![c].stage = "access",
                                  ![c].answer = IsOracleAuthorized(call[c].on, call[c].user)]
    /\ UNCHANGED cached

(* Cached before its window is looked at, over a copy another call may have
   cached; not cached when it does not pay out in USD. *)
SeriesAnswered(c) ==
    /\ Suspended(c, "series")
    /\ IF call[c].answer = None \/ call[c].answer.market.unit # "Usd"
       THEN Return(c) /\ UNCHANGED cached
       ELSE /\ cached' = Put(cached, call[c].on, Copy(call[c].answer))
            /\ Admitted(c, [call[c] EXCEPT !.answer = None], Copy(call[c].answer))

AccessAnswered(c) ==
    /\ Suspended(c, "access")
    /\ call' = [call EXCEPT ![c] = IF call[c].answer THEN [call[c] EXCEPT !.stage = "granted"]
                                   ELSE None]
    /\ UNCHANGED cached

(* The call fails, or is gone with an upgrade. *)
CallFails(c) ==
    /\ call[c] # None /\ call[c].stage # "granted"
    /\ Return(c)
    /\ UNCHANGED cached

(* The order is placed, the series settled. *)
Carried(c) == Suspended(c, "granted") /\ Return(c) /\ UNCHANGED cached

-----------------------------------------------------------------------------
Tick == now < MaxTime /\ now' = now + 1

Handle(r) ==
    \/ GroupCall(r) /\ UNCHANGED <<engineVars, seriesVars, reading, clearingVars>>
    \/ EngineCall(r) /\ UNCHANGED <<groupVars, seriesVars, reading, clearingVars>>
    \/ SeriesCall(r) /\ UNCHANGED <<groupVars, engineVars, reading, clearingVars>>
    \/ r.op = "list_series" /\ BeginListing(r)
          /\ UNCHANGED <<groupVars, engineVars, seriesVars, clearingVars>>

Clearing(c) ==
    \/ \E r \in clients : r.op = "order" /\ SubmitOrder(c, r)
    \/ \E r \in clients : r.op = "oracle" /\ SubmitOracle(c, r)
    \/ RegistryAnswers(c) \/ SeriesAnswered(c) \/ AccessAnswered(c) \/ CallFails(c) \/ Carried(c)

Step ==
    \/ /\ \E r \in clients : NamesKnownGroups(r) /\ StaysOpen(r) /\ Handle(r)
       /\ UNCHANGED now
    \/ /\ NextPage \/ EndListing
       /\ UNCHANGED <<groupVars, engineVars, seriesVars, now, clearingVars>>
    \/ /\ \E c \in CallId : Clearing(c)
       /\ UNCHANGED registryVars
    \/ /\ Tick
       /\ UNCHANGED <<groupVars, engineVars, seriesVars, reading, clearingVars>>

(* Callers that may do now what their call is for. *)
Entitled ==
    {c \in CallId :
        /\ call[c] # None
        /\ \/ call[c].op = "order" /\ IsTradingAuthorized(call[c].user, call[c].on)
           \/ call[c].op = "oracle" /\ IsOracleAuthorized(call[c].on, call[c].user)}

Visible == IF reading = None THEN {} ELSE Listed

Next ==
    /\ Step
    /\ UNCHANGED clients
    /\ entitled' = (entitled \cap {c \in CallId : call'[c] # None}) \cup Entitled'
    /\ kept' = IF reading = None THEN Visible' ELSE kept \cap Visible'

Init ==
    /\ RegistryInit
    /\ cached = EmptyMap
    /\ call = [c \in CallId |-> None]
    /\ clients \in Clients
    /\ entitled = {}
    /\ kept = {}

Spec == Init /\ [][Next]_vars

-----------------------------------------------------------------------------
(* A series is found under the hash of its terms, and the id of any caller's
   next fork of any series is free, so only the limit refuses a fork.
   Engines have distinct names, in whatever order they are registered and
   renamed.  (generate_id, fork_series_impl: "Forks cannot collide";
   register_engine, update_engine) *)
StoreOK ==
    /\ DOMAIN groups \subseteq 0 .. next_group_id - 1
    /\ DOMAIN engines = 0 .. next_engine_id - 1
    /\ \A e, f \in DOMAIN engines : engines[e].name = engines[f].name => e = f
    /\ \A id \in DOMAIN series_store :
          /\ series_store[id].forked_from \in DOMAIN series_store \cup {None}
          /\ series_store[id].forked_from = None =>
                id = generate_id(series_store[id].market, series_store[id].start, None)
          /\ \A p \in Principal :
                Cardinality(Forks(id, p)) < MaxForks => NextForkId(id, p) \notin DOMAIN series_store

(* The social series of a user who is no controller and no engine's. *)
SocialSeries(p) ==
    {id \in DOMAIN series_store :
        series_store[id].creator = p /\ series_store[id].engine = None /\ p \notin Controller}

(* Whenever a user without a role adds or forks a social series, the store
   holds no more of that user's than the limits allow, in all and in the
   hour that ends now, however the limits were changed before.
   (check_social_rate_limits, record_social_creation) *)
LimitsHeld ==
    [][\A p \in Principal :
          SocialSeries(p)' # SocialSeries(p) =>
              /\ Cardinality(SocialSeries(p)') <= social_limits.max_per_user
              /\ Cardinality({id \in SocialSeries(p)' :
                                 series_store'[id].created_at >= now - HOUR})
                    <= social_limits.max_per_hour]_vars

(* A client that follows the cursors is given no series twice, and at the
   end has every series it could see all along, though series were added
   and forked, groups and the time changed between the pages.
   (PaginationParams::apply: "dropping and repeating nothing") *)
PagesOnce ==
    reading # None =>
        /\ IsInjective(reading.got)
        /\ ~reading.more => kept \subseteq Range(reading.got)

(* Clearing lets an order or an oracle through only if the registry would
   have, at some moment of the call; and whoever creates the next group is
   not by that in the circle of an existing series.
   (check_trading_access, create_group: "guaranteed unique") *)
AccessKept ==
    /\ \A c \in CallId : Suspended(c, "granted") => c \in entitled
    /\ \A id \in DOMAIN series_store : NewGroupId \notin series_store[id].access.groups

(* What does not hold of the code, see the README. *)

(* An order is let through within the window of its series.
   (assert_series_not_expired) *)
GrantedInWindow ==
    [][\A c \in CallId :
          ~Suspended(c, "granted") /\ Suspended(c, "granted")' /\ call'[c].op = "order" =>
              Trading(cached'[call'[c].on])]_vars

(* Of one market no two series are live at once, forks aside.
   (add_series: "the same market cannot exist under two ids") *)
OneLiveSeries ==
    \A i, j \in DOMAIN series_store :
        /\ series_store[i].forked_from = None /\ series_store[j].forked_from = None
        /\ series_store[i].market = series_store[j].market
        /\ Status(series_store[i]) = "Live" /\ Status(series_store[j]) = "Live"
        => i = j
=============================================================================
