-------------------------- MODULE AdmissionProofs --------------------------
(***************************************************************************)
(* Theorems about the registry and what clearing asks of it, for any       *)
(* clients: the names of series and engines, the limits on social series,  *)
(* their listing page by page, and that clearing lets nobody in whom the   *)
(* registry would not.                                                     *)
(***************************************************************************)
EXTENDS Admission, SumProofs, SequenceTheorems, TLAPS

(* What the id of a series is hashed from. *)
Starts == Nat \cup {None}
ForkTerms == [source : Int, caller : Principal, index : Nat]

(* Identifiers are ordered, so they are taken for numbers. *)
IdsOrdered ==
    \A m \in Market, s \in Starts, f \in ForkTerms \cup {None} : generate_id(m, s, f) \in Int

(* SHA-256 tells any two series' terms apart. *)
OneToOne ==
    \A m1 \in Market, m2 \in Market, s1 \in Starts, s2 \in Starts,
       f1 \in ForkTerms \cup {None}, f2 \in ForkTerms \cup {None} :
        generate_id(m1, s1, f1) = generate_id(m2, s2, f2) => m1 = m2 /\ s1 = s2 /\ f1 = f2

(* None is no id, no number and no fork. *)
NoneApart == None \notin Int /\ None \notin ForkTerms

SeriesFields ==
    {"market", "start", "creator", "created_at", "access", "engine", "forked_from", "text"}

LimitsTyped(l) == l.max_per_hour \in Nat /\ l.max_per_user \in Nat

(* What the types of the methods' arguments say. *)
RequestTyped(r) ==
    /\ r.op = "add_series" => r.caller \in Principal /\ r.market \in Market /\ r.start \in Starts
    /\ r.op = "fork_series" => r.caller \in Principal
    /\ r.op = "set_social_limits" => LimitsTyped(r.limits)
    /\ r.op = "list_series" => r.limit \in Nat

RequestsTyped == \A r \in UNION Clients : RequestTyped(r)

LEMMA ClientTyped ==
    ASSUME RequestsTyped, clients \in Clients, NEW r \in clients
    PROVE  RequestTyped(r)
BY DEF RequestsTyped

-----------------------------------------------------------------------------
(* Names. *)

ForksIn(st, x, p) == {id \in DOMAIN st : st[id].forked_from = x /\ st[id].creator = p}

NumberedFork(st, id, i) ==
    id = generate_id(st[id].market, st[id].start,
                     [source |-> st[id].forked_from, caller |-> st[id].creator, index |-> i])

(* A series is found under its terms; a fork has in them a number below that
   of the forks its creator has made of its source. *)
Named(st, id) ==
    \/ /\ st[id].forked_from = None
       /\ id = generate_id(st[id].market, st[id].start, None)
    \/ /\ st[id].forked_from \in DOMAIN st
       /\ \E i \in Nat : /\ i < Cardinality(ForksIn(st, st[id].forked_from, st[id].creator))
                         /\ NumberedFork(st, id, i)

SeriesTyped(s) ==
    /\ SeriesFields \subseteq DOMAIN s
    /\ s.market \in Market /\ s.start \in Starts /\ s.creator \in Principal

StoreSound(st) ==
    /\ IsFiniteSet(DOMAIN st) /\ DOMAIN st \subseteq Int
    /\ \A id \in DOMAIN st : SeriesTyped(st[id]) /\ Named(st, id)

GroupsSound == next_group_id \in Nat /\ DOMAIN groups \subseteq 0 .. next_group_id - 1

EnginesSound ==
    /\ next_engine_id \in Nat /\ DOMAIN engines = 0 .. next_engine_id - 1
    /\ \A e \in DOMAIN engines : {"name", "grants", "admins", "allowed"} \subseteq DOMAIN engines[e]
    /\ \A e, f \in DOMAIN engines : engines[e].name = engines[f].name => e = f

NamesInv ==
    GroupsSound /\ EnginesSound /\ StoreSound(series_store) /\ clients \in Clients

-----------------------------------------------------------------------------
(* Access. *)

(* What a suspended call k, of execution c, has been told still holds. *)
CallFits(k, c, ent, st) ==
    /\ {"op", "user", "on", "stage", "answer"} \subseteq DOMAIN k
    /\ k.op \in {"order", "oracle"}
    /\ k.stage \in {"get_series", "series", "is_trading_authorized"} => k.op = "order"
    /\ k.stage = "is_oracle_authorized" => k.op = "oracle"
    /\ k.stage = "series" /\ k.answer # None =>
          k.on \in DOMAIN st /\ (k.answer.access.open => st[k.on].access.open)
    /\ k.stage = "access" => (k.answer => c \in ent)
    /\ k.stage = "granted" => c \in ent

CallsFit ==
    /\ DOMAIN call = CallId
    /\ \A c \in CallId : call[c] # None => CallFits(call[c], c, entitled, series_store)

CachedFits ==
    \A id \in DOMAIN cached :
        id \in DOMAIN series_store
        /\ (cached[id].access.open => series_store[id].access.open)

CirclesKnown ==
    \A id \in DOMAIN series_store :
        series_store[id].access.groups \subseteq 0 .. next_group_id - 1

AccessInv == NamesInv /\ CallsFit /\ CachedFits /\ CirclesKnown

-----------------------------------------------------------------------------
(* Limits. *)

SocialIn(st, p) == {id \in DOMAIN st : st[id].creator = p /\ st[id].engine = None}

Since(st, p, t) == {id \in SocialIn(st, p) : st[id].created_at >= t}

LoggedSince(log, t) == {i \in DOMAIN log : log[i] >= t}

(* The log has an entry for every social series, of its time. *)
LoggedAll ==
    \A p \in Principal \ Controller :
        /\ Logged(p) \in Seq(Nat)
        /\ \A id \in SocialIn(series_store, p) : series_store[id].created_at \in Nat
        /\ \A t \in Int : Cardinality(Since(series_store, p, t))
                              <= Cardinality(LoggedSince(Logged(p), t))

LimitsInv ==
    /\ NamesInv /\ now \in Nat
    /\ LimitsTyped(social_limits) /\ LoggedAll

-----------------------------------------------------------------------------
(* Pages. *)

Ascending(s) == \A i, j \in DOMAIN s : i < j => s[i] < s[j]

(* Of what the reader could see all along (k), the part up to the cursor has
   been given out, in the order of the ids, and nothing after it. *)
ReadingFits(rd, k) ==
    /\ {"caller", "filter", "limit", "cursor", "more", "got"} = DOMAIN rd
    /\ rd.limit \in Nat
    /\ rd.got \in Seq(Int) /\ Ascending(rd.got)
    /\ rd.more /\ rd.cursor = None => rd.got = << >>
    /\ rd.more /\ rd.cursor # None =>
          /\ rd.cursor \in Int
          /\ \A i \in DOMAIN rd.got : rd.got[i] <= rd.cursor
          /\ \A id \in k : id <= rd.cursor => id \in Range(rd.got)
    /\ ~rd.more => k \subseteq Range(rd.got)

PagesInv ==
    /\ NamesInv
    /\ kept \subseteq Visible
    /\ reading # None => ReadingFits(reading, kept)

-----------------------------------------------------------------------------
(* Names: the store. *)

LEMMA ForksFinite ==
    ASSUME NEW st, IsFiniteSet(DOMAIN st), NEW x, NEW p
    PROVE  IsFiniteSet(ForksIn(st, x, p)) /\ Cardinality(ForksIn(st, x, p)) \in Nat
<1>1. ForksIn(st, x, p) \subseteq DOMAIN st
    BY DEF ForksIn
<1> QED BY <1>1, FS_Subset, FS_CardinalityType

(* A new series under the name of its terms. *)
LEMMA PutNamed ==
    ASSUME IdsOrdered, NEW st, StoreSound(st), NEW id, id \notin DOMAIN st,
           NEW s, SeriesTyped(s),
           \/ s.forked_from = None /\ id = generate_id(s.market, s.start, None)
           \/ /\ s.forked_from \in DOMAIN st
              /\ id = generate_id(s.market, s.start,
                         [source |-> s.forked_from, caller |-> s.creator,
                          index |-> Cardinality(ForksIn(st, s.forked_from, s.creator))])
    PROVE  StoreSound(Put(st, id, s))
<1> DEFINE new == Put(st, id, s)
<1>1. /\ DOMAIN new = DOMAIN st \cup {id} /\ new[id] = s
      /\ \A x \in DOMAIN st : new[x] = st[x]
    BY DEF Put
<1> HIDE DEF new
<1>2. IsFiniteSet(DOMAIN new) /\ IsFiniteSet(DOMAIN st)
    BY <1>1, FS_AddElement DEF StoreSound
<1>3. ASSUME NEW x, NEW p
      PROVE  Cardinality(ForksIn(st, x, p)) <= Cardinality(ForksIn(new, x, p))
    <2>1. ForksIn(st, x, p) \subseteq ForksIn(new, x, p)
        BY <1>1 DEF ForksIn
    <2> QED BY <1>2, <2>1, ForksFinite, FS_Subset
<1>4. ASSUME NEW x \in DOMAIN st PROVE Named(new, x)
    <2>1. new[x] = st[x] /\ Named(st, x)
        BY <1>1 DEF StoreSound
    <2>2. CASE st[x].forked_from = None /\ x = generate_id(st[x].market, st[x].start, None)
        BY <2>1, <2>2 DEF Named
    <2>3. CASE /\ st[x].forked_from \in DOMAIN st
               /\ \E i \in Nat : /\ i < Cardinality(ForksIn(st, st[x].forked_from, st[x].creator))
                                 /\ NumberedFork(st, x, i)
        <3>1. PICK i \in Nat : /\ i < Cardinality(ForksIn(st, st[x].forked_from, st[x].creator))
                               /\ NumberedFork(st, x, i)
            BY <2>3
        <3>2. i < Cardinality(ForksIn(new, new[x].forked_from, new[x].creator))
            BY <1>2, <1>3, <2>1, <3>1, ForksFinite
        <3>3. NumberedFork(new, x, i)
            BY <2>1, <3>1 DEF NumberedFork
        <3> QED BY <1>1, <2>1, <2>3, <3>2, <3>3 DEF Named
    <2> QED BY <2>1, <2>2, <2>3 DEF Named
<1>5. Named(new, id)
    <2>1. CASE s.forked_from = None /\ id = generate_id(s.market, s.start, None)
        BY <1>1, <2>1 DEF Named
    <2>2. CASE /\ s.forked_from \in DOMAIN st
               /\ id = generate_id(s.market, s.start,
                          [source |-> s.forked_from, caller |-> s.creator,
                           index |-> Cardinality(ForksIn(st, s.forked_from, s.creator))])
        <3> DEFINE x == s.forked_from
                   p == s.creator
                   n == Cardinality(ForksIn(st, x, p))
        <3>1. ForksIn(new, x, p) = ForksIn(st, x, p) \cup {id} /\ id \notin ForksIn(st, x, p)
            BY <1>1 DEF ForksIn
        <3>2. n \in Nat /\ Cardinality(ForksIn(new, x, p)) = n + 1
            BY <1>2, <3>1, ForksFinite, FS_AddElement
        <3>3. NumberedFork(new, id, n)
            BY <1>1, <2>2 DEF NumberedFork
        <3>4. n < Cardinality(ForksIn(new, new[id].forked_from, new[id].creator))
            BY <1>1, <3>2
        <3> HIDE DEF n
        <3> QED BY <1>1, <2>2, <3>2, <3>3, <3>4 DEF Named
    <2> QED BY <2>1, <2>2
<1>6. id \in Int
    <2>1. s.market \in Market /\ s.start \in Starts /\ s.creator \in Principal
        BY DEF SeriesTyped
    <2>2. CASE s.forked_from = None /\ id = generate_id(s.market, s.start, None)
        BY <2>1, <2>2 DEF IdsOrdered
    <2>3. CASE s.forked_from \in DOMAIN st
        <3> DEFINE fork == [source |-> s.forked_from, caller |-> s.creator,
                            index |-> Cardinality(ForksIn(st, s.forked_from, s.creator))]
        <3>1. Cardinality(ForksIn(st, s.forked_from, s.creator)) \in Nat
            BY <1>2, ForksFinite
        <3>2. fork \in ForkTerms
            BY <2>1, <2>3, <3>1 DEF ForkTerms, StoreSound
        <3>3. generate_id(s.market, s.start, fork) \in Int
            <4> HIDE DEF fork
            <4> QED BY <2>1, <3>2 DEF IdsOrdered
        <3>4. \/ s.forked_from = None /\ id = generate_id(s.market, s.start, None)
              \/ id = generate_id(s.market, s.start, fork)
            OBVIOUS
        <3> QED BY <2>2, <3>3, <3>4
    <2> QED BY <2>2, <2>3
<1>7. \A x \in DOMAIN new : SeriesTyped(new[x]) /\ Named(new, x)
    BY <1>1, <1>4, <1>5 DEF StoreSound
<1>8. DOMAIN new \subseteq Int
    BY <1>1, <1>6 DEF StoreSound
<1>9. StoreSound(new)
    BY <1>2, <1>7, <1>8 DEF StoreSound
<1> QED BY <1>9 DEF new

(* Changing what is not in a series' terms leaves the names. *)
SameTerms(s, z) ==
    /\ DOMAIN z = DOMAIN s
    /\ \A f \in {"market", "start", "creator", "created_at", "engine", "forked_from"} : z[f] = s[f]

LEMMA EditNamed ==
    ASSUME NEW st, StoreSound(st), NEW new, DOMAIN new = DOMAIN st,
           \A x \in DOMAIN st : SameTerms(st[x], new[x])
    PROVE  StoreSound(new)
<1>1. \A x \in DOMAIN st : /\ new[x].market = st[x].market /\ new[x].start = st[x].start
                           /\ new[x].creator = st[x].creator
                           /\ new[x].forked_from = st[x].forked_from
                           /\ DOMAIN new[x] = DOMAIN st[x]
    BY DEF SameTerms
<1>2. \A x, p : ForksIn(new, x, p) = ForksIn(st, x, p)
    BY <1>1 DEF ForksIn
<1>3. ASSUME NEW x \in DOMAIN st PROVE Named(new, x)
    <2>1. Named(st, x)
        BY DEF StoreSound
    <2>2. \A i : NumberedFork(new, x, i) <=> NumberedFork(st, x, i)
        BY <1>1 DEF NumberedFork
    <2> QED BY <1>1, <1>2, <2>1, <2>2 DEF Named
<1>4. ASSUME NEW x \in DOMAIN st PROVE SeriesTyped(new[x])
    <2>1. SeriesTyped(st[x])
        BY DEF StoreSound
    <2> QED BY <1>1, <2>1 DEF SeriesTyped
<1> QED BY <1>3, <1>4 DEF StoreSound

(* The next fork of a series is a new name. *)
LEMMA NextForkFree ==
    ASSUME OneToOne, NoneApart, NEW st, StoreSound(st), NEW id \in DOMAIN st,
           NEW p \in Principal
    PROVE  generate_id(st[id].market, st[id].start,
                       [source |-> id, caller |-> p, index |-> Cardinality(ForksIn(st, id, p))])
             \notin DOMAIN st
<1> DEFINE n == Cardinality(ForksIn(st, id, p))
           fork == [source |-> id, caller |-> p, index |-> n]
<1>1. SUFFICES ASSUME NEW x \in DOMAIN st, x = generate_id(st[id].market, st[id].start, fork)
               PROVE  FALSE
    OBVIOUS
<1>2. n \in Nat
    BY ForksFinite DEF StoreSound
<1>3. fork \in ForkTerms /\ fork # None
    BY <1>2 DEF NoneApart, ForkTerms, StoreSound
<1>4. Named(st, x)
    BY DEF StoreSound
<1>5. /\ st[x].market \in Market /\ st[x].start \in Starts /\ st[x].creator \in Principal
      /\ st[id].market \in Market /\ st[id].start \in Starts
    BY DEF StoreSound, SeriesTyped
<1>6. CASE x = generate_id(st[x].market, st[x].start, None)
    <2> HIDE DEF fork
    <2> QED BY <1>1, <1>3, <1>5, <1>6 DEF OneToOne
<1>7. CASE /\ st[x].forked_from \in DOMAIN st
           /\ \E i \in Nat : /\ i < Cardinality(ForksIn(st, st[x].forked_from, st[x].creator))
                             /\ NumberedFork(st, x, i)
    <2>1. PICK i \in Nat : /\ i < Cardinality(ForksIn(st, st[x].forked_from, st[x].creator))
                           /\ NumberedFork(st, x, i)
        BY <1>7
    <2>2. st[x].forked_from \in DOMAIN st
        BY <1>7
    <2> DEFINE own == [source |-> st[x].forked_from, caller |-> st[x].creator, index |-> i]
    <2>3. x = generate_id(st[x].market, st[x].start, own)
        BY <2>1 DEF NumberedFork
    <2>4. own = fork
        <3>1. own \in ForkTerms
            BY <1>5, <2>2 DEF ForkTerms, StoreSound
        <3> HIDE DEF own, fork
        <3> QED BY <1>1, <1>3, <1>5, <2>3, <3>1 DEF OneToOne
    <2>5. own.source = fork.source /\ own.caller = fork.caller /\ own.index = fork.index
        BY <2>4
    <2>6. st[x].forked_from = id /\ st[x].creator = p /\ i = n
        BY <2>5
    <2> QED BY <1>2, <2>1, <2>6
<1> QED BY <1>4, <1>6, <1>7 DEF Named

-----------------------------------------------------------------------------
(* Steps of the registry. *)

(* The call r stores a new series s under id. *)
Adds(r, id, s) ==
    /\ id \notin DOMAIN series_store
    /\ series_store' = Put(series_store, id, s)
    /\ SeriesTyped(s)
    /\ s.creator = r.caller /\ s.created_at = now /\ s.engine = r.engine
    /\ \/ r.access # None /\ s.access = r.access
       \/ s.access = [open |-> TRUE, groups |-> {}]
    /\ \/ s.forked_from = None /\ id = generate_id(s.market, s.start, None)
       \/ /\ s.forked_from \in DOMAIN series_store
          /\ id = generate_id(s.market, s.start,
                     [source |-> s.forked_from, caller |-> s.creator,
                      index |-> Cardinality(ForksIn(series_store, s.forked_from, s.creator))])

(* What check_social_rate_limits and record_social_creation do beside it. *)
Counts(r) ==
    \/ /\ r.caller \in Controller \/ HasRoleOn(r.caller, "Creator", r.engine)
       /\ UNCHANGED <<social_limits, social_creation_log>>
    \/ /\ WithinLimits(r.caller)
       /\ social_creation_log' = Recorded(r.caller)
       /\ UNCHANGED social_limits

(* The call r changes no series' terms. *)
Edits(r) ==
    /\ DOMAIN series_store' = DOMAIN series_store
    /\ \A x \in DOMAIN series_store :
          /\ SameTerms(series_store[x], series_store'[x])
          /\ \/ series_store'[x].access = series_store[x].access
             \/ /\ r.op = "update_trading_access" /\ x = r.series /\ r.access # None
                /\ series_store'[x].access = r.access
    /\ UNCHANGED social_creation_log
    /\ UNCHANGED social_limits \/ UNCHANGED series_store

LEMMA AddSeriesAdds ==
    ASSUME NEW r, RequestTyped(r), r.op = "add_series", AddSeries(r)
    PROVE  (\E id, s : Adds(r, id, s)) /\ Counts(r)
<1> DEFINE m == r.market
           tier == Tier(r.caller, r.engine, IsSocial(m))
           id == generate_id(m, r.start, None)
           access == IF r.access = None THEN [open |-> TRUE, groups |-> {}] ELSE r.access
           s == [market |-> m, start |-> r.start, creator |-> r.caller, created_at |-> now,
                 access |-> access, engine |-> r.engine, forked_from |-> None, text |-> "new"]
<1>1. /\ tier # "Refused" /\ (tier = "Social" => WithinLimits(r.caller))
      /\ Insert(id, s, tier)
    BY DEF AddSeries
<1>2. /\ DOMAIN s = SeriesFields /\ s.market = m /\ s.start = r.start /\ s.creator = r.caller
      /\ s.created_at = now /\ s.access = access /\ s.engine = r.engine /\ s.forked_from = None
    BY DEF SeriesFields
<1>3. (r.access # None /\ access = r.access) \/ access = [open |-> TRUE, groups |-> {}]
    OBVIOUS
<1> HIDE DEF s, access
<1>4. Adds(r, id, s)
    <2>1. SeriesTyped(s)
        BY <1>2 DEF SeriesTyped, RequestTyped
    <2> QED BY <1>1, <1>2, <1>3, <2>1 DEF Adds, Insert
<1>5. Counts(r)
    BY <1>1, <1>2 DEF Insert, Counts, Tier
<1> QED BY <1>4, <1>5

LEMMA ForkSeriesAdds ==
    ASSUME NEW r, RequestTyped(r), r.op = "fork_series", StoreSound(series_store), ForkSeries(r)
    PROVE  (\E id, s : Adds(r, id, s)) /\ Counts(r)
<1> DEFINE source == series_store[r.source]
           tier == Tier(r.caller, r.engine, IsSocial(source.market))
           id == NextForkId(r.source, r.caller)
           s == [source EXCEPT !.creator = r.caller, !.created_at = now, !.access = r.access,
                               !.engine = r.engine, !.forked_from = r.source]
<1>1. /\ r.access # None /\ r.source \in DOMAIN series_store
      /\ tier # "Refused" /\ (tier = "Social" => WithinLimits(r.caller))
      /\ Insert(id, s, tier)
    BY DEF ForkSeries, AllRestricted
<1>2. SeriesFields \subseteq DOMAIN source
    BY <1>1 DEF StoreSound, SeriesTyped
<1>3. /\ DOMAIN s = DOMAIN source /\ s.market = source.market /\ s.start = source.start
      /\ s.creator = r.caller /\ s.created_at = now /\ s.access = r.access
      /\ s.engine = r.engine /\ s.forked_from = r.source
    BY <1>2 DEF SeriesFields
<1>4. id = generate_id(source.market, source.start,
                [source |-> r.source, caller |-> r.caller,
                 index |-> Cardinality(ForksIn(series_store, r.source, r.caller))])
    BY DEF NextForkId, Forks, ForksIn
<1>5. source.market \in Market /\ source.start \in Starts /\ r.caller \in Principal
    BY <1>1 DEF StoreSound, SeriesTyped, RequestTyped
<1> HIDE DEF s, id
<1>6. Adds(r, id, s)
    <2>1. SeriesTyped(s)
        BY <1>2, <1>3, <1>5 DEF SeriesTyped
    <2> QED BY <1>1, <1>3, <1>4, <2>1 DEF Adds, Insert
<1>7. Counts(r)
    BY <1>1, <1>3 DEF Insert, Counts, Tier
<1> QED BY <1>6, <1>7

LEMMA EditingEdits ==
    ASSUME NEW r, StoreSound(series_store),
           \/ UpdateSeriesMetadata(r) \/ SetSocialLimits(r)
           \/ r.op = "update_trading_access" /\ UpdateTradingAccess(r)
    PROVE  Edits(r)
<1>0. \A x \in DOMAIN series_store : SeriesFields \subseteq DOMAIN series_store[x]
    BY DEF StoreSound, SeriesTyped
<1>1. CASE UpdateSeriesMetadata(r)
    <2>1. r.series \in DOMAIN series_store
          /\ series_store' = [series_store EXCEPT ![r.series].text = r.text]
          /\ UNCHANGED <<social_limits, social_creation_log>>
        BY <1>1 DEF UpdateSeriesMetadata
    <2> QED BY <1>0, <2>1 DEF Edits, SameTerms, SeriesFields
<1>2. CASE r.op = "update_trading_access" /\ UpdateTradingAccess(r)
    <2>1. /\ r.series \in DOMAIN series_store /\ r.access # None
          /\ series_store' = [series_store EXCEPT ![r.series].access = r.access]
          /\ UNCHANGED <<social_limits, social_creation_log>>
        BY <1>2 DEF UpdateTradingAccess
    <2> QED BY <1>0, <1>2, <2>1 DEF Edits, SameTerms, SeriesFields
<1>3. CASE SetSocialLimits(r)
    BY <1>3 DEF SetSocialLimits, Edits, SameTerms
<1> QED BY <1>1, <1>2, <1>3

LEMMA SeriesKinds ==
    ASSUME NEW r, RequestTyped(r), StoreSound(series_store), SeriesCall(r)
    PROVE  \/ /\ r.op \in {"add_series", "fork_series"}
              /\ (\E id, s : Adds(r, id, s)) /\ Counts(r)
           \/ Edits(r)
BY AddSeriesAdds, ForkSeriesAdds, EditingEdits DEF SeriesCall

LEMMA SeriesKeepsStore ==
    ASSUME IdsOrdered, NEW r, RequestTyped(r), StoreSound(series_store), SeriesCall(r)
    PROVE  StoreSound(series_store)'
<1>1. ASSUME NEW id, NEW s, Adds(r, id, s) PROVE StoreSound(series_store')
    BY <1>1, PutNamed DEF Adds
<1>2. CASE Edits(r)
    BY <1>2, EditNamed DEF Edits
<1> QED BY <1>1, <1>2, SeriesKinds

LEMMA GroupKeeps ==
    ASSUME NEW r, GroupsSound, GroupCall(r)
    PROVE  GroupsSound' /\ next_group_id' \in Nat /\ next_group_id' >= next_group_id
<1>1. CASE CreateGroup(r)
    BY <1>1 DEF CreateGroup, NewGroupId, Put, GroupsSound
<1>2. CASE DeleteGroup(r)
    BY <1>2 DEF DeleteGroup, Restrict, GroupsSound
<1>3. CASE AddGroupAdmins(r) \/ RemoveGroupAdmins(r)
    BY <1>3 DEF AddGroupAdmins, RemoveGroupAdmins, GroupsSound
<1>4. CASE AddGroupMembers(r) \/ RemoveGroupMembers(r)
    BY <1>4 DEF AddGroupMembers, RemoveGroupMembers, GroupsSound
<1> QED BY <1>1, <1>2, <1>3, <1>4 DEF GroupCall

(* Engines keep their names apart. *)
LEMMA EngineKeeps ==
    ASSUME NEW r, EnginesSound, EngineCall(r)
    PROVE  EnginesSound'
<1> DEFINE F == {"name", "grants", "admins", "allowed"}
<1>0. \A e \in DOMAIN engines : F \subseteq DOMAIN engines[e]
    BY DEF EnginesSound
<1>1. ASSUME UNCHANGED engines, UNCHANGED next_engine_id PROVE EnginesSound'
    BY <1>1 DEF EnginesSound
<1>2. CASE RegisterEngine(r)
    <2> DEFINE new == [name |-> r.name, creator |-> r.caller,
                       admins |-> r.principals \cup {r.caller},
                       allowed |-> r.roles, grants |-> {}]
    <2>1. F \subseteq DOMAIN new /\ new.name = r.name
        OBVIOUS
    <2>2. /\ engines' = Put(engines, next_engine_id, new) /\ next_engine_id' = next_engine_id + 1
          /\ \A e \in DOMAIN engines : engines[e].name # r.name
        BY <1>2 DEF RegisterEngine
    <2> HIDE DEF new, F
    <2>3. DOMAIN engines' = 0 .. next_engine_id' - 1 /\ next_engine_id' \in Nat
          /\ next_engine_id \notin DOMAIN engines
        BY <2>2 DEF Put, EnginesSound
    <2>4. engines'[next_engine_id] = new /\ \A e \in DOMAIN engines : engines'[e] = engines[e]
        BY <2>2, <2>3 DEF Put
    <2>5. DOMAIN engines' = DOMAIN engines \cup {next_engine_id}
        BY <2>2 DEF Put
    <2>6. \A e \in DOMAIN engines' : F \subseteq DOMAIN engines'[e]
        BY <1>0, <2>1, <2>4, <2>5
    <2>7. \A e, f \in DOMAIN engines' : engines'[e].name = engines'[f].name => e = f
        BY <2>1, <2>2, <2>4, <2>5 DEF EnginesSound
    <2> QED BY <2>3, <2>6, <2>7 DEF EnginesSound, F
<1>3. CASE UpdateEngine(r)
    <2>1. /\ r.engine \in DOMAIN engines /\ UNCHANGED next_engine_id
          /\ \A e \in DOMAIN engines \ {r.engine} : engines[e].name # r.name
          /\ engines' = [engines EXCEPT ![r.engine].name = r.name]
        BY <1>3 DEF UpdateEngine, IsEngineAdmin
    <2>2. /\ DOMAIN engines' = DOMAIN engines /\ engines'[r.engine].name = r.name
          /\ DOMAIN engines'[r.engine] = DOMAIN engines[r.engine]
          /\ \A e \in DOMAIN engines \ {r.engine} : engines'[e] = engines[e]
        BY <1>0, <2>1
    <2> QED BY <1>0, <2>1, <2>2 DEF EnginesSound
<1>4. CASE \/ UpdateEngineAllowedRoles(r) \/ GrantEngineRole(r) \/ RevokeEngineRole(r)
           \/ AddEngineAdmins(r) \/ RemoveEngineAdmins(r)
    <2>1. PICK f \in {"allowed", "grants", "admins"} :
              /\ r.engine \in DOMAIN engines /\ UNCHANGED next_engine_id
              /\ \E v : engines' = [engines EXCEPT ![r.engine] = [@ EXCEPT ![f] = v]]
        BY <1>4 DEF UpdateEngineAllowedRoles, GrantEngineRole, RevokeEngineRole,
                    AddEngineAdmins, RemoveEngineAdmins, IsEngineAdmin
    <2>2. /\ DOMAIN engines' = DOMAIN engines /\ engines'[r.engine].name = engines[r.engine].name
          /\ DOMAIN engines'[r.engine] = DOMAIN engines[r.engine]
          /\ \A e \in DOMAIN engines \ {r.engine} : engines'[e] = engines[e]
        BY <1>0, <2>1
    <2>3. \A e \in DOMAIN engines :
             engines'[e].name = engines[e].name /\ DOMAIN engines'[e] = DOMAIN engines[e]
        BY <2>2
    <2> QED BY <1>0, <2>1, <2>2, <2>3 DEF EnginesSound
<1>5. CASE AddOracle(r) \/ ManageOraclePrincipals(r)
    BY <1>1, <1>5 DEF AddOracle, ManageOraclePrincipals
<1> QED BY <1>2, <1>3, <1>4, <1>5 DEF EngineCall

-----------------------------------------------------------------------------
(* Names stay apart. *)

registryStore == <<groups, next_group_id, engines, next_engine_id, oracles, series_store,
                   social_limits, social_creation_log>>

(* The kinds of steps, by what they leave alone. *)
LEMMA StepKinds ==
    ASSUME Step
    PROVE  \/ \E r \in clients : GroupCall(r)
              /\ UNCHANGED <<engineVars, seriesVars, now, clearingVars>>
           \/ \E r \in clients : EngineCall(r)
              /\ UNCHANGED <<groupVars, seriesVars, now, clearingVars>>
           \/ \E r \in clients : SeriesCall(r) /\ NamesKnownGroups(r) /\ StaysOpen(r)
              /\ UNCHANGED <<groupVars, engineVars, now, clearingVars>>
           \/ /\ UNCHANGED <<registryStore, clearingVars>>
              /\ now' \in {now, now + 1}
           \/ \E c \in CallId : Clearing(c) /\ UNCHANGED <<registryStore, now>>
<1>1. CASE \E r \in clients : NamesKnownGroups(r) /\ StaysOpen(r) /\ Handle(r) /\ UNCHANGED now
    <2>1. PICK r \in clients : NamesKnownGroups(r) /\ StaysOpen(r) /\ Handle(r) /\ UNCHANGED now
        BY <1>1
    <2> QED BY <2>1 DEF Handle, groupVars, engineVars, seriesVars, registryStore, clearingVars
<1>2. CASE UNCHANGED <<groupVars, engineVars, seriesVars, now, clearingVars>>
    BY <1>2 DEF groupVars, engineVars, seriesVars, registryStore
<1>3. CASE \E c \in CallId : Clearing(c) /\ UNCHANGED registryVars
    BY <1>3 DEF registryVars, groupVars, engineVars, seriesVars, registryStore
<1>4. CASE Tick /\ UNCHANGED <<groupVars, engineVars, seriesVars, reading, clearingVars>>
    BY <1>4 DEF Tick, groupVars, engineVars, seriesVars, registryStore
<1> QED BY <1>1, <1>2, <1>3, <1>4 DEF Step

LEMMA NextNames ==
    ASSUME IdsOrdered, RequestsTyped, NamesInv, [Next]_vars
    PROVE  NamesInv'
<1> USE DEF NamesInv
<1>0. clients' \in Clients
    BY DEF Next, vars
<1>1. ASSUME UNCHANGED groupVars PROVE GroupsSound'
    BY <1>1 DEF groupVars, GroupsSound
<1>2. ASSUME UNCHANGED engineVars PROVE EnginesSound'
    BY <1>2 DEF engineVars, EnginesSound
<1>3. ASSUME UNCHANGED seriesVars PROVE StoreSound(series_store)'
    BY <1>3 DEF seriesVars
<1>4. CASE UNCHANGED registryStore
    BY <1>0, <1>1, <1>2, <1>3, <1>4 DEF registryStore, groupVars, engineVars, seriesVars
<1>5. CASE UNCHANGED vars
    BY <1>4, <1>5 DEF vars, registryVars, registryStore, groupVars, engineVars, seriesVars
<1>6. CASE Step
    <2>1. ASSUME NEW r, GroupCall(r), UNCHANGED <<engineVars, seriesVars>> PROVE NamesInv'
        BY <1>0, <1>2, <1>3, <2>1, GroupKeeps
    <2>2. ASSUME NEW r, EngineCall(r), UNCHANGED <<groupVars, seriesVars>> PROVE NamesInv'
        BY <1>0, <1>1, <1>3, <2>2, EngineKeeps
    <2>3. ASSUME NEW r \in clients, SeriesCall(r), UNCHANGED <<groupVars, engineVars>>
          PROVE  NamesInv'
        BY <1>0, <1>1, <1>2, <2>3, ClientTyped, SeriesKeepsStore
    <2> QED BY <1>4, <1>6, <2>1, <2>2, <2>3, StepKinds
<1> QED BY <1>5, <1>6 DEF Next

LEMMA InitNames ==
    ASSUME Init
    PROVE  NamesInv
<1>1. /\ groups = EmptyMap /\ next_group_id = 0 /\ series_store = EmptyMap
      /\ engines \in {MigratedEngines({}), MigratedEngines(FlatCreators)}
      /\ next_engine_id = Cardinality(DOMAIN engines) /\ clients \in Clients
    BY DEF Init, RegistryInit
<1>2. DOMAIN groups = {} /\ DOMAIN series_store = {}
    BY <1>1 DEF EmptyMap
<1>3. GroupsSound /\ StoreSound(series_store)
    BY <1>1, <1>2, FS_EmptySet DEF GroupsSound, StoreSound
<1>4. EnginesSound
    <2>1. CASE engines = EmptyMap
        BY <1>1, <2>1, FS_EmptySet DEF EmptyMap, EnginesSound
    <2>2. CASE engines = [e \in {0} |->
                  [name |-> LegacyName, creator |-> Management, admins |-> {},
                   allowed |-> {"Creator"}, grants |-> FlatCreators \X {"Creator"}]]
        <3>1. DOMAIN engines = {0} /\ next_engine_id = 1
            BY <1>1, <2>2, FS_Singleton
        <3> QED BY <2>2, <3>1 DEF EnginesSound
    <2> QED BY <1>1, <2>1, <2>2 DEF MigratedEngines
<1> QED BY <1>1, <1>3, <1>4 DEF NamesInv

(* generate_id and fork_series_impl ("Forks cannot collide"), register_engine
   and update_engine: if the hash has no collisions, a series is found under
   the hash of its terms, any caller's next fork of any series finds a free
   id, and engines have distinct names, for any number of series, forks and
   engines and whatever the callers ask for. *)
THEOREM StoreOKHolds ==
    ASSUME IdsOrdered, OneToOne, NoneApart, RequestsTyped
    PROVE  Spec => []StoreOK
<1>1. Init => NamesInv
    BY InitNames
<1>2. NamesInv /\ [Next]_vars => NamesInv'
    BY NextNames
<1>3. NamesInv => StoreOK
    <2> SUFFICES ASSUME NamesInv PROVE StoreOK
        OBVIOUS
    <2>1. /\ DOMAIN groups \subseteq 0 .. next_group_id - 1
          /\ DOMAIN engines = 0 .. next_engine_id - 1
          /\ \A e, f \in DOMAIN engines : engines[e].name = engines[f].name => e = f
        BY DEF NamesInv, GroupsSound, EnginesSound
    <2>2. ASSUME NEW id \in DOMAIN series_store
          PROVE  /\ series_store[id].forked_from \in DOMAIN series_store \cup {None}
                 /\ series_store[id].forked_from = None =>
                       id = generate_id(series_store[id].market, series_store[id].start, None)
                 /\ \A p \in Principal : NextForkId(id, p) \notin DOMAIN series_store
        <3>1. Named(series_store, id) /\ None \notin DOMAIN series_store
            BY DEF NamesInv, StoreSound, NoneApart
        <3>2. ASSUME NEW p \in Principal PROVE NextForkId(id, p) \notin DOMAIN series_store
            <4>1. Forks(id, p) = ForksIn(series_store, id, p)
                BY DEF Forks, ForksIn
            <4> QED BY <4>1, NextForkFree DEF NextForkId, NamesInv
        <3> QED BY <3>1, <3>2 DEF Named
    <2> QED BY <2>1, <2>2 DEF StoreOK
<1> QED BY <1>1, <1>2, <1>3, PTL DEF Spec

-----------------------------------------------------------------------------
(* Nobody is let in whom the registry would not. *)

Disciplined == {"known_groups", "stays_open"} \subseteq Discipline

(* Series stay, and what is open stays open. *)
OpenStays(st, new) ==
    \A id \in DOMAIN st : id \in DOMAIN new /\ (st[id].access.open => new[id].access.open)

LEMMA FitsLater ==
    ASSUME NEW k, NEW c, NEW ent, NEW st, CallFits(k, c, ent, st),
           NEW later, c \in ent => c \in later, NEW new, OpenStays(st, new)
    PROVE  CallFits(k, c, later, new)
BY DEF CallFits, OpenStays

(* A step of the registry that restricts no open series and names known
   circles only. *)
LEMMA SeriesKeepsAccess ==
    ASSUME Disciplined, NEW r, RequestTyped(r), StoreSound(series_store), CirclesKnown, SeriesCall(r),
           NamesKnownGroups(r), StaysOpen(r), UNCHANGED next_group_id
    PROVE  CirclesKnown' /\ OpenStays(series_store, series_store')
<1> DEFINE G == 0 .. next_group_id - 1
<1>1. ASSUME NEW id, NEW s, Adds(r, id, s), r.op \in {"add_series", "fork_series"}
      PROVE  CirclesKnown' /\ OpenStays(series_store, series_store')
    <2>1. /\ DOMAIN series_store' = DOMAIN series_store \cup {id} /\ series_store'[id] = s
          /\ \A x \in DOMAIN series_store : series_store'[x] = series_store[x]
        BY <1>1 DEF Adds, Put
    <2>2. s.access.groups \subseteq G
        BY <1>1 DEF Adds, NamesKnownGroups, Disciplined
    <2> QED BY <2>1, <2>2 DEF CirclesKnown, OpenStays
<1>2. CASE Edits(r)
    <2>1. /\ DOMAIN series_store' = DOMAIN series_store
          /\ \A x \in DOMAIN series_store :
                \/ series_store'[x].access = series_store[x].access
                \/ /\ r.op = "update_trading_access" /\ x = r.series /\ r.access # None
                   /\ series_store'[x].access = r.access
        BY <1>2 DEF Edits
    <2>2. r.op = "update_trading_access" /\ r.access # None => r.access.groups \subseteq G
        BY DEF NamesKnownGroups, Disciplined
    <2>3. r.op = "update_trading_access" /\ r.series \in DOMAIN series_store
          /\ series_store[r.series].access.open => r.access.open
        BY DEF StaysOpen, Disciplined
    <2>4. CirclesKnown'
        BY <2>1, <2>2 DEF CirclesKnown
    <2>5. OpenStays(series_store, series_store')
        BY <2>1, <2>3 DEF OpenStays
    <2> QED BY <2>4, <2>5
<1> QED BY <1>1, <1>2, SeriesKinds

(* History: who may do now what it calls for, or could before in the call. *)
Remembers == entitled' = (entitled \cap {c \in CallId : call'[c] # None}) \cup Entitled'

LEMMA EntitledNow ==
    ASSUME Remembers, NEW c \in CallId, NEW k, call'[c] = k, k # None,
           UNCHANGED <<groups, series_store, oracles>>,
           \/ k.op = "order" /\ IsTradingAuthorized(k.user, k.on)
           \/ k.op = "oracle" /\ IsOracleAuthorized(k.on, k.user)
    PROVE  c \in entitled'
<1>1. CASE k.op = "order" /\ IsTradingAuthorized(k.user, k.on)
    <2>1. IsTradingAuthorized(call[c].user, call[c].on)'
        BY <1>1 DEF IsTradingAuthorized, Grants
    <2> QED BY <1>1, <2>1 DEF Remembers, Entitled
<1>2. CASE k.op = "oracle" /\ IsOracleAuthorized(k.on, k.user)
    <2>1. IsOracleAuthorized(call[c].on, call[c].user)'
        BY <1>2 DEF IsOracleAuthorized
    <2> QED BY <1>2, <2>1 DEF Remembers, Entitled
<1> QED BY <1>1, <1>2

LEMMA CallMovesFit ==
    ASSUME CallsFit, Remembers, NEW c \in CallId, NEW k, call' = [call EXCEPT ![c] = k],
           k = None \/ CallFits(k, c, entitled', series_store'),
           OpenStays(series_store, series_store')
    PROVE  CallsFit'
<1>1. DOMAIN call' = CallId /\ call'[c] = k
    BY DEF CallsFit
<1>2. ASSUME NEW d \in CallId, call'[d] # None
      PROVE  CallFits(call'[d], d, entitled', series_store')
    <2>1. CASE d = c
        BY <1>1, <1>2, <2>1
    <2>2. CASE d # c
        <3>1. call'[d] = call[d]
            BY <2>2 DEF CallsFit
        <3>2. CallFits(call[d], d, entitled, series_store)
            BY <1>2, <3>1 DEF CallsFit
        <3>3. d \in entitled => d \in entitled'
            BY <1>2 DEF Remembers
        <3> QED BY <3>1, <3>2, <3>3, FitsLater
    <2> QED BY <2>1, <2>2
<1> QED BY <1>1, <1>2 DEF CallsFit

LEMMA CallsStayFit ==
    ASSUME CallsFit, Remembers, UNCHANGED call, OpenStays(series_store, series_store')
    PROVE  CallsFit'
<1>1. ASSUME NEW d \in CallId, call'[d] # None
      PROVE  CallFits(call'[d], d, entitled', series_store')
    <2>1. CallFits(call[d], d, entitled, series_store)
        BY <1>1 DEF CallsFit
    <2>2. d \in entitled => d \in entitled'
        BY <1>1 DEF Remembers
    <2> QED BY <2>1, <2>2, FitsLater
<1> QED BY <1>1 DEF CallsFit

(* What is let through on an open copy, the registry would have let through. *)
LEMMA AdmittedFits ==
    ASSUME CallsFit, Remembers, NEW c \in CallId, NEW k, NEW s,
           {"op", "user", "on", "stage", "answer"} \subseteq DOMAIN k, k.op = "order",
           Admitted(c, k, s), UNCHANGED <<groups, series_store, oracles>>,
           k.on \in DOMAIN series_store, s.access.open => series_store[k.on].access.open
    PROVE  CallsFit'
<1>0. OpenStays(series_store, series_store')
    BY DEF OpenStays
<1>1. CASE call' = [call EXCEPT ![c] = None]
    BY <1>0, <1>1, CallMovesFit
<1>2. ASSUME NEW stage, stage = IF CachedOpen(s) THEN "granted" ELSE "is_trading_authorized",
             call' = [call EXCEPT ![c] = [k EXCEPT !.stage = stage]]
      PROVE  CallsFit'
    <2> DEFINE new == [k EXCEPT !.stage = stage]
    <2>1. /\ {"op", "user", "on", "stage", "answer"} \subseteq DOMAIN new
          /\ new.op = "order" /\ new.on = k.on /\ new.stage = stage /\ new.user = k.user
        OBVIOUS
    <2>2. call'[c] = new
        BY <1>2 DEF CallsFit
    <2> HIDE DEF new
    <2>3. new # None /\ stage = "granted" => c \in entitled'
        <3>1. CASE s.access.open
            <4>1. IsTradingAuthorized(new.user, new.on)
                BY <2>1, <3>1 DEF IsTradingAuthorized, Grants
            <4> QED BY <2>1, <2>2, <4>1, EntitledNow
        <3>2. CASE ~s.access.open
            BY <1>2, <3>2 DEF CachedOpen
        <3> QED BY <3>1, <3>2
    <2>4. stage \in {"granted", "is_trading_authorized"}
        BY <1>2
    <2>5. new = None \/ CallFits(new, c, entitled', series_store')
        BY <2>1, <2>3, <2>4 DEF CallFits
    <2> QED BY <1>0, <1>2, <2>5, CallMovesFit DEF new
<1>3. \/ call' = [call EXCEPT ![c] = None]
      \/ \E stage : /\ stage = IF CachedOpen(s) THEN "granted" ELSE "is_trading_authorized"
                    /\ call' = [call EXCEPT ![c] = [k EXCEPT !.stage = stage]]
    <2> DEFINE stage == IF CachedOpen(s) THEN "granted" ELSE "is_trading_authorized"
    <2>1. \/ call' = [call EXCEPT ![c] = None]
          \/ call' = [call EXCEPT ![c] = [k EXCEPT !.stage = stage]]
        BY DEF Admitted
    <2> QED BY <2>1
<1> QED BY <1>1, <1>2, <1>3

LEMMA CallOf ==
    ASSUME CallsFit, NEW c \in CallId, call[c] # None
    PROVE  /\ CallFits(call[c], c, entitled, series_store)
           /\ {"op", "user", "on", "stage", "answer"} \subseteq DOMAIN call[c]
BY DEF CallsFit, CallFits

LEMMA SubmitsFit ==
    ASSUME CallsFit, CachedFits, Remembers, UNCHANGED <<groups, series_store, oracles>>,
           NEW c \in CallId, NEW r, SubmitOrder(c, r) \/ SubmitOracle(c, r)
    PROVE  CallsFit' /\ CachedFits'
<1>0. OpenStays(series_store, series_store')
    BY DEF OpenStays
<1>1. CachedFits'
    BY DEF SubmitOrder, SubmitOracle, CachedFits
<1>2. CASE SubmitOrder(c, r)
    <2> DEFINE k == [op |-> "order", user |-> r.caller, on |-> r.series,
                     stage |-> "get_series", answer |-> None]
    <2>1. DOMAIN k = {"op", "user", "on", "stage", "answer"} /\ k.op = "order"
          /\ k.stage = "get_series" /\ k.on = r.series
        OBVIOUS
    <2>2. CallFits(k, c, entitled', series_store')
        BY <2>1 DEF CallFits
    <2>3. CASE r.series \in DOMAIN cached
        <3>1. Admitted(c, k, cached[r.series])
            BY <1>2, <2>3 DEF SubmitOrder
        <3> HIDE DEF k
        <3>2. k.on \in DOMAIN series_store
              /\ (cached[r.series].access.open => series_store[k.on].access.open)
            BY <2>1, <2>3 DEF CachedFits
        <3> QED BY <1>1, <2>1, <3>1, <3>2, AdmittedFits
    <2>4. CASE r.series \notin DOMAIN cached
        <3>1. call' = [call EXCEPT ![c] = k]
            BY <1>2, <2>4 DEF SubmitOrder
        <3> HIDE DEF k
        <3> QED BY <1>0, <1>1, <2>2, <3>1, CallMovesFit
    <2> QED BY <2>3, <2>4
<1>3. CASE SubmitOracle(c, r)
    <2> DEFINE k == [op |-> "oracle", user |-> r.caller, on |-> r.oracle,
                     stage |-> "is_oracle_authorized", answer |-> None]
    <2>1. DOMAIN k = {"op", "user", "on", "stage", "answer"} /\ k.op = "oracle"
          /\ k.stage = "is_oracle_authorized"
        OBVIOUS
    <2>2. call' = [call EXCEPT ![c] = k]
        BY <1>3 DEF SubmitOracle
    <2> HIDE DEF k
    <2>3. CallFits(k, c, entitled', series_store')
        BY <2>1 DEF CallFits
    <2> QED BY <1>0, <1>1, <2>2, <2>3, CallMovesFit
<1> QED BY <1>2, <1>3

LEMMA AnswersFit ==
    ASSUME CallsFit, CachedFits, Remembers, UNCHANGED <<groups, series_store, oracles>>,
           NEW c \in CallId, RegistryAnswers(c)
    PROVE  CallsFit' /\ CachedFits'
<1> DEFINE k == call[c]
<1>0. OpenStays(series_store, series_store') /\ CachedFits'
    BY DEF OpenStays, RegistryAnswers, CachedFits
<1>1. k # None
    BY DEF RegistryAnswers, Suspended
<1>2. CallFits(k, c, entitled, series_store)
      /\ {"op", "user", "on", "stage", "answer"} \subseteq DOMAIN k
    BY <1>1, CallOf
<1>3. CASE Suspended(c, "get_series")
    <2> DEFINE a == IF k.on \in DOMAIN series_store THEN series_store[k.on] ELSE None
               new == [k EXCEPT !.stage = "series", !.answer = a]
    <2>1. call' = [call EXCEPT ![c] = new]
        BY <1>3 DEF RegistryAnswers, Suspended
    <2>2. /\ DOMAIN new = DOMAIN k /\ new.op = k.op /\ new.on = k.on
          /\ new.stage = "series" /\ new.answer = a
        BY <1>2
    <2>3. k.op = "order"
        BY <1>2, <1>3 DEF CallFits, Suspended
    <2>4. a # None => k.on \in DOMAIN series_store /\ a = series_store[k.on]
        OBVIOUS
    <2> HIDE DEF new, a
    <2>5. CallFits(new, c, entitled', series_store')
        BY <1>2, <2>2, <2>3, <2>4 DEF CallFits
    <2> QED BY <1>0, <2>1, <2>5, CallMovesFit
<1>4. ASSUME NEW a \in BOOLEAN, call' = [call EXCEPT ![c] = [k EXCEPT !.stage = "access", !.answer = a]],
             a => \/ k.op = "order" /\ IsTradingAuthorized(k.user, k.on)
                  \/ k.op = "oracle" /\ IsOracleAuthorized(k.on, k.user)
      PROVE  CallsFit'
    <2> DEFINE new == [k EXCEPT !.stage = "access", !.answer = a]
    <2>1. call' = [call EXCEPT ![c] = new] /\ call'[c] = new
        BY <1>4 DEF CallsFit
    <2>2. /\ DOMAIN new = DOMAIN k /\ new.op = k.op /\ new.on = k.on /\ new.user = k.user
          /\ new.stage = "access" /\ new.answer = a
        BY <1>2
    <2> HIDE DEF new
    <2>3. new # None /\ a => c \in entitled'
        <3>1. SUFFICES ASSUME new # None, a PROVE c \in entitled'
            OBVIOUS
        <3>2. \/ new.op = "order" /\ IsTradingAuthorized(new.user, new.on)
              \/ new.op = "oracle" /\ IsOracleAuthorized(new.on, new.user)
            BY <1>4, <2>2, <3>1
        <3> QED BY <2>1, <3>1, <3>2, EntitledNow
    <2>4. new = None \/ CallFits(new, c, entitled', series_store')
        BY <1>2, <2>2, <2>3 DEF CallFits
    <2> QED BY <1>0, <2>1, <2>4, CallMovesFit
<1>5. CASE Suspended(c, "is_trading_authorized")
    <2>1. call' = [call EXCEPT ![c] = [k EXCEPT !.stage = "access",
                                               !.answer = IsTradingAuthorized(k.user, k.on)]]
        BY <1>5 DEF RegistryAnswers, Suspended
    <2>2. k.op = "order"
        BY <1>2, <1>5 DEF CallFits, Suspended
    <2>3. IsTradingAuthorized(k.user, k.on) \in BOOLEAN
        BY DEF IsTradingAuthorized
    <2> QED BY <1>0, <1>4, <2>1, <2>2, <2>3
<1>6. CASE Suspended(c, "is_oracle_authorized")
    <2>1. call' = [call EXCEPT ![c] = [k EXCEPT !.stage = "access",
                                               !.answer = IsOracleAuthorized(k.on, k.user)]]
        BY <1>6 DEF RegistryAnswers, Suspended
    <2>2. k.op = "oracle"
        BY <1>2, <1>6 DEF CallFits, Suspended
    <2>3. IsOracleAuthorized(k.on, k.user) \in BOOLEAN
        BY DEF IsOracleAuthorized
    <2> QED BY <1>0, <1>4, <2>1, <2>2, <2>3
<1> QED BY <1>0, <1>3, <1>5, <1>6 DEF RegistryAnswers

LEMMA EndsFit ==
    ASSUME CallsFit, CachedFits, Remembers, UNCHANGED <<groups, series_store, oracles>>,
           NEW c \in CallId,
           SeriesAnswered(c) \/ AccessAnswered(c) \/ CallFails(c) \/ Carried(c)
    PROVE  CallsFit' /\ CachedFits'
<1> DEFINE k == call[c]
<1>0. OpenStays(series_store, series_store')
    BY DEF OpenStays
<1>1. k # None
    BY DEF SeriesAnswered, AccessAnswered, CallFails, Carried, Suspended
<1>2. CallFits(k, c, entitled, series_store)
      /\ {"op", "user", "on", "stage", "answer"} \subseteq DOMAIN k
    BY <1>1, CallOf
<1>3. Return(c) => CallsFit'
    BY <1>0, CallMovesFit DEF Return
<1>4. CASE SeriesAnswered(c)
    <2>1. CASE Return(c) /\ UNCHANGED cached
        BY <1>3, <2>1 DEF CachedFits
    <2>2. CASE k.answer # None
               /\ cached' = Put(cached, k.on, Copy(k.answer))
               /\ Admitted(c, [k EXCEPT !.answer = None], Copy(k.answer))
        <3> DEFINE new == [k EXCEPT !.answer = None]
        <3>1. k.stage = "series"
            BY <1>4 DEF SeriesAnswered, Suspended
        <3>2. k.op = "order" /\ k.on \in DOMAIN series_store
              /\ (k.answer.access.open => series_store[k.on].access.open)
            BY <1>2, <2>2, <3>1 DEF CallFits
        <3>3. DOMAIN new = DOMAIN k /\ new.op = "order" /\ new.on = k.on
            BY <1>2, <3>2
        <3>4. Copy(k.answer).access = k.answer.access
            BY DEF Copy
        <3>5. CachedFits'
            BY <2>2, <3>2, <3>4 DEF CachedFits, Put
        <3>6. CallsFit'
            <4> HIDE DEF new
            <4>1. Admitted(c, new, Copy(k.answer))
                BY <2>2 DEF new
            <4> QED BY <1>2, <3>2, <3>3, <3>4, <4>1, AdmittedFits
        <3> QED BY <3>5, <3>6
    <2> QED BY <1>4, <2>1, <2>2 DEF SeriesAnswered
<1>5. CASE AccessAnswered(c)
    <2>1. CachedFits' /\ k.stage = "access"
        BY <1>5 DEF AccessAnswered, CachedFits, Suspended
    <2>2. CASE Return(c)
        BY <1>3, <2>1, <2>2
    <2>3. CASE k.answer /\ call' = [call EXCEPT ![c] = [k EXCEPT !.stage = "granted"]]
        <3> DEFINE new == [k EXCEPT !.stage = "granted"]
        <3>1. DOMAIN new = DOMAIN k /\ new.op = k.op /\ new.stage = "granted"
            BY <1>2
        <3>2. call' = [call EXCEPT ![c] = new] /\ call'[c] = new
            BY <2>3 DEF CallsFit
        <3> HIDE DEF new
        <3>3. new # None => c \in entitled'
            BY <1>2, <2>1, <2>3, <3>2 DEF CallFits, Remembers
        <3>4. new = None \/ CallFits(new, c, entitled', series_store')
            BY <1>2, <3>1, <3>3 DEF CallFits
        <3> QED BY <1>0, <2>1, <3>2, <3>4, CallMovesFit
    <2>4. \/ Return(c)
          \/ k.answer /\ call' = [call EXCEPT ![c] = [k EXCEPT !.stage = "granted"]]
        BY <1>5 DEF AccessAnswered, Return
    <2> QED BY <2>2, <2>3, <2>4
<1>6. CASE CallFails(c) \/ Carried(c)
    BY <1>3, <1>6 DEF CallFails, Carried, CachedFits
<1> QED BY <1>4, <1>5, <1>6

LEMMA NextAccess ==
    ASSUME IdsOrdered, RequestsTyped, Disciplined, AccessInv, [Next]_vars
    PROVE  AccessInv'
<1> USE DEF AccessInv
<1>1. NamesInv'
    BY NextNames
<1>2. StoreSound(series_store) /\ GroupsSound
    BY DEF NamesInv
<1>3. OpenStays(series_store, series_store)
    BY DEF OpenStays
<1>4. CASE UNCHANGED vars
    BY <1>1, <1>4 DEF vars, registryVars, groupVars, engineVars, seriesVars, clearingVars,
                      CallsFit, CachedFits, CirclesKnown
<1>5. CASE Step /\ Remembers
    <2>1. ASSUME UNCHANGED call, UNCHANGED cached, OpenStays(series_store, series_store')
          PROVE  CallsFit' /\ CachedFits'
        <3>1. CachedFits'
            BY <2>1 DEF CachedFits, OpenStays
        <3> QED BY <1>5, <2>1, <3>1, CallsStayFit
    <2>2. ASSUME UNCHANGED series_store, next_group_id' \in Nat, next_group_id' >= next_group_id
          PROVE  CirclesKnown' /\ OpenStays(series_store, series_store')
        <3>1. 0 .. next_group_id - 1 \subseteq 0 .. next_group_id' - 1
            <4> DEFINE old == next_group_id
                       new == next_group_id'
            <4>1. old \in Nat /\ new \in Nat /\ new >= old
                BY <1>2, <2>2 DEF GroupsSound
            <4> HIDE DEF old, new
            <4>2. 0 .. old - 1 \subseteq 0 .. new - 1
                BY <4>1
            <4> QED BY <4>2 DEF old, new
        <3> QED BY <1>3, <2>2, <3>1 DEF CirclesKnown
    <2>3. ASSUME NEW r, GroupCall(r), UNCHANGED <<seriesVars, clearingVars>> PROVE AccessInv'
        BY <1>1, <1>2, <2>1, <2>2, <2>3, GroupKeeps DEF seriesVars, clearingVars
    <2>4. ASSUME UNCHANGED <<groupVars, seriesVars, clearingVars>> PROVE AccessInv'
        BY <1>1, <1>2, <2>1, <2>2, <2>4 DEF groupVars, seriesVars, clearingVars, GroupsSound
    <2>5. ASSUME NEW r \in clients, SeriesCall(r), NamesKnownGroups(r), StaysOpen(r),
                 UNCHANGED <<groupVars, clearingVars>>
          PROVE  AccessInv'
        <3>1. RequestTyped(r)
            BY ClientTyped DEF NamesInv
        <3> QED BY <1>1, <1>2, <2>1, <2>5, <3>1, SeriesKeepsAccess DEF groupVars, clearingVars
    <2>6. ASSUME NEW c \in CallId, Clearing(c), UNCHANGED registryStore PROVE AccessInv'
        <3>1. UNCHANGED <<groups, series_store, oracles>>
            BY <2>6 DEF registryStore
        <3>2. CallsFit' /\ CachedFits'
            BY <1>5, <2>6, <3>1, SubmitsFit, AnswersFit, EndsFit DEF Clearing
        <3>3. CirclesKnown'
            BY <2>6 DEF registryStore, CirclesKnown
        <3> QED BY <1>1, <3>2, <3>3
    <2>7. UNCHANGED <<registryStore, clearingVars>> => AccessInv'
        BY <2>4 DEF registryStore, groupVars, seriesVars
    <2> QED BY <1>5, <2>3, <2>4, <2>5, <2>6, <2>7, StepKinds
<1> QED BY <1>4, <1>5 DEF Next, Remembers

(* check_trading_access, IsOracleAuthorized's callers and create_group
   ("guaranteed unique"): if series name existing circles and a series whose
   access is open stays open, clearing lets an order or an oracle through only
   if the registry would have at some moment of the call, in every interleaving
   of its awaits with changes of circles, restricted series and oracles; and a
   new circle is in no existing series' access.  That open access stays open is
   not the code's doing but its callers': update_trading_access narrows it,
   and the copy clearing has cached does not follow (MCRegistry_narrowed). *)
THEOREM AccessKeptHolds ==
    ASSUME IdsOrdered, RequestsTyped, Disciplined
    PROVE  Spec => []AccessKept
<1>1. Init => AccessInv
    <2> SUFFICES ASSUME Init PROVE AccessInv
        OBVIOUS
    <2>1. call = [c \in CallId |-> None] /\ DOMAIN cached = {} /\ DOMAIN series_store = {}
        BY DEF Init, RegistryInit, EmptyMap
    <2> QED BY <2>1, InitNames DEF AccessInv, CallsFit, CachedFits, CirclesKnown
<1>2. AccessInv /\ [Next]_vars => AccessInv'
    BY NextAccess
<1>3. AccessInv => AccessKept
    <2> SUFFICES ASSUME AccessInv PROVE AccessKept
        OBVIOUS
    <2>1. ASSUME NEW c \in CallId, Suspended(c, "granted") PROVE c \in entitled
        BY <2>1, CallOf DEF AccessInv, Suspended, CallFits
    <2>2. next_group_id \in Nat
        BY DEF AccessInv, NamesInv, GroupsSound
    <2>3. \A id \in DOMAIN series_store : NewGroupId \notin series_store[id].access.groups
        BY <2>2 DEF AccessInv, CirclesKnown, NewGroupId
    <2> QED BY <2>1, <2>3 DEF AccessKept
<1> QED BY <1>1, <1>2, <1>3, PTL DEF Spec

-----------------------------------------------------------------------------
(* The limits on social series. *)

(* An entry more in the log. *)
LEMMA LogGrows ==
    ASSUME NEW log \in Seq(Nat), NEW n \in Nat, NEW t \in Int
    PROVE  LET more == Append(log, n) IN
           /\ more \in Seq(Nat)
           /\ Cardinality(LoggedSince(log, t)) \in Nat
           /\ Cardinality(LoggedSince(more, t)) =
                 Cardinality(LoggedSince(log, t)) + (IF n >= t THEN 1 ELSE 0)
<1> DEFINE more == Append(log, n)
           old == LoggedSince(log, t)
<1>1. /\ more \in Seq(Nat) /\ DOMAIN log = 1 .. Len(log) /\ Len(log) \in Nat
      /\ DOMAIN more = 1 .. Len(log) + 1 /\ more[Len(log) + 1] = n
      /\ \A i \in 1 .. Len(log) : more[i] = log[i]
    OBVIOUS
<1>2. IsFiniteSet(old)
    <2>1. old \subseteq 1 .. Len(log) /\ IsFiniteSet(1 .. Len(log))
        BY <1>1, FS_Interval DEF LoggedSince
    <2> QED BY <2>1, FS_Subset
<1>3. LoggedSince(more, t) = IF n >= t THEN old \cup {Len(log) + 1} ELSE old
    <2>1. DOMAIN more = DOMAIN log \cup {Len(log) + 1}
        BY <1>1
    <2> HIDE DEF more
    <2> QED BY <1>1, <2>1 DEF LoggedSince
<1>4. Len(log) + 1 \notin old
    BY <1>1 DEF LoggedSince
<1> HIDE DEF old, more
<1>5. Cardinality(old) \in Nat /\ Cardinality(old \cup {Len(log) + 1}) = Cardinality(old) + 1
    BY <1>2, <1>4, FS_AddElement, FS_CardinalityType
<1> QED BY <1>1, <1>3, <1>5 DEF old, more

LEMMA LoggedNext ==
    ASSUME NEW q, social_creation_log' = Recorded(q), NEW p
    PROVE  Logged(p)' = IF p = q THEN Append(Logged(p), now) ELSE Logged(p)
BY DEF Recorded, Logged, Put

(* A user who is no controller, for no engine, creates within the limits only. *)
LEMMA SocialCounts ==
    ASSUME NoneApart, EnginesSound, NEW r, Counts(r), r.caller \notin Controller, r.engine = None
    PROVE  WithinLimits(r.caller) /\ social_creation_log' = Recorded(r.caller)
<1>1. ~HasRoleOn(r.caller, "Creator", r.engine)
    <2>1. None \notin 0 .. next_engine_id - 1
        BY DEF NoneApart, EnginesSound
    <2> QED BY <2>1 DEF HasRoleOn, EnginesSound
<1> QED BY <1>1 DEF Counts

LEMMA SinceFinite ==
    ASSUME NEW st, StoreSound(st), NEW p, NEW t
    PROVE  IsFiniteSet(Since(st, p, t)) /\ Cardinality(Since(st, p, t)) \in Nat
<1>1. Since(st, p, t) \subseteq DOMAIN st
    BY DEF Since, SocialIn
<1> QED BY <1>1, FS_Subset, FS_CardinalityType DEF StoreSound

(* The series a creation adds to its creator's social ones. *)
LEMMA AddsSocial ==
    ASSUME StoreSound(series_store), now \in Nat, NEW r, NEW id, NEW s, Adds(r, id, s), NEW p
    PROVE  /\ SocialIn(series_store', p) =
                 IF p = r.caller /\ r.engine = None THEN SocialIn(series_store, p) \cup {id}
                 ELSE SocialIn(series_store, p)
           /\ \A t \in Int : Cardinality(Since(series_store', p, t)) =
                 Cardinality(Since(series_store, p, t))
                   + (IF p = r.caller /\ r.engine = None /\ now >= t THEN 1 ELSE 0)
           /\ series_store'[id].created_at = now
           /\ \A x \in DOMAIN series_store : series_store'[x] = series_store[x]
           /\ id \notin DOMAIN series_store
<1> DEFINE st == series_store
           new == series_store'
<1>1. /\ DOMAIN new = DOMAIN st \cup {id} /\ new[id] = s /\ id \notin DOMAIN st
      /\ \A x \in DOMAIN st : new[x] = st[x]
    BY DEF Adds, Put
<1>2. s.creator = r.caller /\ s.created_at = now /\ s.engine = r.engine
    BY DEF Adds
<1> HIDE DEF st, new
<1>3. SocialIn(new, p) = IF p = r.caller /\ r.engine = None THEN SocialIn(st, p) \cup {id}
                         ELSE SocialIn(st, p)
    BY <1>1, <1>2 DEF SocialIn
<1>4. ASSUME NEW t \in Int
      PROVE  Cardinality(Since(new, p, t)) =
                Cardinality(Since(st, p, t))
                  + (IF p = r.caller /\ r.engine = None /\ now >= t THEN 1 ELSE 0)
    <2> DEFINE old == Since(st, p, t)
    <2>1. Since(new, p, t) = IF p = r.caller /\ r.engine = None /\ now >= t THEN old \cup {id}
                             ELSE old
        BY <1>1, <1>2, <1>3 DEF Since, SocialIn
    <2>2. id \notin old
        BY <1>1 DEF Since, SocialIn
    <2>3. IsFiniteSet(old) /\ Cardinality(old) \in Nat
        BY SinceFinite DEF st
    <2> HIDE DEF old
    <2>4. Cardinality(old \cup {id}) = Cardinality(old) + 1
        BY <2>2, <2>3, FS_AddElement
    <2> QED BY <2>1, <2>3, <2>4 DEF old
<1> QED BY <1>1, <1>2, <1>3, <1>4 DEF st, new

LEMMA AddsLogged ==
    ASSUME NoneApart, NamesInv, now \in Nat, LoggedAll,
           NEW r, Counts(r), NEW id, NEW s, Adds(r, id, s)
    PROVE  LoggedAll'
<1>0. StoreSound(series_store) /\ EnginesSound
    BY DEF NamesInv
<1>1. ASSUME NEW p \in Principal \ Controller
      PROVE  /\ Logged(p)' \in Seq(Nat)
             /\ \A x \in SocialIn(series_store', p) : series_store'[x].created_at \in Nat
             /\ \A t \in Int : Cardinality(Since(series_store', p, t))
                                   <= Cardinality(LoggedSince(Logged(p)', t))
    <2> DEFINE log == Logged(p)
               mine == p = r.caller /\ r.engine = None
    <2>1. /\ log \in Seq(Nat)
          /\ \A x \in SocialIn(series_store, p) : series_store[x].created_at \in Nat
          /\ \A t \in Int : Cardinality(Since(series_store, p, t))
                                <= Cardinality(LoggedSince(log, t))
        BY <1>1 DEF LoggedAll
    <2>2. Logged(p)' = log \/ Logged(p)' = Append(log, now)
        <3>1. CASE UNCHANGED social_creation_log
            BY <3>1 DEF Logged
        <3>2. CASE social_creation_log' = Recorded(r.caller)
            BY <3>2, LoggedNext
        <3> QED BY <3>1, <3>2 DEF Counts
    <2>3. mine => Logged(p)' = Append(log, now)
        <3>1. ASSUME mine PROVE social_creation_log' = Recorded(r.caller)
            BY <1>0, <3>1, SocialCounts
        <3> QED BY <3>1, LoggedNext
    <2>4. /\ SocialIn(series_store', p) = IF mine THEN SocialIn(series_store, p) \cup {id}
                                          ELSE SocialIn(series_store, p)
          /\ \A t \in Int : Cardinality(Since(series_store', p, t)) =
                 Cardinality(Since(series_store, p, t)) + (IF mine /\ now >= t THEN 1 ELSE 0)
          /\ series_store'[id].created_at = now
          /\ \A x \in DOMAIN series_store : series_store'[x] = series_store[x]
        BY <1>0, AddsSocial
    <2> HIDE DEF log, mine
    <2>5. \A x \in SocialIn(series_store', p) : series_store'[x].created_at \in Nat
        BY <2>1, <2>4 DEF SocialIn
    <2>6. ASSUME NEW t \in Int
          PROVE  Cardinality(Since(series_store', p, t))
                     <= Cardinality(LoggedSince(Logged(p)', t))
        <3> DEFINE a == Cardinality(Since(series_store, p, t))
                   b == Cardinality(LoggedSince(log, t))
                   c == Cardinality(LoggedSince(Append(log, now), t))
                   d == Cardinality(Since(series_store', p, t))
                   e == Cardinality(LoggedSince(Logged(p)', t))
        <3>1. b \in Nat /\ c = b + (IF now >= t THEN 1 ELSE 0)
            BY <2>1, LogGrows
        <3>2. a \in Nat /\ a <= b
            BY <1>0, <2>1, SinceFinite
        <3>3. d = a + (IF mine /\ now >= t THEN 1 ELSE 0)
            BY <2>4
        <3>4. e = b \/ e = c
            BY <2>2
        <3>5. mine => e = c
            BY <2>3
        <3> HIDE DEF a, b, c, d, e
        <3>6. d <= e
            BY <3>1, <3>2, <3>3, <3>4, <3>5
        <3> QED BY <3>6 DEF d, e
    <2>7. Logged(p)' \in Seq(Nat)
        BY <2>1, <2>2
    <2> QED BY <2>5, <2>6, <2>7
<1> QED BY <1>1 DEF LoggedAll

LEMMA EditsLogged ==
    ASSUME StoreSound(series_store), LoggedAll, NEW r, Edits(r)
    PROVE  LoggedAll' /\ \A p : SocialSeries(p)' = SocialSeries(p)
<1>1. /\ DOMAIN series_store' = DOMAIN series_store
      /\ \A x \in DOMAIN series_store : SameTerms(series_store[x], series_store'[x])
      /\ UNCHANGED social_creation_log
    BY DEF Edits
<1>2. \A x \in DOMAIN series_store :
         /\ series_store'[x].creator = series_store[x].creator
         /\ series_store'[x].engine = series_store[x].engine
         /\ series_store'[x].created_at = series_store[x].created_at
    BY <1>1 DEF SameTerms
<1>3. \A p : SocialIn(series_store', p) = SocialIn(series_store, p)
    BY <1>1, <1>2 DEF SocialIn
<1>4. \A p, t : Since(series_store', p, t) = Since(series_store, p, t)
    BY <1>2, <1>3 DEF Since, SocialIn
<1>5. \A p : Logged(p)' = Logged(p)
    BY <1>1 DEF Logged
<1>6. \A p \in Principal : \A x \in SocialIn(series_store, p) :
         series_store'[x].created_at = series_store[x].created_at
    BY <1>2 DEF SocialIn
<1>7. LoggedAll'
    BY <1>3, <1>4, <1>5, <1>6 DEF LoggedAll
<1>8. \A p : SocialSeries(p)' = SocialSeries(p)
    BY <1>1, <1>2 DEF SocialSeries
<1> QED BY <1>7, <1>8

LEMMA SameLogged ==
    ASSUME LoggedAll, UNCHANGED <<series_store, social_creation_log>>
    PROVE  LoggedAll' /\ \A p : SocialSeries(p)' = SocialSeries(p)
BY DEF LoggedAll, Logged, SocialSeries

LEMMA NextLimits ==
    ASSUME IdsOrdered, NoneApart, RequestsTyped, LimitsInv, [Next]_vars
    PROVE  LimitsInv'
<1> USE DEF LimitsInv
<1>0. NamesInv' /\ StoreSound(series_store)
    BY NextNames DEF NamesInv
<1>2. CASE UNCHANGED vars
    BY <1>0, <1>2, SameLogged DEF vars, registryVars, seriesVars
<1>3. CASE Step
    <2>1. ASSUME UNCHANGED seriesVars, now' \in {now, now + 1} PROVE LimitsInv'
        BY <1>0, <2>1, SameLogged DEF seriesVars
    <2>2. ASSUME NEW r \in clients, SeriesCall(r), UNCHANGED now PROVE LimitsInv'
        <3>0. RequestTyped(r)
            BY ClientTyped DEF NamesInv
        <3>1. LimitsTyped(social_limits)'
            <4>1. CASE r.op = "set_social_limits" /\ SetSocialLimits(r)
                BY <3>0, <4>1 DEF SetSocialLimits, RequestTyped
            <4>2. CASE UNCHANGED social_limits
                BY <4>2
            <4> QED BY <2>2, <4>1, <4>2 DEF SeriesCall, AddSeries, ForkSeries, Insert,
                                            UpdateSeriesMetadata, UpdateTradingAccess
        <3>2. LoggedAll'
            BY <1>0, <2>2, <3>0, SeriesKinds, AddsLogged, EditsLogged
        <3> QED BY <1>0, <2>2, <3>1, <3>2
    <2>3. UNCHANGED registryStore => UNCHANGED seriesVars
        BY DEF registryStore, seriesVars
    <2> QED BY <1>3, <2>1, <2>2, <2>3, StepKinds
<1> QED BY <1>2, <1>3 DEF Next

(* A step that changes a user's social series leaves no more than allowed. *)
SocialBound(p) ==
    SocialSeries(p)' # SocialSeries(p) =>
        /\ Cardinality(SocialSeries(p)') <= social_limits.max_per_user
        /\ Cardinality({id \in SocialSeries(p)' : series_store'[id].created_at >= now - HOUR})
               <= social_limits.max_per_hour

LEMMA AddsBound ==
    ASSUME NoneApart, LimitsInv, NEW r, Counts(r), NEW id, NEW s, Adds(r, id, s),
           NEW p \in Principal
    PROVE  SocialBound(p)
<1>1. CASE p \in Controller
    BY <1>1 DEF SocialBound, SocialSeries
<1>2. CASE p \notin Controller
    <2> DEFINE log == Logged(p)
               t == now - HOUR
               mine == p = r.caller /\ r.engine = None
    <2>0. /\ StoreSound(series_store) /\ EnginesSound /\ now \in Nat /\ t \in Int
          /\ now >= t /\ LimitsTyped(social_limits)
        BY RegistryAssumption DEF LimitsInv, NamesInv
    <2>1. SocialSeries(p) = SocialIn(series_store, p)
          /\ SocialSeries(p)' = SocialIn(series_store', p)
        BY <1>2 DEF SocialSeries, SocialIn
    <2>2. /\ SocialIn(series_store', p) = IF mine THEN SocialIn(series_store, p) \cup {id}
                                          ELSE SocialIn(series_store, p)
          /\ \A y \in Int : Cardinality(Since(series_store', p, y)) =
                 Cardinality(Since(series_store, p, y)) + (IF mine /\ now >= y THEN 1 ELSE 0)
        BY <2>0, AddsSocial
    <2>3. CASE ~mine
        BY <2>1, <2>2, <2>3 DEF SocialBound
    <2>4. CASE mine
        <3>1. WithinLimits(p)
            BY <1>2, <2>0, <2>4, SocialCounts
        <3>2. /\ log \in Seq(Nat)
              /\ \A x \in SocialIn(series_store, p) : series_store[x].created_at \in Nat
              /\ \A y \in Int : Cardinality(Since(series_store, p, y))
                                    <= Cardinality(LoggedSince(log, y))
            BY <1>2 DEF LimitsInv, LoggedAll
        <3>3. LoggedAll'
            BY AddsLogged DEF LimitsInv
        <3>4. SocialIn(series_store', p) = Since(series_store', p, 0)
            <4>1. \A x \in SocialIn(series_store', p) : series_store'[x].created_at \in Nat
                BY <1>2, <3>3 DEF LoggedAll
            <4> QED BY <4>1 DEF Since
        <3>5. Cardinality(LoggedSince(log, 0)) = Len(log)
            <4>1. DOMAIN log = 1 .. Len(log) /\ Len(log) \in Nat /\ \A i \in DOMAIN log : log[i] >= 0
                BY <3>2
            <4>2. LoggedSince(log, 0) = 1 .. Len(log)
                BY <4>1 DEF LoggedSince
            <4> QED BY <4>1, <4>2, FS_Interval
        <3>6. Cardinality(LoggedSince(log, t)) = Cardinality(Recent(p))
            BY DEF LoggedSince, Recent
        <3>7. Cardinality(Since(series_store', p, 0)) <= social_limits.max_per_user
            <4>1. Cardinality(Since(series_store', p, 0)) = Cardinality(Since(series_store, p, 0)) + 1
                BY <2>0, <2>2, <2>4
            <4>2. Cardinality(Since(series_store, p, 0)) <= Len(log)
                BY <3>2, <3>5
            <4>3. Len(log) < social_limits.max_per_user /\ Len(log) \in Nat
                BY <3>1, <3>2 DEF WithinLimits
            <4>4. Cardinality(Since(series_store, p, 0)) \in Nat
                BY <2>0, SinceFinite
            <4> QED BY <2>0, <4>1, <4>2, <4>3, <4>4 DEF LimitsTyped
        <3>8. Cardinality(Since(series_store', p, t)) <= social_limits.max_per_hour
            <4>1. Cardinality(Since(series_store', p, t)) = Cardinality(Since(series_store, p, t)) + 1
                BY <2>0, <2>2, <2>4
            <4>2. Cardinality(Since(series_store, p, t)) <= Cardinality(Recent(p))
                BY <2>0, <3>2, <3>6
            <4>3. Cardinality(Recent(p)) < social_limits.max_per_hour
                BY <3>1 DEF WithinLimits
            <4>4. Cardinality(Since(series_store, p, t)) \in Nat
                BY <2>0, SinceFinite
            <4>5. Cardinality(Recent(p)) \in Nat
                BY <2>0, <3>2, <3>6, LogGrows
            <4> HIDE DEF t
            <4> QED BY <2>0, <4>1, <4>2, <4>3, <4>4, <4>5 DEF LimitsTyped
        <3> QED BY <2>1, <3>4, <3>7, <3>8 DEF SocialBound, Since
    <2> QED BY <2>3, <2>4
<1> QED BY <1>1, <1>2

(* check_social_rate_limits and record_social_creation: whenever a user
   without a role adds or forks a social series, the store holds no more of
   that user's than the limits allow, in all and in the hour that ends now,
   however the limits were changed before: the log the check counts has an
   entry for every series it is meant to count. *)
THEOREM LimitsHeldHolds ==
    ASSUME IdsOrdered, NoneApart, RequestsTyped
    PROVE  Spec => LimitsHeld
<1>1. Init => LimitsInv
    <2> SUFFICES ASSUME Init PROVE LimitsInv
        OBVIOUS
    <2>1. /\ DOMAIN series_store = {} /\ DOMAIN social_creation_log = {} /\ now = 0
          /\ clients \in Clients /\ social_limits = Limits
        BY DEF Init, RegistryInit, EmptyMap
    <2>2. \A p : Logged(p) = << >> /\ SocialIn(series_store, p) = {}
        BY <2>1 DEF Logged, SocialIn
    <2>3. \A p, t : Since(series_store, p, t) = {} /\ LoggedSince(<< >>, t) = {}
        BY <2>2 DEF Since, LoggedSince
    <2>4. LoggedAll
        <3>1. << >> \in Seq(Nat) /\ Cardinality({}) = 0
            BY FS_EmptySet
        <3>2. \A p, t : Cardinality(Since(series_store, p, t)) = 0
                        /\ Cardinality(LoggedSince(Logged(p), t)) = 0
            BY <2>2, <2>3, <3>1
        <3>3. \A p : Logged(p) \in Seq(Nat) /\ SocialIn(series_store, p) = {}
            BY <2>2, <3>1
        <3> QED BY <3>2, <3>3 DEF LoggedAll
    <2> QED BY <2>1, <2>4, InitNames, RegistryAssumption DEF LimitsInv, LimitsTyped
<1>2. LimitsInv /\ [Next]_vars => LimitsInv'
    BY NextLimits
<1>3. LimitsInv /\ [Next]_vars => [\A p \in Principal : SocialBound(p)]_vars
    <2> SUFFICES ASSUME LimitsInv, Next, NEW p \in Principal PROVE SocialBound(p)
        OBVIOUS
    <2>1. UNCHANGED <<series_store, social_creation_log>> => SocialBound(p)
        BY SameLogged DEF SocialBound, LimitsInv
    <2>2. ASSUME NEW r \in clients, SeriesCall(r) PROVE SocialBound(p)
        <3>1. StoreSound(series_store) /\ RequestTyped(r)
            BY ClientTyped DEF LimitsInv, NamesInv
        <3>2. Edits(r) => SocialBound(p)
            BY <3>1, EditsLogged DEF SocialBound, LimitsInv
        <3> QED BY <2>2, <3>1, <3>2, SeriesKinds, AddsBound
    <2> QED BY <2>1, <2>2, StepKinds DEF Next, seriesVars, registryStore
<1> HIDE DEF LimitsInv
<1>4. Spec => [][\A p \in Principal : SocialBound(p)]_vars
    BY <1>1, <1>2, <1>3, PTL DEF Spec
<1> QED BY <1>4 DEF LimitsHeld, SocialBound

-----------------------------------------------------------------------------
(* Nothing is given out twice, and nothing left out. *)

LEMMA FiniteMax ==
    ASSUME NEW S, IsFiniteSet(S), S # {}, \A x \in S : x \in Int
    PROVE  \E m \in S : \A x \in S : x <= m
<1> DEFINE From(x) == {y \in S : y >= x}
           T == {From(x) : x \in S}
<1>1. T # {} /\ T \in SUBSET SUBSET S
    OBVIOUS
<1> HIDE DEF T
<1>2. PICK t \in T : \A u \in T : ~(u \subseteq t /\ u # t)
    BY <1>1, SmallestSet
<1>3. PICK m \in S : t = From(m)
    BY <1>2 DEF T
<1>4. ASSUME NEW x \in S, ~(x <= m) PROVE FALSE
    <2>1. From(x) \in T
        BY DEF T
    <2>2. x \in Int /\ m \in Int /\ x > m
        BY <1>4
    <2>3. \A y \in S : y >= x => y >= m
        BY <2>2
    <2>4. From(x) \subseteq From(m)
        BY <2>3
    <2>5. m \in From(m) /\ m \notin From(x)
        BY <2>2
    <2> QED BY <1>2, <1>3, <2>1, <2>4, <2>5
<1> QED BY <1>4

Orders(f, S) ==
    /\ f \in [1 .. Cardinality(S) -> S]
    /\ \A i, j \in 1 .. Cardinality(S) : i < j => f[i] < f[j]

LEMMA OrderExists ==
    ASSUME NEW S, IsFiniteSet(S), \A x \in S : x \in Int
    PROVE  \E f : Orders(f, S)
<1> DEFINE T == {U \in SUBSET S : \A f : ~Orders(f, U)}
<1>1. SUFFICES ASSUME T # {} PROVE FALSE
    OBVIOUS
<1> HIDE DEF T
<1>2. PICK U \in T : \A V \in T : ~(V \subseteq U /\ V # U)
    <2>1. IsFiniteSet(S) /\ T \in SUBSET SUBSET S /\ T # {}
        BY <1>1 DEF T
    <2> QED BY <2>1, SmallestSet
<1>3. U \in SUBSET Int /\ (\A x \in U : x \in Int) /\ U \in SUBSET S /\ IsFiniteSet(U) /\ \A f : ~Orders(f, U)
    BY <1>2, FS_Subset DEF T
<1>4. U # {}
    <2>1. SUFFICES ASSUME U = {} PROVE FALSE
        OBVIOUS
    <2>2. Cardinality(U) = 0
        BY <2>1, FS_EmptySet
    <2>3. Orders([i \in 1 .. 0 |-> i], U)
        BY <2>2 DEF Orders
    <2> QED BY <1>3, <2>3
<1>5. PICK m \in U : \A x \in U : x <= m
    BY <1>3, <1>4, FiniteMax
<1> DEFINE V == U \ {m}
           n == Cardinality(V)
<1>6. IsFiniteSet(V) /\ n \in Nat /\ Cardinality(U) = n + 1
    <2>1. IsFiniteSet(V) /\ n = Cardinality(U) - 1
        BY <1>3, FS_RemoveElement
    <2>2. n \in Nat /\ Cardinality(U) \in Nat
        BY <1>3, <2>1, FS_CardinalityType
    <2> QED BY <2>1, <2>2
<1>7. PICK f : Orders(f, V)
    <2>1. V \subseteq U /\ V # U /\ V \in SUBSET S
        BY <1>3
    <2>2. V \notin T
        BY <1>2, <2>1
    <2> QED BY <2>1, <2>2 DEF T
<1> HIDE DEF n
<1>8. /\ f \in [1 .. n -> V]
      /\ \A i, j \in 1 .. n : i < j => f[i] < f[j]
    BY <1>7 DEF Orders, n
<1> DEFINE g == [i \in 1 .. n + 1 |-> IF i <= n THEN f[i] ELSE m]
<1>9. \A i \in 1 .. n : f[i] \in U /\ f[i] < m
    <2> SUFFICES ASSUME NEW i \in 1 .. n PROVE f[i] \in U /\ f[i] < m
        OBVIOUS
    <2>1. f[i] \in U /\ f[i] # m
        BY <1>8
    <2>2. f[i] <= m /\ f[i] \in Int /\ m \in Int
        BY <1>3, <1>5, <2>1
    <2> QED BY <2>1, <2>2
<1>10. g \in [1 .. n + 1 -> U]
    BY <1>6, <1>8, <1>9
<1>11. ASSUME NEW i \in 1 .. n + 1, NEW j \in 1 .. n + 1, i < j PROVE g[i] < g[j]
    <2>1. i \in 1 .. n /\ g[i] = f[i]
        BY <1>6, <1>11
    <2>2. CASE j = n + 1
        BY <1>6, <1>9, <2>1, <2>2
    <2>3. CASE j \in 1 .. n
        BY <1>8, <1>11, <2>1, <2>3
    <2> QED BY <1>6, <2>2, <2>3
<1> QED BY <1>3, <1>6, <1>10, <1>11 DEF Orders

(* PaginationParams::apply reads the keys in order, each of them once. *)
LEMMA InOrderOf ==
    ASSUME NEW S \in SUBSET Int, IsFiniteSet(S)
    PROVE  LET f == InOrder(S)
           IN  /\ f \in Seq(S) /\ Len(f) = Cardinality(S) /\ Len(f) \in Nat
               /\ Ascending(f)
               /\ Range(f) = S
<1> DEFINE f == InOrder(S)
           n == Cardinality(S)
<1>1. n \in Nat
    BY FS_CardinalityType
<1>2. /\ f \in [1 .. n -> S]
      /\ \A i, j \in 1 .. n : i < j => f[i] < f[j]
    BY OrderExists DEF Orders, InOrder
<1> HIDE DEF f, n
<1>3. f \in Seq(S) /\ Len(f) = n /\ DOMAIN f = 1 .. n
    BY <1>1, <1>2
<1>4. Ascending(f)
    BY <1>2, <1>3 DEF Ascending
<1>5. f \in Injection(1 .. n, S)
    <2>1. \A i, j \in 1 .. n : f[i] = f[j] => i = j
        <3> SUFFICES ASSUME NEW i \in 1 .. n, NEW j \in 1 .. n, f[i] = f[j], i # j PROVE FALSE
            OBVIOUS
        <3>1. f[i] \in Int /\ f[j] \in Int
            BY <1>2
        <3>2. i < j \/ j < i
            BY <1>1
        <3> QED BY <1>2, <3>1, <3>2
    <2> QED BY <1>2, <2>1 DEF Injection, IsInjective
<1>6. f \in Surjection(1 .. n, S)
    <2>1. IsFiniteSet(1 .. n) /\ Cardinality(1 .. n) = n
        BY <1>1, FS_Interval
    <2> QED BY <1>5, <2>1, FS_Injection DEF n
<1>7. Range(f) = S
    BY <1>2, <1>6 DEF Surjection, Range
<1> QED BY <1>1, <1>3, <1>4, <1>7 DEF f, n

(* What a page adds: f lists S, the ids after the cursor, and size of them
   are given out. *)
LEMMA PageOf ==
    ASSUME NEW S, NEW f \in Seq(S), \A x \in S : x \in Int, Ascending(f), Range(f) = S,
           NEW size \in 0 .. Len(f)
    PROVE  LET page == SubSeq(f, 1, size)
               rest == SubSeq(f, size + 1, Len(f))
           IN  /\ page \in Seq(S) /\ Len(page) = size /\ \A i \in 1 .. size : page[i] = f[i]
               /\ rest = << >> <=> size = Len(f)
               /\ size = Len(f) => Range(page) = S
               /\ size > 0 =>
                     /\ Last(page) \in S
                     /\ \A i \in 1 .. size : page[i] <= Last(page)
                     /\ \A id \in S : id <= Last(page) => id \in Range(page)
<1> DEFINE page == SubSeq(f, 1, size)
           rest == SubSeq(f, size + 1, Len(f))
<1>1. Len(f) \in Nat /\ DOMAIN f = 1 .. Len(f) /\ \A i \in 1 .. Len(f) : f[i] \in S
    OBVIOUS
<1>2. page \in Seq(S) /\ Len(page) = size /\ \A i \in 1 .. size : page[i] = f[i]
    BY <1>1
<1>3. rest = << >> <=> size = Len(f)
    <2>1. size + 1 \in Int /\ Len(f) \in Int /\ \A i \in size + 1 .. Len(f) : f[i] \in S
        BY <1>1
    <2>2. Len(rest) = IF size + 1 <= Len(f) THEN Len(f) - (size + 1) + 1 ELSE 0
        BY <2>1, SubSeqProperties
    <2>3. Len(f) < size + 1 => rest = << >>
        BY <2>1, SubSeqEmpty
    <2>4. rest = << >> => Len(rest) = 0
        BY EmptySeq
    <2> HIDE DEF rest
    <2>5. size # Len(f) => Len(rest) # 0
        <3>1. \A n \in Nat : \A m \in 0 .. n : m # n => m + 1 <= n /\ n - (m + 1) + 1 # 0
            OBVIOUS
        <3> QED BY <1>1, <2>2, <3>1
    <2>6. size = Len(f) => Len(f) < size + 1
        BY <1>1
    <2>7. ASSUME rest = << >> PROVE size = Len(f)
        BY <2>4, <2>5, <2>7
    <2>8. ASSUME size = Len(f) PROVE rest = << >>
        BY <2>3, <2>6, <2>8
    <2> QED BY <2>7, <2>8
<1>4. DOMAIN page = 1 .. size
    BY <1>2
<1> HIDE DEF page
<1>5. \A id \in S : \E i \in 1 .. Len(f) : f[i] = id
    BY <1>1 DEF Range
<1>6. size = Len(f) => Range(page) = S
    BY <1>1, <1>2, <1>4, <1>5 DEF Range
<1>7. ASSUME size > 0
      PROVE  /\ Last(page) \in S
             /\ \A i \in 1 .. size : page[i] <= Last(page)
             /\ \A id \in S : id <= Last(page) => id \in Range(page)
    <2>1. Last(page) = f[size] /\ size \in 1 .. Len(f) /\ f[size] \in S
        BY <1>1, <1>2, <1>7 DEF Last
    <2>2. ASSUME NEW i \in 1 .. size PROVE page[i] <= Last(page)
        <3>1. i \in 1 .. Len(f) /\ f[i] \in S /\ f[i] \in Int /\ f[size] \in Int
            BY <1>1, <2>1
        <3>2. i < size => f[i] < f[size]
            BY <1>1, <2>1, <3>1 DEF Ascending
        <3> QED BY <1>2, <2>1, <3>1, <3>2
    <2>3. ASSUME NEW id \in S, id <= Last(page) PROVE id \in Range(page)
        <3>1. PICK i \in 1 .. Len(f) : f[i] = id
            BY <1>5
        <3>2. f[i] \in Int /\ f[size] \in Int
            BY <2>1, <3>1
        <3>3. size < i => f[size] < f[i]
            BY <1>1, <2>1 DEF Ascending
        <3>4. i \in 1 .. size
            BY <2>1, <2>3, <3>1, <3>2, <3>3
        <3> QED BY <1>2, <1>4, <3>1, <3>4 DEF Range
    <2> QED BY <2>1, <2>2, <2>3
<1> QED BY <1>2, <1>3, <1>6, <1>7 DEF page

(* A page put after what was given out before. *)
LEMMA AppendPage ==
    ASSUME NEW got \in Seq(Int), Ascending(got), NEW page \in Seq(Int), Ascending(page),
           \A i \in DOMAIN got, j \in DOMAIN page : got[i] < page[j]
    PROVE  /\ got \o page \in Seq(Int) /\ Ascending(got \o page)
           /\ Range(got \o page) = Range(got) \cup Range(page)
<1> DEFINE both == got \o page
           m == Len(got)
           n == Len(page)
<1>1. /\ both \in Seq(Int) /\ m \in Nat /\ n \in Nat
      /\ DOMAIN got = 1 .. m /\ DOMAIN page = 1 .. n /\ DOMAIN both = 1 .. m + n
      /\ \A i \in 1 .. m : both[i] = got[i]
      /\ \A i \in 1 .. n : both[m + i] = page[i]
    OBVIOUS
<1> HIDE DEF both, m, n
<1>2. \A i \in 1 .. m + n : i \in 1 .. m \/ \E j \in 1 .. n : i = m + j
    <2> SUFFICES ASSUME NEW i \in 1 .. m + n, i \notin 1 .. m PROVE \E j \in 1 .. n : i = m + j
        OBVIOUS
    <2>1. i - m \in 1 .. n /\ i = m + (i - m)
        BY <1>1
    <2> QED BY <2>1
<1>3. ASSUME NEW i \in 1 .. m + n, NEW j \in 1 .. m + n, i < j PROVE both[i] < both[j]
    <2>1. CASE j \in 1 .. m
        <3>1. i \in 1 .. m
            BY <1>1, <1>3, <2>1
        <3> QED BY <1>1, <1>3, <2>1, <3>1 DEF Ascending
    <2>2. ASSUME NEW b \in 1 .. n, j = m + b PROVE both[i] < both[j]
        <3>1. CASE i \in 1 .. m
            BY <1>1, <2>2, <3>1
        <3>2. ASSUME NEW a \in 1 .. n, i = m + a PROVE both[i] < both[j]
            <4>1. a < b
                BY <1>1, <1>3, <2>2, <3>2
            <4> QED BY <1>1, <2>2, <3>2, <4>1 DEF Ascending
        <3> QED BY <1>2, <3>1, <3>2
    <2> QED BY <1>2, <2>1, <2>2
<1>4. Range(both) = Range(got) \cup Range(page)
    <2>1. \A i \in 1 .. m : i \in 1 .. m + n
        BY <1>1
    <2>2. \A i \in 1 .. n : m + i \in 1 .. m + n
        BY <1>1
    <2>3. Range(got) \cup Range(page) \subseteq Range(both)
        BY <1>1, <2>1, <2>2 DEF Range
    <2>4. Range(both) \subseteq Range(got) \cup Range(page)
        <3> SUFFICES ASSUME NEW i \in 1 .. m + n PROVE both[i] \in Range(got) \cup Range(page)
            BY <1>1 DEF Range
        <3>1. CASE i \in 1 .. m
            BY <1>1, <3>1 DEF Range
        <3>2. CASE \E j \in 1 .. n : i = m + j
            BY <1>1, <3>2 DEF Range
        <3> QED BY <1>2, <3>1, <3>2
    <2> QED BY <2>3, <2>4
<1> QED BY <1>1, <1>3, <1>4 DEF Ascending, both

LEMMA NextPageFits ==
    ASSUME NoneApart, NamesInv, ReadingFits(reading, kept), kept \subseteq Listed,
           NextPage, kept' \subseteq kept
    PROVE  ReadingFits(reading, kept)'
<1> DEFINE got == reading.got
           S == {id \in Listed : reading.cursor # None => id > reading.cursor}
           f == InOrder(S)
           size == IF Len(f) < PageSize(reading.limit) THEN Len(f) ELSE PageSize(reading.limit)
           page == SubSeq(f, 1, size)
           rest == SubSeq(f, size + 1, Len(f))
           cursor == NextCursor(page, rest)
<1>1. /\ reading.more
      /\ reading' = [reading EXCEPT !.got = @ \o page, !.cursor = cursor, !.more = cursor # None]
    BY DEF NextPage
<1>2. \A x \in DOMAIN series_store : x \in Int
    BY DEF NamesInv, StoreSound
<1>3. IsFiniteSet(S) /\ \A x \in S : x \in Int
    <2>1. S \subseteq DOMAIN series_store /\ IsFiniteSet(DOMAIN series_store)
        BY DEF Listed, NamesInv, StoreSound
    <2> QED BY <1>2, <2>1, FS_Subset
<1>4. /\ f \in Seq(S) /\ Len(f) \in Nat /\ Ascending(f) /\ Range(f) = S
    <2>1. S \in SUBSET Int
        BY <1>3
    <2> HIDE DEF S
    <2> QED BY <1>3, <2>1, InOrderOf
<1>5. /\ reading.limit \in Nat /\ got \in Seq(Int) /\ Ascending(got)
      /\ reading.cursor = None => got = << >>
      /\ reading.cursor # None =>
            /\ reading.cursor \in Int
            /\ \A i \in DOMAIN got : got[i] <= reading.cursor
            /\ \A id \in kept : id <= reading.cursor => id \in Range(got)
    BY <1>1 DEF ReadingFits
<1>6. \A id \in S : reading.cursor # None => id > reading.cursor
    OBVIOUS
<1>7. \A id \in kept : id \in Int /\ (id \in S \/ id \in Range(got))
    <2> SUFFICES ASSUME NEW id \in kept PROVE id \in Int /\ (id \in S \/ id \in Range(got))
        OBVIOUS
    <2>1. id \in Listed /\ id \in Int
        BY <1>2 DEF Listed
    <2> QED BY <1>5, <2>1
<1>8. size \in 0 .. Len(f) /\ (size # Len(f) => size > 0)
    BY <1>4, <1>5 DEF PageSize
<1> HIDE DEF S, f, size, got
<1>9. /\ page \in Seq(S) /\ Len(page) = size /\ \A i \in 1 .. size : page[i] = f[i]
      /\ rest = << >> <=> size = Len(f)
      /\ size = Len(f) => Range(page) = S
      /\ size > 0 =>
            /\ Last(page) \in S
            /\ \A i \in 1 .. size : page[i] <= Last(page)
            /\ \A id \in S : id <= Last(page) => id \in Range(page)
    BY <1>3, <1>4, <1>8, PageOf
<1> HIDE DEF page, rest
<1>10. DOMAIN page = 1 .. size /\ page \in Seq(Int) /\ \A i \in DOMAIN page : page[i] \in S
    BY <1>3, <1>9
<1>11. Ascending(page)
    BY <1>4, <1>8, <1>9, <1>10 DEF Ascending
<1>12. /\ got \o page \in Seq(Int) /\ Ascending(got \o page)
       /\ Range(got \o page) = Range(got) \cup Range(page)
    <2>1. ASSUME NEW i \in DOMAIN got, NEW j \in DOMAIN page PROVE got[i] < page[j]
        <3>1. got[i] \in Int /\ page[j] \in Int /\ reading.cursor # None
            BY <1>3, <1>5, <1>10
        <3> QED BY <1>5, <1>6, <1>10, <3>1
    <2> QED BY <1>5, <1>10, <1>11, <2>1, AppendPage
<1> DEFINE new == reading'
<1>13. /\ DOMAIN new = DOMAIN reading /\ new.limit = reading.limit
       /\ new.got = got \o page /\ new.cursor = cursor /\ (new.more <=> cursor # None)
    BY <1>1 DEF ReadingFits, got
<1> HIDE DEF new, cursor
<1>14. CASE rest = << >>
    <2>1. cursor = None /\ Range(page) = S
        BY <1>9, <1>14 DEF cursor, NextCursor
    <2>2. kept' \subseteq Range(new.got)
        BY <1>7, <1>12, <1>13, <2>1
    <2> QED BY <1>5, <1>12, <1>13, <2>1, <2>2 DEF ReadingFits, new
<1>15. CASE rest # << >>
    <2>1. size > 0 /\ cursor = Last(page) /\ cursor \in S /\ cursor \in Int /\ cursor # None
        BY <1>3, <1>8, <1>9, <1>15 DEF cursor, NextCursor, NoneApart
    <2>2. ASSUME NEW i \in DOMAIN new.got PROVE new.got[i] <= cursor
        <3>1. new.got[i] \in Range(got) \/ new.got[i] \in Range(page)
            BY <1>12, <1>13 DEF Range
        <3>2. CASE new.got[i] \in Range(got)
            <4>1. PICK j \in DOMAIN got : new.got[i] = got[j]
                BY <3>2 DEF Range
            <4>2. got[j] \in Int /\ reading.cursor \in Int
                  /\ got[j] <= reading.cursor /\ reading.cursor < cursor
                BY <1>5, <1>6, <2>1
            <4> QED BY <2>1, <4>1, <4>2
        <3>3. CASE new.got[i] \in Range(page)
            BY <1>9, <1>10, <2>1, <3>3 DEF Range
        <3> QED BY <3>1, <3>2, <3>3
    <2>3. \A id \in kept' : id <= cursor => id \in Range(new.got)
        BY <1>7, <1>9, <1>12, <1>13, <2>1
    <2> QED BY <1>5, <1>12, <1>13, <2>1, <2>2, <2>3 DEF ReadingFits, new
<1> QED BY <1>14, <1>15

(* The kinds of steps, by what they do to the reader. *)
LEMMA ReadingKinds ==
    ASSUME Step
    PROVE  \/ UNCHANGED reading
           \/ \E r \in clients : r.op = "list_series" /\ BeginListing(r)
           \/ EndListing
           \/ NextPage /\ UNCHANGED <<groupVars, seriesVars, now>>
<1>1. CASE \E r \in clients : NamesKnownGroups(r) /\ StaysOpen(r) /\ Handle(r) /\ UNCHANGED now
    BY <1>1 DEF Handle
<1>2. CASE /\ NextPage \/ EndListing
           /\ UNCHANGED <<groupVars, engineVars, seriesVars, now, clearingVars>>
    BY <1>2
<1>3. CASE \E c \in CallId : Clearing(c) /\ UNCHANGED registryVars
    BY <1>3 DEF registryVars
<1>4. CASE Tick /\ UNCHANGED <<groupVars, engineVars, seriesVars, reading, clearingVars>>
    BY <1>4
<1> QED BY <1>1, <1>2, <1>3, <1>4 DEF Step

LEMMA FewerFit ==
    ASSUME NEW rd, NEW k, ReadingFits(rd, k), NEW l, l \subseteq k
    PROVE  ReadingFits(rd, l)
BY DEF ReadingFits

LEMMA NextPages ==
    ASSUME IdsOrdered, NoneApart, RequestsTyped, PagesInv, [Next]_vars
    PROVE  PagesInv'
<1> USE DEF PagesInv
<1>1. NamesInv'
    BY NextNames
<1>2. CASE UNCHANGED vars
    <2>1. Visible' = Visible
        <3>1. UNCHANGED <<groups, series_store, now, reading>>
            BY <1>2 DEF vars, registryVars, groupVars, seriesVars
        <3>2. Listed' = Listed
            BY <3>1 DEF Listed, Matches, CanSee, Grants, Status
        <3> QED BY <3>1, <3>2 DEF Visible
    <2> QED BY <1>1, <1>2, <2>1 DEF vars, registryVars
<1>3. CASE Next
    <2>1. kept' = IF reading = None THEN Visible' ELSE kept \cap Visible'
        BY <1>3 DEF Next
    <2>2. kept' \subseteq Visible'
        BY <2>1
    <2>3. reading # None => kept' \subseteq kept
        BY <2>1
    <2>4. CASE UNCHANGED reading
        <3>1. reading # None => ReadingFits(reading, kept')
            BY <2>3, FewerFit
        <3> QED BY <1>1, <2>2, <2>4, <3>1
    <2>5. ASSUME NEW r \in clients, r.op = "list_series", BeginListing(r) PROVE PagesInv'
        <3>1. r.limit \in Nat
            BY <2>5, ClientTyped DEF RequestTyped, NamesInv
        <3>2. reading' = [caller |-> r.caller, filter |-> r.filter, limit |-> r.limit,
                          cursor |-> None, more |-> TRUE, got |-> << >>]
            BY <2>5 DEF BeginListing
        <3>3. << >> \in Seq(Int) /\ Ascending(<< >>)
            BY DEF Ascending
        <3>4. ReadingFits(reading', kept')
            BY <3>1, <3>2, <3>3 DEF ReadingFits
        <3> QED BY <1>1, <2>2, <3>4
    <2>6. CASE EndListing
        BY <1>1, <2>2, <2>6 DEF EndListing
    <2>7. CASE NextPage
        <3>1. reading # None
            BY <2>7 DEF NextPage
        <3>2. kept \subseteq Listed
            BY <3>1 DEF Visible
        <3>3. ReadingFits(reading, kept)'
            BY <2>3, <2>7, <3>1, <3>2, NextPageFits
        <3> QED BY <1>1, <2>2, <3>3
    <2> QED BY <1>3, <2>4, <2>5, <2>6, <2>7, ReadingKinds DEF Next
<1> QED BY <1>2, <1>3

(* PaginationParams::apply ("dropping and repeating nothing"): a client that
   follows the cursors is given no series twice, and at the end has every
   series it could see all along, for any page size and however many series
   are added and forked, and groups and the time change, between the pages. *)
THEOREM PagesOnceHolds ==
    ASSUME IdsOrdered, NoneApart, RequestsTyped
    PROVE  Spec => []PagesOnce
<1>1. Init => PagesInv
    BY InitNames DEF Init, RegistryInit, PagesInv
<1>2. PagesInv /\ [Next]_vars => PagesInv'
    BY NextPages
<1>3. PagesInv => PagesOnce
    <2> SUFFICES ASSUME PagesInv, reading # None
                 PROVE  /\ IsInjective(reading.got)
                        /\ ~reading.more => kept \subseteq Range(reading.got)
        BY DEF PagesOnce
    <2> DEFINE got == reading.got
    <2>1. /\ got \in Seq(Int) /\ Ascending(got)
          /\ ~reading.more => kept \subseteq Range(got)
        BY DEF PagesInv, ReadingFits
    <2> HIDE DEF got
    <2>2. ASSUME NEW i \in DOMAIN got, NEW j \in DOMAIN got, got[i] = got[j], i # j PROVE FALSE
        <3>1. got[i] \in Int /\ got[j] \in Int /\ (i < j \/ j < i)
            BY <2>1, <2>2
        <3> QED BY <2>1, <2>2, <3>1 DEF Ascending
    <2>3. IsInjective(got)
        BY <2>2 DEF IsInjective
    <2> QED BY <2>1, <2>3 DEF got
<1> QED BY <1>1, <1>2, <1>3, PTL DEF Spec
=============================================================================
