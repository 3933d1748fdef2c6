-------------------------- MODULE SettlementPromise --------------------------
(***************************************************************************)
(* What settlement promises: a series settles at once and once.  In one    *)
(* step every position in it turns into its payoff less its margin and     *)
(* fees, the fees go to the funds, and the series is closed for good.      *)
(* There are no plans, chunks, timers or events.                           *)
(***************************************************************************)
EXTENDS Integers, FiniteSetsExt

CONSTANTS
    User,
    SeriesId,
    Owner(_),          \* the user a position key belongs to
    Net(_, _, _),      \* what a position at a key brings its owner, by input
    Fees(_, _, _),     \* what it brings the funds
    Inputs             \* [SeriesId -> set of settlement inputs]

VARIABLES
    exposure,          \* per series, its positions by key
    wealth,            \* per user, cash
    funds,             \* the funds' fees
    settled            \* the series that are settled

vars == <<exposure, wealth, funds, settled>>

Nowhere == [k \in {} |-> 0]

Due(s, u, input) ==
    MapThenSumSet(LAMBDA k : Net(k, exposure[s][k], input),
                  {k \in DOMAIN exposure[s] : Owner(k) = u})

(* Trading: only open series, and cash moves only with their positions. *)
Trade(s) ==
    /\ s \notin settled
    /\ exposure'[s] # exposure[s]
    /\ exposure' = [exposure EXCEPT ![s] = exposure'[s]]
    /\ wealth' \in [User -> Int]
    /\ UNCHANGED <<funds, settled>>

Settle(s, input) ==
    /\ s \notin settled
    /\ settled' = settled \cup {s}
    /\ exposure' = [exposure EXCEPT ![s] = Nowhere]
    /\ wealth' = [u \in User |-> wealth[u] + Due(s, u, input)]
    /\ funds' = funds + MapThenSumSet(LAMBDA k : Fees(k, exposure[s][k], input),
                                      DOMAIN exposure[s])

Init ==
    /\ exposure = [s \in SeriesId |-> Nowhere]
    /\ wealth = [u \in User |-> 0]
    /\ funds = 0
    /\ settled = {}

Next == \E s \in SeriesId : Trade(s) \/ \E input \in Inputs[s] : Settle(s, input)

Spec == Init /\ [][Next]_vars
=============================================================================
