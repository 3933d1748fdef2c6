----------------------------- MODULE Settlement -----------------------------
(***************************************************************************)
(* Settlement of a series (api/settlement/api.rs).  The message that opens *)
(* a plan removes the series' positions and orders and applies the first   *)
(* chunk of cashflows; timers apply the rest, one chunk per message, and a *)
(* heartbeat re-arms the timers of plans that stopped advancing.           *)
(*                                                                         *)
(* settle_series_inner has no await, so every step here is one message.    *)
(* settle_series authorises an oracle over an await, but reads nothing     *)
(* before it that it uses after.  accounting_applied is set by the message *)
(* that finalises the plan, so it is the status Finalised here, and no     *)
(* message ends with a plan in Planned.                                    *)
(***************************************************************************)
EXTENDS Book, Sequences, SequencesExt

CONSTANTS
    Batch,               \* positions a chunk applies, 100 in the code
    INSURANCE_BPS,       \* Config::insurance_fund_fee_ratio
    PROTOCOL_BPS,        \* Config::protocol_fee_ratio
    Inputs,              \* [SeriesId -> set of settlement inputs]
    LegacyPlans          \* plans kept from a version that wrote no events

VARIABLES
    treasury,            \* TREASURY of the internal asset
    insurance_fund,      \* INSURANCE_FUND of the internal asset
    settled_events,      \* the Settled rows of EVENTS: per series, the plan
                         \* positions they are for, in order
    timers               \* series with a settlement timer armed

settlementVars == <<treasury, insurance_fund, settled_events, timers>>

SettlementPosition == [user : User, outcome : Outcome, net_qty : Int,
                       margin : Nat, cashflow : Int]
Input == [kind : {"Price"}, price : Price] \cup [kind : {"Outcome"}, outcome : OutcomeId]
SettlementPlan == [settlement : Input, positions : Seq(SettlementPosition),
                   cursor : Nat, status : {"Executing", "Finalised"},
                   fee : Nat, insurance_fee : Nat]

ASSUME SettlementAssumption ==
    /\ Batch \in Nat \ {0}
    /\ INSURANCE_BPS \in Nat /\ PROTOCOL_BPS \in Nat
    /\ Inputs \in [SeriesId -> SUBSET Input]
    /\ DOMAIN LegacyPlans \subseteq SeriesId
    /\ \A s \in DOMAIN LegacyPlans : LET plan == LegacyPlans[s] IN
          /\ plan \in SettlementPlan
          /\ plan.cursor <= Len(plan.positions)
          /\ plan.status = "Finalised" => plan.cursor = Len(plan.positions)

Finalised(s) == ~NotSettled(s) /\ settlement_plans[s].status = "Finalised"
InFlight == {s \in DOMAIN settlement_plans : ~Finalised(s)}

SettlementTypeOK ==
    /\ \A s \in DOMAIN settlement_plans :
          /\ settlement_plans[s] \in SettlementPlan
          /\ settlement_plans[s].cursor <= Len(settlement_plans[s].positions)
    /\ treasury \in Nat /\ insurance_fund \in Nat
    /\ settled_events \in [SeriesId -> Seq(Nat)]
    /\ timers \subseteq SeriesId

SettlementInit ==
    /\ settlement_plans = LegacyPlans
    /\ treasury = 0 /\ insurance_fund = 0
    /\ settled_events = [s \in SeriesId |-> <<>>]
    /\ timers = {}

-----------------------------------------------------------------------------
(* prepare_settlement_impl *)

(* A position as the plan snapshots it: the payoff net of margin and fees. *)
Snapshot(k, input) ==
    LET pos == positions[k]
        payoff == SettlementValue(Listing[k[2]], k[3], pos.net_qty, input)
    IN  [user |-> k[1], outcome |-> k[3], net_qty |-> pos.net_qty, margin |-> pos.margin,
         cashflow |-> payoff - pos.margin - SettlementFee(payoff, INSURANCE_BPS)
                                          - SettlementFee(payoff, PROTOCOL_BPS)]

TotalFee(s, input, bps) ==
    MapThenSumSet(LAMBDA k : SettlementFee(
                      SettlementValue(Listing[s], k[3], positions[k].net_qty, input), bps),
                  PositionsOf(s))

(* The positions in the order of the map's keys, here any fixed order. *)
Snapshots(s, input) ==
    LET keys == SetToSeq(PositionsOf(s)) IN
    [i \in 1..Len(keys) |-> Snapshot(keys[i], input)]

NewPlan_GrossFee(s, input) ==
    [settlement |-> input, positions |-> Snapshots(s, input), cursor |-> 0,
     status |-> "Executing", fee |-> TotalFee(s, input, PROTOCOL_BPS),
     insurance_fee |-> TotalFee(s, input, PROTOCOL_BPS)]

NewPlan(s, input) ==
    [settlement |-> input, positions |-> Snapshots(s, input), cursor |-> 0,
     status |-> "Executing", fee |-> TotalFee(s, input, PROTOCOL_BPS),
     insurance_fee |-> TotalFee(s, input, INSURANCE_BPS)]

(* What the plan positions with the indices I bring a user, in a field. *)
SumFor(plan, I, u, field) ==
    MapThenSumSet(LAMBDA i : plan.positions[i][field], {i \in I : plan.positions[i].user = u})

(* check_settlement_solvency: the winners' cashflows against the equity all
   accounts have after it, each clamped at 0. *)
Solvent(plan) ==
    LET all == DOMAIN plan.positions IN
    MapThenSumSet(LAMBDA i : Clamped(plan.positions[i].cashflow), all)
        <= MapThenSumSet(LAMBDA u : Clamped(RawEquity(u) + SumFor(plan, all, u, "cashflow")), User)

(* A payoff is computed per position, so an input of the wrong type is
   refused only if there is a position. *)
Payable(s, input) == PositionsOf(s) = {} \/ HasUnitPayoff(Listing[s], input)

BlockedBy_Kept(u, s) == 0

(* cancel_open_limit_orders: what it releases of a user's margin. *)
BlockedBy(u, s) ==
    MapThenSumSet(LAMBDA id : limit_orders[id].blocked,
                  {id \in OrdersOf(s) : limit_orders[id].creator = u})

-----------------------------------------------------------------------------
(* apply_settlement_accounting_logic, and the rest of settle_series_inner. *)

(* A chunk ends where the cursor is a multiple of Batch. *)
ChunkEnd(plan) ==
    Min({Len(plan.positions), (plan.cursor \div Batch + 1) * Batch})

Chunk_Again(plan) == Max({1, plan.cursor})..ChunkEnd(plan)

Chunk(plan) == (plan.cursor + 1)..ChunkEnd(plan)

(* newly_applied *)
Completes(plan) == ChunkEnd(plan) = Len(plan.positions)

(* The events of a chunk, one per position.  The code skips a position whose
   user has no account; only a refused transfer of a strikeless put leaves
   one, and such a series has no payoff, so it never gets a plan. *)
ChunkEvents(plan) == [i \in 1..Cardinality(Chunk(plan)) |-> plan.cursor + i]

(* From Phase B on: apply a chunk of the plan, then finalise or arm a timer.
   released[u] is what the same message released of u's margin before, armed
   the timers that are left when it runs. *)
Advance(s, plan, released, armed) ==
    /\ cash_balances' = [u \in User |->
            cash_balances[u] + SumFor(plan, Chunk(plan), u, "cashflow")]
    /\ reserved_margin' = [u \in User |->
            Less(reserved_margin[u], released[u] + SumFor(plan, Chunk(plan), u, "margin"))]
    /\ settled_events' = [settled_events EXCEPT ![s] = @ \o ChunkEvents(plan)]
    /\ settlement_plans' = Put(settlement_plans, s,
            [plan EXCEPT !.cursor = ChunkEnd(plan),
                         !.status = IF Completes(plan) THEN "Finalised" ELSE "Executing"])
    /\ IF Completes(plan)
       THEN /\ treasury' = treasury + plan.fee
            /\ insurance_fund' = insurance_fund + plan.insurance_fee
            /\ series_cache' = series_cache \ {s}
            /\ timers' = armed
       ELSE /\ timers' = armed \cup {s}
            /\ UNCHANGED <<treasury, insurance_fund, series_cache>>

Nothing == [u \in User |-> 0]

(* settle_series of a series that has no plan. *)
SettleSeries(s, input) ==
    LET plan == NewPlan(s, input) IN
    /\ NotSettled(s) /\ s \in series_cache
    /\ Payable(s, input)
    /\ Solvent(plan)
    /\ positions' = Without(positions, PositionsOf(s))
    /\ limit_orders' = Without(limit_orders, OrdersOf(s))
    /\ Advance(s, plan, [u \in User |-> BlockedBy(u, s)], timers)

ResumeSettlement_AnyInput(s, input, armed) ==
    /\ s \in InFlight
    /\ Advance(s, [settlement_plans[s] EXCEPT !.settlement = input], Nothing, armed)
    /\ UNCHANGED <<positions, limit_orders>>

(* settle_series with the plan's input, or resume_settlement.  A finalised
   plan and another input change nothing. *)
ResumeSettlement(s, input, armed) ==
    /\ s \in InFlight
    /\ input = settlement_plans[s].settlement
    /\ Advance(s, settlement_plans[s], Nothing, armed)
    /\ UNCHANGED <<positions, limit_orders>>

(* The timer's message applies a chunk. *)
TimerFires(s) ==
    /\ s \in timers
    /\ \/ ResumeSettlement(s, settlement_plans[s].settlement, timers \ {s})
       \/ /\ s \notin InFlight
          /\ timers' = timers \ {s}
          /\ UNCHANGED <<book, series_cache, settlement_plans, treasury, insurance_fund,
                         settled_events>>

(* The timer's message traps: it is rolled back, and the timer is used up. *)
TimerTraps(s) ==
    /\ s \in timers
    /\ timers' = timers \ {s}
    /\ UNCHANGED <<book, series_cache, settlement_plans, treasury, insurance_fund,
                   settled_events>>

Heartbeat_Off ==
    /\ UNCHANGED <<book, series_cache, settlement_plans, treasury, insurance_fund,
                   settled_events, timers>>

(* start_settlement_heartbeat: resume_pending_settlements, every 5 min. *)
Heartbeat ==
    /\ timers' = timers \cup InFlight
    /\ UNCHANGED <<book, series_cache, settlement_plans, treasury, insurance_fund,
                   settled_events>>

(* post_upgrade: timers are lost, then armed again for the plans in flight. *)
UpgradeTimers == timers' = InFlight

BackfillSettlementEvents_Again(D) ==
    /\ settled_events' = [s \in SeriesId |->
            IF s \in D /\ Finalised(s)
            THEN [i \in 1..Len(settlement_plans[s].positions) |-> i] \o settled_events[s]
            ELSE settled_events[s]]
    /\ UNCHANGED <<book, series_cache, settlement_plans, treasury, insurance_fund, timers>>

(* backfill_settlement_events: the finalised plans of D whose series has no
   Settled row get one per position.  The budget and the caller's cursor
   choose D. *)
BackfillSettlementEvents(D) ==
    /\ settled_events' = [s \in SeriesId |->
            IF s \in D /\ Finalised(s) /\ settled_events[s] = <<>>
            THEN [i \in 1..Len(settlement_plans[s].positions) |-> i]
            ELSE settled_events[s]]
    /\ UNCHANGED <<book, series_cache, settlement_plans, treasury, insurance_fund, timers>>

SettlementNext ==
    \/ \E s \in SeriesId :
          \/ \E input \in Inputs[s] : SettleSeries(s, input) \/ ResumeSettlement(s, input, timers)
          \/ TimerFires(s) \/ TimerTraps(s)
    \/ Heartbeat
    \/ \E D \in SUBSET SeriesId : BackfillSettlementEvents(D)
=============================================================================
