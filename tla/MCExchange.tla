----------------------------- MODULE MCExchange -----------------------------
(***************************************************************************)
(* Exchange on small instances.                                            *)
(***************************************************************************)
EXTENDS Exchange, TLC

CONSTANTS u1, u2, u3, bin, cat, past, yes, no, draw, o1, o2, t1, t2, t3, t4, x1

CallSymmetry == Permutations(CallId)

P(v) == [value |-> v, decimals |-> 1]

Binary == [payoff_type |-> "Binary", strike |-> NoStrike, social |-> FALSE,
           outcomes |-> {}, restricted |-> FALSE]
Categorical == [Binary EXCEPT !.payoff_type = "Categorical", !.outcomes = {yes, no}]

OpenListing == [s \in SeriesId |-> IF s = cat THEN Categorical ELSE Binary]
RestrictedListing == [s \in SeriesId |-> [OpenListing[s] EXCEPT !.restricted = TRUE]]

SoundInputs == [s \in SeriesId |->
    IF s = cat THEN {AtOutcome(yes), AtOutcome(no)} ELSE {AtPrice(P(10)), AtPrice(P(3))}]

Modest == [u \in User |-> 18]
Rich == [u \in User |-> 30]
NoLegacy == EmptyMap

Limit(u, id, s, o, side, qty, p) ==
    [op |-> "limit", user |-> u, series |-> s, order |-> id, outcome |-> o,
     side |-> side, qty |-> qty, price |-> P(p)]
Market(u, id, t, qty) ==
    [op |-> "market", user |-> u, order |-> id, trade |-> t, qty |-> qty]
Matched(t, s, o, b, v, qty, p) ==
    [op |-> "matched", series |-> s, trade |-> t, outcome |-> o, buyer |-> b,
     seller |-> v, qty |-> qty, price |-> P(p), b_unblock |-> 0, s_unblock |-> 0]
CompleteSet(op, u, qty) == [op |-> op, user |-> u, series |-> cat, qty |-> qty]
Accept(u, s, o, qty, p) ==
    [op |-> "accept", user |-> u, series |-> s, transfer |-> x1, outcome |-> o,
     qty |-> qty, price |-> P(p)]

(* Orders filled in part and in whole, and matched trades that close, flip
   and hand on positions, on one binary series. *)
BinaryRequests ==
    {Limit(u1, o1, bin, NoOutcome, "Buy", 2, 4), Limit(u2, o2, bin, NoOutcome, "Sell", 2, 7),
     Market(u3, o1, t1, 1), Market(u1, o2, t2, None),
     Matched(t3, bin, NoOutcome, u2, u1, 2, 6), Matched(t3, bin, NoOutcome, u1, u3, 1, 8),
     Matched(t4, bin, NoOutcome, u3, u2, 1, 2), Matched(t4, bin, NoOutcome, u3, u1, 3, 5)}

(* Complete sets bought whole by a user who is never short in an outcome,
   outcomes traded, and a second series in the same accounts. *)
CategoricalRequests ==
    {CompleteSet("mint", u2, 1), Limit(u1, o1, cat, yes, "Sell", 2, 6), Market(u2, o1, t1, 1),
     Matched(t2, cat, no, u2, u1, 1, 3), Matched(t3, bin, NoOutcome, u1, u2, 1, 6)}

(* Methods suspended at the registry across each other and across the
   settlement: an order id used twice, market orders on it, a position
   accepted from another canister, which with the one bought makes a set
   that is redeemed, and positions frozen between all that. *)
OpenRequests ==
    {Limit(u1, o1, cat, yes, "Buy", 2, 4), Limit(u2, o1, cat, yes, "Sell", 1, 6),
     Market(u2, o1, t1, 1), Market(u2, o1, t1, 3),
     CompleteSet("redeem", u1, 1), Accept(u1, cat, no, 1, 4)}

(* Three positions, so three chunks of one, and an order. *)
ShortRequests ==
    {Matched(t1, bin, NoOutcome, u1, u2, 1, 4), Matched(t2, bin, NoOutcome, u3, u2, 1, 7),
     Limit(u1, o1, bin, NoOutcome, "Buy", 1, 4)}

(* A plan that a version without event emission finalised. *)
LegacyPosition(u) == [user |-> u, outcome |-> NoOutcome, net_qty |-> 0, margin |-> 0,
                      cashflow |-> 0]
FinalisedLegacy ==
    [s \in {past} |-> [settlement |-> AtPrice(P(10)), cursor |-> 2, status |-> "Finalised",
                      positions |-> <<LegacyPosition(u1), LegacyPosition(u2)>>,
                      fee |-> 0, insurance_fee |-> 0]]

(* A position bought dear and added to when the price has fallen. *)
FallingRequests ==
    {Matched(t1, bin, NoOutcome, u1, u2, 2, 9), Matched(t2, bin, NoOutcome, u1, u3, 4, 4)}

(* An ask above one unit, lifted. *)
DearRequests ==
    {Limit(u1, o1, bin, NoOutcome, "Sell", 1, 14), Market(u2, o1, t1, None)}

(* A set minted by a user who is short in one of its outcomes. *)
ShortMintRequests ==
    {Matched(t1, cat, yes, u2, u1, 1, 6), CompleteSet("mint", u1, 1)}

(* A set put together from trades, not minted, and redeemed. *)
BoughtSetRequests ==
    {Matched(t1, cat, yes, u1, u2, 1, 7), Matched(t2, cat, no, u1, u2, 1, 6),
     CompleteSet("redeem", u1, 1)}

(* One unit over three outcomes. *)
ThreeOutcomes == [s \in SeriesId |-> [Categorical EXCEPT !.outcomes = {yes, no, draw}]]
MintRequests == {CompleteSet("mint", u1, 1)}

(* Two orders under one id. *)
SameIdRequests ==
    {Limit(u1, o1, bin, NoOutcome, "Buy", 1, 4), Limit(u2, o1, bin, NoOutcome, "Buy", 1, 4)}

AcceptRequests == {Accept(u1, bin, NoOutcome, 1, 4)}

(* A put registered without a strike, for which no short can be margined. *)
StrikelessPut == [s \in SeriesId |-> [Binary EXCEPT !.payoff_type = "Put"]]
ShortAcceptRequests == {Accept(u1, bin, NoOutcome, -1, 4)}
=============================================================================
