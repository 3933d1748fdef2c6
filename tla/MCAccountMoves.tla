--------------------------- MODULE MCAccountMoves ---------------------------
(***************************************************************************)
(* AccountMoves on small instances.                                        *)
(***************************************************************************)
EXTENDS AccountMoves

CONSTANTS p, q, m, near, far, gold, iron, s1, s2, o1, d1, w1

Domains == [s \in SeriesId |-> IF s = s1 THEN near ELSE far]

(* p holds both assets, iron no more than a fee's worth; m can trade. *)
TwoAssets == [x \in Principal |-> [a \in Asset |->
                IF x = p THEN IF a = gold THEN 3 ELSE 1
                ELSE IF x = m /\ a = gold THEN 2 ELSE 0]]

There == [id |-> "there", old |-> p, new |-> q]
Back == [id |-> "back", old |-> q, new |-> p]
ThereAndBack == {There, Back}

Deposit(x, a) == [op |-> "deposit", user |-> x, id |-> d1, domain |-> near, asset |-> a]
Withdraw(x, a) == [op |-> "withdraw", user |-> x, id |-> w1, domain |-> near, asset |-> a]
Limit(x, side) == [op |-> "limit", user |-> x, id |-> o1, series |-> s1, side |-> side]
Market(x) == [op |-> "market", user |-> x, id |-> o1]
Matched(b, v, s, price) ==
    [op |-> "matched", buyer |-> b, seller |-> v, series |-> s, price |-> price]
Freeze(x) == [op |-> "freeze", user |-> x, series |-> s1]
Settle(v) == [op |-> "settle", series |-> s1, value |-> v]

Migrate(x, id, from, to) == [user |-> x, id |-> id, from |-> from, to |-> to]

(* A contract bought at one unit, for which the seller reserves nothing, and
   sold again, by its buyer or the one the account was handed back to, at half
   a unit. *)
CommonRequests ==
    {Deposit(p, gold), Withdraw(q, gold), Limit(p, "Sell"), Market(m), Matched(q, m, s1, 2),
     Freeze(q), Settle(2)}
CommonMigrations == {Migrate(p, "out", near, far)}

(* Trades for which the seller needs no equity: at a price of one unit, and
   of a social series. *)
MatchedRequests == {Matched(m, p, s1, 2), Matched(m, p, s2, 1)}

=============================================================================
