---------------------------- MODULE MCCollateral ----------------------------
(***************************************************************************)
(* Collateral on small instances.                                          *)
(***************************************************************************)
EXTENDS Collateral, TLC

CONSTANTS d1, d2, w1, w2, settlement, social, icp

CallSymmetry == Permutations(CallId)

At(d, n) == [domain |-> d, asset |-> icp, amount |-> n]

AllowedEverywhere == [a \in Asset |-> Domain]
UnitPrice == [a \in Asset |-> 1]

(* One fixed set of terms per id: what a client that retries passes again. *)
FixedIntent ==
    [i \in DepositId \cup WithdrawalId |->
        {At(settlement, IF i = d2 \/ i = w1 THEN 2 ELSE 1)}]

(* An id reused with other amounts and, for withdrawals, another domain. *)
OpenIntent ==
    [i \in DepositId \cup WithdrawalId |->
        IF i \in DepositId THEN {At(settlement, 1), At(settlement, 2)}
                           ELSE {At(settlement, 1), At(social, 2)}]

SmallIntent == [i \in DepositId \cup WithdrawalId |-> {At(settlement, 1)}]

(* Withdrawals of twice what the deposit brings in. *)
GreedyIntent ==
    [i \in DepositId \cup WithdrawalId |-> {At(settlement, IF i \in DepositId THEN 1 ELSE 2)}]
=============================================================================
