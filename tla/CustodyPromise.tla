--------------------------- MODULE CustodyPromise ---------------------------
(***************************************************************************)
(* What collateral custody promises: every deposit moves tokens in once    *)
(* and is credited once; every withdrawal reserves, and then either pays   *)
(* out once or refunds in full; and the tokens in custody are always the   *)
(* balances plus what is moved and not yet credited, plus what is reserved *)
(* and not yet paid.                                                       *)
(***************************************************************************)
EXTENDS Integers

CONSTANTS User, DepositId, WithdrawalId, Domain, Asset,
          Agreed   \* [id -> terms], what the client asked for under that id

VARIABLES
    deposit,     \* [User -> [DepositId -> {"open", "moved", "credited"}]]
    withdrawal,  \* [User -> [WithdrawalId -> {"open", "reserved", "paid"}]]
    balance,     \* [User -> [Domain -> [Asset -> Nat]]]
    holding      \* [User -> [Asset -> Nat]], tokens in custody

promised == <<deposit, withdrawal, balance, holding>>

Init ==
    /\ deposit = [u \in User |-> [i \in DepositId |-> "open"]]
    /\ withdrawal = [u \in User |-> [i \in WithdrawalId |-> "open"]]
    /\ balance = [u \in User |-> [d \in Domain |-> [a \in Asset |-> 0]]]
    /\ holding = [u \in User |-> [a \in Asset |-> 0]]

MoveDeposit(u, id, from, to) ==
    deposit[u][id] = from /\ deposit' = [deposit EXCEPT ![u][id] = to]

MoveWithdrawal(u, id, from, to) ==
    withdrawal[u][id] = from /\ withdrawal' = [withdrawal EXCEPT ![u][id] = to]

Book(u, t, delta) == balance' = [balance EXCEPT ![u][t.domain][t.asset] = @ + delta]

Hold(u, t, delta) == holding' = [holding EXCEPT ![u][t.asset] = @ + delta]

TokensIn(u, id) ==
    /\ MoveDeposit(u, id, "open", "moved")
    /\ Hold(u, Agreed[id], Agreed[id].amount)
    /\ UNCHANGED <<withdrawal, balance>>

Credit(u, id) ==
    /\ MoveDeposit(u, id, "moved", "credited")
    /\ Book(u, Agreed[id], Agreed[id].amount)
    /\ UNCHANGED <<withdrawal, holding>>

Reserve(u, id) ==
    /\ MoveWithdrawal(u, id, "open", "reserved")
    /\ balance[u][Agreed[id].domain][Agreed[id].asset] >= Agreed[id].amount
    /\ Book(u, Agreed[id], -Agreed[id].amount)
    /\ UNCHANGED <<deposit, holding>>

Refund(u, id) ==
    /\ MoveWithdrawal(u, id, "reserved", "open")
    /\ Book(u, Agreed[id], Agreed[id].amount)
    /\ UNCHANGED <<deposit, holding>>

PayOut(u, id) ==
    /\ MoveWithdrawal(u, id, "reserved", "paid")
    /\ Hold(u, Agreed[id], -Agreed[id].amount)
    /\ UNCHANGED <<deposit, balance>>

Next ==
    \E u \in User :
        \/ \E id \in DepositId : TokensIn(u, id) \/ Credit(u, id)
        \/ \E id \in WithdrawalId : Reserve(u, id) \/ Refund(u, id) \/ PayOut(u, id)

Spec == Init /\ [][Next]_promised
=============================================================================
