--------------------------- MODULE HandoverPromise ---------------------------
(***************************************************************************)
(* What a reassignment promises: an account passes whole to a principal    *)
(* with nothing of its own, every asset it held is owed to the new owner   *)
(* until the old subaccount is drained, and neither principal takes part   *)
(* in another handover before that.                                        *)
(***************************************************************************)
EXTENDS Naturals

CONSTANTS Principal, Asset, Fee, Nobody, Blank, HeldIn(_, _)

VARIABLES
    account,    \* [Principal -> what it owns: Nobody without an account,
                \* Blank with an empty one]
    owed,       \* deliveries outstanding, <<old, new, asset>>
    custody     \* the tokens in each principal's subaccounts

Engaged(p) == \E x \in owed : p \in {x[1], x[2]}

Init == owed = {}

Handover(p, q) ==
    /\ ~Engaged(p) /\ ~Engaged(q)
    /\ account[p] # Nobody /\ account[q] \in {Nobody, Blank}
    /\ account' = [account EXCEPT ![p] = Nobody, ![q] = account[p]]
    /\ owed' = owed \cup {<<p, q, a>> : a \in {b \in Asset : HeldIn(account[p], b)}}
    /\ UNCHANGED custody

(* Delivered: at most a fee's worth is left behind. *)
Deliver(x) ==
    /\ x \in owed
    /\ custody[x[1]][x[3]] <= Fee
    /\ owed' = owed \ {x}
    /\ UNCHANGED <<account, custody>>

(* Everything else leaves the deliveries alone, closes no account, and while
   deliveries are owed the tokens in the old subaccounts only shrink. *)
Business ==
    /\ UNCHANGED owed
    /\ \A p \in Principal : account[p] # Nobody => account'[p] # Nobody
    /\ \A x \in owed : custody'[x[1]][x[3]] <= custody[x[1]][x[3]]

Next ==
    \/ \E p, q \in Principal : Handover(p, q)
    \/ \E x \in owed : Deliver(x)
    \/ Business

Spec == Init /\ [][Next]_<<account, owed, custody>>
=============================================================================
