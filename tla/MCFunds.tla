------------------------------ MODULE MCFunds -------------------------------
(***************************************************************************)
(* Instances of Funds: the internal asset vusd and one ICRC asset, ckusdc, *)
(* with the calls each configuration allows.                               *)
(***************************************************************************)
EXTENDS Funds, TLC

CONSTANTS vusd, ckusdc, ledgerV, ledgerC, evm, near, far, w1, r1, r2, c1, c2, Nobody

Symmetry == Permutations({c1, c2})

MCAssetId == {vusd, ckusdc}
MCLedger == {ledgerV, ledgerC}
MCDomain == {near, far}
MCPrice == {2}
MCFees == {1, 2}
MCEarnings == {[protocol |-> 2, insurance |-> 1]}

(* The treasury holds ckusdc credited before this version. *)
MCOpening == [f \in FundType |-> [a \in MCAssetId |->
                  IF f = "Treasury" /\ a = ckusdc THEN 2 ELSE 0]]

Icrc(domains) == [asset |-> ledgerC, domains |-> domains, oracle |-> TRUE]
OnChain == [asset |-> evm, domains |-> {near}, oracle |-> FALSE]

Register == [op |-> "register", asset_id |-> ckusdc, terms |-> Icrc({near, far})]
RegisterAgain == [op |-> "register", asset_id |-> ckusdc, terms |-> Icrc({near})]
Refresh == [op |-> "refresh", asset_id |-> ckusdc]
Domains == [op |-> "domains", asset_id |-> ckusdc, domains |-> {near, far}]
Overwrite(a) == [op |-> "update", asset_id |-> a, terms |-> OnChain]
Metrics_(fee) == [op |-> "metrics", asset_id |-> ckusdc, metrics |-> [price |-> 2, fee |-> fee]]
Published(op) == [op |-> op, asset_id |-> ckusdc, price |-> 2]
Pay == [op |-> "pay", id |-> w1, asset_id |-> ckusdc]
Draw(id, fund, asset, amount) ==
    [op |-> "withdraw", id |-> id, fund |-> fund, asset_id |-> asset, amount |-> amount]
Cancel(id) == [op |-> "cancel", id |-> id]

(* The insurance fund covers no withdrawal of ckusdc; once ckusdc is put on
   another chain no withdrawal of it can be paid. *)
Drawing == {Draw(r1, "Treasury", ckusdc, 1), Draw(r1, "Insurance", ckusdc, 1), Cancel(r1),
            Overwrite(ckusdc)}

Configuring == {Register, RegisterAgain, Refresh, Domains, Metrics_(2),
                Published("price"), Published("oracle")}

AllRequests == Drawing \cup (Configuring \ {RegisterAgain}) \cup {Pay}
ConfiguringRequests == Configuring
PayingRequests == {Register, Refresh, Metrics_(2), Pay}
UncachedRequests == {Register, Metrics_(Nobody), Metrics_(2), Pay}
DrawingRequests == {Register, Draw(r1, "Treasury", ckusdc, 2), Draw(r2, "Treasury", vusd, 1),
                    Overwrite(vusd)} \cup Drawing
=============================================================================
