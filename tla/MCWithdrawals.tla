----------------------------- MODULE MCWithdrawals -----------------------------
(***************************************************************************)
(* Instances of Withdrawals for TLC.                                       *)
(***************************************************************************)
EXTENDS Withdrawals, TLC

CONSTANTS shop, purse, owner, guest, c1, c2, n1

MCAbout == (n1 :> c1)

(* A business and a personal wallet. *)
MCWalletOf == (owner :> shop @@ guest :> purse)
MCCallers == (c1 :> {owner, guest} @@ c2 :> {owner})
MCOpening == (shop :> 3 @@ purse :> 2)
MCTakings == {-2, 2}

(* A business alone. *)
MCWalletOfOwner == (owner :> shop)
MCOwnerCalls == (c1 :> {owner} @@ c2 :> {owner})
MCOpeningOne == (shop :> 3)
================================================================================
