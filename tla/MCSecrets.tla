------------------------------- MODULE MCSecrets -------------------------------
(***************************************************************************)
(* Instances of Secrets for TLC.                                           *)
(***************************************************************************)
EXTENDS Secrets, TLC

CONSTANTS ada, till, shop, stall, p1, p2, t1, t2, r1, r2

MCOwnerOf == (till :> shop)
Symmetry == Permutations(Handlers) \cup Permutations(Terms)
===============================================================================
