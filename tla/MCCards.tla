-------------------------------- MODULE MCCards --------------------------------
(***************************************************************************)
(* Instances of Cards for TLC.                                             *)
(***************************************************************************)
EXTENDS Cards, TLC

CONSTANTS ada, ben, tap, key, p1, p2, p3

Symmetry == Permutations(Users) \cup Permutations(Calls)
===============================================================================
