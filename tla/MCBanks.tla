-------------------------------- MODULE MCBanks --------------------------------
(***************************************************************************)
(* Instances of Banks for TLC.                                             *)
(***************************************************************************)
EXTENDS Banks, TLC

CONSTANTS gtb, access, ada, shop, one, two, a1, a2, r1, r2

(* Access Bank's accounts are not looked up; of the others all are found and *)
(* ada's name is in that of account one only.                                *)
MCExempt == {access} \X Numbers
MCReal == {gtb} \X Numbers
MCBears == {<<ada, <<gtb, one>>>>}
MCSent == {<<ada, one>>, <<ada, two>>, <<shop, two>>}
Symmetry == Permutations(Admins) \cup Permutations(Requests)
===============================================================================
