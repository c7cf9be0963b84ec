-------------------------------- MODULE MCCodes --------------------------------
(***************************************************************************)
(* Instances of Codes for TLC.                                             *)
(***************************************************************************)
EXTENDS Codes, TLC

CONSTANTS ada, ben, till, k1, k2, adaMail, benMail, shopMail,
          adaPhone, benPhone, r1, r2

MCFirstEmail == (ada :> adaMail @@ ben :> benMail)
MCFirstPhone == (ada :> adaPhone @@ ben :> benPhone)
Symmetry == Permutations(Codes) \cup Permutations(Requests)
MCFirstBusinessEmail == (ada :> adaMail)
===============================================================================
