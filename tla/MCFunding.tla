------------------------------- MODULE MCFunding -------------------------------
(***************************************************************************)
(* Instances of Funding for TLC.                                           *)
(***************************************************************************)
EXTENDS Funding, TLC

CONSTANTS alice, bob, home, work, other, bank1, checkout, n1, n2, n3, n4

MCFirstEmail == alice :> home @@ bob :> work
MCRefOf == [n \in Notices |-> IF n \in {n1, n2} THEN bank1 ELSE checkout]
================================================================================
