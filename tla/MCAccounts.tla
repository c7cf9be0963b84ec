------------------------------ MODULE MCAccounts ------------------------------
(***************************************************************************)
(* Instances of Accounts for TLC.                                          *)
(***************************************************************************)
EXTENDS Accounts, TLC

CONSTANTS ann, bob, Ann, Annabel, r1, r2

MCFirstName == [p \in People |-> Ann]
MCStartsWith == {<<Ann, Ann>>, <<Annabel, Annabel>>, <<Annabel, Ann>>}
MCGiven == {[base |-> Annabel, n |-> 0]}
MCReferrals == {[base |-> Ann, n |-> 0]}
MCSent ==
  LET sign(p, given, code, owner, card, agent) ==
        [kind |-> "signUp", who |-> p, given |-> given, code |-> code, owner |-> owner,
         card |-> card, agent |-> agent]
      Named == [base |-> Ann, n |-> 0]
      Chosen == [base |-> Annabel, n |-> 0]
  IN {sign(ann, NoName, NoName, FALSE, FALSE, TRUE),
      sign(ann, NoName, NoName, TRUE, FALSE, FALSE),
      sign(bob, NoName, Named, FALSE, FALSE, FALSE),
      sign(bob, Chosen, NoName, FALSE, TRUE, FALSE)}
Symmetry == Permutations(Requests)
===============================================================================
