------------------------------ MODULE MCPayments ------------------------------
(***************************************************************************)
(* Instances of Payments for TLC.                                          *)
(* Two customers and a shop; alice has an ordinary card and a funded one;  *)
(* the shop has a station that charges what it is asked and one with a     *)
(* fixed price above the cap; bob is also a merchant.                      *)
(***************************************************************************)
EXTENDS Payments, TLC

CONSTANTS p1, p2, alice, bob, shop, tapCard, fundedCard,
          till, kiosk, bobsTill, walkIn

MCHome == [k \in Collectors |->
             IF k = bobsTill THEN bob ELSE IF k = walkIn THEN NoWallet ELSE shop]
MCCardWallet == [c \in {tapCard, fundedCard} |-> alice]
MCFixed == [s \in {till, kiosk} |-> IF s = kiosk THEN 8 ELSE NoPrice]
MCAmounts == {-4, 4}
MCOpening == (alice :> 8 @@ bob :> 2 @@ shop :> 0 @@ fundedCard :> 4)
================================================================================
