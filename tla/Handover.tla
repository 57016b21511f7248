------------------------------ MODULE Handover ------------------------------
(***************************************************************************)
(* What StaffService.redeem asks of a request before it hands drinks over, *)
(* as far as the screens of the bar can tell: all of it is still pending,  *)
(* and for alcohol somebody confirmed the age check.  The races between    *)
(* requests are Redemption's.                                              *)
(***************************************************************************)
CONSTANTS Drink, Alcoholic

ASSUME DrinkAssumption == Alcoholic \subseteq Drink

HasAlcohol(items) == items \cap Alcoholic # {}

MayHandOver(left, items, confirmed) ==
  /\ items \subseteq left
  /\ HasAlcohol(items) => confirmed

=============================================================================
