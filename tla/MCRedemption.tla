---------------------------- MODULE MCRedemption ----------------------------
(* Small instances of Redemption: Ana bought a gin and two beers, Rui one   *)
(* beer.  Staff hand over Ana's drinks in parts and in either order.        *)
EXTENDS Redemption

CONSTANTS ana, rui, anaGin, anaBeer, ruiBeer, gin, beer, s1, s2

MCOwnerOf == [l \in Line |-> IF l = ruiBeer THEN rui ELSE ana]
MCProductOf == [l \in Line |-> IF l = anaGin THEN gin ELSE beer]
MCQty == [l \in Line |-> IF l = anaBeer THEN 2 ELSE 1]
MCSold == [p \in Product |-> Cardinality(UnitsOf(MCQty, p))]
MCTotal == [v \in Voucher |-> IF v = ana THEN 3 ELSE 1]

Ticked(line, n) == [line |-> line, qty |-> n]

MCClaims ==
  {<<Ticked(anaGin, 1), Ticked(anaBeer, 1)>>, <<Ticked(anaBeer, 2), Ticked(anaGin, 1)>>,
   <<Ticked(anaBeer, 1)>>, <<Ticked(anaGin, 1)>>}

=============================================================================
