---------------------------- MODULE StockLedger ----------------------------
(***************************************************************************)
(* What reserving stock promises, with no order, payment or job in sight:  *)
(* a reservation takes its whole basket off the shelf or does not happen,  *)
(* and then ends once, either sold or back on the shelf.  Checkout is      *)
(* checked and proved to take only these steps, apart from EndAgain, which *)
(* no ledger should take and which Checkout takes for the orders that two  *)
(* settlements had open at once.                                           *)
(***************************************************************************)
EXTENDS Integers

CONSTANTS
  Product,
  Quote,         \* reservations
  Basket,        \* Basket[q][p]: units of p that reservation q takes
  Stock,         \* units of each product on the shelf at the start
  Adjustments    \* corrections the organiser may make to the shelf

VARIABLES
  phase,         \* where each reservation is in its life
  free           \* units on the shelf, for anyone to reserve

ledgerVars == <<phase, free>>

Phases == {"none", "held", "sold", "returned"}

Init ==
  /\ phase = [q \in Quote |-> "none"]
  /\ free = Stock

Hold(q) ==
  /\ phase[q] = "none"
  /\ \A p \in Product : free[p] >= Basket[q][p]
  /\ phase' = [phase EXCEPT ![q] = "held"]
  /\ free' = [p \in Product |-> free[p] - Basket[q][p]]

Sell(q) ==
  /\ phase[q] = "held"
  /\ phase' = [phase EXCEPT ![q] = "sold"]
  /\ UNCHANGED free

GiveBack(q) ==
  /\ phase[q] = "held"
  /\ phase' = [phase EXCEPT ![q] = "returned"]
  /\ free' = [p \in Product |-> free[p] + Basket[q][p]]

Correct(p, delta) ==
  /\ free[p] + delta >= 0
  /\ free' = [free EXCEPT ![p] = @ + delta]
  /\ UNCHANGED phase

\* Not a step of the ledger: a reservation that has ended ends once more.
EndAgain(q) ==
  /\ phase[q] \in {"sold", "returned"}
  /\ \/ /\ phase' = [phase EXCEPT ![q] = "sold"]
        /\ UNCHANGED free
     \/ /\ phase' = [phase EXCEPT ![q] = "returned"]
        /\ free' = [p \in Product |-> free[p] + Basket[q][p]]

Next ==
  \/ \E q \in Quote : Hold(q) \/ Sell(q) \/ GiveBack(q)
  \/ \E p \in Product, delta \in Adjustments : Correct(p, delta)

Spec == Init /\ [][Next]_ledgerVars

=============================================================================
