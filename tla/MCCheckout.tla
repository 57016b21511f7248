----------------------------- MODULE MCCheckout -----------------------------
(***************************************************************************)
(* Checkout on a small party: two drinks, two quotes that compete for the  *)
(* first of them, two concurrent requests and one worker job.              *)
(***************************************************************************)
EXTENDS Checkout, TLC

CONSTANTS phone, till, gin, beer, r1, r2, j1

\* Two beers and one gin.
MCStock == [p \in Product |-> IF p = beer THEN 2 ELSE 1]

\* Both want the gin, the till two beers as well.  The stock is enough for one
\* of them, and refusing the other must move nothing; with one more gin it is
\* enough for both, and then the till's gin also covers a second settlement
\* of the phone's order, which is when a race does harm.
MCBasket ==
  [q \in Quote |-> [p \in Product |->
     IF p = gin THEN 1 ELSE IF q = till THEN 2 ELSE 0]]

\* Enough for both from the start.
MCPlenty == [p \in Product |-> 3]

\* A count that finds one missing, or one too many.
MCCorrections == {-1, 1}

RequestSymmetry == Permutations(Request)

=============================================================================
