---------------------------- MODULE VoucherLedger ----------------------------
(***************************************************************************)
(* What a voucher promises, said once for redemptions and refunds: its     *)
(* drinks are handed over a few at a time, it is used up exactly when all  *)
(* have been, and a refund ends it, after which nothing is handed over.    *)
(***************************************************************************)
EXTENDS Naturals

CONSTANTS Voucher, Line, OwnerOf, Qty

VARIABLES
  handed,   \* units handed over, of each line
  phase     \* of each voucher: "PAID", "PARTIALLY_REDEEMED", "REDEEMED", "REFUNDED"

Open(v) == phase[v] \in {"PAID", "PARTIALLY_REDEEMED"}

Init ==
  /\ handed = [l \in Line |-> 0]
  /\ phase = [v \in Voucher |-> "PAID"]

HandOver(v) ==
  /\ Open(v)
  /\ handed' \in [Line -> Nat] /\ handed' # handed
  /\ \A l \in Line :
       /\ handed[l] <= handed'[l] /\ handed'[l] <= Qty[l]
       /\ OwnerOf[l] # v => handed'[l] = handed[l]
  /\ phase' = [phase EXCEPT ![v] =
       IF \A l \in Line : OwnerOf[l] = v => handed'[l] = Qty[l]
       THEN "REDEEMED" ELSE "PARTIALLY_REDEEMED"]

GiveBack(v) ==
  /\ Open(v)
  /\ phase' = [phase EXCEPT ![v] = "REFUNDED"]
  /\ UNCHANGED handed

\* Not a step of the ledger: a voucher gets a status it should not have, or
\* something of it is handed over that should not be; never more than was
\* bought, and nothing of another voucher.
Stray(v) ==
  /\ handed' \in [Line -> Nat]
  /\ \A l \in Line :
       /\ handed[l] <= handed'[l] /\ handed'[l] <= Qty[l]
       /\ OwnerOf[l] # v => handed'[l] = handed[l]
  /\ \E to \in {"PARTIALLY_REDEEMED", "REDEEMED", "REFUNDED"} :
       phase' = [phase EXCEPT ![v] = to]

Next == \E v \in Voucher : HandOver(v) \/ GiveBack(v)

Spec == Init /\ [][Next]_<<handed, phase>>

=============================================================================
