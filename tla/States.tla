------------------------------- MODULE States -------------------------------
(***************************************************************************)
(* The state machines every service of the API and the worker consults:    *)
(* packages/shared/src/domain/states.ts.  Pure data, no variables.         *)
(***************************************************************************)

EventStatuses == {"DRAFT", "OPEN", "PAUSED", "CLOSED_SALES", "FINISHED"}

EVENT_TRANSITIONS ==
  [DRAFT        |-> {"OPEN"},
   OPEN         |-> {"PAUSED", "CLOSED_SALES", "FINISHED"},
   PAUSED       |-> {"OPEN", "CLOSED_SALES", "FINISHED"},
   CLOSED_SALES |-> {"FINISHED"},
   FINISHED     |-> {}]

canTransitionEvent(from, to) == to \in EVENT_TRANSITIONS[from]

eventAllowsPurchases(status) == status \in {"OPEN", "PAUSED"}

eventAllowsRedemptions(status) == status \in {"OPEN", "PAUSED", "CLOSED_SALES"}

eventAllowsPriceTicks(status) == status = "OPEN"

OrderStatuses == {"PENDING", "PAID", "FAILED", "EXPIRED",
                  "PARTIALLY_REDEEMED", "REDEEMED", "REFUNDED"}

ORDER_TRANSITIONS ==
  [PENDING            |-> {"PAID", "FAILED", "EXPIRED"},
   PAID               |-> {"PARTIALLY_REDEEMED", "REDEEMED", "REFUNDED"},
   PARTIALLY_REDEEMED |-> {"REDEEMED", "REFUNDED"},
   REDEEMED           |-> {},
   FAILED             |-> {},
   EXPIRED            |-> {},
   REFUNDED           |-> {}]

canTransitionOrder(from, to) == to \in ORDER_TRANSITIONS[from]

VoucherStatuses == {"ACTIVE", "PARTIALLY_REDEEMED", "REDEEMED", "REFUNDED",
                    "CANCELLED"}

voucherIsRedeemable(status) == status \in {"ACTIVE", "PARTIALLY_REDEEMED"}

PaymentStatuses == {"PENDING", "PAID", "FAILED", "EXPIRED"}

isTerminalPaymentStatus(status) == status # "PENDING"

\* orders.service.ts: anything that is neither paid nor expired has failed.
statusToOrder(status) ==
  IF status \in {"PAID", "EXPIRED"} THEN status ELSE "FAILED"

=============================================================================
