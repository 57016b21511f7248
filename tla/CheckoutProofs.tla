--------------------------- MODULE CheckoutProofs ---------------------------
(***************************************************************************)
(* Theorems about Checkout, for every set of products, quotes, handlers    *)
(* and every basket, and for any bound on crashes and corrections.         *)
(*                                                                         *)
(* All of it on Postgres at READ COMMITTED: handlers, and two settlements  *)
(* of one order too, overlap as they like.                                 *)
(***************************************************************************)
EXTENDS Checkout, FiniteSetTheorems, TLAPS

USE DEF At, Handler, database, stockVars, quoteVars, orderVars, paidVars

-----------------------------------------------------------------------------
(* Type correctness.                                                       *)

LEMMA BasketType ==
  ASSUME NEW q \in Quote, NEW p \in Product
  PROVE  Basket[q][p] \in Nat /\ Basket[q][p] <= MaxQty /\ MaxQty \in Nat
BY BasketAssumption

\* A handler that is not idle works on some quote.
LEMMA BusyHandler ==
  ASSUME TypeOK, NEW h \in Handler, handler[h].step # "idle"
  PROVE  handler[h].quote \in Quote /\ handler[h].outcome \in PaymentStatuses
BY DEF TypeOK, HandlerStates

HandlersTyped ==
  /\ handler \in [Handler -> HandlerStates]
  /\ \A h \in Handler : handler[h].quote = NoQuote => At(h, "idle")

USE DEF HandlersTyped

\* Sending a handler to another step leaves the handlers well typed.
LEMMA GotoType ==
  ASSUME TypeOK, NEW h \in Handler, NEW q \in Quote, NEW step \in Steps,
         NEW outcome \in PaymentStatuses, NEW seen \in BOOLEAN,
         handler' = [handler EXCEPT ![h] =
                       [step |-> step, quote |-> q, outcome |-> outcome,
                        voucherSeen |-> seen]]
  PROVE  HandlersTyped'
BY HandlersAssumption DEF TypeOK, HandlerStates

LEMMA GotoStepType ==
  ASSUME TypeOK, NEW h \in Handler, NEW q \in Quote, NEW step \in Steps,
         NEW outcome \in PaymentStatuses, Goto(h, step, q, outcome)
  PROVE  HandlersTyped'
BY GotoType DEF Goto

LEMMA ReturnType ==
  ASSUME TypeOK, NEW h \in Handler, Return(h)
  PROVE  HandlersTyped'
BY DEF TypeOK, HandlerStates, Return, Idle, Steps, PaymentStatuses

LEMMA TypeInit == Init => TypeOK
BY StockAssumption, BoundsAssumption
DEF Init, TypeOK, StockLevels, EventStatuses, HandlerStates, Idle, Steps,
    PaymentStatuses

LEMMA StockTypes ==
  ASSUME TypeOK, NEW q \in Quote
  PROVE  /\ CanReserve(q) /\ reserve(q) =>
              available' \in StockLevels /\ reserved' \in StockLevels
         /\ CoveredByReserved(q) /\ release(q) =>
              available' \in StockLevels /\ reserved' \in StockLevels
         /\ CoveredByReserved(q) /\ commit(q) =>
              reserved' \in StockLevels /\ sold' \in StockLevels
BY BasketType
DEF TypeOK, StockLevels, CanReserve, reserve, CoveredByReserved, release, commit

LEMMA TypeStep == TypeOK /\ [Next]_vars => TypeOK'
<1> SUFFICES ASSUME TypeOK, [Next]_vars PROVE TypeOK'
  OBVIOUS
<1>1. ASSUME NEW h \in Handler, CreateQuote(h) PROVE TypeOK'
  <2>1. handler[h].quote \in Quote
    BY <1>1, BusyHandler DEF CreateQuote
  <2> QED
    BY <1>1, <2>1, ReturnType, StockTypes
    DEF CreateQuote, TypeOK, reserve
<1>2. ASSUME NEW h \in Handler, ConsumeQuote(h) PROVE TypeOK'
  <2>1. handler[h].quote \in Quote
    BY <1>2, BusyHandler DEF ConsumeQuote
  <2>2. HandlersTyped'
    BY <1>2, <2>1, ReturnType, GotoStepType
    DEF ConsumeQuote, Steps, PaymentStatuses
  <2> QED
    BY <1>2, <2>1, <2>2 DEF ConsumeQuote, TypeOK
<1>3. ASSUME NEW h \in Handler, Charge(h) PROVE TypeOK'
  <2>1. handler[h].quote \in Quote
    BY <1>3, BusyHandler DEF Charge
  <2>2. PICK reply \in ChargeReplies :
          /\ gateway' = [gateway EXCEPT ![handler[h].quote] = reply]
          /\ Goto(h, "charged", handler[h].quote, reply)
    BY <1>3 DEF Charge
  <2>3. HandlersTyped'
    BY <2>1, <2>2, GotoStepType, GatewayAssumption DEF Steps
  <2> QED
    BY <1>3, <2>1, <2>2, <2>3, GatewayAssumption
    DEF Charge, TypeOK
<1>4. ASSUME NEW h \in Handler, ChargeFails(h) PROVE TypeOK'
  BY <1>4, BusyHandler, ReturnType
  DEF ChargeFails, TypeOK,
      PaymentStatuses
<1>5. ASSUME NEW h \in Handler, RecordPayment(h) PROVE TypeOK'
  <2>1. handler[h].quote \in Quote /\ handler[h].outcome \in PaymentStatuses
    BY <1>5, BusyHandler DEF RecordPayment, RecordCharge, RecordTillPayment
  <2>2. HandlersTyped'
    <3>1. "recorded" \in Steps /\ "PAID" \in PaymentStatuses
      BY DEF Steps, PaymentStatuses
    <3>2. CASE Goto(h, "recorded", handler[h].quote, handler[h].outcome)
      BY <2>1, <3>1, <3>2, GotoStepType
    <3>3. CASE Goto(h, "recorded", handler[h].quote, "PAID")
      BY <2>1, <3>1, <3>3, GotoStepType
    <3> QED
      BY <1>5, <3>2, <3>3
      DEF RecordPayment, RecordCharge, RecordTillPayment
  <2> QED
    BY <1>5, <2>1, <2>2
    DEF RecordPayment, RecordCharge, RecordTillPayment, TypeOK, PaymentStatuses
<1>6. ASSUME NEW h \in Handler, LinkPayment(h) PROVE TypeOK'
  <2>1. handler[h].quote \in Quote /\ handler[h].outcome \in PaymentStatuses
    BY <1>6, BusyHandler DEF LinkPayment
  <2>2. HandlersTyped'
    BY <1>6, <2>1, GotoStepType, ReturnType
    DEF LinkPayment, Steps, PaymentStatuses
  <2> QED
    BY <1>6, <2>1, <2>2
    DEF LinkPayment, TypeOK
<1>7. ASSUME NEW h \in Handler, SettleRead(h) PROVE TypeOK'
  <2>1. handler[h].quote \in Quote /\ handler[h].outcome \in PaymentStatuses
    BY <1>7, BusyHandler DEF SettleRead
  <2>2. (handler[h].quote \in voucher) \in BOOLEAN
    OBVIOUS
  <2>3. HandlersTyped'
    <3>1. CASE SettleApplies(handler[h].quote, handler[h].outcome)
      BY <1>7, <2>1, <2>2, <3>1, GotoType DEF SettleRead, Steps
    <3>2. CASE ~SettleApplies(handler[h].quote, handler[h].outcome)
      BY <1>7, <3>2, ReturnType DEF SettleRead
    <3> QED BY <3>1, <3>2
  <2> QED
    BY <1>7, <2>3
    DEF SettleRead, TypeOK
<1>8. ASSUME NEW h \in Handler, SettleApply(h) PROVE TypeOK'
  <2>1. handler[h].quote \in Quote /\ handler[h].outcome \in PaymentStatuses
    BY <1>8, BusyHandler DEF SettleApply
  <2>2. CoveredByReserved(handler[h].quote)
    BY <1>8 DEF SettleApply, SettleCommits
  <2>3. statusToOrder(handler[h].outcome) \in {"PAID", "EXPIRED", "FAILED"}
    BY DEF statusToOrder
  <2> QED
    BY <1>8, <2>1, <2>2, <2>3, ReturnType, StockTypes
    DEF SettleApply, TypeOK, commit, release, Fulfil
<1>9. ASSUME NEW h \in Handler, SettleAborts(h) PROVE TypeOK'
  BY <1>9, ReturnType
  DEF SettleAborts, TypeOK
<1>10. ASSUME NEW h \in Handler, ExpireQuote(h) PROVE TypeOK'
  <2>1. handler[h].quote \in Quote
    BY <1>10, BusyHandler DEF ExpireQuote
  <2> QED
    BY <1>10, <2>1, ReturnType, StockTypes
    DEF ExpireQuote, TypeOK, release
<1>11. ASSUME NEW h \in Handler, Crash(h) PROVE TypeOK'
  BY <1>11, ReturnType, BoundsAssumption
  DEF Crash, TypeOK
<1>12. ASSUME NEW h \in Handler, NEW q \in Quote,
              BeginQuote(h, q) \/ BeginCheckout(h, q) \/ Webhook(h, q) \/
              PollPayment(h, q) \/ ExpireOrder(h, q) \/ FindOverdueQuote(h, q)
       PROVE  TypeOK'
  <2>1. PICK step \in Steps, outcome \in PaymentStatuses :
          Goto(h, step, q, outcome)
    <3>1. {"quoting", "checked", "settling", "expiring"} \subseteq Steps
          /\ {"PENDING", "EXPIRED"} \subseteq PaymentStatuses
      BY DEF Steps, PaymentStatuses
    <3> QED
      BY <1>12, <3>1
      DEF BeginQuote, BeginCheckout, Webhook, PollPayment, ExpireOrder,
          FindOverdueQuote, GatewayDone
  <2>2. HandlersTyped'
    BY <2>1, GotoStepType
  <2> QED
    BY <1>12, <2>2
    DEF BeginQuote, BeginCheckout, Webhook, PollPayment, ExpireOrder,
        FindOverdueQuote, TypeOK
<1>13. ASSUME NEW q \in Quote,
              QuoteTtlPasses(q) \/ PaymentTimeoutPasses(q) \/ GatewayDecides(q)
       PROVE  TypeOK'
  BY <1>13
  DEF QuoteTtlPasses, PaymentTimeoutPasses, GatewayDecides, TypeOK,
      PaymentStatuses
<1>14. ASSUME NEW s \in StatusTargets, ChangeEventStatus(s) PROVE TypeOK'
  BY <1>14, BoundsAssumption
  DEF ChangeEventStatus, TypeOK
<1>15. ASSUME NEW p \in Product, NEW delta \in Adjustments, AdjustStock(p, delta)
       PROVE  TypeOK'
  BY <1>15, BoundsAssumption
  DEF AdjustStock, TypeOK, StockLevels
<1>16. ASSUME NEW p \in Archivable, ArchiveProduct(p) PROVE TypeOK'
  BY <1>16, BoundsAssumption
  DEF ArchiveProduct, TypeOK
<1>17. CASE UNCHANGED vars
  BY <1>17
  DEF vars, TypeOK
<1> QED
  BY <1>1, <1>2, <1>3, <1>4, <1>5, <1>6, <1>7, <1>8, <1>9, <1>10, <1>11, <1>12,
     <1>13, <1>14, <1>15, <1>16, <1>17
  DEF Next, Continue

(* Whatever the interleaving and the faults, the state keeps its shape; in  *)
(* particular no stock counter goes negative, without the help of the       *)
(* CHECK constraint (inventory.service.ts, reserve to commit).              *)
THEOREM TypeCorrect == Spec => []TypeOK
<1>1. TypeOK /\ [Next]_vars => TypeOK'
  BY TypeStep
<1> QED
  BY TypeInit, <1>1, PTL DEF Spec

-----------------------------------------------------------------------------
(* Conservation.                                                           *)

LEMMA ConservedStep ==
  TypeOK /\ StockConserved /\ [Next]_vars => StockConserved'
<1> SUFFICES ASSUME TypeOK, StockConserved, [Next]_vars,
                    NEW p \in Product
             PROVE  (available[p] + reserved[p] + sold[p] <= initial[p])'
  BY DEF StockConserved
<1> DEFINE Total == available[p] + reserved[p] + sold[p]
<1>1. /\ available[p] \in Nat /\ reserved[p] \in Nat
      /\ sold[p] \in Nat /\ initial[p] \in Nat
      /\ Total <= initial[p]
  BY DEF TypeOK, StockLevels, StockConserved
<1>2. ASSUME NEW q \in Quote, reserve(q) \/ release(q) \/ commit(q)
      PROVE  Total' = Total /\ initial' = initial
  BY <1>1, <1>2, BasketType DEF reserve, release, commit
<1>3. ASSUME NEW h \in Handler,
             CreateQuote(h) \/ ExpireQuote(h) \/ SettleApply(h)
      PROVE  Total' <= initial'[p]
  <2>1. handler[h].quote \in Quote
    BY <1>3, BusyHandler DEF CreateQuote, ExpireQuote, SettleApply
  <2> QED
    BY <1>1, <1>2, <1>3, <2>1 DEF CreateQuote, ExpireQuote, SettleApply
<1>4. ASSUME NEW r \in Product, NEW delta \in Adjustments, AdjustStock(r, delta)
      PROVE  Total' <= initial'[p]
  BY <1>1, <1>4, BoundsAssumption DEF AdjustStock, TypeOK, StockLevels
<1>5. CASE UNCHANGED <<initial, available, reserved, sold>>
  BY <1>1, <1>5
<1> QED
  BY <1>3, <1>4, <1>5
  DEF Next, Continue, vars, ConsumeQuote, Charge, ChargeFails, RecordPayment,
      RecordCharge, RecordTillPayment, LinkPayment, SettleRead, SettleAborts,
      Crash, BeginQuote, BeginCheckout, Webhook, PollPayment, ExpireOrder,
      FindOverdueQuote, QuoteTtlPasses, PaymentTimeoutPasses, GatewayDecides,
      ChangeEventStatus, ArchiveProduct

(* products_stock_conservation_check never has to fire: no interleaving of  *)
(* quotes, settlements, expiries and corrections makes units out of nothing *)
(* (spec 9; inventory.service.ts).                                          *)
THEOREM StockIsConserved == Spec => []StockConserved
<1>1. Init => StockConserved
  BY StockAssumption DEF Init, StockConserved
<1>2. TypeOK /\ StockConserved /\ [Next]_vars => StockConserved'
  BY ConservedStep
<1> QED
  BY <1>1, <1>2, TypeCorrect, PTL DEF Spec

-----------------------------------------------------------------------------
(* Who may be working on a quote, and what the rows then say.              *)

\* The quote a handler is about to create is nobody else's.
QuotingFresh ==
  \A h \in Handler : At(h, "quoting") =>
    /\ quote[handler[h].quote] = "NONE"
    /\ \A g \in Handler \ {h} : handler[g].quote # handler[h].quote

\* Between consuming a quote and recording its payment a request is alone.
ChargingAlone ==
  \A h \in Handler : handler[h].step \in {"consumed", "charged"} =>
    /\ order[handler[h].quote] = "PENDING"
    /\ payment[handler[h].quote] = "NONE"
    /\ \A g \in Handler \ {h} : handler[g].step \in {"consumed", "charged"} =>
         handler[g].quote # handler[h].quote

\* Only a recorded payment is settled, and only with a final outcome.
SettlingKnown ==
  \A h \in Handler :
    /\ handler[h].step \in {"recorded", "settling", "applying"} =>
         payment[handler[h].quote] # "NONE"
    /\ handler[h].step \in {"settling", "applying"} =>
         handler[h].outcome # "PENDING"

\* A handler believes in a payment only if there is money.
OutcomeMeansMoney ==
  \A h \in Handler :
    /\ handler[h].step \in {"charged", "recorded", "settling", "applying"}
    /\ handler[h].outcome = "PAID"
    => handler[h].quote \in TillQuotes \/ gateway[handler[h].quote] = "PAID"

\* A payment still to be settled is for an order still to be settled.
PendingTogether ==
  \A q \in Quote : payment[q] = "PENDING" => order[q] = "PENDING"

VoucherHasPayment == \A q \in voucher : payment[q] # "NONE"

RefHasPayment == \A q \in paymentRef : payment[q] # "NONE"

FlowInv ==
  /\ TypeOK
  /\ QuoteEndsOnce /\ PaidIsFulfilled /\ VoucherMeansMoney
  /\ QuotingFresh /\ ChargingAlone /\ SettlingKnown /\ OutcomeMeansMoney
  /\ PendingTogether /\ VoucherHasPayment /\ RefHasPayment

\* What FlowInv says of the rows, and what it says of the handlers.
RowsAgree ==
  /\ QuoteEndsOnce /\ PaidIsFulfilled /\ VoucherMeansMoney
  /\ PendingTogether /\ VoucherHasPayment /\ RefHasPayment

HandlersAgree ==
  QuotingFresh /\ ChargingAlone /\ SettlingKnown /\ OutcomeMeansMoney

LEMMA FlowInit == Init => FlowInv
BY TypeInit
DEF Init, FlowInv, Idle, QuoteEndsOnce, PaidIsFulfilled, VoucherMeansMoney,
    QuotingFresh, ChargingAlone, SettlingKnown, OutcomeMeansMoney,
    PendingTogether, VoucherHasPayment, RefHasPayment

\* A handler that returns, or never moved, owes nothing.
LEMMA HandlersAgreeAfterReturn ==
  ASSUME FlowInv, NEW h \in Handler, Return(h),
         UNCHANGED <<quote, order, payment, gateway>>
  PROVE  HandlersAgree'
BY HandlersAssumption
DEF FlowInv, TypeOK, HandlerStates, Return, Idle, HandlersAgree, QuotingFresh,
    ChargingAlone, SettlingKnown, OutcomeMeansMoney

\* No handler is about to create a quote that has a row, or to record the
\* payment of an order that has one.
LEMMA Bystanders ==
  ASSUME FlowInv, NEW q \in Quote, NEW g \in Handler, handler[g].quote = q
  PROVE  /\ quote[q] # "NONE" => ~At(g, "quoting")
         /\ payment[q] # "NONE" => handler[g].step \notin {"consumed", "charged"}
         /\ payment[q] = "NONE" =>
              handler[g].step \notin {"recorded", "settling", "applying"}
BY DEF FlowInv, QuotingFresh, ChargingAlone, SettlingKnown

LEMMA FlowStep == FlowInv /\ [Next]_vars => FlowInv'
<1> SUFFICES ASSUME FlowInv, [Next]_vars PROVE FlowInv'
  OBVIOUS
<1> USE DEF RowsAgree, HandlersAgree
<1>a. TypeOK /\ TypeOK'
  BY TypeStep DEF FlowInv
<1>b. SUFFICES RowsAgree' /\ HandlersAgree'
  BY <1>a DEF FlowInv
<1> DEFINE Rows == <<quote, order, payment, gateway, voucher, invoice, paymentRef>>
<1>c. UNCHANGED Rows => RowsAgree'
  BY DEF FlowInv, QuoteEndsOnce, PaidIsFulfilled, VoucherMeansMoney,
         PendingTogether, VoucherHasPayment, RefHasPayment
<1>1. ASSUME NEW h \in Handler, CreateQuote(h) PROVE RowsAgree' /\ HandlersAgree'
  <2> DEFINE q == handler[h].quote
  <2>1. q \in Quote /\ quote[q] = "NONE"
    BY <1>1, <1>a, BusyHandler DEF CreateQuote, FlowInv, QuotingFresh
  <2>2. RowsAgree'
    BY <1>1, <1>a, <2>1
    DEF CreateQuote, FlowInv, QuoteEndsOnce, PaidIsFulfilled, VoucherMeansMoney,
        PendingTogether, VoucherHasPayment, RefHasPayment, TypeOK
  <2>3. QuotingFresh'
    <3>1. \A g \in Handler \ {h} : handler'[g] = handler[g]
      BY <1>1, <1>a DEF CreateQuote, Return, TypeOK
    <3>2. handler'[h].step = "idle" /\ handler'[h].quote = NoQuote
      BY <1>1, <1>a DEF CreateQuote, Return, TypeOK, Idle
    <3>3. \A r \in Quote : r # q => quote'[r] = quote[r]
      BY <1>1, <1>a DEF CreateQuote, TypeOK
    <3>4. \A g \in Handler \ {h} : handler[g].quote # q
      BY <1>1 DEF CreateQuote, FlowInv, QuotingFresh
    <3>5. \A g \in Handler : At(g, "quoting") => handler[g].quote \in Quote
      BY <1>a, BusyHandler
    <3> QED
      BY <3>1, <3>2, <3>3, <3>4, <3>5, HandlersAssumption
      DEF FlowInv, QuotingFresh
  <2>4. ChargingAlone' /\ SettlingKnown' /\ OutcomeMeansMoney'
    BY <1>1, <1>a
    DEF CreateQuote, Return, Idle, FlowInv, TypeOK, ChargingAlone,
        SettlingKnown, OutcomeMeansMoney
  <2> QED
    BY <2>2, <2>3, <2>4
<1>2. ASSUME NEW h \in Handler, ConsumeQuote(h) PROVE RowsAgree' /\ HandlersAgree'
  <2> DEFINE q == handler[h].quote
  <2>1. q \in Quote
    BY <1>2, <1>a, BusyHandler DEF ConsumeQuote
  <2>2. CASE quote[q] # "ACTIVE"
    BY <1>2, <1>a, <1>c, <2>2, HandlersAgreeAfterReturn DEF ConsumeQuote
  <2>3. CASE quote[q] = "ACTIVE"
    <3>1. order[q] = "NONE" /\ payment[q] = "NONE"
      BY <2>1, <2>3 DEF FlowInv, QuoteEndsOnce
    <3>2. RowsAgree'
      BY <1>2, <1>a, <2>1, <2>3, <3>1
      DEF ConsumeQuote, FlowInv, QuoteEndsOnce, PaidIsFulfilled,
          VoucherMeansMoney, PendingTogether, VoucherHasPayment, RefHasPayment,
          TypeOK
    <3>3. \A g \in Handler : handler[g].quote = q =>
            handler[g].step \notin {"quoting", "consumed", "charged"}
      BY <2>1, <2>3, <3>1 DEF FlowInv, QuotingFresh, ChargingAlone
    <3>4. /\ quote' = [quote EXCEPT ![q] = "CONSUMED"]
          /\ order' = [order EXCEPT ![q] = "PENDING"]
          /\ Goto(h, "consumed", q, "PENDING")
          /\ UNCHANGED <<payment, gateway>>
      BY <1>2, <2>3 DEF ConsumeQuote
    <3>5. At(h, "checked")
      BY <1>2 DEF ConsumeQuote
    <3>6. QuotingFresh' /\ ChargingAlone'
      BY <1>a, <2>1, <3>1, <3>3, <3>4, <3>5
      DEF Goto, FlowInv, TypeOK, QuotingFresh, ChargingAlone
    <3>7. SettlingKnown' /\ OutcomeMeansMoney'
      BY <1>a, <3>4
      DEF Goto, FlowInv, TypeOK, SettlingKnown, OutcomeMeansMoney
    <3> QED
      BY <3>2, <3>6, <3>7
  <2> QED
    BY <2>2, <2>3
<1>3. ASSUME NEW h \in Handler, Charge(h) \/ ChargeFails(h)
      PROVE  RowsAgree' /\ HandlersAgree'
  <2> DEFINE q == handler[h].quote
  <2>1. q \in Quote /\ payment[q] = "NONE" /\ order[q] = "PENDING"
    BY <1>3, <1>a, BusyHandler DEF Charge, ChargeFails, FlowInv, ChargingAlone
  <2>2. PICK known \in PaymentStatuses \cup {"NONE"} :
          gateway' = [gateway EXCEPT ![q] = known]
    BY <1>3, GatewayAssumption DEF Charge, ChargeFails, PaymentStatuses
  <2>3. RowsAgree'
    BY <1>3, <1>a, <2>1, <2>2
    DEF Charge, ChargeFails, FlowInv, QuoteEndsOnce, PaidIsFulfilled,
        VoucherMeansMoney, PendingTogether, VoucherHasPayment, RefHasPayment,
        TypeOK
  <2>4. \A g \in Handler \ {h} : handler[g].quote = q =>
          handler[g].step \notin {"consumed", "charged", "recorded", "settling",
                                  "applying"}
    BY <1>3, <2>1 DEF Charge, ChargeFails, FlowInv, ChargingAlone, SettlingKnown
  <2>5. UNCHANGED <<quote, order, payment>>
    BY <1>3 DEF Charge, ChargeFails
  <2>6. CASE Return(h)
    BY <1>a, <2>1, <2>2, <2>3, <2>4, <2>5, <2>6, HandlersAssumption
    DEF Return, Idle, FlowInv, TypeOK, HandlerStates, QuotingFresh,
        ChargingAlone, SettlingKnown, OutcomeMeansMoney
  <2>7. CASE \E reply \in ChargeReplies :
               /\ gateway' = [gateway EXCEPT ![q] = reply]
               /\ Goto(h, "charged", q, reply)
    <3>1. PICK reply \in ChargeReplies :
            /\ gateway' = [gateway EXCEPT ![q] = reply]
            /\ Goto(h, "charged", q, reply)
      BY <2>7
    <3>2. At(h, "consumed")
      BY <1>3 DEF Charge, ChargeFails
    <3>3. HandlersAgree'
      BY <1>a, <2>1, <2>4, <2>5, <3>1, <3>2
      DEF Goto, FlowInv, TypeOK, QuotingFresh, ChargingAlone, SettlingKnown,
          OutcomeMeansMoney
    <3> QED
      BY <2>3, <3>3
  <2> QED
    BY <1>3, <2>6, <2>7 DEF Charge, ChargeFails
<1>4. ASSUME NEW h \in Handler, RecordPayment(h) PROVE RowsAgree' /\ HandlersAgree'
  <2> DEFINE q == handler[h].quote
  <2>1. /\ q \in Quote /\ payment[q] = "NONE" /\ order[q] = "PENDING"
        /\ handler[h].step \in {"consumed", "charged"}
    BY <1>4, <1>a, BusyHandler
    DEF RecordPayment, RecordCharge, RecordTillPayment, FlowInv, ChargingAlone
  <2>2. PICK status \in PaymentStatuses, outcome \in PaymentStatuses :
          /\ payment' = [payment EXCEPT ![q] = status]
          /\ Goto(h, "recorded", q, outcome)
          /\ outcome = "PAID" => q \in TillQuotes \/ gateway[q] = "PAID"
    <3>1. "PENDING" \in PaymentStatuses /\ "PAID" \in PaymentStatuses
      BY DEF PaymentStatuses
    <3>2. handler[h].outcome \in PaymentStatuses
      BY <1>a, <2>1, BusyHandler
    <3> QED
      BY <1>4, <3>1, <3>2
      DEF RecordPayment, RecordCharge, RecordTillPayment, FlowInv,
          OutcomeMeansMoney
  <2>3. RowsAgree'
    BY <1>4, <1>a, <2>1, <2>2
    DEF RecordPayment, RecordCharge, RecordTillPayment, FlowInv, QuoteEndsOnce,
        PaidIsFulfilled, VoucherMeansMoney, PendingTogether, VoucherHasPayment,
        RefHasPayment, TypeOK, PaymentStatuses
  <2>4. \A g \in Handler \ {h} : handler[g].quote = q =>
          handler[g].step \notin {"consumed", "charged", "recorded", "settling",
                                  "applying"}
    BY <2>1 DEF FlowInv, ChargingAlone, SettlingKnown
  <2>5. HandlersAgree'
    BY <1>4, <1>a, <2>1, <2>2, <2>4
    DEF RecordPayment, RecordCharge, RecordTillPayment, Goto, FlowInv, TypeOK,
        QuotingFresh, ChargingAlone, SettlingKnown, OutcomeMeansMoney,
        PaymentStatuses
  <2> QED
    BY <2>3, <2>5
<1>5. ASSUME NEW h \in Handler, LinkPayment(h) PROVE RowsAgree' /\ HandlersAgree'
  <2> DEFINE q == handler[h].quote
  <2>1. q \in Quote /\ payment[q] # "NONE"
    BY <1>5, <1>a, BusyHandler DEF LinkPayment, FlowInv, SettlingKnown
  <2>2. RowsAgree'
    BY <1>5, <2>1
    DEF LinkPayment, FlowInv, QuoteEndsOnce, PaidIsFulfilled,
        VoucherMeansMoney, PendingTogether, VoucherHasPayment, RefHasPayment
  <2>3. HandlersAgree'
    <3>1. CASE handler[h].outcome = "PAID"
      <4>1. q \in TillQuotes \/ gateway[q] = "PAID"
        BY <1>5, <3>1 DEF LinkPayment, FlowInv, OutcomeMeansMoney
      <4>2. quote[q] # "NONE"
        BY <2>1 DEF FlowInv, QuoteEndsOnce
      <4> QED
        BY <1>5, <1>a, <2>1, <3>1, <4>1, <4>2
        DEF LinkPayment, Goto, FlowInv, TypeOK, QuotingFresh, ChargingAlone,
            SettlingKnown, OutcomeMeansMoney
    <3>2. CASE handler[h].outcome # "PAID"
      BY <1>5, <3>2, HandlersAgreeAfterReturn DEF LinkPayment
    <3> QED
      BY <3>1, <3>2
  <2> QED
    BY <2>2, <2>3
<1>6. ASSUME NEW h \in Handler, SettleRead(h) PROVE RowsAgree' /\ HandlersAgree'
  <2> DEFINE q == handler[h].quote
  <2>1. q \in Quote /\ payment[q] # "NONE" /\ handler[h].outcome # "PENDING"
    BY <1>6, <1>a, BusyHandler DEF SettleRead, FlowInv, SettlingKnown
  <2>2. RowsAgree'
    BY <1>6, <1>c DEF SettleRead
  <2>3. CASE SettleApplies(q, handler[h].outcome)
    <3>1. quote[q] # "NONE"
      BY <2>1 DEF FlowInv, QuoteEndsOnce
    <3> QED
      BY <1>6, <1>a, <2>1, <2>2, <2>3, <3>1
      DEF SettleRead, FlowInv, TypeOK, QuotingFresh, ChargingAlone,
          SettlingKnown, OutcomeMeansMoney
  <2>4. CASE ~SettleApplies(q, handler[h].outcome)
    BY <1>6, <2>2, <2>4, HandlersAgreeAfterReturn DEF SettleRead
  <2> QED
    BY <2>3, <2>4
<1>7. ASSUME NEW h \in Handler, SettleApply(h) PROVE RowsAgree' /\ HandlersAgree'
  <2> DEFINE q == handler[h].quote
             outcome == handler[h].outcome
  <2>1. /\ q \in Quote /\ payment[q] # "NONE"
        /\ outcome \in PaymentStatuses /\ outcome # "PENDING"
    BY <1>7, <1>a, BusyHandler DEF SettleApply, FlowInv, SettlingKnown
  <2>2. order[q] # "NONE" /\ quote[q] = "CONSUMED"
    BY <2>1 DEF FlowInv, QuoteEndsOnce
  <2>3. /\ payment' = [payment EXCEPT ![q] = outcome]
        /\ order' = [order EXCEPT ![q] = statusToOrder(outcome)]
        /\ Return(h)
        /\ UNCHANGED <<quote, gateway, paymentRef>>
    BY <1>7 DEF SettleApply
  <2>4. /\ statusToOrder(outcome) \in {"PAID", "EXPIRED", "FAILED"}
        /\ statusToOrder(outcome) = "PAID" <=> outcome = "PAID"
    BY DEF statusToOrder
  <2>5. outcome = "PAID" =>
          /\ voucher' = voucher \cup {q} /\ invoice' = invoice \cup {q}
          /\ q \in TillQuotes \/ gateway[q] = "PAID"
    BY <1>7 DEF SettleApply, Fulfil, FlowInv, OutcomeMeansMoney
  <2>6. outcome # "PAID" => UNCHANGED <<voucher, invoice>>
    BY <1>7 DEF SettleApply
  <2>7. RowsAgree'
    <3>1. QuoteEndsOnce'
      BY <1>a, <2>1, <2>2, <2>3, <2>4 DEF FlowInv, QuoteEndsOnce, TypeOK
    <3>2. PaidIsFulfilled' /\ VoucherMeansMoney'
      BY <1>a, <2>1, <2>3, <2>4, <2>5, <2>6
      DEF FlowInv, PaidIsFulfilled, VoucherMeansMoney, TypeOK
    <3>3. PendingTogether' /\ VoucherHasPayment' /\ RefHasPayment'
      BY <1>a, <2>1, <2>3, <2>5, <2>6
      DEF FlowInv, PendingTogether, VoucherHasPayment, RefHasPayment, TypeOK,
          PaymentStatuses
    <3> QED
      BY <3>1, <3>2, <3>3
  <2>8. \A g \in Handler : handler[g].quote = q =>
          handler[g].step \notin {"consumed", "charged"}
    BY <2>1 DEF FlowInv, ChargingAlone
  <2>9. QuotingFresh' /\ OutcomeMeansMoney'
    BY <1>a, <2>3, HandlersAssumption
    DEF Return, Idle, FlowInv, TypeOK, HandlerStates, QuotingFresh,
        OutcomeMeansMoney
  <2>10. ChargingAlone' /\ SettlingKnown'
    BY <1>a, <2>1, <2>3, <2>8
    DEF Return, Idle, FlowInv, TypeOK, ChargingAlone, SettlingKnown,
        PaymentStatuses
  <2> QED
    BY <2>7, <2>9, <2>10
<1>8. ASSUME NEW h \in Handler, SettleAborts(h) \/ Crash(h)
      PROVE  RowsAgree' /\ HandlersAgree'
  BY <1>8, <1>c, HandlersAgreeAfterReturn DEF SettleAborts, Crash
<1>9. ASSUME NEW h \in Handler, ExpireQuote(h) PROVE RowsAgree' /\ HandlersAgree'
  <2> DEFINE q == handler[h].quote
  <2>1. q \in Quote
    BY <1>9, <1>a, BusyHandler DEF ExpireQuote
  <2>2. CASE UNCHANGED quote
    BY <1>9, <1>c, <2>2, HandlersAgreeAfterReturn DEF ExpireQuote
  <2>3. CASE quote[q] = "ACTIVE" /\ quote' = [quote EXCEPT ![q] = "EXPIRED"]
    <3>1. order[q] = "NONE" /\ payment[q] = "NONE"
      BY <2>1, <2>3 DEF FlowInv, QuoteEndsOnce
    <3>2. RowsAgree'
      BY <1>9, <1>a, <2>1, <2>3, <3>1
      DEF ExpireQuote, FlowInv, QuoteEndsOnce, PaidIsFulfilled,
          VoucherMeansMoney, PendingTogether, VoucherHasPayment, RefHasPayment,
          TypeOK
    <3>3. \A g \in Handler : At(g, "quoting") => handler[g].quote # q
      BY <2>3 DEF FlowInv, QuotingFresh
    <3>4. QuotingFresh'
      BY <1>9, <1>a, <2>1, <2>3, <3>3, HandlersAssumption
      DEF ExpireQuote, Return, Idle, FlowInv, TypeOK, HandlerStates,
          QuotingFresh
    <3>5. ChargingAlone' /\ SettlingKnown' /\ OutcomeMeansMoney'
      BY <1>9, <1>a
      DEF ExpireQuote, Return, Idle, FlowInv, TypeOK, ChargingAlone,
          SettlingKnown, OutcomeMeansMoney
    <3> QED
      BY <3>2, <3>4, <3>5
  <2> QED
    BY <1>9, <2>2, <2>3 DEF ExpireQuote
<1>10. ASSUME NEW h \in Handler, NEW q \in Quote, BeginQuote(h, q)
       PROVE  RowsAgree' /\ HandlersAgree'
  <2>1. RowsAgree'
    BY <1>10, <1>c DEF BeginQuote
  <2>2. HandlersAgree'
    BY <1>10, <1>a
    DEF BeginQuote, Goto, FlowInv, TypeOK, QuotingFresh, ChargingAlone,
        SettlingKnown, OutcomeMeansMoney
  <2> QED
    BY <2>1, <2>2
<1>11. ASSUME NEW h \in Handler, NEW q \in Quote,
              BeginCheckout(h, q) \/ FindOverdueQuote(h, q)
       PROVE  RowsAgree' /\ HandlersAgree'
  <2>1. RowsAgree'
    BY <1>11, <1>c DEF BeginCheckout, FindOverdueQuote
  <2>2. quote[q] = "ACTIVE"
    BY <1>11 DEF BeginCheckout, FindOverdueQuote
  <2>3. PICK step \in {"checked", "expiring"}, outcome \in PaymentStatuses :
          Goto(h, step, q, outcome) /\ UNCHANGED <<quote, order, payment, gateway>>
    BY <1>11 DEF BeginCheckout, FindOverdueQuote, PaymentStatuses
  <2>4. HandlersAgree'
    BY <1>a, <2>2, <2>3
    DEF Goto, FlowInv, TypeOK, QuotingFresh, ChargingAlone, SettlingKnown,
        OutcomeMeansMoney
  <2> QED
    BY <2>1, <2>4
<1>12. ASSUME NEW h \in Handler, NEW q \in Quote,
              Webhook(h, q) \/ PollPayment(h, q) \/ ExpireOrder(h, q)
       PROVE  RowsAgree' /\ HandlersAgree'
  <2>1. RowsAgree'
    BY <1>12, <1>c DEF Webhook, PollPayment, ExpireOrder
  <2>2. payment[q] # "NONE" /\ quote[q] # "NONE"
    BY <1>12
    DEF Webhook, PollPayment, ExpireOrder, FlowInv, RefHasPayment, QuoteEndsOnce
  <2>3. PICK outcome \in PaymentStatuses \ {"PENDING"} :
          /\ Goto(h, "settling", q, outcome)
          /\ outcome = "PAID" => gateway[q] = "PAID"
          /\ UNCHANGED <<quote, order, payment, gateway>>
    BY <1>12
    DEF Webhook, PollPayment, ExpireOrder, PaymentStatuses, GatewayDone,
        isTerminalPaymentStatus
  <2>4. HandlersAgree'
    BY <1>a, <2>2, <2>3
    DEF Goto, FlowInv, TypeOK, QuotingFresh, ChargingAlone, SettlingKnown,
        OutcomeMeansMoney
  <2> QED
    BY <2>1, <2>4
<1>13. ASSUME NEW q \in Quote, GatewayDecides(q) PROVE RowsAgree' /\ HandlersAgree'
  BY <1>13, <1>a
  DEF GatewayDecides, FlowInv, TypeOK, QuoteEndsOnce, PaidIsFulfilled,
      VoucherMeansMoney, PendingTogether, VoucherHasPayment, RefHasPayment,
      QuotingFresh, ChargingAlone, SettlingKnown, OutcomeMeansMoney
<1>14. CASE UNCHANGED <<Rows, handler>>
  BY <1>c, <1>14
  DEF FlowInv, QuotingFresh, ChargingAlone, SettlingKnown, OutcomeMeansMoney
<1> QED
  BY <1>1, <1>2, <1>3, <1>4, <1>5, <1>6, <1>7, <1>8, <1>9, <1>10, <1>11, <1>12,
     <1>13, <1>14
  DEF Next, Continue, vars, QuoteTtlPasses, PaymentTimeoutPasses,
      ChangeEventStatus, AdjustStock, ArchiveProduct, Handler

LEMMA FlowCorrect == Spec => []FlowInv
<1>1. FlowInv /\ [Next]_vars => FlowInv'
  BY FlowStep
<1> QED
  BY FlowInit, <1>1, PTL DEF Spec

(* Any number of taps on "pay", retries of the till and runs of the expiry  *)
(* job may race for a quote: an order exists for it exactly when it was     *)
(* consumed, and a payment only for an order (orders.service.ts,            *)
(* consumeQuoteIntoOrder; expiry.service.ts, expireQuotes).                 *)
THEOREM EveryQuoteEndsOnce == Spec => []QuoteEndsOnce
<1>1. FlowInv => QuoteEndsOnce
  BY DEF FlowInv
<1> QED
  BY <1>1, FlowCorrect, PTL

(* However many settlements of one payment overlap at READ COMMITTED, the   *)
(* order, the payment, the voucher and the invoice are written together.    *)
THEOREM EveryPaidOrderIsFulfilled == Spec => []PaidIsFulfilled
<1>1. FlowInv => PaidIsFulfilled
  BY DEF FlowInv
<1> QED
  BY <1>1, FlowCorrect, PTL

(* No webhook, poll, retry or crash makes a voucher out of a payment that   *)
(* the gateway does not have and the till did not take.                     *)
THEOREM EveryVoucherIsPaidFor == Spec => []VoucherMeansMoney
<1>1. FlowInv => VoucherMeansMoney
  BY DEF FlowInv
<1> QED
  BY <1>1, FlowCorrect, PTL

-----------------------------------------------------------------------------
(* What the stock counters are worth.  Two settlements of one order that   *)
(* overlap may both be applied; raced remembers those orders.  Apart from  *)
(* them the counters equal what the live reservations and the paid orders  *)
(* add up to, no settlement fails half-way, and the checkout implements    *)
(* the reservation ledger of StockLedger.                                  *)
-----------------------------------------------------------------------------
(* Counting units.                                                         *)

LEMMA UnitsFinite ==
  ASSUME NEW S \in SUBSET Quote, NEW p \in Product
  PROVE  IsFiniteSet(Units(S, p)) /\ Cardinality(Units(S, p)) \in Nat
<1>1. IsFiniteSet(S)
  BY QuotesAssumption, FS_Subset
<1>2. MaxQty \in Int /\ 1 \in Int
  BY BasketAssumption
<1>3. IsFiniteSet(1..MaxQty)
  BY <1>2, FS_Interval
<1>4. IsFiniteSet(S \X (1..MaxQty))
  BY <1>1, <1>3, FS_Product
<1>5. Units(S, p) \in SUBSET (S \X (1..MaxQty))
  BY DEF Units
<1>6. IsFiniteSet(Units(S, p))
  BY <1>4, <1>5, FS_Subset
<1> QED
  BY <1>6, FS_CardinalityType

\* One quote counts for what its basket says.
LEMMA UnitsOfOne ==
  ASSUME NEW q \in Quote, NEW p \in Product
  PROVE  Cardinality(Units({q}, p)) = Basket[q][p]
<1> DEFINE n == Basket[q][p]
           f == [i \in 1..n |-> <<q, i>>]
<1>1. n \in Nat /\ MaxQty \in Nat /\ n <= MaxQty
  BY BasketType
<1>2. Units({q}, p) = {<<q, i>> : i \in 1..n}
  BY <1>1 DEF Units
<1>3. f \in Bijection(1..n, Units({q}, p))
  BY <1>2 DEF Bijection, Injection, Surjection, IsInjective
<1>4. ExistsBijection(1..n, Units({q}, p))
  BY <1>3 DEF ExistsBijection
<1> QED
  BY <1>1, <1>4, FS_CountingElements

\* Counting is additive.
LEMMA UnitsAdd ==
  ASSUME NEW S \in SUBSET Quote, NEW q \in Quote, q \notin S, NEW p \in Product
  PROVE  Cardinality(Units(S \cup {q}, p)) =
           Cardinality(Units(S, p)) + Basket[q][p]
<1>1. /\ Units(S \cup {q}, p) = Units(S, p) \cup Units({q}, p)
      /\ Units(S, p) \cap Units({q}, p) = {}
  BY DEF Units
<1>2. IsFiniteSet(Units(S, p)) /\ Cardinality(Units(S, p)) \in Nat
  BY UnitsFinite
<1>3. IsFiniteSet(Units({q}, p))
  BY UnitsFinite
<1>4. Cardinality(Units(S, p) \cup Units({q}, p)) =
        Cardinality(Units(S, p)) + Cardinality(Units({q}, p)) - Cardinality({})
  BY <1>1, <1>2, <1>3, FS_Union
<1>5. Cardinality({}) = 0 /\ Cardinality(Units({q}, p)) = Basket[q][p]
  BY FS_EmptySet, UnitsOfOne
<1>6. Cardinality(Units(S \cup {q}, p)) =
        Cardinality(Units(S, p)) + Cardinality(Units({q}, p)) - Cardinality({})
  BY <1>1, <1>4
<1> QED
  BY <1>2, <1>5, <1>6, BasketType

LEMMA UnitsRemove ==
  ASSUME NEW S \in SUBSET Quote, NEW q \in S, NEW p \in Product
  PROVE  /\ Cardinality(Units(S, p)) >= Basket[q][p]
         /\ Cardinality(Units(S \ {q}, p)) =
              Cardinality(Units(S, p)) - Basket[q][p]
<1>1. S \ {q} \in SUBSET Quote /\ q \notin S \ {q} /\ (S \ {q}) \cup {q} = S
  OBVIOUS
<1>2. Cardinality(Units(S, p)) =
        Cardinality(Units(S \ {q}, p)) + Basket[q][p]
  BY <1>1, UnitsAdd
<1> QED
  BY <1>1, <1>2, UnitsFinite, BasketType

-----------------------------------------------------------------------------
(* What a settlement has read, and when it may be stale.                   *)

USE DEF At, Handler, database, stockVars, quoteVars, orderVars, paidVars

\* What a settlement has read is still so when it writes, unless another one
\* that had the same order open has written meanwhile.
SettlingFresh ==
  \A h \in Handler : At(h, "applying") /\ handler[h].quote \notin raced =>
    /\ SettleApplies(handler[h].quote, handler[h].outcome)
    /\ handler[h].voucherSeen <=> handler[h].quote \in voucher

\* An order that two settlements had open has an outcome.
RacedEnded == \A q \in raced : order[q] \in {"PAID", "FAILED", "EXPIRED"}

RaceInv ==
  /\ FlowInv
  /\ SettlingFresh /\ RacedEnded
  /\ VoucherMeansPaidOrder /\ LedgerExact

LEMMA RaceInit == Init => RaceInv
<1> SUFFICES ASSUME Init PROVE RaceInv
  OBVIOUS
<1>1. FlowInv
  BY FlowInit
<1>2. SettlingFresh /\ RacedEnded /\ VoucherMeansPaidOrder
  BY DEF Init, Idle, SettlingFresh, RacedEnded, VoucherMeansPaidOrder
<1>3. Held = {} /\ Sold = {}
  BY DEF Init, Held, Sold, Holds
<1>4. \A p \in Product : Cardinality(Units({}, p)) = 0
  BY FS_EmptySet DEF Units
<1>5. LedgerExact
  BY <1>3, <1>4 DEF Init, LedgerExact
<1> QED
  BY <1>1, <1>2, <1>5 DEF RaceInv

\* An order being settled is pending, so its units are reserved.
LEMMA SettlingHeld ==
  ASSUME RaceInv, NEW h \in Handler, At(h, "applying"),
         handler[h].quote \notin raced
  PROVE  LET q == handler[h].quote IN
         /\ q \in Held /\ q \notin Sold
         /\ payment[q] = "PENDING" /\ order[q] = "PENDING"
         /\ quote[q] = "CONSUMED" /\ q \notin voucher
BY BusyHandler
DEF RaceInv, FlowInv, SettlingFresh, SettleApplies, PendingTogether, Held,
    Sold, Holds, QuoteEndsOnce, VoucherMeansPaidOrder

LEMMA HeldIsCovered ==
  ASSUME RaceInv, NEW q \in Held,
         \A p \in Product : Basket[q][p] > 0 => Clean(p)
  PROVE  CoveredByReserved(q)
<1> SUFFICES ASSUME NEW p \in Product PROVE reserved[p] >= Basket[q][p]
  BY DEF CoveredByReserved
<1>1. Held \in SUBSET Quote
  BY DEF Held
<1>2. Cardinality(Units(Held, p)) >= Basket[q][p]
  BY <1>1, UnitsRemove
<1>3. CASE Basket[q][p] > 0
  BY <1>2, <1>3 DEF RaceInv, LedgerExact
<1>4. CASE ~(Basket[q][p] > 0)
  <2>1. Basket[q][p] \in Nat /\ reserved[p] \in Nat
    BY <1>1, BasketType DEF RaceInv, FlowInv, TypeOK, StockLevels
  <2> QED
    BY <1>4, <2>1
<1> QED
  BY <1>3, <1>4

LEMMA SettlingCommits == RaceInv => SettleNeverAborts
BY SettlingHeld, HeldIsCovered DEF SettleNeverAborts, SettleCommits

-----------------------------------------------------------------------------
(* What a step does to the ledger.                                         *)

LEMMA LedgerSame ==
  ASSUME LedgerExact, Held' = Held, Sold' = Sold,
         UNCHANGED <<reserved, sold, raced>>
  PROVE  LedgerExact'
BY DEF LedgerExact, Clean

LEMMA LedgerReserve ==
  ASSUME LedgerExact, TypeOK, NEW q \in Quote, q \notin Held, reserve(q),
         Held' = Held \cup {q}, Sold' = Sold, UNCHANGED raced
  PROVE  LedgerExact'
<1>1. Held \in SUBSET Quote
  BY DEF Held
<1>2. \A p \in Product : Cardinality(Units(Held \cup {q}, p)) =
                           Cardinality(Units(Held, p)) + Basket[q][p]
  BY <1>1, UnitsAdd
<1> QED
  BY <1>2 DEF LedgerExact, Clean, reserve

LEMMA LedgerRelease ==
  ASSUME LedgerExact, TypeOK, NEW q \in Held, release(q),
         Held' = Held \ {q}, Sold' = Sold, UNCHANGED raced
  PROVE  LedgerExact'
<1>1. Held \in SUBSET Quote
  BY DEF Held
<1>2. \A p \in Product : Cardinality(Units(Held \ {q}, p)) =
                           Cardinality(Units(Held, p)) - Basket[q][p]
  BY <1>1, UnitsRemove
<1> QED
  BY <1>2 DEF LedgerExact, Clean, release

LEMMA LedgerCommit ==
  ASSUME LedgerExact, TypeOK, NEW q \in Held, q \notin Sold, commit(q),
         Held' = Held \ {q}, Sold' = Sold \cup {q}, UNCHANGED raced
  PROVE  LedgerExact'
<1>1. Held \in SUBSET Quote /\ Sold \in SUBSET Quote /\ q \in Quote
  BY DEF Held, Sold
<1>2. \A p \in Product : Cardinality(Units(Held \ {q}, p)) =
                           Cardinality(Units(Held, p)) - Basket[q][p]
  BY <1>1, UnitsRemove
<1>3. \A p \in Product : Cardinality(Units(Sold \cup {q}, p)) =
                           Cardinality(Units(Sold, p)) + Basket[q][p]
  BY <1>1, UnitsAdd
<1> QED
  BY <1>2, <1>3 DEF LedgerExact, Clean, commit

\* A settlement of an order that two had open says nothing about the products
\* of that order, and leaves the others alone.
LEMMA LedgerElsewhere ==
  ASSUME LedgerExact, TypeOK, NEW q \in Quote, release(q) \/ commit(q),
         raced \subseteq raced', q \in raced',
         Held' \ {q} = Held \ {q}, Sold' \ {q} = Sold \ {q}
  PROVE  LedgerExact'
<1> SUFFICES ASSUME NEW p \in Product, Clean(p)'
             PROVE  /\ reserved'[p] = Cardinality(Units(Held', p))
                    /\ sold'[p] = Cardinality(Units(Sold', p))
  BY DEF LedgerExact
<1>1. Clean(p) /\ Basket[q][p] = 0
  BY DEF Clean
<1>2. ASSUME NEW S \in SUBSET Quote
      PROVE  Units(S, p) = Units(S \ {q}, p)
  BY <1>1, BasketType DEF Units
<1>3. Held \in SUBSET Quote /\ Sold \in SUBSET Quote
      /\ Held' \in SUBSET Quote /\ Sold' \in SUBSET Quote
  BY DEF Held, Sold
<1>4. Units(Held', p) = Units(Held, p) /\ Units(Sold', p) = Units(Sold, p)
  BY <1>2, <1>3
<1>5. reserved'[p] = reserved[p] /\ sold'[p] = sold[p]
  BY <1>1 DEF release, commit, TypeOK, StockLevels
<1> QED
  BY <1>1, <1>4, <1>5 DEF LedgerExact

\* A new quote takes its units.
LEMMA QuoteTakes ==
  ASSUME RaceInv, NEW h \in Handler, CreateQuote(h),
         quote' = [quote EXCEPT ![handler[h].quote] = "ACTIVE"]
  PROVE  LET q == handler[h].quote IN
         /\ q \in Quote /\ q \notin Held /\ quote[q] = "NONE"
         /\ order[q] = "NONE"
         /\ Held' = Held \cup {q} /\ Sold' = Sold
<1> DEFINE q == handler[h].quote
<1>1. TypeOK /\ q \in Quote /\ quote[q] = "NONE"
  BY BusyHandler DEF RaceInv, FlowInv, CreateQuote, QuotingFresh
<1>2. order[q] = "NONE"
  BY <1>1 DEF RaceInv, FlowInv, QuoteEndsOnce
<1>3. UNCHANGED order
  BY DEF CreateQuote
<1> QED
  BY <1>1, <1>2, <1>3 DEF Held, Sold, Holds, TypeOK

\* Paying for a quote keeps its units where they are.
LEMMA OrderKeeps ==
  ASSUME RaceInv, NEW h \in Handler, ConsumeQuote(h)
  PROVE  Held' = Held /\ Sold' = Sold
<1> DEFINE q == handler[h].quote
<1>1. TypeOK /\ q \in Quote
  BY BusyHandler DEF RaceInv, FlowInv, ConsumeQuote
<1>2. CASE UNCHANGED <<quote, order>>
  BY <1>2 DEF Held, Sold, Holds
<1>3. CASE /\ quote[q] = "ACTIVE"
           /\ quote' = [quote EXCEPT ![q] = "CONSUMED"]
           /\ order' = [order EXCEPT ![q] = "PENDING"]
  <2>1. order[q] = "NONE"
    BY <1>1, <1>3 DEF RaceInv, FlowInv, QuoteEndsOnce
  <2> QED
    BY <1>1, <1>3, <2>1 DEF Held, Sold, Holds, TypeOK
<1> QED
  BY <1>2, <1>3 DEF ConsumeQuote

\* A quote that expires gives its units back.
LEMMA ExpiryReturns ==
  ASSUME RaceInv, NEW h \in Handler, ExpireQuote(h),
         quote[handler[h].quote] = "ACTIVE",
         quote' = [quote EXCEPT ![handler[h].quote] = "EXPIRED"]
  PROVE  LET q == handler[h].quote IN
         /\ q \in Held /\ order[q] = "NONE"
         /\ Held' = Held \ {q} /\ Sold' = Sold
<1> DEFINE q == handler[h].quote
<1>1. TypeOK /\ q \in Quote
  BY BusyHandler DEF RaceInv, FlowInv, ExpireQuote
<1>2. order[q] = "NONE"
  BY <1>1 DEF RaceInv, FlowInv, QuoteEndsOnce
<1>3. UNCHANGED order
  BY DEF ExpireQuote
<1> QED
  BY <1>1, <1>2, <1>3 DEF Held, Sold, Holds, TypeOK

\* A settlement moves its own order only.
LEMMA SettlementMovesOne ==
  ASSUME RaceInv, NEW h \in Handler, SettleApply(h)
  PROVE  LET q == handler[h].quote IN
         /\ q \in Quote
         /\ Held' \ {q} = Held \ {q} /\ Sold' \ {q} = Sold \ {q}
<1> DEFINE q == handler[h].quote
<1>1. TypeOK /\ q \in Quote
  BY BusyHandler DEF RaceInv, FlowInv, SettleApply
<1>2. /\ order' = [order EXCEPT ![q] = statusToOrder(handler[h].outcome)]
      /\ UNCHANGED quote
  BY DEF SettleApply
<1>3. \A r \in Quote \ {q} : order'[r] = order[r] /\ quote'[r] = quote[r]
  BY <1>1, <1>2 DEF TypeOK
<1>4. Held' \ {q} = Held \ {q}
  BY <1>3 DEF Held, Holds
<1>5. Sold' \ {q} = Sold \ {q}
  BY <1>3 DEF Sold
<1> QED
  BY <1>1, <1>4, <1>5

\* A settlement whose read still holds turns a pending order into one with
\* the given outcome.
LEMMA SettlementMoves ==
  ASSUME RaceInv, NEW h \in Handler, SettleApply(h),
         handler[h].quote \notin raced
  PROVE  LET q == handler[h].quote
             paid == handler[h].outcome = "PAID"
         IN
         /\ q \in Held /\ q \notin Sold
         /\ Held' = Held \ {q}
         /\ Sold' = IF paid THEN Sold \cup {q} ELSE Sold
<1> DEFINE q == handler[h].quote
           outcome == handler[h].outcome
<1>1. /\ q \in Held /\ q \notin Sold
      /\ quote[q] = "CONSUMED" /\ order[q] = "PENDING"
  BY SettlingHeld DEF SettleApply
<1>2. /\ order' = [order EXCEPT ![q] = statusToOrder(outcome)]
      /\ UNCHANGED quote
  BY DEF SettleApply
<1>3. /\ statusToOrder(outcome) \in {"PAID", "EXPIRED", "FAILED"}
      /\ statusToOrder(outcome) = "PAID" <=> outcome = "PAID"
  BY DEF statusToOrder
<1> QED
  BY <1>1, <1>2, <1>3 DEF RaceInv, FlowInv, TypeOK, Held, Sold, Holds

-----------------------------------------------------------------------------
(* The invariant holds of every step.                                      *)

\* What each step does to the counters.
LEMMA LedgerStep ==
  ASSUME RaceInv, [Next]_vars
  PROVE  LedgerExact'
<1>0. LedgerExact /\ TypeOK
  BY DEF RaceInv, FlowInv
<1>1. ASSUME NEW h \in Handler, CreateQuote(h) PROVE LedgerExact'
  <2>1. CASE UNCHANGED <<stockVars, quote>>
    BY <1>0, <1>1, <2>1, LedgerSame DEF CreateQuote, Held, Sold, Holds
  <2>2. CASE /\ reserve(handler[h].quote)
             /\ quote' = [quote EXCEPT ![handler[h].quote] = "ACTIVE"]
    BY <1>0, <1>1, <2>2, QuoteTakes, LedgerReserve DEF CreateQuote
  <2> QED
    BY <1>1, <2>1, <2>2 DEF CreateQuote
<1>2. ASSUME NEW h \in Handler, ConsumeQuote(h) PROVE LedgerExact'
  BY <1>0, <1>2, OrderKeeps, LedgerSame DEF ConsumeQuote
<1>3. ASSUME NEW h \in Handler, ExpireQuote(h) PROVE LedgerExact'
  <2>1. CASE UNCHANGED <<stockVars, quote>>
    BY <1>0, <1>3, <2>1, LedgerSame DEF ExpireQuote, Held, Sold, Holds
  <2>2. CASE /\ quote[handler[h].quote] = "ACTIVE"
             /\ quote' = [quote EXCEPT ![handler[h].quote] = "EXPIRED"]
             /\ release(handler[h].quote)
    BY <1>0, <1>3, <2>2, ExpiryReturns, LedgerRelease DEF ExpireQuote
  <2> QED
    BY <1>3, <2>1, <2>2 DEF ExpireQuote
<1>4. ASSUME NEW h \in Handler, SettleApply(h) PROVE LedgerExact'
  <2> DEFINE q == handler[h].quote
  <2>1. CASE q \in raced'
    <3>1. raced \subseteq raced' /\ (release(q) \/ commit(q))
      BY <1>4 DEF SettleApply
    <3> QED
      BY <1>0, <1>4, <2>1, <3>1, SettlementMovesOne, LedgerElsewhere
  <2>2. CASE q \notin raced'
    <3>1. UNCHANGED raced /\ q \notin raced
      BY <1>4, <2>2 DEF SettleApply
    <3>2. CASE handler[h].outcome = "PAID"
      BY <1>0, <1>4, <3>1, <3>2, SettlementMoves, LedgerCommit DEF SettleApply
    <3>3. CASE handler[h].outcome # "PAID"
      BY <1>0, <1>4, <3>1, <3>3, SettlementMoves, LedgerRelease DEF SettleApply
    <3> QED
      BY <3>2, <3>3
  <2> QED
    BY <2>1, <2>2
<1>5. CASE UNCHANGED <<quote, order, reserved, sold, raced>>
  BY <1>0, <1>5, LedgerSame DEF Held, Sold, Holds
<1> QED
  BY <1>1, <1>2, <1>3, <1>4, <1>5
  DEF Next, Continue, vars, Charge, ChargeFails, RecordPayment, RecordCharge,
      RecordTillPayment, LinkPayment, SettleRead, SettleAborts, Crash,
      BeginQuote, BeginCheckout, Webhook, PollPayment, ExpireOrder,
      FindOverdueQuote, QuoteTtlPasses, PaymentTimeoutPasses, GatewayDecides,
      ChangeEventStatus, AdjustStock, ArchiveProduct

\* What settlements have read, over every step.
LEMMA SettlingStep ==
  ASSUME RaceInv, [Next]_vars
  PROVE  SettlingFresh' /\ RacedEnded' /\ VoucherMeansPaidOrder'
<1> DEFINE Goal == SettlingFresh' /\ RacedEnded' /\ VoucherMeansPaidOrder'
           Settled == <<payment, order, voucher, raced>>
<1>0. /\ TypeOK /\ SettlingFresh /\ RacedEnded /\ VoucherMeansPaidOrder
      /\ FlowInv
  BY DEF RaceInv, FlowInv
\* The rows that settlements write stay as they are, and no handler starts
\* to write.
<1>1. ASSUME UNCHANGED Settled,
             \A g \in Handler : handler'[g].step = "applying" =>
               handler'[g] = handler[g]
      PROVE  Goal
  BY <1>0, <1>1
  DEF SettlingFresh, SettleApplies, RacedEnded, VoucherMeansPaidOrder
<1>2. ASSUME NEW h \in Handler, Return(h), UNCHANGED Settled
      PROVE  Goal
  BY <1>0, <1>1, <1>2 DEF Return, Idle, TypeOK
<1>3. ASSUME NEW h \in Handler, NEW q, NEW step \in Steps \ {"applying"},
             NEW outcome, Goto(h, step, q, outcome), UNCHANGED Settled
      PROVE  Goal
  BY <1>0, <1>1, <1>3 DEF Goto, TypeOK
<1>4. ASSUME NEW h \in Handler, CreateQuote(h) PROVE Goal
  BY <1>2, <1>4 DEF CreateQuote
\* Neither consuming a quote nor recording its payment touches an order that
\* is being settled.
<1>5. ASSUME NEW h \in Handler, ConsumeQuote(h) PROVE Goal
  <2> DEFINE q == handler[h].quote
  <2>1. CASE quote[q] # "ACTIVE"
    BY <1>2, <1>5, <2>1 DEF ConsumeQuote
  <2>2. CASE quote[q] = "ACTIVE"
    <3>1. q \in Quote /\ order[q] = "NONE"
      BY <1>0, <1>5, <2>2, BusyHandler DEF ConsumeQuote, FlowInv, QuoteEndsOnce
    <3>2. /\ order' = [order EXCEPT ![q] = "PENDING"]
          /\ Goto(h, "consumed", q, "PENDING")
          /\ UNCHANGED <<payment, voucher, raced>>
      BY <1>5, <2>2 DEF ConsumeQuote
    <3>3. q \notin raced /\ (q \in voucher => q \in raced)
      BY <1>0, <3>1 DEF RacedEnded, VoucherMeansPaidOrder
    <3>4. \A r \in Quote \ {q} : order'[r] = order[r]
      BY <1>0, <3>1, <3>2 DEF TypeOK
    <3>5. \A g \in Handler : handler'[g].step = "applying" =>
            handler'[g] = handler[g]
      BY <1>0, <3>2 DEF Goto, TypeOK
    <3>6. SettlingFresh'
      <4> SUFFICES ASSUME NEW g \in Handler, handler'[g].step = "applying",
                          handler'[g].quote \notin raced'
                   PROVE  LET r == handler'[g].quote IN
                          /\ payment'[r] = "PENDING"
                          /\ canTransitionOrder(order'[r],
                               statusToOrder(handler'[g].outcome))
                          /\ handler'[g].voucherSeen <=> r \in voucher'
        BY DEF SettlingFresh, SettleApplies
      <4> DEFINE r == handler[g].quote
      <4>1. handler'[g] = handler[g] /\ At(g, "applying") /\ r \notin raced
        BY <3>2, <3>5
      <4>2. r \in Quote /\ order[r] = "PENDING"
        BY <1>0, <4>1, BusyHandler
        DEF SettlingFresh, SettleApplies, FlowInv, PendingTogether
      <4>3. order'[r] = order[r]
        BY <3>1, <3>4, <4>2
      <4> QED
        BY <1>0, <3>2, <4>1, <4>3 DEF SettlingFresh, SettleApplies
    <3>7. RacedEnded'
      BY <1>0, <3>2, <3>3, <3>4 DEF RacedEnded, TypeOK
    <3>8. VoucherMeansPaidOrder'
      BY <1>0, <3>2, <3>3, <3>4 DEF VoucherMeansPaidOrder, TypeOK
    <3> QED
      BY <3>6, <3>7, <3>8
  <2> QED
    BY <2>1, <2>2
<1>6. ASSUME NEW h \in Handler, RecordPayment(h) PROVE Goal
  <2> DEFINE q == handler[h].quote
  <2>1. q \in Quote /\ payment[q] = "NONE"
    BY <1>0, <1>6, BusyHandler
    DEF RecordPayment, RecordCharge, RecordTillPayment, FlowInv, ChargingAlone
  <2>2. \A r \in Quote \ {q} : payment'[r] = payment[r]
    BY <1>0, <1>6, <2>1
    DEF RecordPayment, RecordCharge, RecordTillPayment, TypeOK
  <2>3. UNCHANGED <<order, voucher, raced>>
    BY <1>6 DEF RecordPayment, RecordCharge, RecordTillPayment
  <2>4. \A g \in Handler : handler'[g].step = "applying" =>
          handler'[g] = handler[g]
    BY <1>0, <1>6
    DEF RecordPayment, RecordCharge, RecordTillPayment, Goto, TypeOK
  <2>5. SettlingFresh'
    <3> SUFFICES ASSUME NEW g \in Handler, handler'[g].step = "applying",
                        handler'[g].quote \notin raced'
                 PROVE  LET r == handler'[g].quote IN
                        /\ payment'[r] = "PENDING"
                        /\ canTransitionOrder(order'[r],
                             statusToOrder(handler'[g].outcome))
                        /\ handler'[g].voucherSeen <=> r \in voucher'
      BY DEF SettlingFresh, SettleApplies
    <3> DEFINE r == handler[g].quote
    <3>1. handler'[g] = handler[g] /\ At(g, "applying") /\ r \notin raced
      BY <2>3, <2>4
    <3>2. r \in Quote /\ payment[r] = "PENDING"
      BY <1>0, <3>1, BusyHandler DEF SettlingFresh, SettleApplies
    <3>3. payment'[r] = payment[r]
      BY <2>1, <2>2, <3>2
    <3> QED
      BY <1>0, <2>3, <3>1, <3>3 DEF SettlingFresh, SettleApplies
  <2> QED
    BY <1>0, <2>3, <2>5 DEF RacedEnded, VoucherMeansPaidOrder
<1>7. ASSUME NEW h \in Handler, Charge(h) PROVE Goal
  BY <1>3, <1>7 DEF Charge, Steps
<1>8. ASSUME NEW h \in Handler, ChargeFails(h) PROVE Goal
  BY <1>2, <1>8 DEF ChargeFails
<1>9. ASSUME NEW h \in Handler, LinkPayment(h) PROVE Goal
  BY <1>2, <1>3, <1>9 DEF LinkPayment, Steps
\* A settlement reads.
<1>10. ASSUME NEW h \in Handler, SettleRead(h) PROVE Goal
  <2> DEFINE q == handler[h].quote
             outcome == handler[h].outcome
             read == [step |-> "applying", quote |-> q, outcome |-> outcome,
                      voucherSeen |-> q \in voucher]
  <2>1. CASE ~SettleApplies(q, outcome)
    BY <1>2, <1>10, <2>1 DEF SettleRead
  <2>2. CASE SettleApplies(q, outcome)
    <3>1. handler' = [handler EXCEPT ![h] = read] /\ UNCHANGED Settled
      BY <1>10, <2>2 DEF SettleRead
    <3>2. /\ read.step = "applying" /\ read.quote = q /\ read.outcome = outcome
          /\ read.voucherSeen <=> q \in voucher
      OBVIOUS
    <3> HIDE DEF read
    <3>3. handler'[h] = read /\ \A g \in Handler \ {h} : handler'[g] = handler[g]
      BY <1>0, <3>1 DEF TypeOK
    <3>4. payment'[q] = "PENDING" /\ canTransitionOrder(order'[q], statusToOrder(outcome))
      BY <2>2, <3>1 DEF SettleApplies
    <3>5. SettlingFresh'
      BY <1>0, <3>1, <3>2, <3>3, <3>4 DEF SettlingFresh, SettleApplies
    <3> QED
      BY <1>0, <3>1, <3>5 DEF RacedEnded, VoucherMeansPaidOrder
  <2> QED
    BY <2>1, <2>2
\* A settlement writes: whoever has read the same order is now stale, and the
\* order is remembered for it.
<1>11. ASSUME NEW h \in Handler, SettleApply(h) PROVE Goal
  <2> DEFINE q == handler[h].quote
             outcome == handler[h].outcome
  <2>1. q \in Quote
    BY <1>0, <1>11, BusyHandler DEF SettleApply
  <2>2. /\ order' = [order EXCEPT ![q] = statusToOrder(outcome)]
        /\ payment' = [payment EXCEPT ![q] = outcome]
        /\ voucher' = IF outcome = "PAID" THEN voucher \cup {q} ELSE voucher
        /\ raced' = IF OpenElsewhere(h) THEN raced \cup {q} ELSE raced
        /\ handler' = [handler EXCEPT ![h] = Idle]
    BY <1>11 DEF SettleApply, Fulfil, Return
  <2>3. /\ statusToOrder(outcome) \in {"PAID", "EXPIRED", "FAILED"}
        /\ outcome = "PAID" => statusToOrder(outcome) = "PAID"
    BY DEF statusToOrder
  <2>4. SettlingFresh'
    <3> SUFFICES ASSUME NEW g \in Handler, handler'[g].step = "applying",
                        handler'[g].quote \notin raced'
                 PROVE  LET r == handler'[g].quote IN
                        /\ payment'[r] = "PENDING"
                        /\ canTransitionOrder(order'[r],
                             statusToOrder(handler'[g].outcome))
                        /\ handler'[g].voucherSeen <=> r \in voucher'
      BY DEF SettlingFresh, SettleApplies
    <3> DEFINE r == handler[g].quote
    <3>1. g # h /\ handler'[g] = handler[g]
      BY <1>0, <2>2 DEF TypeOK, Idle
    <3>2. At(g, "applying") /\ r \notin raced /\ r # q
      BY <2>2, <3>1 DEF OpenElsewhere
    <3>3. r \in Quote
      BY <1>0, <3>2, BusyHandler
    <3>4. /\ order'[r] = order[r] /\ payment'[r] = payment[r]
          /\ r \in voucher' <=> r \in voucher
      BY <1>0, <2>2, <3>2, <3>3 DEF TypeOK
    <3> QED
      BY <1>0, <3>1, <3>2, <3>4 DEF SettlingFresh, SettleApplies
  <2>5. RacedEnded'
    BY <1>0, <2>1, <2>2, <2>3 DEF RacedEnded, TypeOK
  <2>6. VoucherMeansPaidOrder'
    <3>1. q \notin raced => q \notin voucher
      BY <1>11, SettlingHeld DEF SettleApply
    <3> QED
      BY <1>0, <2>1, <2>2, <2>3, <3>1 DEF VoucherMeansPaidOrder, TypeOK
  <2> QED
    BY <2>4, <2>5, <2>6
<1>12. ASSUME NEW h \in Handler, SettleAborts(h) \/ ExpireQuote(h) \/ Crash(h)
       PROVE  Goal
  BY <1>2, <1>12 DEF SettleAborts, ExpireQuote, Crash
<1>13. ASSUME NEW h \in Handler, NEW q \in Quote,
              BeginQuote(h, q) \/ BeginCheckout(h, q) \/ Webhook(h, q) \/
              PollPayment(h, q) \/ ExpireOrder(h, q) \/ FindOverdueQuote(h, q)
       PROVE  Goal
  <2>1. PICK step \in Steps \ {"applying"}, outcome \in PaymentStatuses :
          Goto(h, step, q, outcome)
    <3>1. {"quoting", "checked", "settling", "expiring"} \subseteq Steps
          /\ {"PENDING", "EXPIRED"} \subseteq PaymentStatuses
      BY DEF Steps, PaymentStatuses
    <3> QED
      BY <1>13, <3>1
      DEF BeginQuote, BeginCheckout, Webhook, PollPayment, ExpireOrder,
          FindOverdueQuote, GatewayDone
  <2>2. UNCHANGED Settled
    BY <1>13
    DEF BeginQuote, BeginCheckout, Webhook, PollPayment, ExpireOrder,
        FindOverdueQuote
  <2> QED
    BY <1>3, <2>1, <2>2
<1>14. CASE UNCHANGED <<Settled, handler>>
  BY <1>1, <1>14
<1> QED
  BY <1>4, <1>5, <1>6, <1>7, <1>8, <1>9, <1>10, <1>11, <1>12, <1>13, <1>14
  DEF Next, Continue, vars, QuoteTtlPasses, PaymentTimeoutPasses,
      GatewayDecides, ChangeEventStatus, AdjustStock, ArchiveProduct

LEMMA RaceCorrect == Spec => []RaceInv
<1>1. RaceInv /\ [Next]_vars => RaceInv'
  BY FlowStep, LedgerStep, SettlingStep DEF RaceInv
<1> QED
  BY RaceInit, <1>1, PTL DEF Spec

(* However the handlers overlap, stock_reserved and stock_sold are at all   *)
(* times exactly what the live quotes, pending orders and paid orders add   *)
(* up to, for every product that is on no order which two settlements had   *)
(* open at once: nothing is released or sold twice, and nothing leaks       *)
(* (inventory.service.ts, reserve to commit).                               *)
THEOREM LedgerIsExact == Spec => []LedgerExact
<1>1. RaceInv => LedgerExact
  BY DEF RaceInv
<1> QED
  BY <1>1, RaceCorrect, PTL

(* No voucher outlives its order: one that failed or expired never has one, *)
(* unless two settlements had it open at once (orders.service.ts, settle).  *)
THEOREM VouchersAreOfPaidOrders == Spec => []VoucherMeansPaidOrder
<1>1. RaceInv => VoucherMeansPaidOrder
  BY DEF RaceInv
<1> QED
  BY <1>1, RaceCorrect, PTL

(* The "internal-error" branches of commit and release and the unique index *)
(* on vouchers.order_id are unreachable for every settlement whose products *)
(* are on no order that two settlements had open at once.                   *)
THEOREM SettlementNeverAborts == Spec => []SettleNeverAborts
<1>1. RaceInv => SettleNeverAborts
  BY SettlingCommits
<1> QED
  BY <1>1, RaceCorrect, PTL

(* An order leaves ORDER_TRANSITIONS (states.ts) only if two settlements of *)
(* it were open at once: any other that failed, expired or was paid stays   *)
(* so, whatever is retried, duplicated or late.                             *)
THEOREM OrdersFollowTheirLifecycle == Spec => OrderFollowsLifecycle
<1> DEFINE Lawful == \A q \in Quote \ raced : order'[q] # order[q] =>
                       order[q] = "NONE" \/ canTransitionOrder(order[q], order'[q])
<1>1. RaceInv /\ [Next]_vars => [Lawful]_order
  <2> SUFFICES ASSUME RaceInv, [Next]_vars PROVE [Lawful]_order
    OBVIOUS
  <2>0. TypeOK
    BY DEF RaceInv, FlowInv
  <2>1. ASSUME NEW h \in Handler, ConsumeQuote(h) PROVE [Lawful]_order
    <3> DEFINE q == handler[h].quote
    <3>1. q \in Quote
      BY <2>0, <2>1, BusyHandler DEF ConsumeQuote
    <3>2. quote[q] = "ACTIVE" => order[q] = "NONE"
      BY <3>1 DEF RaceInv, FlowInv, QuoteEndsOnce
    <3> QED
      BY <2>0, <2>1, <3>1, <3>2 DEF ConsumeQuote, TypeOK
  <2>2. ASSUME NEW h \in Handler, SettleApply(h) PROVE [Lawful]_order
    <3> DEFINE q == handler[h].quote
    <3>1. q \notin raced =>
            canTransitionOrder(order[q], statusToOrder(handler[h].outcome))
      BY <2>2 DEF SettleApply, RaceInv, SettlingFresh, SettleApplies
    <3>2. order' = [order EXCEPT ![q] = statusToOrder(handler[h].outcome)]
      BY <2>2 DEF SettleApply
    <3> QED
      BY <2>0, <3>1, <3>2 DEF TypeOK
  <2>3. CASE UNCHANGED order
    BY <2>3
  <2> QED
    BY <2>1, <2>2, <2>3
    DEF Next, Continue, vars, CreateQuote, ExpireQuote, Charge, ChargeFails,
        RecordPayment, RecordCharge, RecordTillPayment, LinkPayment,
        SettleRead, SettleAborts, Crash, BeginQuote, BeginCheckout, Webhook,
        PollPayment, ExpireOrder, FindOverdueQuote, QuoteTtlPasses,
        PaymentTimeoutPasses, GatewayDecides, ChangeEventStatus, AdjustStock,
        ArchiveProduct
<1> QED
  BY <1>1, RaceCorrect, PTL DEF Spec, OrderFollowsLifecycle

-----------------------------------------------------------------------------
(* The reservation ledger is implemented.                                  *)

Phase == [q \in Quote |-> PhaseOf(quote[q], order[q])]

\* The phase of a reservation, read off the two rows it consists of.
LEMMA PhaseCases ==
  /\ PhaseOf("NONE", "NONE") = "none"
  /\ PhaseOf("ACTIVE", "NONE") = "held"
  /\ PhaseOf("CONSUMED", "PENDING") = "held"
  /\ PhaseOf("CONSUMED", "PAID") = "sold"
  /\ PhaseOf("CONSUMED", "FAILED") = "returned"
  /\ PhaseOf("CONSUMED", "EXPIRED") = "returned"
  /\ PhaseOf("EXPIRED", "NONE") = "returned"
BY DEF PhaseOf

\* One reservation moves, the others stay.
LEMMA PhaseMoves ==
  ASSUME NEW q \in Quote, NEW to,
         \A r \in Quote \ {q} : quote'[r] = quote[r] /\ order'[r] = order[r],
         PhaseOf(quote'[q], order'[q]) = to
  PROVE  Phase' = [Phase EXCEPT ![q] = to]
BY DEF Phase

\* Only the order of a consumed quote is settled.
LEMMA SettlingOrdered ==
  ASSUME RaceInv, NEW h \in Handler, At(h, "applying")
  PROVE  quote[handler[h].quote] = "CONSUMED"
BY BusyHandler DEF RaceInv, FlowInv, SettlingKnown, QuoteEndsOnce

LEMMA LedgerInit == Init => Ledger!Init
BY PhaseCases DEF Init, Ledger!Init

LEMMA LedgerNext ==
  ASSUME RaceInv, [Next]_vars
  PROVE  [Ledger!Next \/ \E q \in raced : Ledger!EndAgain(q)]_(Ledger!ledgerVars)
<1> USE DEF Ledger!ledgerVars
<1> DEFINE Goal == [Ledger!Next \/ \E q \in raced : Ledger!EndAgain(q)]_(Ledger!ledgerVars)
<1>0. TypeOK /\ QuoteEndsOnce
  BY DEF RaceInv, FlowInv
\* Three ways to take a step of the ledger, and one not to.
<1>1. ASSUME NEW q \in Quote, Phase[q] = "none", CanReserve(q), reserve(q),
             Phase' = [Phase EXCEPT ![q] = "held"]
      PROVE  Goal
  <2>1. \A p \in Product : available[p] >= Basket[q][p]
    <3> SUFFICES ASSUME NEW p \in Product PROVE available[p] >= Basket[q][p]
      OBVIOUS
    <3>1. available[p] \in Nat /\ Basket[q][p] \in Nat
      BY <1>0, BasketType DEF TypeOK, StockLevels
    <3> QED
      BY <1>1, <3>1 DEF CanReserve
  <2>2. Ledger!Hold(q)
    BY <1>1, <2>1 DEF Ledger!Hold, Phase, reserve
  <2> QED
    BY <2>2 DEF Ledger!Next
<1>2. ASSUME NEW q \in Quote, Phase[q] = "held", release(q),
             Phase' = [Phase EXCEPT ![q] = "returned"]
      PROVE  Goal
  <2>1. Ledger!GiveBack(q)
    BY <1>2 DEF Ledger!GiveBack, Phase, release
  <2> QED
    BY <2>1 DEF Ledger!Next
<1>3. ASSUME NEW q \in Quote, Phase[q] = "held", UNCHANGED available,
             Phase' = [Phase EXCEPT ![q] = "sold"]
      PROVE  Goal
  <2>1. Ledger!Sell(q)
    BY <1>3 DEF Ledger!Sell, Phase
  <2> QED
    BY <2>1 DEF Ledger!Next
<1>4. ASSUME Phase' = Phase, UNCHANGED available PROVE Goal
  BY <1>4 DEF Phase
<1>5. ASSUME NEW h \in Handler, CreateQuote(h) PROVE Goal
  <2> DEFINE q == handler[h].quote
  <2>1. CASE UNCHANGED <<stockVars, quote>>
    BY <1>4, <1>5, <2>1 DEF CreateQuote, Phase
  <2>2. CASE /\ CanReserve(q) /\ reserve(q)
             /\ quote' = [quote EXCEPT ![q] = "ACTIVE"]
    <3>1. q \in Quote /\ quote[q] = "NONE" /\ order[q] = "NONE"
      BY <1>5, <2>2, QuoteTakes
    <3>2. UNCHANGED order
      BY <1>5 DEF CreateQuote
    <3>3. /\ quote'[q] = "ACTIVE" /\ order'[q] = "NONE"
          /\ \A r \in Quote \ {q} : quote'[r] = quote[r] /\ order'[r] = order[r]
      BY <1>0, <2>2, <3>1, <3>2 DEF TypeOK
    <3>4. Phase[q] = "none" /\ Phase' = [Phase EXCEPT ![q] = "held"]
      BY <3>1, <3>3, PhaseCases, PhaseMoves DEF Phase
    <3> QED
      BY <1>1, <2>2, <3>1, <3>4
  <2> QED
    BY <1>5, <2>1, <2>2 DEF CreateQuote
<1>6. ASSUME NEW h \in Handler, ConsumeQuote(h) PROVE Goal
  <2> DEFINE q == handler[h].quote
  <2>0. UNCHANGED available
    BY <1>6 DEF ConsumeQuote
  <2>1. CASE UNCHANGED <<quote, order>>
    BY <1>4, <2>0, <2>1 DEF Phase
  <2>2. CASE /\ quote[q] = "ACTIVE"
             /\ quote' = [quote EXCEPT ![q] = "CONSUMED"]
             /\ order' = [order EXCEPT ![q] = "PENDING"]
    <3>1. q \in Quote /\ order[q] = "NONE"
      BY <1>0, <1>6, <2>2, BusyHandler DEF ConsumeQuote, QuoteEndsOnce
    <3>2. /\ quote'[q] = "CONSUMED" /\ order'[q] = "PENDING"
          /\ \A r \in Quote \ {q} : quote'[r] = quote[r] /\ order'[r] = order[r]
      BY <1>0, <2>2, <3>1 DEF TypeOK
    <3>3. Phase[q] = "held" /\ Phase' = [Phase EXCEPT ![q] = "held"]
      BY <2>2, <3>1, <3>2, PhaseCases, PhaseMoves DEF Phase
    <3>4. Phase' = Phase
      BY <3>1, <3>3 DEF Phase
    <3> QED
      BY <1>4, <2>0, <3>4
  <2> QED
    BY <1>6, <2>1, <2>2 DEF ConsumeQuote
<1>7. ASSUME NEW h \in Handler, ExpireQuote(h) PROVE Goal
  <2> DEFINE q == handler[h].quote
  <2>1. CASE UNCHANGED <<stockVars, quote>>
    BY <1>4, <1>7, <2>1 DEF ExpireQuote, Phase
  <2>2. CASE /\ quote[q] = "ACTIVE" /\ release(q)
             /\ quote' = [quote EXCEPT ![q] = "EXPIRED"]
    <3>1. q \in Quote /\ order[q] = "NONE"
      BY <1>7, <2>2, ExpiryReturns DEF Held
    <3>2. UNCHANGED order
      BY <1>7 DEF ExpireQuote
    <3>3. /\ quote'[q] = "EXPIRED" /\ order'[q] = "NONE"
          /\ \A r \in Quote \ {q} : quote'[r] = quote[r] /\ order'[r] = order[r]
      BY <1>0, <2>2, <3>1, <3>2 DEF TypeOK
    <3>4. Phase[q] = "held" /\ Phase' = [Phase EXCEPT ![q] = "returned"]
      BY <2>2, <3>1, <3>3, PhaseCases, PhaseMoves DEF Phase
    <3> QED
      BY <1>2, <2>2, <3>1, <3>4
  <2> QED
    BY <1>7, <2>1, <2>2 DEF ExpireQuote
<1>8. ASSUME NEW h \in Handler, SettleApply(h) PROVE Goal
  <2> DEFINE q == handler[h].quote
             outcome == handler[h].outcome
  <2>0. q \in Quote
    BY <1>0, <1>8, BusyHandler DEF SettleApply
  <2>1. q \notin raced => order[q] = "PENDING"
    BY <1>8, SettlingHeld DEF SettleApply
  <2>2. /\ order' = [order EXCEPT ![q] = statusToOrder(outcome)]
        /\ UNCHANGED quote
    BY <1>8 DEF SettleApply
  <2>3. quote[q] = "CONSUMED"
    BY <1>8, <2>0, SettlingOrdered DEF SettleApply
  <2>4. /\ quote'[q] = "CONSUMED" /\ order'[q] = statusToOrder(outcome)
        /\ \A r \in Quote \ {q} : quote'[r] = quote[r] /\ order'[r] = order[r]
    BY <1>0, <2>0, <2>2, <2>3 DEF TypeOK
  <2>5. q \notin raced => Phase[q] = "held"
    BY <2>0, <2>1, <2>3, PhaseCases DEF Phase
  <2>6. q \in raced => Phase[q] \in {"sold", "returned"}
    BY <2>0, <2>3, PhaseCases DEF Phase, RaceInv, RacedEnded
  <2>7. CASE outcome = "PAID"
    <3>1. order'[q] = "PAID"
      BY <2>4, <2>7 DEF statusToOrder
    <3>2. Phase' = [Phase EXCEPT ![q] = "sold"]
      BY <2>0, <2>4, <3>1, PhaseCases, PhaseMoves
    <3>3. UNCHANGED available
      BY <1>8, <2>7 DEF SettleApply, commit
    <3>4. CASE q \in raced
      <4>1. Ledger!EndAgain(q)
        BY <2>6, <3>2, <3>3, <3>4 DEF Ledger!EndAgain, Phase
      <4> QED
        BY <3>4, <4>1
    <3> QED
      BY <1>3, <2>0, <2>5, <3>2, <3>3, <3>4
  <2>8. CASE outcome # "PAID"
    <3>1. order'[q] \in {"FAILED", "EXPIRED"}
      BY <2>4, <2>8 DEF statusToOrder
    <3>2. Phase' = [Phase EXCEPT ![q] = "returned"]
      BY <2>0, <2>4, <3>1, PhaseCases, PhaseMoves
    <3>3. release(q)
      BY <1>8, <2>8 DEF SettleApply
    <3>4. CASE q \in raced
      <4>1. Ledger!EndAgain(q)
        BY <2>6, <3>2, <3>3, <3>4 DEF Ledger!EndAgain, Phase, release
      <4> QED
        BY <3>4, <4>1
    <3> QED
      BY <1>2, <2>0, <2>5, <3>2, <3>3, <3>4
  <2> QED
    BY <2>7, <2>8
<1>9. ASSUME NEW p \in Product, NEW delta \in Adjustments, AdjustStock(p, delta)
      PROVE  Goal
  <2>1. Ledger!Correct(p, delta)
    BY <1>9 DEF AdjustStock, Ledger!Correct
  <2> QED
    BY <1>9, <2>1 DEF Ledger!Next
<1>10. CASE UNCHANGED <<quote, order, available>>
  BY <1>4, <1>10 DEF Phase
<1> QED
  BY <1>5, <1>6, <1>7, <1>8, <1>9, <1>10
  DEF Next, Continue, vars, Charge, ChargeFails, RecordPayment, RecordCharge,
      RecordTillPayment, LinkPayment, SettleRead, SettleAborts, Crash,
      BeginQuote, BeginCheckout, Webhook, PollPayment, ExpireOrder,
      FindOverdueQuote, QuoteTtlPasses, PaymentTimeoutPasses, GatewayDecides,
      ChangeEventStatus, ArchiveProduct

(* Behind its quotes, orders, retries and jobs the checkout is a reservation *)
(* ledger: every reservation takes its whole basket or nothing, and ends     *)
(* once, sold or back on the shelf.  Only an order that two settlements had  *)
(* open at once can end a second time (inventory.service.ts, orders.service. *)
(* ts, settle; spec 4.4 and 6).                                              *)
THEOREM CheckoutImplementsLedger == Spec => LedgerSpec
<1>1. RaceInv /\ [Next]_vars =>
        [Ledger!Next \/ \E q \in raced : Ledger!EndAgain(q)]_(Ledger!ledgerVars)
  BY LedgerNext
<1> QED
  BY LedgerInit, <1>1, RaceCorrect, PTL DEF Spec, LedgerSpec

=============================================================================
