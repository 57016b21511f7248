------------------------------ MODULE Checkout ------------------------------
(***************************************************************************)
(* From a basket to a voucher: the quote that reserves stock, the order it *)
(* becomes, the payment at the gateway and its settlement, the till, and   *)
(* the worker jobs that expire and poll.  Everything the API and worker    *)
(* processes share lives in Postgres; a handler is one request or one job  *)
(* iteration, and its steps are the transactions and calls it makes.       *)
(* Between two steps of a handler any other handler may run, and a handler *)
(* may die.                                                                *)
(*                                                                         *)
(* A quote and the order made from it share an identifier (orders.quote_id *)
(* is unique), and a payment and its gateway record share it too.          *)
(***************************************************************************)
EXTENDS Integers, FiniteSets, States

CONSTANTS
  Product,        \* the drinks of one event
  Quote,          \* identifiers of quotes, and of the orders made from them
  NoQuote,        \* what an idle handler is working on
  Request,        \* concurrent executions of API request handlers
  Job,            \* concurrent executions of worker jobs
  TillQuotes,     \* quotes made by the till; the others are made on a phone
  Stock,          \* Stock[p]: units of p brought to the party
  MaxQty,         \* event.limits.maxQtyPerProduct
  Basket,         \* Basket[q][p]: units of p on quote q, after mergeDuplicates
  ChargeReplies,  \* the statuses charge() may answer with
  GatewayErrors,  \* TRUE: charge() may throw or time out
  MaxCrashes,     \* bound: handlers that may die in the middle of their work
  StatusTargets,  \* bound: statuses the organiser may move the event to
  Archivable,     \* bound: products the organiser may archive
  Adjustments,    \* bound: manual stock corrections the organiser may make
  MaxStock        \* bound: no correction takes stockInitial above this

Handler == Request \cup Job

ASSUME HandlersAssumption == Request \cap Job = {} /\ NoQuote \notin Quote
ASSUME QuotesAssumption == IsFiniteSet(Quote) /\ TillQuotes \subseteq Quote
ASSUME StockAssumption == Stock \in [Product -> Nat]
ASSUME BasketAssumption ==
  /\ MaxQty \in Nat
  /\ Basket \in [Quote -> [Product -> 0..MaxQty]]
ASSUME GatewayAssumption ==
  /\ ChargeReplies \subseteq PaymentStatuses
  /\ GatewayErrors \in BOOLEAN
ASSUME BoundsAssumption ==
  /\ MaxCrashes \in Nat /\ MaxStock \in Nat
  /\ StatusTargets \subseteq EventStatuses
  /\ Archivable \subseteq Product
  /\ Adjustments \subseteq Int

VARIABLES
  eventStatus,    \* events.status
  initial,        \* products.stock_initial
  available,      \* products.stock_available
  reserved,       \* products.stock_reserved
  sold,           \* products.stock_sold
  archived,       \* products with archived = true
  quote,          \* quotes.status, "NONE" before the row exists
  quoteOverdue,   \* quotes whose expiresAt has passed
  order,          \* orders.status, "NONE" before the row exists
  orderOverdue,   \* orders whose expiresAt has passed
  paymentRef,     \* orders whose payment_ref is set
  payment,        \* payments.status, "NONE" before the row exists
  voucher,        \* orders that have a voucher row
  invoice,        \* orders that have an invoice row
  gateway,        \* what the gateway itself knows of the payment
  handler,        \* where each request or job is, and what it has read
  crashes,        \* handlers that died so far
  raced           \* history: orders that got an outcome while another
                  \* settlement of theirs was open; no step depends on it

stockVars   == <<initial, available, reserved, sold, archived>>
quoteVars   == <<quote, quoteOverdue>>
orderVars   == <<order, orderOverdue, paymentRef>>
paidVars    == <<payment, voucher, invoice>>
database    == <<eventStatus, stockVars, quoteVars, orderVars, paidVars>>
vars == <<database, gateway, handler, crashes, raced>>

-----------------------------------------------------------------------------
(* Handlers.                                                               *)

Steps == {"idle", "quoting", "checked", "consumed", "charged", "recorded",
          "settling", "applying", "expiring"}

Idle == [step |-> "idle", quote |-> NoQuote, outcome |-> "PENDING",
         voucherSeen |-> FALSE]

At(h, step) == handler[h].step = step

\* The handler's work on q goes on at the given step.
Goto(h, step, q, outcome) ==
  handler' = [handler EXCEPT ![h] =
                [step |-> step, quote |-> q, outcome |-> outcome,
                 voucherSeen |-> FALSE]]

Return(h) == handler' = [handler EXCEPT ![h] = Idle]

-----------------------------------------------------------------------------
(* InventoryService: conditional movements between the stock counters.     *)
(* Inside one transaction: either every line moves or none does.           *)

\* Fault: the basket is reserved without asking what is left.
CanReserve_Unchecked(q) ==
  \A p \in Product : Basket[q][p] > 0 => p \notin archived

CanReserve(q) ==
  \A p \in Product : Basket[q][p] > 0 =>
    p \notin archived /\ available[p] >= Basket[q][p]

reserve(q) ==
  /\ available' = [p \in Product |-> available[p] - Basket[q][p]]
  /\ reserved'  = [p \in Product |-> reserved[p] + Basket[q][p]]
  /\ UNCHANGED <<initial, sold, archived>>

\* The guard of both release and commit; without it they throw.
CoveredByReserved(q) == \A p \in Product : reserved[p] >= Basket[q][p]

release(q) ==
  /\ reserved'  = [p \in Product |-> reserved[p] - Basket[q][p]]
  /\ available' = [p \in Product |-> available[p] + Basket[q][p]]
  /\ UNCHANGED <<initial, sold, archived>>

\* Fault: sold units stay reserved as well.
commit_KeepsReserved(q) ==
  /\ sold' = [p \in Product |-> sold[p] + Basket[q][p]]
  /\ UNCHANGED <<initial, available, reserved, archived>>

commit(q) ==
  /\ reserved' = [p \in Product |-> reserved[p] - Basket[q][p]]
  /\ sold'     = [p \in Product |-> sold[p] + Basket[q][p]]
  /\ UNCHANGED <<initial, available, archived>>

-----------------------------------------------------------------------------
Init ==
  /\ eventStatus = "OPEN"
  /\ initial = Stock
  /\ available = Stock
  /\ reserved = [p \in Product |-> 0]
  /\ sold = [p \in Product |-> 0]
  /\ archived = {}
  /\ quote = [q \in Quote |-> "NONE"]
  /\ quoteOverdue = {}
  /\ order = [q \in Quote |-> "NONE"]
  /\ orderOverdue = {}
  /\ paymentRef = {}
  /\ payment = [q \in Quote |-> "NONE"]
  /\ voucher = {}
  /\ invoice = {}
  /\ gateway = [q \in Quote |-> "NONE"]
  /\ handler = [h \in Handler |-> Idle]
  /\ crashes = 0
  /\ raced = {}

-----------------------------------------------------------------------------
(* Quotes: checks first, then one transaction reserves and inserts.        *)

BeginQuote(h, q) ==
  /\ At(h, "idle") /\ h \in Request
  /\ eventAllowsPurchases(eventStatus)
  /\ quote[q] = "NONE" /\ \A g \in Handler : handler[g].quote # q
  /\ \A p \in archived : Basket[q][p] = 0
  /\ Goto(h, "quoting", q, "PENDING")
  /\ UNCHANGED <<database, gateway, crashes, raced>>

CreateQuote(h) ==
  LET q == handler[h].quote IN
  /\ At(h, "quoting")
  /\ \/ /\ CanReserve(q)
        /\ reserve(q)
        /\ quote' = [quote EXCEPT ![q] = "ACTIVE"]
     \/ /\ ~CanReserve(q)
        /\ UNCHANGED <<stockVars, quote>>
  /\ Return(h)
  /\ UNCHANGED <<eventStatus, quoteOverdue, orderVars, paidVars, gateway,
                 crashes, raced>>

-----------------------------------------------------------------------------
(* Orders: OrdersService.create and createAtCounter.                       *)

\* consumableQuote: read outside any transaction.  Several taps on "pay" may
\* all get past it.
BeginCheckout(h, q) ==
  /\ At(h, "idle") /\ h \in Request
  /\ eventAllowsPurchases(eventStatus)
  /\ quote[q] = "ACTIVE" /\ q \notin quoteOverdue
  /\ Goto(h, "checked", q, "PENDING")
  /\ UNCHANGED <<database, gateway, crashes, raced>>

\* Fault: the update of the quote is not conditional on ACTIVE.
ConsumeQuote_Unconditional(h) ==
  LET q == handler[h].quote IN
  /\ At(h, "checked")
  /\ quote' = [quote EXCEPT ![q] = "CONSUMED"]
  /\ order' = [order EXCEPT ![q] = "PENDING"]
  /\ Goto(h, "consumed", q, "PENDING")
  /\ UNCHANGED <<eventStatus, stockVars, quoteOverdue, orderOverdue,
                 paymentRef, paidVars, gateway, crashes, raced>>

ConsumeQuote(h) ==
  LET q == handler[h].quote IN
  /\ At(h, "checked")
  /\ \/ /\ quote[q] = "ACTIVE"
        /\ quote' = [quote EXCEPT ![q] = "CONSUMED"]
        /\ order' = [order EXCEPT ![q] = "PENDING"]
        /\ Goto(h, "consumed", q, "PENDING")
     \/ /\ quote[q] # "ACTIVE"
        /\ Return(h)
        /\ UNCHANGED <<quote, order>>
  /\ UNCHANGED <<eventStatus, stockVars, quoteOverdue, orderOverdue,
                 paymentRef, paidVars, gateway, crashes, raced>>

\* A phone order is charged at the gateway, outside any transaction.
Charge(h) ==
  LET q == handler[h].quote IN
  /\ At(h, "consumed") /\ q \notin TillQuotes
  /\ \E reply \in ChargeReplies :
       /\ gateway' = [gateway EXCEPT ![q] = reply]
       /\ Goto(h, "charged", q, reply)
  /\ UNCHANGED <<database, crashes, raced>>

\* charge() throws: refused by the gateway, or accepted there and the answer
\* lost to the timeout or unreadable.
ChargeFails(h) ==
  LET q == handler[h].quote IN
  /\ At(h, "consumed") /\ q \notin TillQuotes
  /\ GatewayErrors
  /\ \E known \in {"NONE", "PENDING"} :
       gateway' = [gateway EXCEPT ![q] = known]
  /\ Return(h)
  /\ UNCHANGED <<database, crashes, raced>>

\* payment.create, with the gateway's answer.
RecordCharge(h) ==
  LET q == handler[h].quote IN
  /\ At(h, "charged")
  /\ payment' = [payment EXCEPT ![q] = handler[h].outcome]
  /\ Goto(h, "recorded", q, handler[h].outcome)
  /\ UNCHANGED <<eventStatus, stockVars, quoteVars, orderVars, voucher,
                 invoice, gateway, crashes, raced>>

\* payment.create at the till: the money is already in the drawer, the row
\* starts PENDING and PAID is what will be settled.
RecordTillPayment(h) ==
  LET q == handler[h].quote IN
  /\ At(h, "consumed") /\ q \in TillQuotes
  /\ payment' = [payment EXCEPT ![q] = "PENDING"]
  /\ Goto(h, "recorded", q, "PAID")
  /\ UNCHANGED <<eventStatus, stockVars, quoteVars, orderVars, voucher,
                 invoice, gateway, crashes, raced>>

RecordPayment(h) == RecordCharge(h) \/ RecordTillPayment(h)

\* order.update of payment_ref; a PAID answer is settled by the same request.
\* Fault: any answer of the gateway is settled as a payment.
LinkPayment_SettlesAnyAnswer(h) ==
  LET q == handler[h].quote IN
  /\ At(h, "recorded")
  /\ paymentRef' = paymentRef \cup {q}
  /\ Goto(h, "settling", q, "PAID")
  /\ UNCHANGED <<eventStatus, stockVars, quoteVars, order, orderOverdue,
                 paidVars, gateway, crashes, raced>>

LinkPayment(h) ==
  LET q == handler[h].quote IN
  /\ At(h, "recorded")
  /\ paymentRef' = paymentRef \cup {q}
  /\ IF handler[h].outcome = "PAID" THEN Goto(h, "settling", q, "PAID")
                                    ELSE Return(h)
  /\ UNCHANGED <<eventStatus, stockVars, quoteVars, order, orderOverdue,
                 paidVars, gateway, crashes, raced>>

-----------------------------------------------------------------------------
(* OrdersService.settle: one transaction, whose opening read takes no lock. *)

\* The early returns of settle(), decided on what the transaction read.
\* Fault: the payment is found and settled whatever its status.
SettleApplies_Unchecked(q, outcome) ==
  payment[q] # "NONE" /\ statusToOrder(outcome) \in OrderStatuses

SettleApplies(q, outcome) ==
  /\ payment[q] = "PENDING"
  /\ canTransitionOrder(order[q], statusToOrder(outcome))

SettleRead(h) ==
  LET q == handler[h].quote
      outcome == handler[h].outcome
  IN
  /\ At(h, "settling")
  /\ IF SettleApplies(q, outcome)
     THEN handler' = [handler EXCEPT ![h] =
                        [step |-> "applying", quote |-> q, outcome |-> outcome,
                         voucherSeen |-> q \in voucher]]
     ELSE Return(h)
  /\ UNCHANGED <<database, gateway, crashes, raced>>

\* VouchersService.issue and InvoicingService.enqueue, an upsert.
\* Fault: the invoice is left to be queued later, outside the transaction.
Fulfil_NoInvoice(q) ==
  /\ voucher' = voucher \cup {q}
  /\ UNCHANGED invoice

Fulfil(q) ==
  /\ voucher' = voucher \cup {q}
  /\ invoice' = invoice \cup {q}

\* The stock guards, and the unique index on vouchers.order_id, abort the
\* whole transaction.
SettleCommits(h) ==
  LET q == handler[h].quote IN
  /\ CoveredByReserved(q)
  /\ handler[h].outcome = "PAID" /\ ~handler[h].voucherSeen => q \notin voucher

\* Another settlement has read the same order as unsettled and is still open.
OpenElsewhere(h) ==
  \E g \in Handler \ {h} :
    At(g, "applying") /\ handler[g].quote = handler[h].quote

SettleApply(h) ==
  LET q == handler[h].quote
      outcome == handler[h].outcome
  IN
  /\ At(h, "applying")
  /\ SettleCommits(h)
  /\ payment' = [payment EXCEPT ![q] = outcome]
  /\ order' = [order EXCEPT ![q] = statusToOrder(outcome)]
  /\ \/ /\ outcome = "PAID"
        /\ commit(q)
        /\ Fulfil(q)
     \/ /\ outcome # "PAID"
        /\ release(q)
        /\ UNCHANGED <<voucher, invoice>>
  /\ raced' = IF OpenElsewhere(h) THEN raced \cup {q} ELSE raced
  /\ Return(h)
  /\ UNCHANGED <<eventStatus, quoteVars, orderOverdue, paymentRef, gateway,
                 crashes>>

SettleAborts(h) ==
  /\ At(h, "applying")
  /\ ~SettleCommits(h)
  /\ Return(h)
  /\ UNCHANGED <<database, gateway, crashes, raced>>

GatewayDone(q) ==
  gateway[q] \in PaymentStatuses /\ isTerminalPaymentStatus(gateway[q])

\* POST /webhooks/payments: the gateway reports a final outcome, any number of
\* times and as late as it likes.  settle() refuses an unknown reference.
Webhook(h, q) ==
  /\ At(h, "idle") /\ h \in Request
  /\ GatewayDone(q)
  /\ payment[q] # "NONE"
  /\ Goto(h, "settling", q, gateway[q])
  /\ UNCHANGED <<database, gateway, crashes, raced>>

-----------------------------------------------------------------------------
(* Worker jobs, one row of their batch at a time.                          *)

\* pollPending: PENDING payments of the gateway, not those of the till.
\* Fault: the provider filter keeps the till's payments instead.
PollPayment_TillOnly(j, q) ==
  /\ At(j, "idle") /\ j \in Job
  /\ payment[q] = "PENDING" /\ q \in TillQuotes
  /\ GatewayDone(q)
  /\ Goto(j, "settling", q, gateway[q])
  /\ UNCHANGED <<database, gateway, crashes, raced>>

PollPayment(j, q) ==
  /\ At(j, "idle") /\ j \in Job
  /\ payment[q] = "PENDING" /\ q \notin TillQuotes
  /\ GatewayDone(q)
  /\ Goto(j, "settling", q, gateway[q])
  /\ UNCHANGED <<database, gateway, crashes, raced>>

\* expireOrders: a PENDING order past its deadline, if it has a payment_ref.
ExpireOrder(j, q) ==
  /\ At(j, "idle") /\ j \in Job
  /\ order[q] = "PENDING" /\ q \in orderOverdue
  /\ q \in paymentRef
  /\ Goto(j, "settling", q, "EXPIRED")
  /\ UNCHANGED <<database, gateway, crashes, raced>>

\* expireQuotes: finds the overdue quote, then claims it in a transaction.
\* Fault: quotes made at the till are not looked at.
FindOverdueQuote_PhoneOnly(j, q) ==
  /\ At(j, "idle") /\ j \in Job
  /\ quote[q] = "ACTIVE" /\ q \in quoteOverdue \ TillQuotes
  /\ Goto(j, "expiring", q, "EXPIRED")
  /\ UNCHANGED <<database, gateway, crashes, raced>>

FindOverdueQuote(j, q) ==
  /\ At(j, "idle") /\ j \in Job
  /\ quote[q] = "ACTIVE" /\ q \in quoteOverdue
  /\ Goto(j, "expiring", q, "EXPIRED")
  /\ UNCHANGED <<database, gateway, crashes, raced>>

\* Fault: the claim is not conditional on ACTIVE.
ExpireQuote_Unconditional(j) ==
  LET q == handler[j].quote IN
  /\ At(j, "expiring")
  /\ CoveredByReserved(q)
  /\ quote' = [quote EXCEPT ![q] = "EXPIRED"]
  /\ release(q)
  /\ Return(j)
  /\ UNCHANGED <<eventStatus, quoteOverdue, orderVars, paidVars, gateway,
                 crashes, raced>>

ExpireQuote(j) ==
  LET q == handler[j].quote IN
  /\ At(j, "expiring")
  /\ \/ /\ quote[q] = "ACTIVE" /\ CoveredByReserved(q)
        /\ quote' = [quote EXCEPT ![q] = "EXPIRED"]
        /\ release(q)
     \/ /\ ~(quote[q] = "ACTIVE" /\ CoveredByReserved(q))
        /\ UNCHANGED <<stockVars, quote>>
  /\ Return(j)
  /\ UNCHANGED <<eventStatus, quoteOverdue, orderVars, paidVars, gateway,
                 crashes, raced>>

-----------------------------------------------------------------------------
(* The organiser: AdminService.                                            *)

ChangeEventStatus(to) ==
 
  /\ canTransitionEvent(eventStatus, to)
  /\ eventStatus' = to
  /\ UNCHANGED <<stockVars, quoteVars, orderVars, paidVars, gateway, handler,
                 crashes, raced>>

AdjustStock(p, delta) ==
 
  /\ available[p] + delta >= 0
  /\ delta > 0 => initial[p] + delta <= MaxStock
  /\ available' = [available EXCEPT ![p] = @ + delta]
  /\ initial' =
       IF delta > 0 THEN [initial EXCEPT ![p] = @ + delta] ELSE initial
  /\ UNCHANGED <<eventStatus, reserved, sold, archived, quoteVars, orderVars,
                 paidVars, gateway, handler, crashes, raced>>

ArchiveProduct(p) ==
 
  /\ p \notin archived
  /\ archived' = archived \cup {p}
  /\ UNCHANGED <<eventStatus, initial, available, reserved, sold, quoteVars,
                 orderVars, paidVars, gateway, handler, crashes, raced>>

-----------------------------------------------------------------------------
(* The environment: time, the gateway's own progress, and crashes.         *)

QuoteTtlPasses(q) ==
  /\ quote[q] = "ACTIVE" /\ q \notin quoteOverdue
  /\ quoteOverdue' = quoteOverdue \cup {q}
  /\ UNCHANGED <<eventStatus, stockVars, quote, orderVars, paidVars, gateway,
                 handler, crashes, raced>>

PaymentTimeoutPasses(q) ==
  /\ order[q] = "PENDING" /\ q \notin orderOverdue
  /\ orderOverdue' = orderOverdue \cup {q}
  /\ UNCHANGED <<eventStatus, stockVars, quoteVars, order, paymentRef,
                 paidVars, gateway, handler, crashes, raced>>

\* The participant answers in the MB WAY app, or lets the request lapse.
GatewayDecides(q) ==
  /\ gateway[q] = "PENDING"
  /\ \E s \in PaymentStatuses \ {"PENDING"} :
       gateway' = [gateway EXCEPT ![q] = s]
  /\ UNCHANGED <<database, handler, crashes, raced>>

\* The process dies between two steps; an open transaction is rolled back.
Crash(h) ==
  /\ ~At(h, "idle") /\ crashes < MaxCrashes
  /\ crashes' = crashes + 1
  /\ Return(h)
  /\ UNCHANGED <<database, gateway, raced>>

-----------------------------------------------------------------------------
\* What a handler that has started goes on to do.
Continue(h) ==
  \/ CreateQuote(h)
  \/ ConsumeQuote(h)
  \/ Charge(h)
  \/ ChargeFails(h)
  \/ RecordPayment(h)
  \/ LinkPayment(h)
  \/ SettleRead(h)
  \/ SettleApply(h)
  \/ SettleAborts(h)
  \/ ExpireQuote(h)

Next ==
  \/ \E h \in Handler : Continue(h) \/ Crash(h)
  \/ \E h \in Request, q \in Quote :
       BeginQuote(h, q) \/ BeginCheckout(h, q) \/ Webhook(h, q)
  \/ \E j \in Job, q \in Quote :
       PollPayment(j, q) \/ ExpireOrder(j, q) \/ FindOverdueQuote(j, q)
  \/ \E q \in Quote :
       QuoteTtlPasses(q) \/ PaymentTimeoutPasses(q) \/ GatewayDecides(q)
  \/ \E s \in StatusTargets : ChangeEventStatus(s)
  \/ \E p \in Product, delta \in Adjustments : AdjustStock(p, delta)
  \/ \E p \in Archivable : ArchiveProduct(p)

Spec == Init /\ [][Next]_vars

(* Fairness.  A handler that has started is run to its end by its process.  *)
(* BullMQ enqueues each job again every few seconds, so the poll and expiry *)
(* jobs look again and again at each row they select, which is strong       *)
(* fairness: a row may be busy at any one look.  Nothing is owed by users,  *)
(* by the gateway or by its webhooks.  Time passes, but once the gateway    *)
(* has the money no deadline is owed: the poller must not need one.         *)
Fairness ==
  /\ \A h \in Handler : WF_vars(Continue(h))
  /\ \A q \in Quote :
       /\ SF_vars(\E j \in Job : PollPayment(j, q))
       /\ SF_vars(\E j \in Job : FindOverdueQuote(j, q))
       /\ SF_vars(\E j \in Job : ExpireOrder(j, q))
       /\ WF_vars(QuoteTtlPasses(q))
       /\ WF_vars(gateway[q] # "PAID" /\ PaymentTimeoutPasses(q))

LiveSpec == Spec /\ Fairness

-----------------------------------------------------------------------------
(* What the checkout promises.                                             *)

HandlerStates == [step : Steps, quote : Quote \cup {NoQuote},
                  outcome : PaymentStatuses, voucherSeen : BOOLEAN]

StockLevels == [Product -> Nat]

(* The shape of the state.  That the stock counters stay natural numbers is *)
(* the constraint products_stock_non_negative_check: the conditional        *)
(* updates of InventoryService never let it fire.                           *)
TypeOK ==
  /\ eventStatus \in EventStatuses
  /\ initial \in StockLevels /\ available \in StockLevels
  /\ reserved \in StockLevels /\ sold \in StockLevels
  /\ archived \subseteq Product
  /\ quote \in [Quote -> {"NONE", "ACTIVE", "CONSUMED", "EXPIRED"}]
  /\ quoteOverdue \subseteq Quote
  /\ order \in [Quote -> {"NONE", "PENDING", "PAID", "FAILED", "EXPIRED"}]
  /\ orderOverdue \subseteq Quote
  /\ paymentRef \subseteq Quote
  /\ payment \in [Quote -> PaymentStatuses \cup {"NONE"}]
  /\ voucher \subseteq Quote /\ invoice \subseteq Quote
  /\ gateway \in [Quote -> PaymentStatuses \cup {"NONE"}]
  /\ handler \in [Handler -> HandlerStates]
  /\ \A h \in Handler : handler[h].quote = NoQuote => At(h, "idle")
  /\ crashes \in 0..MaxCrashes
  /\ raced \subseteq Quote

(* products_stock_conservation_check: the three counters of a product never *)
(* add up to more than was brought, whatever the handlers do to each other. *)
StockConserved ==
  \A p \in Product : available[p] + reserved[p] + sold[p] <= initial[p]

(* A quote ends once.  However many taps on "pay" race each other and the   *)
(* expiry job, an order exists exactly for the quotes that were consumed,   *)
(* and a payment only for an order.                                         *)
QuoteEndsOnce ==
  \A q \in Quote :
    /\ order[q] # "NONE" <=> quote[q] = "CONSUMED"
    /\ payment[q] # "NONE" => order[q] # "NONE"

(* Spec 4.5 and L6: settle() writes the payment, the voucher and the        *)
(* invoice with the order, so no order is PAID without all of them.         *)
PaidIsFulfilled ==
  \A q \in Quote : order[q] = "PAID" =>
    payment[q] = "PAID" /\ q \in voucher /\ q \in invoice

(* No drink without money: a voucher exists only if the gateway itself says *)
(* PAID, or the till took the money.                                        *)
VoucherMeansMoney ==
  \A q \in voucher : q \in TillQuotes \/ gateway[q] = "PAID"

(* q's units are set aside: quoted, or ordered and not settled yet.         *)
Holds(q) == quote[q] = "ACTIVE" \/ order[q] = "PENDING"

(* The units of p on the baskets of the quotes in S, one by one.            *)
Units(S, p) == {u \in S \X (1..MaxQty) : u[2] <= Basket[u[1]][p]}

Held == {q \in Quote : Holds(q)}
Sold == {q \in Quote : order[q] = "PAID"}

(* p is on no order that two settlements had open at once.                  *)
Clean(p) == \A q \in raced : Basket[q][p] = 0

(* The counters are not just within bounds, they are right: stock_reserved  *)
(* is what the live quotes and pending orders add up to, stock_sold what    *)
(* the paid orders do.  A double release, or one missed, breaks it.  Two    *)
(* settlements of one order that overlap may do harm, and only to the       *)
(* products of that order.                                                  *)
LedgerExact ==
  \A p \in Product : Clean(p) =>
    /\ reserved[p] = Cardinality(Units(Held, p))
    /\ sold[p] = Cardinality(Units(Sold, p))

(* A voucher is never left on an order that failed or expired, whatever     *)
(* comes late or twice; unless two settlements of that order overlapped.    *)
VoucherMeansPaidOrder == \A q \in voucher \ raced : order[q] = "PAID"

(* The "internal-error" branches of commit and release, and the voucher's   *)
(* unique index, are never hit: a settlement that starts to write commits,  *)
(* unless its order, or another with one of its products, was settled by    *)
(* two at once.                                                             *)
SettleNeverAborts ==
  \A h \in Handler : LET q == handler[h].quote IN
    /\ At(h, "applying") /\ q \notin raced
    /\ \A p \in Product : Basket[q][p] > 0 => Clean(p)
    => SettleCommits(h)

(* ORDER_TRANSITIONS is obeyed: an order that has an outcome keeps it.  The *)
(* only orders whose outcome is ever overwritten are those that were being  *)
(* settled twice at once.                                                   *)
OrderFollowsLifecycle ==
  [][\A q \in Quote \ raced : order'[q] # order[q] =>
       order[q] = "NONE" \/ canTransitionOrder(order[q], order'[q])]_order

(* An abandoned checkout does not hold its drinks for ever                  *)
(* (expiry.service.ts:10): every reservation ends.                          *)
ReservationEnds == \A q \in Quote : Holds(q) ~> ~Holds(q)

(* The only reservations that never end, whatever fails: the order was made *)
(* but its payment_ref was not written (charge threw, or the process died), *)
(* or the gateway answered charge() with an outcome at once; or its units   *)
(* were given away by an order with one of its products that two            *)
(* settlements had open at once.                                            *)
Stranded(q) ==
  order[q] = "PENDING" /\ (q \notin paymentRef \/ payment[q] # "PENDING")

Robbed(q) ==
  /\ ~CoveredByReserved(q)
  /\ \E p \in Product : Basket[q][p] > 0 /\ ~Clean(p)

ReservationEndsOrIsStranded ==
  \A q \in Quote : Holds(q) ~> (~Holds(q) \/ Stranded(q) \/ Robbed(q))

(* What the poller is for: money that the gateway has becomes a voucher     *)
(* even if no webhook ever arrives, unless the order's time is up or it is  *)
(* one of those stranded or robbed.  Fairness owes no deadline here, so     *)
(* time running out is not what makes it true.                              *)
PaidInTimeGetsVoucher ==
  \A q \in Quote :
    gateway[q] = "PAID" ~>
      (q \in voucher \/ q \in orderOverdue \/ Stranded(q) \/ Robbed(q))

PhaseOf(quoteStatus, orderStatus) ==
  CASE quoteStatus = "NONE" -> "none"
    [] quoteStatus = "ACTIVE" \/ orderStatus = "PENDING" -> "held"
    [] orderStatus = "PAID" -> "sold"
    [] OTHER -> "returned"

Ledger == INSTANCE StockLedger WITH
            phase <- [q \in Quote |-> PhaseOf(quote[q], order[q])],
            free  <- available

(* The checkout implements the reservation ledger, step for step, whatever  *)
(* handlers do to each other: the only reservations that end more than once *)
(* are the orders that two settlements had open at once.                    *)
LedgerSpec ==
  /\ Ledger!Init
  /\ [][Ledger!Next \/ \E q \in raced : Ledger!EndAgain(q)]_(Ledger!ledgerVars)

=============================================================================
