# Bolsa de Bebidas: verification

TLA+ models of *Bolsa de Bebidas*, a bar at which drink prices move like a stock
exchange: of its server processes, of its pricing engine and of the screens of its
web client, with TLC configurations and TLAPS proofs.
Paths below are relative to the repository; `core/` stands for
`packages/core/src/modules/`. "Spec" is the Portuguese specification at the
root of the repository.

## 1. The system

NestJS API and BullMQ worker processes share one PostgreSQL database (Prisma, at
the default isolation level READ COMMITTED) and one Redis. The web client talks
HTTP and receives events over a socket. All state that matters is in Postgres;
processes keep nothing between requests, so what makes the system hard is the
interleaving of handlers at their `await`s, and what is left when one dies.

| component | state it keeps | operations | hard part | correct when |
|---|---|---|---|---|
| inventory (`core/inventory`) | four stock counters per product | reserve, release, commit, restock | conditional updates under concurrency, lock order | counters add up and equal what the rows say |
| quotes (`core/quotes`) | `quotes` rows with a TTL | create, consumable | checks before the transaction, alcohol cap read | a quote ends once |
| orders (`core/orders/orders.service.ts`) | `orders`, `payments` | create, createAtCounter, settle | charge outside the transaction; concurrent, late and repeated outcomes | order, payment, voucher, invoice and stock change together, once |
| expiry (`core/orders/expiry.service.ts`) | - | expireQuotes, expireOrders | races with pay and with the webhook | every reservation ends |
| payments (`core/payments`, webhook) | the gateway's own record | charge, getStatus, webhook | lost, late, duplicated answers | paid in time means a voucher |
| counter (`core/counter`) | - | quote, sell | a sale is three transactions | as orders |
| vouchers (`core/vouchers`) | `vouchers` | issue | unique short code | one voucher per paid order |
| staff (`core/staff`) | `redeemed_qty`, `redemptions` | scan, find by phone, redeem | two bars, one voucher; refund meanwhile | nothing is handed over twice |
| admin (`core/admin`) | `events`, `products`, `refunds` | state, parameters, override, stock, refund, products | decisions on stale reads | refunds and restocks are of what was not handed over |
| invoicing (`core/invoicing`) | `invoices` | enqueue, process | claim, provider call, retry, crash | one document per sale, eventually or reported |
| market (`core/market`) | `product_engine_state`, `price_ticks`, `events` | tick, snapshot | five awaits between what a tick reads and what it writes; window of sales | each tick and each sale counts once, and the market moves |
| pricing engine (`packages/pricing-engine`, `shared/src/money.ts`) | - | `runTick`, validation, warnings | zeros, bounds, rounding | prices stay in range and in step, and come back to base |
| scheduler (`apps/worker`) | Redis lock per event | jobs every few seconds, tick lock | lock expiry, death of the holder | one tick at a time, and always another |
| idempotency (`packages/core/src/common`) | `idempotency_keys` | claim, remember | a request that fails or dies | one execution per key |
| participants, retention, authentication | `participants`, `staff_users`, cookies | join, sign in, anonymise | requests in flight, failing rows | everybody is forgotten in the end |
| leaderboard (`core/leaderboard`) | - (reads orders) | score, ranking, teams | status changes behind it | a settled score stays |
| reports, dashboard (`core/admin`) | - (reads orders) | metrics, sales, till, refunds, catalogue | three queries over the same rows | they tell one story |
| realtime | - | publish | loss, overtaking | see the prices on screen |
| web client (`apps/web`) | cached snapshot, cart, form drafts | see section 2 | answers that arrive late, on another screen | nobody pays, or is served, on what was not on screen |
| audit log, configuration, logging, CLI | rows; - | append; start-up | - | - |

How they interact: a **quote** reserves stock; an **order** consumes the quote,
is **charged** at the gateway outside any transaction, and gets a **payment**
row; an outcome reaches `settle()` from four places (the webhook, the poller,
the expiry job, the request itself when the gateway or the till has the money at
once), and `settle()` moves the stock, the order, the **voucher** and the
**invoice** in one transaction. Redemption and refund work on the voucher and
the order afterwards. The tick reads sales and stock and writes prices, which
quotes copy; the organiser's requests write the same rows. A tick is published to
the screens, which also fetch snapshots; ranking and reports are read from the orders.

## 2. Modules

| module | what it is |
|---|---|
| `States` | `packages/shared/src/domain/states.ts`: the life cycles, as tables |
| `Checkout` | quotes, orders, settlement, till, expiry, poller, webhook, stock |
| `StockLedger` | abstract specification: what a reservation of stock promises |
| `MCCheckout` | `Checkout` on a small party, for TLC |
| `Redemption` | vouchers at the bar: redeem and refund, with row locks |
| `VoucherLedger` | abstract specification: what a voucher promises |
| `MCRedemption` | `Redemption` with two vouchers, for TLC |
| `Invoicing` | the queue of fiscal documents: batches, claims, provider, retries |
| `MCInvoicing` | `Invoicing` with three sales, for TLC |
| `Market` | the tick, the tick lock, the sales it counts and the organiser who overlaps it |
| `MCMarket` | `Market` with two workers, for TLC |
| `Pricing` | the pricing engine and its rounding, as operators |
| `Ranking`, `Books`, `Catalogue` | leaderboard, reports and the catalogue's CSV, as operators |
| `Night` | buying, ticking, refunding, importing as whole requests, over the four above |
| `MCNight` | `Night` in a small bar, for TLC |
| `MarketView` | live prices on a screen: `use-market.ts`, the socket, the snapshot |
| `Phone` | a participant's phone: entry, cart, checkout, payment, vouchers |
| `Till` | the till of `counter.tsx` with the requests it sends |
| `Scanner` | the scanner of `staff.tsx` with the requests it sends |
| `Handover` | what `redeem` asks before drinks go out, shared by the two |
| `Panel` | the organiser's form of engine parameters and the API behind it |
| `Devices`, `MCDevices` | the five screens, one at a time, for TLC |
| `Sessions` | participants, cookies, accounts, retention |
| `Requests` | guards, idempotency keys and handlers, over `Sessions` |
| `MCAccess` | `Requests` with two phones and a terminal, for TLC |
| `CheckoutProofs` | what holds of `Checkout` at READ COMMITTED, and the refinement, proved |
| `RedemptionProofs` | what holds of `Redemption` whatever overlaps, and the refinement, proved |
| `InvoicingProofs` | what holds of `Invoicing` whatever overlaps, proved |
| `MarketProofs` | what holds of `Market`, proved |
| `DeviceProofs` | the safety of all five screens, proved |
| `AccessProofs` | one execution per key, and the types of `Requests`, proved |
| `PricingProofs` | sums over finite sets; rounding; what a tick of the engine does to a price, proved |
| `NightProofs` | sequences, the CSV and its parser, the books and the ranking; all the safety of `Night`, proved |

### Checkout

A *handler* is one execution of an API request or of one iteration of a worker
job (`Request`, `Job`: how many may overlap). `handler[h]` is its program counter
and what it has read; a step is one transaction or one external call, so all the
places where the code awaits are places where others run. A quote, the order
made from it, its payment row and the gateway's record share an identifier: the
schema has unique indexes for each of those links.

| code | actions |
|---|---|
| `QuotesService.create` | `BeginQuote` (checks), `CreateQuote` (transaction) |
| `consumableQuote`, `consumeQuoteIntoOrder` | `BeginCheckout`, `ConsumeQuote` |
| `OrdersService.create` | `Charge` or `ChargeFails`, `RecordCharge`, `LinkPayment` |
| `createAtCounter` | the same with `RecordTillPayment`, then settles PAID |
| `settle` | `SettleRead`, then `SettleApply` or `SettleAborts` |
| webhook, `pollPending`, `expireOrders` | `Webhook`, `PollPayment`, `ExpireOrder`, each leading to `SettleRead` |
| `expireQuotes` | `FindOverdueQuote`, `ExpireQuote` |
| `changeState`, `adjustStock`, `archiveProduct` | `ChangeEventStatus`, `AdjustStock`, `ArchiveProduct` |
| time, gateway, process death | `QuoteTtlPasses`, `PaymentTimeoutPasses`, `GatewayDecides`, `Crash` |

**Isolation.** `settle()` is the one transaction here that reads, decides in
JavaScript and then writes unconditionally, so it is two steps: at READ COMMITTED
another settlement can run between them. The other
transactions are conditional updates, which re-evaluate their condition under the
row lock, and are one step. The write half of `settle()` is one step because its
first statement locks the payment row and it commits or rolls back as a whole.

**What overlapping settlements may break.** Two settlements of one order that both
read its payment PENDING are both applied; `settle_race_strands` shows what that
does. `raced` is a history variable, which no step reads: the orders settled while
another settlement of the same order was open. The properties say how far the harm
goes. Conservation, one order per quote, all-or-nothing fulfilment and no voucher without money hold of
every order, raced or not. A voucher on a dead order, an outcome overwritten and a
reservation ended twice are found on raced orders only; wrong counters and
settlements that abort, only where a product of a raced order is concerned
(`Clean`). No assumption on the isolation level is left anywhere.

**Left out.** Prices, VAT, names, phones, signatures; refusals that change
nothing (limits, adult declaration, alcohol cap); notifications and the audit
log, which nothing reads; the batch size of the jobs (one row at a time). One
organiser at a time. A final answer of the gateway stays final.

### StockLedger

A reservation takes its whole basket off the shelf or does not happen, and then
ends once, sold or given back; the organiser may correct the shelf. `Checkout`
implements it under the mapping `PhaseOf` (from the quote's and the order's
status) and `free <- available`, without ever reading the payment, voucher or
handler state: all the retries are stutters. `EndAgain` is the one step that is not
the ledger's own; only raced orders take it.

### Redemption

Picks up where `Checkout` ends, with paid orders and their vouchers. A request
reads the voucher or the order, then writes in one transaction. Its steps are the
statements at which it may wait for a row: `handler[h]` holds what it read, the
units it has claimed and not yet committed (`claimed`), and, for a refund, the
units it will put back (`back`). Nothing is visible to others until the commit.

| code | actions |
|---|---|
| `StaffService.redeem`, the reads | `BeginRedeem` |
| the loop over the lines | `ClaimLine` (one row each), `RefuseLine` (rolls back) |
| `fullyRedeemed` | `CountPending`: sees what is committed and its own claims |
| `voucher.update`, `order.update`, commit | `MarkVoucher`, `CommitRedeem` |
| `AdminService.refund`, the reads | `BeginRefund` |
| refund row, `restock`, `order.update` | `MarkRefunded`: the rows are locked |
| `voucher.updateMany`, commit | `CommitRefund` |
| `changeState` | `ChangeEventStatus` |
| Postgres, process death | `DeadlockVictim`, `Crash` |

**Locks.** `Blocks(g, h)` says which open transaction `h` waits for; it is derived
from the state, so there is no lock table to keep right. A conditional update
whose condition fails on what is committed matches no row and does not wait
(`RefuseLine`); one that matches waits, and its condition is evaluated again when
it gets the row (`ClaimLine` reads the current value). `DeadlockVictim` is the
deadlock detector: any one of a circle of waiting transactions fails. A refund
takes its product rows and the order in one step: only refunds write those
rows, in product order, so no circle can close between the two.

**What overlapping requests may break.** Refunds and redemptions decide on reads made
before or beside what they write, so some of what the code says fails when two requests
about one voucher overlap. Two history variables, which no step reads, say of which
vouchers that has been so: `crossed`, a refund and another request that was open with
it; `shared`, two redemptions. `OnlyUnhandedGoesBack` is the code's own claim, and
`refund_races_redemption` refutes it. What remains is the scope of the harm: what
was handed over still counts as sold, but for products on a crossed voucher (`HandedWereSold`); a
voucher that owes nothing is marked redeemed unless it is shared, however refunds
race with it (`RedeemedWhenDone`).

**Left out.** The age check, the list of redemption rows (each is written with
the increment it records), scanning, notifications. An order has one line per
product, as `mergeDuplicates` makes it. Stock sold to others is in `SoldBefore`.

### VoucherLedger

Drinks of an open voucher are handed over a few at a time; it is used up exactly
when all are; a refund ends it. `Redemption` implements it under `handed <-
redeemed`, `phase <- order`, but for `Stray`: a crossed or shared voucher may get a status it
should not have, or be served after its refund, never beyond what was bought.

### Invoicing

`settle()` leaves an invoice row (`Enqueue`); the job works them off. A worker is
one execution of `processPending`; the scheduler starts one every 30 s, up to four
jobs run at once, and a batch of 25 rows at up to 15 s each takes longer than that,
so executions overlap even in one process.

| code | actions |
|---|---|
| `enqueue` | `Enqueue` |
| `findMany` | `Fetch`: a batch of the oldest due rows, with the attempts seen |
| the conditional `updateMany` | `Claim`, or `Skip` when it matches nothing |
| `provider.issue` | `ProviderIssues`, `AnswerLost`, `ProviderRefuses` |
| the update after it, the one in `catch` | `RecordIssued`, `RecordRefused` |
| process death | `Crash` |

The provider holds at most one document per order, as the `Idempotency-Key` asks
of it (`documents`). The claim does not lock the row while the provider is asked: a
second execution that reads the row later claims the next attempt. What one of them
records last stays, so an `ISSUED` row may go back to `PENDING` and be issued again
(the same document) or end `FAILED` with a document at the provider; the properties
are what is true in spite of that. The contents of the document are left out.

### Market

`event`, `product`, `engine` and `rows` are the tables; `worker[w]` is where a worker
is in its tick and what it has read by then; `request` is the organiser's request in
flight. A tick reads event, products and sales in three awaits and writes in one
transaction, which its own number and the unique index guard (`CanPersist`).

| code | actions |
|---|---|
| `SchedulerService`: sweep, `SET NX`, the two calls that release | `Sweep`, `AcquireLock`, `CheckLock`, `DeleteLock` |
| `TickService`: the three reads | `ReadEvent`, `ReadProducts`, `ReadSales` |
| its transaction | `Persist`, `PersistFails` |
| Redis, process death | `LockExpires`, `Crash` |
| `settle` as far as ticks see it | `StampPayment` (the time), `CommitPayment` (the row), also of what is archived or sold out by now |
| `AdminService`: read and check, then write | `Begin…`, then `ChangeStatus`, `FixPrices`, `UpdateEngineParams`, `OverridePrice`, `UpdateProduct`, `ArchiveProduct`; `CreateProduct`, `StockRunsOutOrIn` in one step |
| time | `TimePasses` |

What the engine answers is any price in the range it was handed (`Answers`); `Pricing`
says which. `calm` is chosen once, and says what keeps quiet: `"lock"`, a lock outlives
its tick; `"requests"`, no request overlaps a tick; `"organiser"` and `"payments"`, there
are none. It turns the assumption of a property into part of the state.

**What the code does, and no property hides.** `updateProduct` and an import may move
a range away from under the current price. From then on `runTick` refuses the whole
event at every tick, without a word to anybody; the check in `migration.sql` ("The
engine state must stay inside the product's published range (L2).") only asks for a
positive price. `TheMarketMoves` names this case (`Readable`). A lock that runs out while
its holder works lets a second worker write an older `lastTickAt`, and a sale may then
count twice: `CountedOnce` assumes that it does not. An override written while a tick is
in flight is overwritten by it. A sale stamped before a tick reads and committed after is
counted by no tick. A pause or the emergency switch is overtaken by a tick in flight, and
by at most one. Two organisers who change the state at once are not modelled.

### Pricing, Ranking, Books, Catalogue and Night

`Pricing` is the engine: demand, shares, drift, step cap, renormalisation, rounding into
the range, overrides, validation and warnings. Floats are integers: raw prices in tenths
of a cent, ratios in thousandths, demand in hundredths of a unit, rounded down, so that it
reaches zero as it does under `DEMAND_EPSILON`. `Ranking` is the score and the view
of each participant, `Books` the dashboard and the reports, `Catalogue` the CSV of the
products and its parser, on cells that are sequences of characters.

`Night` runs them on the same rows, one request at a time: `Quote`, `QuoteExpires`,
`PlaceOrder`, `Pay`, `OrderExpires`, `HandOver`, `Refund`, `Tick`, `Pin`, `Archive`, `updateProduct`,
`Import`. Interleavings are `Checkout`'s, `Redemption`'s and `Market`'s; here the question is what the
numbers say of each other. `LastRound` closes the bar and forgets the orders, so that the
market may run on by itself in a bounded state.

The organiser edits: `updateProduct` types in one of `Ranges`, and `Import` uploads one of the
texts in `Files`, which `parseProductsCsv` reads and which may rename, reprice, add or bring back
products, or be refused as a whole. Neither looks at the current price or at a pin, so both
may leave a price outside the range of its product; `Tick` then does nothing (`Readable`), until
an edit brings the range back. That a tick never throws is therefore no property of this
code. `PricesMoveInStep` says what is: nothing but an edit of the range of a product makes it
one that `runTick` throws on, and a tick that is taken keeps its bounds, from whatever state edits left.
`IdleMarketReturns` is of markets that are `Readable`.

Not modelled: the columns `categoria`, `volume_ml` and `custo`; the other columns of `updateProduct` (an
import changes them); formatting and parsing of
money; windows of the alcohol cap other than one; opting in to the ranking (a constant).
What a reader of the code may trip over: rounding to a step may leave a pinned price up to half
a step from its pin, and up to a whole one where the nearer multiple is out of range
(`PinKept`); a comment in the leaderboard says that another
round can never raise a score, which holds from ten units on and not below them
(`ScoreSettles`); a partial refund takes the whole order from the takings; the dashboard's
product rows leave archived products out, and its units sold do not; what share of the
demand a product had outlives a pause, until its demand has decayed.

### The screens: MarketView, Phone, Till, Scanner, Panel, Devices

Each module is one screen with the part of the server it talks to. A call in flight is a
record; it is handled once or never, and its answer, or an error, may come at any time and
find another screen. Component state goes with its component; the cart and the query cache
stay. `Devices` runs one of the five, chosen in `Init`: they share nothing but the server,
which each module lets answer in any way the others could bring about.

| code | module and actions |
|---|---|
| `use-market.ts`, `socket.ts`, the snapshot and the gateway | `MarketView`: `Connect`, `Disconnect`, `Receive`, `SnapshotArrives`, `RefetchOnFocus`, … ; `MarketTicks`, `SellsOut`, `ReadSnapshot` of the server |
| `App.tsx`, `join.tsx`, `cart.tsx`, `store.ts`, `checkout.tsx`, `payment.tsx`, `vouchers.tsx` | `Phone`: `Join`, `MeFails`, `Add`, `Pay`, `SeeCurrent`, `SendOrder`, `Answer`, `FetchOrders`, … ; `Handle` of the server |
| `counter.tsx`, `CounterService` | `Till`: `RingUp`, `CheckAge`, `OpenSale`, `ConfirmSale`, `DeliverNow`, `TillAnswered`, … ; `HandleTill` |
| `staff.tsx`, `StaffService` | `Scanner`: `LookUp`, `LookupArrives`, `TickAge`, `Deliver`, … ; `HandleRedeem` |
| `engine-params.tsx`, `admin.tsx`, `updateEngineParams` | `Panel`: `PollDashboard`, `TurnDial`, `Save`, … ; `ReadEngineParams`, `WriteEngineParams` |

**What the code does, and no property hides.** *Prices:* a fetch under way when the socket
comes up is not cancelled while the cache is empty, so a first snapshot may be older than
the connection (`gap` is then -1); a tick delayed on the wire may take prices back behind a
newer snapshot; nothing refetches periodically. *Phone:* a comment of the payment screen
calls the socket its fast path, but the screen only polls; an answer to `POST /orders` that
comes late empties a cart filled since; when it is lost, a second quote may become a second
order; "see current price" may be tapped twice, which reserves twice; a `GET /me` that fails
shows the entry form to somebody who is in, and joining again replaces the cookie. *Till:*
a sale whose answer is lost
shows an error though it was recorded; a late quote answer may replace a receipt; an amount of cash
that does not cover blocks the button for a card as well; lines of a drink that left the list
are hidden and still sent. *Scanner:* a late answer to a redemption replaces the voucher on
screen. *Panel:* a form is copied when it is mounted, so its save overwrites what
another organiser saved since; the properties are what is true in spite of these.

**The age box of the till** keeps its tick when lines are taken off one by one, also when the last
alcoholic line goes and with it the box itself; only the clear button and a finished sale reset
it. So the tick may be older than the customer. `ticked` and `rungUp` are history: when the box
was last really ticked, and, for each sale with alcohol, what that was as it was rung up.
`NextCustomer` is somebody who leaves having bought nothing. `till_keeps_the_tick` shows that the
comment "already confirmed when this was rung up, face to face" is not true of the code, and
`AlcoholAfterAgeCheck` asks of the till no more than the code gives: a tick, on a screen that
listed alcohol, since the till was last cleared or a sale finished there, however late the
answers. Of the scanner it asks a check for that very voucher.

Not modelled: the product rows of the panel (their price text goes stale in the same way;
the stock button sends its amount again while a request is pending), the ranking screen, the
price history, texts and languages.

### Sessions and Requests

`Sessions` keeps the participants table (a row per join or counter quote), the cookie of each
phone, the accounts of the bar and the token of each terminal, and the retention job. `Requests`
takes one API request from its guard to its answer: `Arrive` (who it is, at that moment),
`FindKey` and `InsertKey` (`claim`), the handler, `Remember`, and `Dies` at any step. A repeated
request is a new one with the same key. The handler reads the event (`requirePurchasable`), writes
the participants table (`Write`: the phone number of an order, the customer of a counter quote),
and goes on to its end (`Execute`) or is refused there (`Dies`), with the row written; of other
routes the key knows no more than their name.

**What the code does, and no property hides.** A handler that fails, a process that dies, or a
`remember` that is lost leaves its key claimed for ever: every repetition is refused, with an
invitation to try again in a moment, and no job deletes keys. The web client sends no
`Idempotency-Key`, so its own protection is `Checkout`'s (a quote becomes one order). A counter
quote creates its customer before the quote's own checks. `optIn` after a participant was
anonymised is not modelled. Passwords, TOTP and token signatures are a Boolean; the random
nickname that the retention job writes is taken to collide with no other. `RetentionDaysPass`
assumes that no request lives for days.

## 3. Runs

The party: two drinks; a phone quote (1 gin, 1 beer) and a till quote (1 gin,
2 beers); two concurrent requests and one job. Two requests and a job are enough
for every pair of overlapping handlers the code has (tap/tap, tap/expiry,
webhook/poll, webhook/expiry) with a bystander. Two quotes are enough for one to
take what the other holds, which is how a race does harm. `MCStock` has stock
for one of the two, `MCPlenty` for both. Runs without the liveness properties
use the symmetry of the two requests. Deadlock is not checked: a party ends.

| run | result | shows |
|---|---|---|
| `checkout_ledger` | pass | overlapping settlements, lost charges, immediate PAID, one crash, stock corrections: conservation, one order per quote, all-or-nothing fulfilment, no voucher without money; counters, life cycles, aborts and the ledger are disturbed by raced orders and nothing else |
| `checkout_live` | pass | charge fails, answers at once, a crash: only *stranded* and *robbed* orders keep their stock for ever; money in time becomes a voucher without webhooks |
| `redemption_requests` | pass | two requests, two vouchers, locks in all orders, a crash: no unit twice, none owed on a used-up voucher, counters natural, every request ends; `VoucherLedger` is left, and sold counters are wrong, only by requests about one voucher that overlap |
| `invoicing_overlap` | pass | two executions, lost answers, a crash: attempts exclusive and bounded, statuses true, every invoice tried until its attempts are used up |
| `market_ticks` | pass | two workers, a crash or a failed transaction or an early lock expiry, an organiser or a sale: each tick written once, each sale counted once, stops hold, the market moves |
| `night_books` | pass | a night with every kind of order, edited ranges and uploaded files: dashboard, reports and drawer agree, prices move in step, stop for nothing but an edit, and come back, settled scores stay, the catalogue survives its CSV |
| `devices` | pass | each screen with late, lost and failed answers: no price over a gap, no unseen charge, no alcohol without a tick (at the scanner, for that voucher), whole forms, no endless wait |
| `access` | pass | two overlapping requests with one key, joins, sign-ins, retention with failing rows: one execution per key, everybody forgotten |
| `settle_race_strands` | violation | `settle()` is not idempotent under concurrency: applied twice, it can strand another customer's order |
| `open_quotes_pass_the_cap` | violation | the alcohol cap counts orders and not open quotes: a participant passes it by opening several checkouts before paying |
| `refund_races_redemption` | violation | what is handed over between a refund's read and its commit goes back on sale |
| `till_keeps_the_tick` | violation | the age box ticked for a customer who buys nothing lets the next one have alcohol unasked |

Six more disagreements show in these models, and are kept here instead of as
runs. Two refunds that both read the order before either commits return more than the price
(`ValidAmount` is all there is, on what each read). Two bars that each count the other's line as
pending leave a voucher `PARTIALLY_REDEEMED` that owes nothing (the excuse *shared* in
`RedeemedWhenDone`). An order whose charge threw never expires (the excuse
*stranded* in `ReservationEndsOrIsStranded`). A PAID answer of `charge()` itself yields
no voucher, since the payment row is created with its final status. A payment
confirmed after the expiry job ended its order is neither accepted nor refunded. A
worker that dies in the last attempt leaves an invoice `PENDING` for ever, with no
attempt left (`EveryInvoiceIsTried` asks for the attempts, not for their outcome).

**Bounds.** `MaxCrashes`: 1, enough to lose any one handler at any step.
`Adjustments`, `MaxStock`: one unit up or down, so that both quotes may come to
fit. `StatusTargets`, `Archivable`: the event may close and a drink may go while
handlers are on their way. `ChargeReplies`, `GatewayErrors`: what `charge()` may
do; `{"PENDING"}` and FALSE is the mock gateway.

The run of the life of reservations has one request and one job, which is enough for charge, poll
and expiry to meet on either quote, and for a settlement to race the one of `expireOrders`; the
event may close there.

For `Redemption`: Ana has a gin and two beers, Rui a beer of the same product, so that a restock
of one voucher meets the other. `Claims` ticks Ana's lines alone, together, and together in the
opposite order, which is what deadlocks need. `Amounts` is empty where all properties run, since a
refund ends its order whatever its amount (the default is all that is left), and has a partial one
where the claim is refuted. Two handlers on two vouchers show every pair of overlapping requests,
on one voucher and on the shared product; each may then make another request. The safety
properties are proved for any number (`RedemptionProofs`); that every request ends is checked for
two.

For `Invoicing`: three sales and batches of two, so that one waits behind a full
batch; two executions; `MaxAttempts` 2 instead of 8, enough for a first, a last and
a stale attempt.

For `Market`: one drink on sale and one the organiser may add, since ticks treat all
products alike; two workers, two ticks, so that a window follows another; `Ranges` has one
above the opening one, so that a price may be left outside; one request, one fault, one sale,
and `MCModes` says which of them meet. The clock only stands still or moves on when that can
be told apart (`TimePasses`). The three safety properties are proved for any number.

For `Night`: two substitutes, of which one is named with every character a CSV escapes, and a
soft drink alone in its group; two buyers in different teams; at most two sales, at most three
sales and edits together, one tick
before the bar closes and any number after; `MaxScored` is 2 instead of 10, so that a
score settles within a night. `MCFiles` are the file of the opening and one that moves a range above the
price and calls a drink by a new name; `MCRanges` has a range below it.

For `Devices`: three ticks, two quotes, two sales, two vouchers, three look-ups in flight,
two organisers with two dials and two saves. A cart of one drink and one unit is enough for a
call to find another cart than it was sent with. The four safety properties are proved for
any number. For `Access`: two requests, which is enough to race for a key, two phones with
two nicknames, two rows in batches of one, so that rows wait for each other.

**Fairness** (`LiveSpec` of `Checkout`). A handler that has started continues (the process
runs; a crash is the `Crash` action). Deadlines pass. Each job is strongly fair
per row: BullMQ enqueues the jobs every few seconds and a batch takes every row
that qualifies, so a row that qualifies again and again is looked at. This
assumes that fewer than 200 stranded orders exist, since `expireOrders` takes the
first 200 rows in no order. Nothing is assumed of users, webhooks or the
gateway's decisions. Once the gateway has the money of an order its deadline is
no longer owed: otherwise `PaidInTimeGetsVoucher` would hold through its excuse,
the overdue order, whatever the poller did.

`LiveSpec` of `Redemption`: a request that has begun is run on, with strong
fairness because Postgres grants a row lock in the order of asking, so a request
is not passed over for ever by later ones.

`LiveSpec` of `Invoicing`: an execution runs on (a request to the provider ends
within 15 s), and while rows are due the scheduler starts one that finds them.
Nothing makes the provider issue.

`Spec` of `Market`: a worker's tick, once begun, runs on; the sweep comes back every few
seconds; a lock has a TTL; a request of the organiser is answered; time passes. Nothing is
assumed of sales. `Spec` of `Night`: the tick comes back, and no more (the fairness is on
`Clock`, which only `Tick` takes). `PhoneFairness` of `Phone`: the poll fires and in the
end is answered, since the network does not stay down for ever, and the effect that leaves for the
voucher runs after the render. `Fairness` of `Requests`: the retention job comes back every few
hours (weak), and a database that works does not refuse the same row for ever (strong, per row).

## 4. Proofs

For every set of products, quotes and handlers, every basket and every bound;
the assumptions are the named `ASSUME`s of the components, which TLC
evaluates. (Each component has a `TypeCorrect` of its own.)

| theorem | property | for |
|---|---|---|
| `TypeCorrect` | `TypeOK`: in particular no counter is ever negative | READ COMMITTED |
| `StockIsConserved` | `StockConserved` | READ COMMITTED |
| `EveryQuoteEndsOnce` | `QuoteEndsOnce` | READ COMMITTED |
| `EveryPaidOrderIsFulfilled` | `PaidIsFulfilled` | READ COMMITTED |
| `EveryVoucherIsPaidFor` | `VoucherMeansMoney` | READ COMMITTED |
| `LedgerIsExact` | `LedgerExact` | READ COMMITTED, scope by `raced` |
| `VouchersAreOfPaidOrders` | `VoucherMeansPaidOrder` | READ COMMITTED, scope by `raced` |
| `SettlementNeverAborts` | `SettleNeverAborts` | READ COMMITTED, scope by `raced` |
| `OrdersFollowTheirLifecycle` | `OrderFollowsLifecycle` | READ COMMITTED, scope by `raced` |
| `CheckoutImplementsLedger` | `LedgerSpec` | READ COMMITTED, scope by `raced` |
| `TypeCorrect` (vouchers) | `TypeOK` | any overlap |
| `NothingHandedTwice` | `HandedWithinQty` | any overlap |
| `UsedUpMeansHanded` | `RedeemedMeansHanded` | any overlap |
| `HandedStaySold` | `HandedWereSold` | any overlap, scope by history |
| `NothingPendingMeansRedeemed` | `RedeemedWhenDone` | any overlap, scope by history |
| `RedemptionImplementsLedger` | `LedgerSpec` | any overlap, scope by history |
| `TypeCorrect` (invoices) | `TypeOK`: attempts within `MAX_ATTEMPTS` | any overlap |
| `ClaimsAreExclusive` | `AttemptsDiffer` | any overlap |
| `IssuedHaveDocuments` | `IssuedMeansDocument` | any overlap |
| `GivenUpOnlyAtTheEnd` | `FailedMeansGivenUp` | any overlap |
| `TicksHaveOneWriter` | `OneWriterPerTick` | any workers, faults, requests |
| `StopsHold` | `StoppedMeansStopped` | any workers, faults, requests |
| `SalesCountOnce` | `CountedOnce` | a lock outlives its tick |
| `PricesNeverCrossAGap` | `NeverAcrossGap` | any loss and order of messages |
| `ChargesWereShown` | `ChargedWhatWasShown` | any loss and order of answers |
| `AlcoholIsChecked` | `AlcoholAfterAgeCheck` | any loss and order of answers |
| `FormsAreWhole` | `OneFormsParams` | any overlap of saves |
| `TypeCorrect` (screens) | the type invariants of the five screens | - |
| `KeysExecuteOnce` | `OncePerKey` | any overlap, any death |
| `TypeCorrect` (requests) | `TypeOK` | any overlap, any death |
| `RoundIntoRangeIs`, `TickIs` | (on operators) | any products in range, any sales, parameters of the schema |
| `FileParses`, `RoundTrip` | (on operators) | any rows, any catalogue of valid products |
| `NightInvariant` | (the invariant below) | one request at a time |
| `CatalogueComesBackAlways` | `CatalogueComesBack` | any catalogue, files and edits |
| `PricesMoveInStepAlways` | `PricesMoveInStep` | any catalogue, parameters, sales, files and edits |
| `BooksAgreeAlways` | `BooksAgree` | any number of orders, lines and refunds |
| `ScoreSettlesAlways` | `ScoreSettles` | any people, orders and `MaxScored` |

`FlowInv` is the invariant behind the first group. The row properties are not
inductive alone: that a payment exists only for an order needs to know that a
request between consuming a quote and recording its payment is alone with that
order (`ChargingAlone`), that whoever settles does so for a recorded payment
(`SettlingKnown`) with money behind a PAID (`OutcomeMeansMoney`), and that a
quote being created is nobody else's (`QuotingFresh`).

`RaceInv` (of `CheckoutProofs`) adds the rest without assuming that settlements come one at a
time. What an open settlement has read is still so unless its order has been raced
(`SettlingFresh`): whoever else wrote it in between was open with it, and a settlement that
commits while another one of its order is open puts the order into `raced`. A raced order has
ended (`RacedEnded`), so it is in no sum that could still change behind an open settlement's back.
With that, a voucher outside `raced` is of a paid order, and the counters of a clean product are
exact, because a step that gets them wrong is about a raced order. The counting lemmas
(`UnitsOfOne`, `UnitsAdd`, `UnitsRemove`) turn the sum over baskets into the cardinality of the
set of single units, `Units(S, p)`, so that adding or removing a quote is a lemma about finite
sets and needs no induction.

`RaceInv` of `RedemptionProofs` carries the redemptions: two open transactions never claim units of
the same line (`RowsLocked`), which makes "committed plus claimed is within the
quantity" inductive, and a request that saw everything handed over is still right
when it writes so (`FullMeansHanded`), because units are never taken back from a
customer. `OpenInv` adds that what an open request read is still so unless its
voucher is crossed or shared, that voucher and order agree on all others, and that the sold
counter of a clean product covers every unit that was handed over or may still be
(`UnitsDiffer` counts what a restock removes).

`QueueInv` carries the invoices. The claim is what makes attempts exclusive: an
attempt under way has been counted on the row (`AttemptsCounted`), so a new claim,
which takes the count as it is, differs from all of them; and a late refusal of the
last attempt still finds the count at its end.

`TickInv` carries the ticks: whoever is between reading the event and writing is at the next
tick at most, and, if the market has been stopped since, at the one after the stop
(`TicksAreNext`); the guard of the transaction then leaves one writer. `CountInv` adds what a
lock that holds gives: one worker at a time is past it (`LockHeld`), times are in order, and
what the tick under way counts is later than all that was counted (`WindowsFresh`).

`DeviceInv` is the conjunction of one invariant per screen. For prices: as long as the socket is
up, everything that could still become the snapshot, a fetch answered and every message on
the wire, is from after the gap (`SinceTheGap`). For the phone: a quote is made once, and
from then on what it locks is what any checkout shows of it (`QuotesMadeOnce`,
`ShownIsLocked`, `SentAsShown`). For the till: a box that is ticked has been ticked since the till was
last cleared, and a sale with alcohol was rung up so, from the quote through the sold lines to what is
handed over. For the scanner: what is
on screen, or asked for, covers all that is left of the voucher, so a voucher can grow no
alcohol behind a tick that was not made for it (`ScreenHonest`, `RedeemChecked`). For the panel:
a form holds every dial, so a save replaces all of what the API has read (`FormsWhole`).

`KeyInv` carries the keys: a request past its claim is the only one of its key, the key's row
says so and has no answer yet (`ClaimsAlone`); what was executed has its key claimed, and what is
about to execute has not been executed (`ExecutedOnce`); each stored answer is that of the execution it
names (`AnswersTrue`).

`NightInv` carries the night, and each property asks for a part of it. *Products*
(`ProductsSound`): whatever ranges are typed in and whatever files are uploaded, each stays one
that `productCreateSchema` accepts and CSV can carry, with natural stock; its price need not be in
its range. What an upload brings is valid because `parseProductsCsv` accepts nothing else, of any
text (`UploadIs`, `ImportStep`). *Rows* (`RowsTyped`): every quote and order carries the sum of
its lines as its total, without which takings, counted by totals, and revenue, counted by lines,
would not be the same; every refund is of an order that is there. *Drawer* (`DrawerIs`): the money
of a method is the sum over the orders that were ever paid by it less the sum over its refunds.
Stock counters stay natural (in `ProductsSound`) because a quote takes all of its lines of a
product off at once, and everything else only adds.

What the operators compute is proved without induction over operators. A fold is the unique
solution of its recursion: that it exists and is unique is shown by `SetInduction` and
`SeqInduction`, which are least-counterexample arguments over a *set* of good subsets or
good sequences, so that they need no operator as a parameter. On this rest:

- *sums* (`SumTake`, `SumAdd`, `SumUnion`, `SumImage`, `SumClasses`): one element more,
  sums of sums, sums over renamed indices, and sums split by class. `BooksAgreeAlways` renames the
  rows of each report into orders and lines, and splits the takings by method.
- *the parser*: `Reads(from, text, to)` composes over concatenation; a cell is read back
  from its escaped form character by character (`EscapedReads`, `PlainReads`), then rows
  (`LineReads`), then files (`FileParses`). The state `closed` is what an escaped quote and the
  end of a cell differ by, and every cell leaves it as a separator expects it.
- *rounding* (`RoundIs` up to `RoundIntoRangeIs`): Euclid's division with
  `MultipleBelow` and `ProductOrder`, the only nonlinear facts.
- *the engine* (`TickIs`): `Capped` bounds the step whatever renormalisation makes of the
  candidates, provided that it makes integers of them (`RenormalizeType`, with the code's
  return when the weighted prices add up to nothing); a free product alone in its group is
  brought to within the precision of a factor of its base (`RenormalizeAlone`).
- *the score* (`ChangedUnits`): the units of a buyer in order n come after those of all older
  orders, so what changes lies behind the first `MaxScored`.

Assumptions on constants (`Night`, `Catalogue`, `Ranking`): `ParamsAssumption`, the parameters are
those `engineParamsSchema` lets an organiser save; `OpeningAssumption`, products are as
`createProduct` makes them through `productCreateSchema` (trimmed, non-empty, min, base and max in
order); `EditsAssumption`, that files are texts and the prices typed in are positive and no larger
than `MaxNumber`; `BasketsAssumption`, one line per product as `mergeDuplicates` makes it;
`BoundsAssumption` and `ScoredAssumption`, that counts are natural numbers and payment methods
finitely many; `NumberAssumption`, that different numbers are written differently and without
CSV's special characters.

Only model-checked is liveness, which is out of the provers' reach with its fairness and
ENABLED: `ReservationEndsOrIsStranded`, `PaidInTimeGetsVoucher`, `EveryRequestEnds`,
`EveryInvoiceIsTried`, `TheMarketMoves`, `IdleMarketReturns`, `WaitingEnds` and
`EveryoneForgotten`. Every safety invariant and every action property of the passing runs
has a theorem.

## 5. Plan

1. done: `States`, `Checkout`, `StockLedger`, their runs and proofs.
2. done: `Redemption`, `VoucherLedger`, their runs and proofs.
3. done: `Invoicing`, its runs and proofs.
4. done: `Market` and its proofs; `Pricing`, `Ranking`, `Books`, `Catalogue` and `Night`.
5. done: the screens and `Devices`, `Sessions` and `Requests`, their run and proofs.
6. done: `PricingProofs` and `NightProofs`, the arithmetic and the books for every input.
7. next, in this order: that a tick's refusal in `Market` is the only way to stand still, as
   an invariant; that the abstract answer of the engine in `Market` (`Answers`) is what
   `TickIs` allows; two organisers at once in `Market`.

**Not modelled.** *Audit log:* a row is appended after each change and nothing reads it.
*Configuration, logging, entry points and CLI:* start-up and input/output (creating an account is
`CreateUser`). *Research simulator:* an offline port of the engine. *Infrastructure and load
tests:* deployment and scripts. *Partly modelled,* for what is missing: short codes and signatures of
vouchers and passwords are cryptography; formatting of money, and the schemas of the API, are
declarative and without state; of the realtime transport only what it may lose or reorder; of the
database schema the unique indexes and checks that handlers rely on; of BullMQ only that jobs come
back and may overlap.
