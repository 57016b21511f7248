------------------------------- MODULE Night -------------------------------
(***************************************************************************)
(* A night at the bar, one request at a time: people buy at the price of   *)
(* the moment, the engine moves the prices by what was paid, drinks are    *)
(* handed over or given back, the catalogue leaves as CSV and comes back,  *)
(* and the organiser's books and the ranking are read from the same rows.  *)
(* Checkout, Redemption and Market take these requests apart; here they    *)
(* are atomic, so that what is computed from the rows can be related.      *)
(***************************************************************************)
EXTENDS Books, Catalogue

CONSTANTS People,        \* participant -> [optIn, team, nickname, adult]
          Opening,       \* name -> the product as it was created
          Files,         \* the CSV texts an organiser uploads
          Ranges,        \* [base, min, max] an organiser types in for a product
          Baskets,       \* sequences of [product, qty]
          Methods, Cash, \* the payment methods, and the one with change
          Params,        \* EngineParams, in thousandths
          Extra,         \* what cash may exceed the total by
          AlcoholLimit, MaxQty,   \* the event's limits
          PinTicks, MaxTick,      \* bounds
          MaxSales, MaxRequests   \* bounds: sales; sales and edits together

\* A product is created through productCreateSchema, sold at its base price.
Created(p, q) ==
  /\ valid([name |-> p, group |-> q.group, base |-> q.base, min |-> q.min, max |-> q.max,
            stockInitial |-> q.stockInitial, order |-> q.order])
  /\ p \in Seq(STRING) /\ trim(p) = p /\ q.group \in Seq(STRING) /\ trim(q.group) = q.group
  /\ {q.base, q.min, q.max, q.stockInitial, q.order} \subseteq 0 .. MaxNumber
  /\ q = [group |-> q.group, alcoholic |-> q.alcoholic, order |-> q.order, base |-> q.base,
          min |-> q.min, max |-> q.max, stockInitial |-> q.stockInitial,
          stock |-> q.stockInitial, price |-> q.base, raw |-> q.base * Fine, demand |-> 0,
          share |-> q.share, archived |-> FALSE, pin |-> 0, until |-> 0]
  /\ q.alcoholic \in BOOLEAN /\ q.share \in 0 .. One

ASSUME ParamsAssumption == engineParamsSchema(Params)
ASSUME OpeningAssumption == /\ IsFiniteSet(DOMAIN Opening)
                            /\ Opening = [p \in DOMAIN Opening |-> Opening[p]]
                            /\ \A p \in DOMAIN Opening : Created(p, Opening[p])
ASSUME EditsAssumption ==
  /\ \A csv \in Files : csv \in Seq(STRING)
  /\ Ranges \subseteq [base : 1 .. MaxNumber, min : 1 .. MaxNumber, max : 1 .. MaxNumber]

\* What the files say, and what a product of the night may be called.
Uploads == {parseProductsCsv(csv) : csv \in Files}
Names == DOMAIN Opening \cup
           {row.name : row \in UNION {Range(file.products) : file \in Uploads}}

\* QuotesService.create merges the lines of one product.
ASSUME BasketsAssumption ==
  \A basket \in Baskets :
    /\ basket \in Seq([product : Names, qty : Nat \ {0}])
    /\ \A i, j \in DOMAIN basket : basket[i].product = basket[j].product => i = j
ASSUME BoundsAssumption == /\ IsFiniteSet(Methods)
                           /\ PinTicks \in Nat /\ MaxTick \in Nat
                           /\ MaxRequests \in Nat /\ Extra \subseteq Nat

VARIABLES products, \* the catalogue with its stock and engine state
          quotes,   \* the open quotes
          orders,   \* in order of creation
          refunds,
          sold,     \* what the next tick counts: units paid since the last one
          tick,
          quiet,    \* the bar has closed and only the market runs on
          edits,    \* what the organiser has changed
          drawer    \* history: the money in hand, by method

vars == <<products, quotes, orders, refunds, sold, tick, quiet, edits, drawer>>

Init == /\ products = Opening
        /\ quotes = <<>> /\ orders = <<>> /\ refunds = <<>>
        /\ sold = [p \in Names |-> 0]
        /\ tick = 0 /\ quiet = FALSE /\ edits = 0
        /\ drawer = [m \in Methods |-> 0]

Room == Len(quotes) + Len(orders) + edits < MaxRequests

OnSale == {p \in DOMAIN products : ~products[p].archived}
Qty(items, p) ==
  SumFunction([i \in DOMAIN items |-> IF items[i].product = p THEN items[i].qty ELSE 0])
Move(items, sign) == [p \in DOMAIN products |->
                        [products[p] EXCEPT !.stock = @ + sign * Qty(items, p)]]

-----------------------------------------------------------------------------
(* Buying.                                                                 *)

alcoholOf(items) ==
  SumFunction([i \in DOMAIN items |->
                 IF products[items[i].product].alcoholic THEN items[i].qty ELSE 0])

\* L8, inside one window: pending orders count, open quotes do not.
alcoholBought(who) ==
  SumFunction([n \in {n \in DOMAIN orders : /\ orders[n].who = who
                                           /\ orders[n].status \in Counted \cup {"PENDING"}} |->
                 alcoholOf(orders[n].items)])

Allowed(who, basket) ==
  /\ \A i \in DOMAIN basket : basket[i].product \in OnSale /\ basket[i].qty <= MaxQty
  /\ alcoholOf(basket) > 0 =>
       /\ People[who].adult
       /\ alcoholBought(who) + alcoholOf(basket) <= AlcoholLimit

Quote(who, basket) ==
  /\ ~quiet /\ Room /\ Len(quotes) + Len(orders) < MaxSales
  /\ Allowed(who, basket)
  /\ \A i \in DOMAIN basket : basket[i].qty <= products[basket[i].product].stock
  /\ LET items == [i \in DOMAIN basket |->
                     [product |-> basket[i].product, qty |-> basket[i].qty,
                      paid |-> products[basket[i].product].price,
                      base |-> products[basket[i].product].base]]
     IN  quotes' = Append(quotes, [who |-> who, items |-> items,
                                   total |-> SumFunction([i \in DOMAIN items |->
                                                            lineTotal(items[i])])])
  /\ products' = Move(basket, -1)
  /\ UNCHANGED <<orders, refunds, sold, tick, quiet, edits, drawer>>

QuoteExpires(q) ==
  /\ quotes' = RemoveAt(quotes, q)
  /\ products' = Move(quotes[q].items, 1)
  /\ UNCHANGED <<orders, refunds, sold, tick, quiet, edits, drawer>>

\* The till records the cash it was handed, the total and something more.
PlaceOrder(q, method, extra) ==
  LET quote == quotes[q]
      received == IF method = Cash THEN quote.total + extra ELSE 0
  IN  /\ quotes' = RemoveAt(quotes, q)
      /\ orders' = Append(orders, [who |-> quote.who, items |-> quote.items,
                                   total |-> quote.total, method |-> method,
                                   received |-> received, status |-> "PENDING"])
      /\ UNCHANGED <<products, refunds, sold, tick, quiet, edits, drawer>>

SetStatus(n, from, to) ==
  orders[n].status \in from /\ orders' = [orders EXCEPT ![n].status = to]

Pay(n) ==
  /\ SetStatus(n, {"PENDING"}, "PAID")
  /\ sold' = [p \in DOMAIN sold |-> sold[p] + Qty(orders[n].items, p)]
  /\ drawer' = [drawer EXCEPT ![orders[n].method] = @ + orders[n].total]
  /\ UNCHANGED <<products, quotes, refunds, tick, quiet, edits>>

OrderExpires(n) ==
  /\ SetStatus(n, {"PENDING"}, "EXPIRED")
  /\ products' = Move(orders[n].items, 1)
  /\ UNCHANGED <<quotes, refunds, sold, tick, quiet, edits, drawer>>

HandOver(n) ==
  /\ ~quiet
  /\ SetStatus(n, {"PAID"}, "REDEEMED")
  /\ UNCHANGED <<products, quotes, refunds, sold, tick, quiet, edits, drawer>>

\* Any amount up to the total ends the order; the drinks may go back on sale.
Refund(n, amount, restock) ==
  /\ ~quiet
  /\ SetStatus(n, {"PAID", "PARTIALLY_REDEEMED"}, "REFUNDED")
  /\ 0 < amount /\ amount <= orders[n].total
  /\ refunds' = Append(refunds, [order |-> n, amount |-> amount])
  /\ products' = IF restock THEN Move(orders[n].items, 1) ELSE products
  /\ drawer' = [drawer EXCEPT ![orders[n].method] = @ - amount]
  /\ UNCHANGED <<quotes, sold, tick, quiet, edits>>

-----------------------------------------------------------------------------
(* The market and the catalogue.                                           *)

\* The count of ticks goes round once it is past every pin.
Clock ==
  /\ quiet \/ tick < MaxTick
  /\ tick' = IF tick < MaxTick + PinTicks + 2 THEN tick + 1 ELSE tick - 1

\* runTick throws, and nothing is written, while a product on sale is not
\* valid: an edit may have left a price outside the range of its product.
Readable == \A p \in OnSale : validProduct(products[p])

Tick ==
  /\ Clock /\ Readable
  /\ LET ticked == runTick([p \in OnSale |-> products[p]], tick + 1, Params, sold)
     IN  products' = [p \in DOMAIN products |->
                        IF p \in OnSale THEN ticked[p] ELSE products[p]]
  /\ sold' = [p \in DOMAIN sold |-> 0]
  /\ UNCHANGED <<quotes, orders, refunds, quiet, edits, drawer>>

Edit == ~quiet /\ Room /\ edits' = edits + 1

Pin(p, price) ==
  /\ Edit
  /\ products[p].min <= price /\ price <= products[p].max
  /\ products' = [products EXCEPT ![p].pin = price, ![p].until = tick + PinTicks]
  /\ UNCHANGED <<quotes, orders, refunds, sold, tick, quiet, drawer>>

Archive(p) ==
  /\ Edit
  /\ ~products[p].archived
  /\ products' = [products EXCEPT ![p].archived = TRUE]
  /\ UNCHANGED <<quotes, orders, refunds, sold, tick, quiet, drawer>>

\* Any range with the base in it; the price and the pin stay as they are.
updateProduct(p, range) ==
  /\ Edit
  /\ range.min <= range.base /\ range.base <= range.max
  /\ products' = [products EXCEPT ![p].base = range.base, ![p].min = range.min,
                                  ![p].max = range.max]
  /\ UNCHANGED <<quotes, orders, refunds, sold, tick, quiet, drawer>>

\* Row after row.  An existing product keeps its stock and its engine state,
\* also where its price is outside the new range, and is on sale again; a new
\* one starts at its base price.
importProducts(rows) ==
  LET at(p) == {i \in DOMAIN rows : rows[i].name = p}
      named == {rows[i].name : i \in DOMAIN rows}
      update(q, c) == [q EXCEPT !.group = c.group, !.alcoholic = c.alcoholic, !.base = c.base,
                                !.min = c.min, !.max = c.max, !.order = c.order,
                                !.archived = FALSE]
      new(c) == [group |-> c.group, alcoholic |-> c.alcoholic, order |-> c.order,
                 base |-> c.base, min |-> c.min, max |-> c.max,
                 stockInitial |-> c.stockInitial, stock |-> c.stockInitial,
                 price |-> c.base, raw |-> c.base * Fine, demand |-> 0, share |-> 0,
                 archived |-> FALSE, pin |-> 0, until |-> 0]
      found(p) == IF p \in DOMAIN products THEN products[p]
                  ELSE new(rows[CHOOSE i \in at(p) : \A j \in at(p) : i <= j])
  IN  [p \in DOMAIN products \cup named |->
         IF p \notin named THEN products[p]
         ELSE update(found(p), rows[CHOOSE i \in at(p) : \A j \in at(p) : j <= i])]

\* The whole file, or nothing while a line of it is wrong.
Import(file) ==
  /\ Edit
  /\ file.errors = {}
  /\ products' = importProducts(file.products)
  /\ UNCHANGED <<quotes, orders, refunds, sold, tick, quiet, drawer>>

\* The bar closes with nothing open.  Only the market runs on, and what no
\* tick reads is forgotten.
LastRound ==
  /\ ~quiet /\ quotes = <<>> /\ Numbers(orders, {"PENDING"}) = {}
  /\ quiet' = TRUE
  /\ orders' = <<>> /\ refunds' = <<>>
  /\ drawer' = [m \in Methods |-> 0]
  /\ edits' = MaxRequests
  /\ UNCHANGED <<products, quotes, sold, tick>>

Next ==
  \/ \E who \in DOMAIN People, basket \in Baskets : Quote(who, basket)
  \/ \E q \in DOMAIN quotes : \/ QuoteExpires(q)
                              \/ \E m \in Methods, extra \in Extra : PlaceOrder(q, m, extra)
  \/ \E n \in DOMAIN orders :
       \/ Pay(n) \/ OrderExpires(n) \/ HandOver(n)
       \/ Refund(n, 10, FALSE) \/ Refund(n, orders[n].total, TRUE)
  \/ Tick \/ LastRound
  \/ \E file \in Uploads : Import(file)
  \/ \E p \in DOMAIN products : \/ Archive(p) \/ Pin(p, products[p].max)
                                \/ \E range \in Ranges : updateProduct(p, range)

\* The sweep comes back for as long as the event runs; only Tick takes Clock.
Spec == Init /\ [][Next]_vars /\ WF_tick(Clock /\ Readable)

-----------------------------------------------------------------------------
(* Properties.                                                             *)

\* Only an edit of its own range makes a product one that runTick throws on:
\* no sale, refund, tick, pin or edit of another product does.  A tick leaves
\* every price on sale inside its range and does not touch what is sold out
\* or archived.  It keeps a pinned price (the end of the range, for a pin that
\* an edit left outside) to within half a rounding step, or within a whole one
\* where the half would leave the range.
\* It moves any other unrounded price by at most maxStepPct of where it stood;
\* and of a product the panel warns about, alone in its group, not away from
\* its base (beyond what a factor in thousandths can tell of its price).
Pinned(p) == overrideAppliesAt(products[p], tick + 1)
Frozen(p) == products[p].archived \/ products[p].stock = 0
rangeOf(q) == <<q.base, q.min, q.max>>

StaysReadable ==
  \A p \in DOMAIN products :
    validProduct(products[p]) /\ rangeOf(products'[p]) = rangeOf(products[p])
      => validProduct(products'[p])

PinKept(p) ==
  LET is == products'[p]  step == Params.roundingCents
      at == clip(is.pin, is.min, is.max)  off == abs(is.price - at)
  IN  \/ 2 * off <= step
      \/ off < step /\ (2 * (at - is.min) < step \/ 2 * (is.max - at) < step)

StepCapped(p) ==
  LET was == products[p]  is == products'[p]  from == previousRawPrice(was)
      top == was.max * Fine
  IN  /\ abs(is.raw - from) <= times(from, Params.maxStepPct)
      /\ was.group \in engineWarnings([o \in OnSale |-> products[o]], Params) =>
           abs(is.raw - was.base * Fine) <= Max({top \div One + 1,
                                                 abs(from - was.base * Fine)})

TickMoves ==
  /\ validParams(Params)
  /\ \A p \in DOMAIN products :
       /\ sold[p] >= 0
       /\ ~products[p].archived => /\ products'[p].min <= products'[p].price
                                   /\ products'[p].price <= products'[p].max
       /\ Frozen(p) => products'[p] = products[p]
       /\ ~Frozen(p) /\ Pinned(p) => PinKept(p)
       /\ ~Frozen(p) /\ ~Pinned(p) => StepCapped(p)
PricesMoveInStep == [][StaysReadable /\ (tick' # tick => TickMoves)]_vars

\* An idle market goes back to its base prices, rounded as any price is
\* (invariants.test.ts), except in a group that is short of stock, and while
\* no product on sale was left with a price outside its range.
IdleMarketReturns ==
  quiet /\ Readable ~> \A p \in OnSale :
    \/ \E o \in OnSale : /\ products[o].group = products[p].group
                        /\ products[o].stock * One < products[o].stockInitial
                                                      * Params.lowStockThreshold
    \/ products[p].price = roundIntoRange(products[p].base * Fine, products[p].min,
                                         products[p].max, Params.roundingCents)

\* The dashboard, the sales report and the till report, read from the same
\* orders by three queries, tell one story: what the till took by method less
\* what was given back is the money in the drawer; the takings are what the
\* till took less the whole of each refunded order; they are the revenue, sum
\* over lines of paid price times units; the units agree, product by product.
BooksAgree ==
  LET m == metrics(orders, products, Methods)
      rows == till(orders)
      stand == {s \in sales(orders) : s.status \in Taken}
      took(meth, S) == SumFunction([r \in {r \in rows : r.method = meth /\ r.status \in S} |->
                                      r.total])
      back(meth) == SumFunction([r \in {r \in refundRows(orders, refunds) :
                                        orders[r.order].method = meth} |-> r.amount])
  IN  /\ \A meth \in Methods : /\ took(meth, Settled) - back(meth) = drawer[meth]
                             /\ took(meth, Taken) = m.takings[meth]
      /\ SumFunction(m.takings) = m.revenueCents
      /\ m.revenueCents = SumFunction([s \in stand |-> s.total])
      /\ \A p \in OnSale :
           m.products[p] = SumFunction([s \in {s \in stand : s.product = p} |-> s.qty])
      /\ m.unitsSold = SumFunction([s \in stand |-> s.qty])

\* Once a buyer's first MaxScored units are settled in orders older than n,
\* nothing that becomes of order n moves the ranking anybody sees.
ScoreSettles ==
  [][\A n \in DOMAIN orders :
       /\ ~quiet' /\ orders'[n] # orders[n]
       /\ Len(UnitsOf(SubSeq(orders, 1, n - 1), orders[n].who)) >= MaxScored
       => \A me \in DOMAIN People : view(orders', People, me) = view(orders, People, me)]_vars

\* What is exported reads back, without an error, as the same catalogue, also
\* after an edit or the import of another file (no sale and no tick changes a
\* column of it, and once the bar has closed nobody edits).
CatalogueComesBack ==
  ~quiet /\ orders = <<>> /\ quotes = <<>> =>
  LET read == parseProductsCsv(exportProducts(products))
      rows == {read.products[i] : i \in DOMAIN read.products}
  IN  /\ read.errors = {}
      /\ {r.name : r \in rows} = OnSale
      /\ \A r \in rows : \A f \in DOMAIN r \ {"name"} : r[f] = products[r.name][f]

\* "Pending orders count too, otherwise the cap could be walked around by
\* leaving several checkouts open at once" (quotes.service.ts): nobody has
\* more alcohol in orders than the cap of one window.
AlcoholCapHolds == \A who \in DOMAIN People : alcoholBought(who) <= AlcoholLimit

=============================================================================
