------------------------------- MODULE Phone -------------------------------
(***************************************************************************)
(* A participant's phone: the entry screen, the cart, the checkout with    *)
(* its locked quote, the wait for MB WAY and the vouchers.  The server     *)
(* appears as the phone sees it, by what it answers to a call (Checkout is *)
(* what it does inside).  A call may fail before or after the server has   *)
(* handled it, and its answer may find the phone on another screen.  The   *)
(* prices on screen are MarketView's: here the drink in the cart may show  *)
(* as sold out or not at any time.                                         *)
(***************************************************************************)
EXTENDS Integers, FiniteSets

CONSTANTS
  MaxPrice,         \* bound: moves of the market
  MAX_PER_PRODUCT,  \* units of a drink in a cart
  MaxQuotes,        \* bound: quotes asked for
  MaxPeople         \* bound: participants this phone joins as

ASSUME PhoneAssumption == /\ MAX_PER_PRODUCT \in Nat \ {0}
                          /\ {MaxPrice, MaxQuotes, MaxPeople} \subseteq Nat

VARIABLES
  price,    \* of the drink, on the server; known by the tick that made it
  who,      \* the participant of the session cookie; 0 before joining
  screen,
  entered,  \* TRUE: GET /me answered, the screen is shown; FALSE: the join form covers it
  qty,      \* units in the persisted cart
  quotes,   \* the server's: what was locked, for whom, and whether it still is
  orders,   \* the server's: status of the order made from a quote, or "none"
  calls,    \* POSTs on their way, or answered and the answer on its way back
  asked,    \* quotes asked for so far; the last one names this visit's calls
  visit,    \* the first call of this visit to the checkout
  shown,    \* the quote on the checkout as it was answered, or Nothing
  over,     \* its countdown has reached zero on this phone
  asking,   \* the latest POST /quotes of the visit
  sending,  \* POST /orders of the visit
  paying,   \* the order the payment screen waits for
  seen,     \* the orders as last fetched by GET /me/orders
  agreed    \* history: what the checkout showed when the order was sent

phoneVars == <<price, who, screen, entered, qty, quotes, orders, calls, asked, visit,
               shown, over, asking, sending, paying, seen, agreed>>

QuoteIds == 1..MaxQuotes
NoQuote == 0
NoLock == [owner |-> 0, qty |-> 0, price |-> 0, status |-> "none"]
Nothing == [id |-> NoQuote, qty |-> 0, price |-> 0]
OrderStatuses == {"none", "PENDING", "PAID", "FAILED", "EXPIRED"}
Basket == {"market", "cart"}  \* the screens with a plus and a minus
Locked(q) == [id |-> q, qty |-> quotes[q].qty, price |-> quotes[q].price]

PhoneTypeOK ==
  /\ price \in 0..MaxPrice
  /\ who \in 0..MaxPeople /\ entered \in BOOLEAN /\ over \in BOOLEAN
  /\ screen \in Basket \cup {"checkout", "payment", "vouchers"}
  /\ qty \in 0..MAX_PER_PRODUCT
  /\ orders \in [QuoteIds -> OrderStatuses] /\ seen \in [QuoteIds -> OrderStatuses]
  /\ asked \in 0..MaxQuotes /\ visit \in 0..MaxQuotes + 1
  /\ shown.id \in {NoQuote} \cup QuoteIds /\ paying \in {NoQuote} \cup QuoteIds
  /\ {asking, sending} \subseteq {"idle", "pending", "error"}

PhoneInit ==
  /\ price = 0
  /\ who = 0 /\ entered = FALSE /\ screen = "market" /\ qty = 0
  /\ quotes = [q \in QuoteIds |-> NoLock] /\ orders = [q \in QuoteIds |-> "none"]
  /\ calls = {} /\ asked = 0 /\ visit = 1
  /\ shown = Nothing /\ over = FALSE /\ asking = "idle" /\ sending = "idle"
  /\ paying = NoQuote /\ seen = [q \in QuoteIds |-> "none"]
  /\ agreed = [q \in QuoteIds |-> {}]

-----------------------------------------------------------------------------
(* Moving between screens.  A screen that leaves takes its component state  *)
(* with it; the cart, the cache and the calls outlive it.                   *)

On(name) == entered /\ screen = name

LeaveCheckout ==
  /\ visit' = asked + 1 /\ shown' = Nothing /\ over' = FALSE
  /\ asking' = "idle" /\ sending' = "idle"

server == <<quotes, orders>>
post == <<calls, asked>>
checkout == <<visit, shown, over, asking, sending>>

Browse(name) ==
  /\ entered /\ screen # name
  /\ name \in {"market", "cart", "vouchers", "payment"}
  /\ name = "cart" => screen = "market" /\ qty > 0
  /\ name = "payment" => paying # NoQuote
  /\ screen' = name
  /\ LeaveCheckout
  /\ UNCHANGED <<price, who, entered, qty, server, post, paying, seen, agreed>>

-----------------------------------------------------------------------------
(* ParticipantArea and JoinScreen: no account, only the cookie.             *)

\* The QR Code of the venue, read again: the same event, so the cart stays.
EnterEvent ==
  /\ screen # "market" /\ screen' = "market"
  /\ LeaveCheckout
  /\ UNCHANGED <<price, who, entered, qty, server, post, paying, seen, agreed>>

\* The join form, for whoever declares to be an adult.
Join ==
  /\ ~entered /\ who < MaxPeople
  /\ who' = who + 1 /\ entered' = TRUE
  /\ screen' = "market"
  /\ LeaveCheckout
  /\ UNCHANGED <<price, qty, server, post, paying, seen, agreed>>

\* GET /me gave up: the entry form is shown to somebody who is in.
MeFails ==
  /\ entered /\ entered' = FALSE
  /\ LeaveCheckout
  /\ UNCHANGED <<price, who, screen, qty, server, post, paying, seen, agreed>>

\* Every call of a checkout is named after the quotes asked for so far.
AskQuote ==
  /\ asked < MaxQuotes
  /\ asked' = asked + 1
  /\ asking' = "pending"
  /\ calls' = calls \cup {[what |-> "quote", id |-> asked', by |-> who, qty |-> qty, done |-> FALSE]}

\* A later GET /me answers, and the screen of the same address is back: a
\* checkout as a new visit, with a new quote.
MeAnswers ==
  /\ ~entered /\ who > 0 /\ entered' = TRUE
  /\ IF screen = "checkout" THEN AskQuote ELSE UNCHANGED <<post, asking>>
  /\ UNCHANGED <<price, who, screen, qty, server, visit, shown, over, sending, paying, seen, agreed>>

-----------------------------------------------------------------------------
(* The cart.  Its plus and its way to the checkout are dead while the       *)
(* screen shows the drink sold out.                                         *)

SetQty(n) == qty' = IF n > MAX_PER_PRODUCT THEN MAX_PER_PRODUCT ELSE n

cartOnly == <<price, who, screen, entered, server, post, checkout, paying, seen, agreed>>

Add ==
  /\ entered /\ screen \in Basket
  /\ screen = "cart" => qty \in 1..MAX_PER_PRODUCT - 1
  /\ SetQty(qty + 1)
  /\ UNCHANGED cartOnly

Remove ==
  /\ entered /\ screen \in Basket
  /\ qty > 0 /\ SetQty(qty - 1)
  /\ UNCHANGED cartOnly

ClearCart ==
  /\ On("cart") /\ qty > 0 /\ qty' = 0
  /\ UNCHANGED cartOnly

-----------------------------------------------------------------------------
(* The checkout.  A call carries what it was sent with; calls of an earlier *)
(* visit are answered to nobody, except that an order always empties the    *)
(* cart and opens its payment screen.                                       *)

\* One quote per visit, asked for as the screen opens.
Pay ==
  /\ On("cart") /\ qty > 0
  /\ screen' = "checkout"
  /\ AskQuote
  /\ UNCHANGED <<price, who, entered, qty, server, visit, shown, over, sending, paying, seen, agreed>>

SeeCurrent ==
  /\ On("checkout") /\ shown # Nothing /\ over /\ asking # "error"
  /\ AskQuote
  /\ UNCHANGED <<price, who, screen, entered, qty, server, visit, shown, over, sending,
                 paying, seen, agreed>>

Countdown ==
  /\ On("checkout") /\ shown # Nothing /\ ~over /\ over' = TRUE
  /\ UNCHANGED <<price, who, screen, entered, qty, server, post, visit, shown, asking,
                 sending, paying, seen, agreed>>

BackToCart ==
  /\ On("checkout") /\ asking = "error"
  /\ screen' = "cart"
  /\ LeaveCheckout
  /\ UNCHANGED <<price, who, entered, qty, server, post, paying, seen, agreed>>

SendOrder ==
  /\ On("checkout") /\ shown # Nothing /\ ~over
  /\ asking # "error" /\ sending # "pending"
  /\ sending' = "pending"
  /\ calls' = calls \cup {[what |-> "order", id |-> shown.id, by |-> who, qty |-> 0, done |-> FALSE]}
  /\ agreed' = [agreed EXCEPT ![shown.id] = @ \cup {shown}]
  /\ UNCHANGED <<price, who, screen, entered, qty, server, asked, visit, shown, over, asking,
                 paying, seen>>
-----------------------------------------------------------------------------
(* The server's side of a call, and what happens to its quotes and orders   *)
(* meanwhile.                                                               *)

serverOnly == <<price, who, screen, entered, qty, asked, checkout, paying, seen, agreed>>

\* POST /quotes locks the price of the moment.
HandleQuote(call) ==
  /\ call.what = "quote"
  /\ quotes' = [quotes EXCEPT ![call.id] =
       [owner |-> call.by, qty |-> call.qty, price |-> price, status |-> "ACTIVE"]]
  /\ UNCHANGED orders

\* POST /orders takes an active quote of the caller.
HandleOrder(call) ==
  /\ call.what = "order"
  /\ quotes[call.id].status = "ACTIVE" /\ quotes[call.id].owner = call.by
  /\ quotes' = [quotes EXCEPT ![call.id].status = "CONSUMED"]
  /\ orders' = [orders EXCEPT ![call.id] = "PENDING"]

Handle ==
  /\ \E call \in calls :
       /\ ~call.done
       /\ HandleQuote(call) \/ HandleOrder(call)
       /\ calls' = (calls \ {call}) \cup {[call EXCEPT !.done = TRUE]}
  /\ UNCHANGED serverOnly

MarketMoves ==
  /\ price < MaxPrice /\ price' = price + 1
  /\ UNCHANGED <<who, screen, entered, qty, server, post, checkout, paying, seen, agreed>>

QuoteRunsOut ==
  /\ \E q \in QuoteIds : quotes[q].status = "ACTIVE"
                          /\ quotes' = [quotes EXCEPT ![q].status = "EXPIRED"]
  /\ UNCHANGED <<serverOnly, orders, calls>>

OrderSettles ==
  /\ \E q \in QuoteIds, status \in {"PAID", "FAILED", "EXPIRED"} :
       orders[q] = "PENDING" /\ orders' = [orders EXCEPT ![q] = status]
  /\ UNCHANGED <<serverOnly, quotes, calls>>

-----------------------------------------------------------------------------
(* Answers.                                                                 *)

OfThisVisit(call) == call.id >= visit
AskedLast(call) == call.id = asked

\* Fault: a new quote restarts the countdown under the amounts of the old one.
QuoteShown_OldAmounts(call) ==
  IF shown = Nothing THEN Locked(call.id) ELSE [shown EXCEPT !.id = call.id]

QuoteShown(call) == Locked(call.id)

QuoteArrives(call) ==
  /\ call.what = "quote" /\ call.done
  /\ IF OfThisVisit(call)
     THEN /\ shown' = QuoteShown(call) /\ over' = FALSE
          /\ asking' = IF AskedLast(call) THEN "idle" ELSE asking
     ELSE UNCHANGED <<shown, over, asking>>
  /\ UNCHANGED <<screen, qty, paying, visit, sending>>

\* Even to a screen that has left: the cart is emptied, whatever is in it now.
OrderArrives(call) ==
  /\ call.what = "order" /\ call.done
  /\ qty' = 0 /\ paying' = call.id /\ screen' = "payment"
  /\ LeaveCheckout

\* Refused (sold out, over the cap, closed, a quote used or run out), or the
\* network or the gateway failed, before or after the server's part.
NoGoodAnswer(call) ==
  /\ IF OfThisVisit(call)
     THEN IF call.what = "order" THEN sending' = "error" /\ UNCHANGED asking
          ELSE /\ asking' = IF AskedLast(call) THEN "error" ELSE asking
               /\ UNCHANGED sending
     ELSE UNCHANGED <<asking, sending>>
  /\ UNCHANGED <<screen, qty, paying, visit, shown, over>>

Answer ==
  /\ \E call \in calls :
       /\ calls' = calls \ {call}
       /\ QuoteArrives(call) \/ OrderArrives(call) \/ NoGoodAnswer(call)
  /\ UNCHANGED <<price, who, entered, server, asked, seen, agreed>>

-----------------------------------------------------------------------------
(* GET /me/orders, cached for every screen that shows orders.  The payment  *)
(* screen asks again until its order is no longer pending, and leaves for   *)
(* the voucher as soon as there is one.                                     *)

\* Fault: an order that is not in the cached list yet is not waited for.
pollsAgain_KnownOnly == seen[paying] = "PENDING"

pollsAgain == seen[paying] \in {"none", "PENDING"}

MyOrders == [q \in QuoteIds |-> IF quotes[q].owner = who THEN orders[q] ELSE "none"]

\* On arrival or on focus when stale, and at every poll.
FetchOrders ==
  /\ entered /\ screen \in {"payment", "vouchers"}
  /\ seen' = MyOrders
  /\ screen' = IF screen = "payment" /\ seen'[paying] = "PAID" THEN "vouchers" ELSE screen
  /\ UNCHANGED <<price, who, entered, qty, server, post, checkout, paying, agreed>>

\* The cache may already hold the voucher when the screen opens.
OpenVoucher ==
  /\ On("payment") /\ seen[paying] = "PAID"
  /\ screen' = "vouchers"
  /\ UNCHANGED <<price, who, entered, qty, server, post, checkout, paying, seen, agreed>>

Poll == On("payment") /\ pollsAgain /\ FetchOrders

PhoneNext ==
  \/ MarketMoves
  \/ \E name \in {"market", "cart", "vouchers", "payment"} : Browse(name)
  \/ EnterEvent \/ Join \/ MeFails \/ MeAnswers
  \/ Add \/ Remove \/ ClearCart
  \/ Pay \/ SeeCurrent \/ Countdown \/ BackToCart \/ SendOrder
  \/ Handle \/ QuoteRunsOut \/ OrderSettles \/ Answer
  \/ FetchOrders \/ OpenVoucher

\* The effect runs after the render; the poll's timer fires, and the network
\* does not stay down for ever.
PhoneFairness == WF_phoneVars(Poll) /\ WF_phoneVars(OpenVoucher)

-----------------------------------------------------------------------------
\* Every order was sent from a checkout that showed what it charges: re-quoting,
\* late answers and retries never charge an amount nobody saw (checkout.tsx).
ChargedWhatWasShown ==
  \A q \in QuoteIds : orders[q] # "none" => agreed[q] = {Locked(q)}

\* The wait for MB WAY ends on screen once the order is decided, whatever the
\* cache held when the screen opened (payment.tsx).
Waits(q) == On("payment") /\ paying = q /\ quotes[q].owner = who
WaitingEnds ==
  \A q \in QuoteIds :
    Waits(q) /\ orders[q] \in {"PAID", "FAILED", "EXPIRED"}
      ~> ~Waits(q) \/ seen[q] \in {"FAILED", "EXPIRED"}

=============================================================================
