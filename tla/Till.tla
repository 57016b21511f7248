-------------------------------- MODULE Till --------------------------------
(***************************************************************************)
(* The till of counter.tsx, which sells for notes or card with             *)
(* CounterService behind it.  A sale is known by the quote it was opened   *)
(* with, and by the voucher it becomes.  An answer moves the screen to the *)
(* stage it belongs to, wherever the screen is by then.  A request may be  *)
(* refused or fail at any time; what the server has done stays done.       *)
(***************************************************************************)
EXTENDS Handover, Integers

CONSTANT MaxSales  \* bound: counter quotes, named 1..MaxSales

ASSUME SalesAssumption == MaxSales \in Nat

Sales == 1..MaxSales
NoSale == 0

VARIABLES
  sale,        \* the server's: what a quote locks, and its status
  sold,        \* the server's: what is still to be handed over of a sale
  served,      \* history: what was handed over of a sale
  ticked,      \* history: whether the age box was ticked since the till was last
               \* cleared, and for which customer: "no", "earlier", "present"
  rungUp,      \* history: of a sale with alcohol, what that was when it was rung up
  listed,      \* drinks the snapshot on screen shows
  lines,       \* drinks rung up
  ageChecked,
  stage,       \* [kind, id]: building; paying a quote; sold, with its receipt
  received,    \* cash typed in: "short", or "fine" when nothing was or it covers
  opened,      \* quotes opened so far
  opening,     \* the quote request whose button is waiting, or NoSale
  till         \* requests in flight: [what, id, items, flag, done]

books == <<sale, sold, served>>
display == <<listed, lines, ageChecked, stage, received, opened, opening>>
tillVars == <<books, ticked, rungUp, display, till>>

NoLines == [items |-> {}, status |-> "none"]
Building == [kind |-> "building", id |-> NoSale]

Ticks == {"no", "earlier", "present"}

TillTypeOK ==
  /\ sale \in [Sales -> [items : SUBSET Drink, status : {"none", "ACTIVE", "EXPIRED", "CONSUMED"}]]
  /\ sold \in [Sales -> SUBSET Drink] /\ served \in [Sales -> SUBSET Drink]
  /\ ticked \in Ticks /\ rungUp \in [Sales -> Ticks]
  /\ listed \subseteq Drink /\ lines \subseteq Drink /\ ageChecked \in BOOLEAN
  /\ stage \in [kind : {"building", "paying", "sold"}, id : Sales \cup {NoSale}]
  /\ received \in {"fine", "short"}
  /\ {opened, opening} \subseteq 0..MaxSales

TillInit ==
  /\ sale = [s \in Sales |-> NoLines]
  /\ sold = [s \in Sales |-> {}] /\ served = [s \in Sales |-> {}]
  /\ ticked = "no" /\ rungUp = [s \in Sales |-> "no"]
  /\ listed = Drink /\ lines = {} /\ ageChecked = FALSE /\ stage = Building
  /\ received = "fine" /\ opened = 0 /\ opening = NoSale /\ till = {}

-----------------------------------------------------------------------------
(* The till, building a sale.                                               *)

Rows == lines \cap listed

RestOfTill(changed) == UNCHANGED <<books, rungUp, changed>>

\* A drink is archived, or comes back, between two snapshots.
ListChanges(d) ==
  /\ listed' = IF d \in listed THEN listed \ {d} ELSE listed \cup {d}
  /\ RestOfTill(<<ticked, lines, ageChecked, stage, received, opened, opening, till>>)

RingUp(d) ==
  /\ stage = Building /\ d \in listed /\ lines' = lines \cup {d}
  /\ RestOfTill(<<ticked, listed, ageChecked, stage, received, opened, opening, till>>)

\* The box keeps its tick when the last drink that needs it goes.
TakeOff(d) ==
  /\ stage = Building /\ d \in Rows /\ lines' = lines \ {d}
  /\ RestOfTill(<<ticked, listed, ageChecked, stage, received, opened, opening, till>>)

CheckAge ==
  /\ stage = Building /\ HasAlcohol(Rows)
  /\ ageChecked' = ~ageChecked
  /\ ticked' = IF ageChecked' THEN "present" ELSE ticked
  /\ RestOfTill(<<listed, lines, stage, received, opened, opening, till>>)

ClearSale ==
  /\ stage = Building /\ Rows # {}
  /\ lines' = {} /\ ageChecked' = FALSE /\ ticked' = "no"
  /\ RestOfTill(<<listed, stage, received, opened, opening, till>>)

\* The one at the till makes room for the next, having bought nothing.  After a
\* sale nothing is ticked any more, so it does not matter who comes.
NextCustomer ==
  /\ stage = Building /\ Rows = {} /\ till = {}
  /\ ticked = "present" /\ ticked' = "earlier"
  /\ RestOfTill(<<display, till>>)

-----------------------------------------------------------------------------
(* The till, charging: CounterService.quote and CounterService.sell.        *)

Sent(what, id) == \E call \in till : call.what = what /\ call.id = id

Send(what, id, items, flag) ==
  till' = till \cup {[what |-> what, id |-> id, items |-> items, flag |-> flag, done |-> FALSE]}

\* Every line is sent, those of drinks the screen no longer lists included.
OpenSale ==
  /\ stage = Building /\ Rows # {}
  /\ HasAlcohol(Rows) => ageChecked
  /\ opening = NoSale
  /\ opened < MaxSales /\ opened' = opened + 1 /\ opening' = opened'
  /\ Send("quote", opened', lines, ageChecked)
  /\ rungUp' = IF HasAlcohol(lines) THEN [rungUp EXCEPT ![opened'] = ticked] ELSE rungUp
  /\ UNCHANGED <<books, ticked, listed, lines, ageChecked, stage, received>>

TypeCash(amount) ==
  /\ stage.kind = "paying" /\ received # amount /\ received' = amount
  /\ RestOfTill(<<ticked, listed, lines, ageChecked, stage, opened, opening, till>>)

\* An amount that does not cover blocks the button, for a card as well.
ConfirmSale ==
  /\ stage.kind = "paying" /\ received # "short" /\ ~Sent("sale", stage.id)
  /\ Send("sale", stage.id, {}, FALSE)
  /\ RestOfTill(<<ticked, display>>)

\* Back to the sale, or to the current price when the quote ran out.
CancelSale ==
  /\ stage.kind = "paying" /\ stage' = Building
  /\ RestOfTill(<<ticked, listed, lines, ageChecked, received, opened, opening, till>>)

DeliverNow ==
  /\ stage.kind = "sold" /\ ~Sent("deliver", stage.id)
  /\ Send("deliver", stage.id, sale[stage.id].items, TRUE)
  /\ RestOfTill(<<ticked, display>>)

\* Fault: the box of the last sale keeps its tick.
NewSale_KeepsTick ==
  /\ stage.kind = "sold" /\ stage' = Building
  /\ lines' = {} /\ opening' = NoSale /\ ticked' = "no"
  /\ RestOfTill(<<listed, ageChecked, received, opened, till>>)

NewSale ==
  /\ stage.kind = "sold" /\ stage' = Building
  /\ lines' = {} /\ ageChecked' = FALSE /\ opening' = NoSale /\ ticked' = "no"
  /\ RestOfTill(<<listed, received, opened, till>>)

\* Fault: a customer of the till is an adult, ticked or not.
MayQuote_Anyone(call) == TRUE

MayQuote(call) == HasAlcohol(call.items) => call.flag

HandleTillQuote(call) ==
  /\ call.what = "quote" /\ MayQuote(call)
  /\ sale' = [sale EXCEPT ![call.id] =
       [items |-> call.items, status |-> "ACTIVE"]]
  /\ UNCHANGED <<sold, served>>

HandleSale(call) ==
  /\ call.what = "sale" /\ sale[call.id].status = "ACTIVE"
  /\ sale' = [sale EXCEPT ![call.id].status = "CONSUMED"]
  /\ sold' = [sold EXCEPT ![call.id] = sale[call.id].items]
  /\ UNCHANGED served

HandleDeliver(call) ==
  /\ call.what = "deliver" /\ MayHandOver(sold[call.id], call.items, call.flag)
  /\ sold' = [sold EXCEPT ![call.id] = @ \ call.items]
  /\ served' = [served EXCEPT ![call.id] = @ \cup call.items]
  /\ UNCHANGED sale

HandleTill ==
  /\ \E call \in till :
       /\ ~call.done
       /\ HandleTillQuote(call) \/ HandleSale(call) \/ HandleDeliver(call)
       /\ till' = (till \ {call}) \cup {[call EXCEPT !.done = TRUE]}
  /\ UNCHANGED <<ticked, rungUp, display>>

TillQuoteRunsOut ==
  /\ \E s \in Sales : /\ sale[s].status = "ACTIVE"
                       /\ sale' = [sale EXCEPT ![s].status = "EXPIRED"]
  /\ UNCHANGED <<sold, served, ticked, rungUp, display, till>>

\* An answer moves the till wherever it is by now; a failure moves nothing.
TillAnswered ==
  \E call \in till :
    /\ till' = till \ {call}
    /\ opening' = IF call.what = "quote" /\ call.id = opening THEN NoSale ELSE opening
    /\ \/ /\ call.done /\ call.what = "quote"
          /\ stage' = [kind |-> "paying", id |-> call.id]
          /\ received' = IF stage.kind = "paying" THEN received ELSE "fine"
       \/ /\ call.done /\ call.what = "sale"
          /\ stage' = [kind |-> "sold", id |-> call.id]
          /\ UNCHANGED received
       \/ UNCHANGED <<stage, received>>
    /\ RestOfTill(<<ticked, listed, lines, ageChecked, opened>>)

TillNext ==
  \/ \E d \in Drink : ListChanges(d) \/ RingUp(d) \/ TakeOff(d)
  \/ CheckAge \/ ClearSale \/ NextCustomer
  \/ OpenSale \/ CancelSale \/ ConfirmSale \/ DeliverNow \/ NewSale
  \/ \E amount \in {"fine", "short"} : TypeCash(amount)
  \/ HandleTill \/ TillQuoteRunsOut \/ TillAnswered

-----------------------------------------------------------------------------
\* The till hands alcohol over without asking again.  For every sale it does so
\* for, the box was ticked, on a screen that listed alcohol, since the till was
\* last cleared or a sale was last finished there: also for a sale with a line
\* that was off the screen when the box was not asked for, and for a receipt that
\* a late answer brought up (counter.tsx).
TillAgeChecked == \A s \in Sales : HasAlcohol(served[s]) => rungUp[s] # "no"

\* "L5: already confirmed when this was rung up, face to face."
\* (counter.tsx:440): the box was ticked for the customer the sale was rung up for.
ConfirmedFaceToFace == \A s \in Sales : HasAlcohol(served[s]) => rungUp[s] = "present"

=============================================================================
