------------------------------ MODULE Scanner ------------------------------
(***************************************************************************)
(* The scanner of staff.tsx, which hands drinks over for vouchers found by *)
(* their code or by the phone they were paid with.  Look-ups by phone are  *)
(* not held back by one in flight, and an answer is shown whatever the     *)
(* screen shows by then.  A request may be refused or fail at any time;    *)
(* what the server has done by then stays done.                            *)
(***************************************************************************)
EXTENDS Handover, Integers, FiniteSets

CONSTANTS
  Voucher,
  Bought,     \* what each of them holds
  MaxLookups  \* bound: look-ups in flight

ASSUME VoucherAssumption == Bought \in [Voucher -> SUBSET Drink] /\ MaxLookups \in Nat

VARIABLES
  pending,     \* the server's: what is still to be handed over of a voucher
  poured,      \* history: what was handed over of it
  checked,     \* history: vouchers for which the age box was ticked while they were shown
  state,       \* [kind, voucher, items]: scanning; found; error
  ageTicked,
  lookups,     \* in flight: [voucher, by, items, read]
  redeeming    \* the one redeem request in flight, or Free

vouchers == <<pending, poured, checked>>
scannerVars == <<vouchers, state, ageTicked, lookups, redeeming>>

NoVoucher == "none"
Scanning == [kind |-> "scanning", voucher |-> NoVoucher, items |-> {}]
Failed == [kind |-> "error", voucher |-> NoVoucher, items |-> {}]
Found(v, items) == [kind |-> "found", voucher |-> v, items |-> items]
Free == [voucher |-> NoVoucher, items |-> {}, ageChecked |-> FALSE, done |-> TRUE]

ScannerTypeOK ==
  /\ pending \in [Voucher -> SUBSET Drink] /\ poured \in [Voucher -> SUBSET Drink]
  /\ checked \subseteq Voucher /\ ageTicked \in BOOLEAN
  /\ state.kind \in {"scanning", "found", "error"} /\ state.items \subseteq Drink
  /\ state.kind = "found" => state.voucher \in Voucher

ScannerInit ==
  /\ pending = Bought /\ poured = [v \in Voucher |-> {}] /\ checked = {}
  /\ state = Scanning /\ ageTicked = FALSE /\ lookups = {} /\ redeeming = Free

-----------------------------------------------------------------------------
(* Finding a voucher.                                                       *)

RestOfScanner(changed) == UNCHANGED <<vouchers, changed>>

Busy == \E l \in lookups : l.by = "code"

LookUp(v, by) ==
  /\ state.kind = "scanning"
  /\ by = "code" => ~Busy
  /\ Cardinality(lookups) < MaxLookups
  /\ lookups' = lookups \cup {[voucher |-> v, by |-> by, items |-> {}, read |-> FALSE]}
  /\ RestOfScanner(<<state, ageTicked, redeeming>>)

FoundByPhone(v) == pending[v] # {}

HandleLookup ==
  /\ \E l \in lookups :
       /\ ~l.read
       /\ l.by = "phone" => FoundByPhone(l.voucher)
       /\ lookups' = (lookups \ {l}) \cup {[l EXCEPT !.read = TRUE, !.items = pending[l.voucher]]}
  /\ RestOfScanner(<<state, ageTicked, redeeming>>)

\* Fault: the look-up by phone was added later, and keeps the tick.
TickAfter_CodeOnly(l) == IF l.by = "phone" THEN ageTicked ELSE FALSE

TickAfter(l) == FALSE

LookupArrives ==
  /\ \E l \in lookups :
       /\ l.read
       /\ lookups' = lookups \ {l}
       /\ ageTicked' = TickAfter(l)
       /\ state' = Found(l.voucher, l.items)
  /\ RestOfScanner(redeeming)

LookupFails ==
  /\ \E l \in lookups : lookups' = lookups \ {l}
  /\ state' = Failed
  /\ RestOfScanner(<<ageTicked, redeeming>>)

NoCamera ==
  /\ state.kind = "scanning" /\ state' = Failed
  /\ RestOfScanner(<<ageTicked, lookups, redeeming>>)

ScanAnother ==
  /\ state.kind # "scanning" /\ state' = Scanning
  /\ RestOfScanner(<<ageTicked, lookups, redeeming>>)

-----------------------------------------------------------------------------
(* Handing over.                                                            *)

TickAge ==
  /\ state.kind = "found" /\ HasAlcohol(state.items)
  /\ ageTicked' = ~ageTicked
  /\ checked' = IF ageTicked' THEN checked \cup {state.voucher} ELSE checked
  /\ UNCHANGED <<pending, poured, state, lookups, redeeming>>

\* One line, or everything that is left.
Deliver(items) ==
  /\ state.kind = "found" /\ items # {} /\ items \subseteq state.items
  /\ Cardinality(items) = 1 \/ items = state.items
  /\ HasAlcohol(state.items) => ageTicked
  /\ redeeming = Free
  /\ redeeming' = [voucher |-> state.voucher, items |-> items, ageChecked |-> ageTicked,
                   done |-> FALSE]
  /\ RestOfScanner(<<state, ageTicked, lookups>>)

HandleRedeem ==
  /\ ~redeeming.done
  /\ LET v == redeeming.voucher IN
       /\ MayHandOver(pending[v], redeeming.items, redeeming.ageChecked)
       /\ pending' = [pending EXCEPT ![v] = @ \ redeeming.items]
       /\ poured' = [poured EXCEPT ![v] = @ \cup redeeming.items]
       /\ redeeming' = [redeeming EXCEPT !.done = TRUE, !.items = pending'[v]]
  /\ UNCHANGED <<checked, state, ageTicked, lookups>>

\* Whatever the scanner shows by then.
RedeemAnswered ==
  /\ redeeming # Free /\ redeeming' = Free
  /\ \/ redeeming.done /\ state' = Found(redeeming.voucher, redeeming.items)
     \/ state' = Failed
  /\ RestOfScanner(<<ageTicked, lookups>>)

ScannerNext ==
  \/ \E v \in Voucher, by \in {"code", "phone"} : LookUp(v, by)
  \/ HandleLookup \/ LookupArrives \/ LookupFails \/ NoCamera \/ ScanAnother \/ TickAge
  \/ \E items \in SUBSET Drink : Deliver(items)
  \/ HandleRedeem \/ RedeemAnswered

-----------------------------------------------------------------------------
\* No alcohol is handed over for a voucher whose holder's age nobody confirmed
\* while that voucher was on screen: not after the tick for another one, a late
\* answer or a look-up by phone (staff.tsx).
ScannerAgeChecked == \A v \in Voucher : HasAlcohol(poured[v]) => v \in checked

=============================================================================
