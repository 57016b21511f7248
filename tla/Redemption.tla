----------------------------- MODULE Redemption -----------------------------
(***************************************************************************)
(* Vouchers at the bar: StaffService.redeem hands drinks over, line by     *)
(* line, and AdminService.refund gives the money back and puts what was    *)
(* not handed over on sale again.  Each request reads the voucher or the   *)
(* order first and then works in one Postgres transaction at READ          *)
(* COMMITTED; a row it wrote stays locked until it commits or rolls back.  *)
(***************************************************************************)
EXTENDS States, Integers, Sequences, FiniteSets

CONSTANTS
  Product,
  Voucher,        \* one per paid order, which it stands for as well
  Line,           \* order items
  OwnerOf,        \* the voucher of a line
  ProductOf,      \* the product of a line
  Qty,            \* units bought with a line
  MaxQty,
  SoldBefore,     \* stock_sold of a product when the vouchers were issued
  Total,          \* what the order of a voucher cost
  Handler,        \* requests in flight
  Claims,         \* what staff may tick: sequences of [line, qty]
  Amounts,        \* what an organiser may type as the amount of a refund
  StatusTargets,  \* event states an organiser moves to
  MaxCrashes,
  NoVoucher

ASSUME LineAssumption ==
  /\ OwnerOf \in [Line -> Voucher] /\ ProductOf \in [Line -> Product]
  /\ MaxQty \in Nat /\ Qty \in [Line -> 1..MaxQty]
  /\ IsFiniteSet(Line)
\* mergeDuplicates (quotes.service.ts): a basket has one line for a product.
ASSUME OneLineAssumption ==
  \A l, m \in Line : OwnerOf[l] = OwnerOf[m] /\ ProductOf[l] = ProductOf[m] => l = m

\* The first count[l] units of each line l of a product, as pairs.
UnitsOf(count, p) ==
  {u \in Line \X (1..MaxQty) : ProductOf[u[1]] = p /\ u[2] <= count[u[1]]}

\* A paid order's units count as sold (InventoryService.commit).
ASSUME SoldAssumption ==
  /\ SoldBefore \in [Product -> Nat]
  /\ \A p \in Product : SoldBefore[p] >= Cardinality(UnitsOf(Qty, p))
ASSUME TotalAssumption == Total \in [Voucher -> Nat \ {0}]
ASSUME ClaimsAssumption ==
  /\ Claims \subseteq Seq([line : Line, qty : Nat \ {0}])
  /\ <<>> \notin Claims
ASSUME AmountsAssumption == Amounts \subseteq Nat \ {0}
ASSUME CrashesAssumption == MaxCrashes \in Nat
ASSUME HandlerAssumption == Handler # {}
ASSUME NoVoucherAssumption == NoVoucher \notin Voucher

LinesOf(v) == {l \in Line : OwnerOf[l] = v}

VARIABLES
  eventStatus,
  redeemed,    \* order_items.redeemed_qty
  order,       \* orders.status, of the voucher's order
  voucher,     \* vouchers.status
  refunded,    \* the sum of the refund rows of an order
  available,   \* products.stock_available, of these units
  sold,        \* products.stock_sold
  handler,
  crashes,     \* so far
  crossed,     \* history: vouchers of which a refund, and another request that
               \* was open with it, was committed; no step depends on it
  shared       \* history: vouchers of which one redemption was committed while
               \* another was open

tables == <<redeemed, order, voucher, refunded, available, sold>>
history == <<crossed, shared>>
vars == <<eventStatus, tables, handler, crashes, history>>

Steps == {"idle", "claiming", "marking", "ordering", "refunding", "refunded"}

(* What a request remembers: the units it has claimed and not yet           *)
(* committed, whether it saw the whole voucher handed over, the amount of   *)
(* its refund and the units it will put back, as it read them.              *)
Idle == [step |-> "idle", voucher |-> NoVoucher, todo |-> <<>>,
         claimed |-> [l \in Line |-> 0], full |-> FALSE,
         amount |-> 0, back |-> [l \in Line |-> 0]]

At(h, step) == handler[h].step = step

Redeeming(h) == handler[h].step \in {"claiming", "marking", "ordering"}
Refunding(h) == handler[h].step \in {"refunding", "refunded"}

\* Another request about the same voucher is open.
RedeemedElsewhere(h) ==
  \E g \in Handler \ {h} : Redeeming(g) /\ handler[g].voucher = handler[h].voucher
RefundedElsewhere(h) ==
  \E g \in Handler \ {h} : Refunding(g) /\ handler[g].voucher = handler[h].voucher

Init ==
  /\ eventStatus = "OPEN"
  /\ redeemed = [l \in Line |-> 0]
  /\ order = [v \in Voucher |-> "PAID"]
  /\ voucher = [v \in Voucher |-> "ACTIVE"]
  /\ refunded = [v \in Voucher |-> 0]
  /\ available = [p \in Product |-> 0]
  /\ sold = SoldBefore
  /\ handler = [h \in Handler |-> Idle]
  /\ crashes = 0
  /\ crossed = {} /\ shared = {}

-----------------------------------------------------------------------------
(* Row locks.  A request waits for those who wrote the row it wants next:   *)
(* the order items it claimed, then the voucher for a redemption; products  *)
(* and the order for a refund, which takes the voucher as it commits.       *)
RestockedProducts(h) == {ProductOf[l] : l \in {k \in Line : handler[h].back[k] > 0}}

Blocks(g, h) ==
  LET sameVoucher == handler[g].voucher = handler[h].voucher IN
  \/ /\ At(h, "claiming") /\ handler[h].todo # <<>>
     /\ handler[g].claimed[Head(handler[h].todo).line] > 0
  \/ At(h, "marking") /\ At(g, "ordering") /\ sameVoucher
  \/ At(h, "ordering") /\ At(g, "refunded") /\ sameVoucher
  \/ At(h, "refunding") /\ At(g, "refunded")
     /\ (sameVoucher \/ RestockedProducts(g) \cap RestockedProducts(h) # {})
  \/ At(h, "refunded") /\ At(g, "ordering") /\ sameVoucher

Blockers(h) == {g \in Handler \ {h} : Blocks(g, h)}

Abort(h) ==
  /\ handler' = [handler EXCEPT ![h] = Idle]
  /\ UNCHANGED <<eventStatus, tables, crashes, history>>

(* Postgres breaks a circle of waiting transactions by failing one of them. *)
DeadlockVictim(h) ==
  /\ \E circle \in SUBSET Handler :
       /\ h \in circle
       /\ \A g \in circle :
            /\ Blockers(g) \cap circle # {}
            /\ \E k \in circle : g \in Blockers(k)
  /\ Abort(h)

-----------------------------------------------------------------------------
(* StaffService.redeem.                                                     *)

BeginRedeem(h, v, claims) ==
  /\ At(h, "idle")
  /\ eventAllowsRedemptions(eventStatus)
  /\ voucherIsRedeemable(voucher[v])
  /\ handler' = [handler EXCEPT ![h] = [Idle EXCEPT !.step = "claiming",
                                          !.voucher = v, !.todo = claims]]
  /\ UNCHANGED <<eventStatus, tables, crashes, history>>

\* Fault: compares the request with the quantity bought only.
CanClaim_IgnoresRedeemed(h, item) ==
  /\ OwnerOf[item.line] = handler[h].voucher
  /\ item.qty <= Qty[item.line]

\* The conditional update sees what is committed and what it wrote itself.
CanClaim(h, item) ==
  /\ OwnerOf[item.line] = handler[h].voucher
  /\ redeemed[item.line] + handler[h].claimed[item.line] <= Qty[item.line] - item.qty

ClaimLine(h) ==
  /\ At(h, "claiming") /\ handler[h].todo # <<>>
  /\ LET item == Head(handler[h].todo) IN
       /\ CanClaim(h, item) /\ Blockers(h) = {}
       /\ handler' = [handler EXCEPT ![h].claimed[item.line] = @ + item.qty,
                                     ![h].todo = Tail(@)]
  /\ UNCHANGED <<eventStatus, tables, crashes, history>>

\* Fault: the transaction is left open, with its rows, when a line is refused.
RefuseLine_KeepsRows(h) ==
  /\ At(h, "claiming") /\ handler[h].todo # <<>>
  /\ ~CanClaim(h, Head(handler[h].todo))
  /\ handler[h].claimed = Idle.claimed
  /\ Abort(h)

RefuseLine(h) ==
  /\ At(h, "claiming") /\ handler[h].todo # <<>>
  /\ ~CanClaim(h, Head(handler[h].todo))
  /\ Abort(h)

\* Fault: counts before the claims of this very request.
HandedOver_CommittedOnly(h, l) == redeemed[l] >= Qty[l]

HandedOver(h, l) == redeemed[l] + handler[h].claimed[l] >= Qty[l]

\* Fault: looks only at the lines of this request.
CountPending_OwnLines(h) ==
  /\ At(h, "claiming") /\ handler[h].todo = <<>>
  /\ handler' = [handler EXCEPT ![h].step = "marking", ![h].full =
       \A l \in LinesOf(handler[h].voucher) :
         handler[h].claimed[l] > 0 => HandedOver(h, l)]
  /\ UNCHANGED <<eventStatus, tables, crashes, history>>

CountPending(h) ==
  /\ At(h, "claiming") /\ handler[h].todo = <<>>
  /\ handler' = [handler EXCEPT ![h].step = "marking", ![h].full =
       \A l \in LinesOf(handler[h].voucher) : HandedOver(h, l)]
  /\ UNCHANGED <<eventStatus, tables, crashes, history>>

MarkVoucher(h) ==
  /\ At(h, "marking") /\ Blockers(h) = {}
  /\ handler' = [handler EXCEPT ![h].step = "ordering"]
  /\ UNCHANGED <<eventStatus, tables, crashes, history>>

\* Marks the order and commits all that the transaction wrote.
CommitRedeem(h) ==
  LET v == handler[h].voucher
      status == IF handler[h].full THEN "REDEEMED" ELSE "PARTIALLY_REDEEMED"
  IN  /\ At(h, "ordering") /\ Blockers(h) = {}
      /\ redeemed' = [l \in Line |-> redeemed[l] + handler[h].claimed[l]]
      /\ voucher' = [voucher EXCEPT ![v] = status]
      /\ order' = [order EXCEPT ![v] = status]
      /\ handler' = [handler EXCEPT ![h] = Idle]
      /\ crossed' = IF RefundedElsewhere(h) THEN crossed \cup {v} ELSE crossed
      /\ shared' = IF RedeemedElsewhere(h) THEN shared \cup {v} ELSE shared
      /\ UNCHANGED <<eventStatus, refunded, available, sold, crashes>>

-----------------------------------------------------------------------------
(* AdminService.refund.  The amount defaults to what is left of the order.  *)

Refundable(v) == order[v] \in {"PAID", "PARTIALLY_REDEEMED"}

ValidAmount(v, amount) == amount > 0 /\ refunded[v] + amount <= Total[v]

\* Fault: puts back everything that was bought.
Pending_Everything(v) == [l \in Line |-> IF OwnerOf[l] = v THEN Qty[l] ELSE 0]

Pending(v) == [l \in Line |-> IF OwnerOf[l] = v THEN Qty[l] - redeemed[l] ELSE 0]

BeginRefund(h, v, amount, restock) ==
  /\ At(h, "idle")
  /\ Refundable(v) /\ ValidAmount(v, amount)
  /\ handler' = [handler EXCEPT ![h] =
       [Idle EXCEPT !.step = "refunding", !.voucher = v, !.amount = amount,
                    !.back = IF restock THEN Pending(v) ELSE Idle.back]]
  /\ UNCHANGED <<eventStatus, tables, crashes, history>>

\* The refund row, the products and the order are written and stay locked.
MarkRefunded(h) ==
  /\ At(h, "refunding") /\ Blockers(h) = {}
  /\ handler' = [handler EXCEPT ![h].step = "refunded"]
  /\ UNCHANGED <<eventStatus, tables, crashes, history>>

\* One line of the order at most is of the product.
MovementOf(h, p) ==
  LET lines == {l \in Line : ProductOf[l] = p /\ handler[h].back[l] > 0} IN
  IF lines = {} THEN 0 ELSE handler[h].back[CHOOSE l \in lines : TRUE]

\* Fault: does not ask whether that many were sold.
Restocked_Unchecked(h, p) == MovementOf(h, p)

\* InventoryService.restock: a product that sold fewer is skipped in silence.
Restocked(h, p) == IF sold[p] >= MovementOf(h, p) THEN MovementOf(h, p) ELSE 0

\* The refund is committed: whoever else has this voucher open is now wrong.
Crossed(h) ==
  crossed' = IF RefundedElsewhere(h) \/ RedeemedElsewhere(h)
             THEN crossed \cup {handler[h].voucher} ELSE crossed

\* Fault: leaves the voucher as it is.
CommitRefund_OrderOnly(h) ==
  LET v == handler[h].voucher
  IN  /\ At(h, "refunded") /\ Blockers(h) = {}
      /\ refunded' = [refunded EXCEPT ![v] = @ + handler[h].amount]
      /\ available' = [p \in Product |-> available[p] + Restocked(h, p)]
      /\ sold' = [p \in Product |-> sold[p] - Restocked(h, p)]
      /\ order' = [order EXCEPT ![v] = "REFUNDED"]
      /\ handler' = [handler EXCEPT ![h] = Idle]
      /\ Crossed(h)
      /\ UNCHANGED <<eventStatus, redeemed, voucher, crashes, shared>>

CommitRefund(h) ==
  LET v == handler[h].voucher
  IN  /\ At(h, "refunded") /\ Blockers(h) = {}
      /\ refunded' = [refunded EXCEPT ![v] = @ + handler[h].amount]
      /\ available' = [p \in Product |-> available[p] + Restocked(h, p)]
      /\ sold' = [p \in Product |-> sold[p] - Restocked(h, p)]
      /\ order' = [order EXCEPT ![v] = "REFUNDED"]
      /\ voucher' = [voucher EXCEPT ![v] = "REFUNDED"]
      /\ handler' = [handler EXCEPT ![h] = Idle]
      /\ Crossed(h)
      /\ UNCHANGED <<eventStatus, redeemed, crashes, shared>>

-----------------------------------------------------------------------------
ChangeEventStatus(to) ==
  /\ canTransitionEvent(eventStatus, to)
  /\ eventStatus' = to
  /\ UNCHANGED <<tables, handler, crashes, history>>

\* A process dies: Postgres rolls its transaction back.
Crash(h) ==
  /\ ~At(h, "idle") /\ crashes < MaxCrashes
  /\ handler' = [handler EXCEPT ![h] = Idle]
  /\ crashes' = crashes + 1
  /\ UNCHANGED <<eventStatus, tables, history>>

Redeem(h) == ClaimLine(h) \/ RefuseLine(h) \/ CountPending(h) \/ MarkVoucher(h)
               \/ CommitRedeem(h)

Continue(h) == Redeem(h) \/ MarkRefunded(h) \/ CommitRefund(h) \/ DeadlockVictim(h)

Next ==
  \/ \E h \in Handler, v \in Voucher :
       \/ \E claims \in Claims : BeginRedeem(h, v, claims)
       \/ \E amount \in Amounts \cup {Total[v] - refunded[v]}, restock \in BOOLEAN :
            BeginRefund(h, v, amount, restock)
  \/ \E h \in Handler : Continue(h) \/ Crash(h)
  \/ \E to \in StatusTargets : ChangeEventStatus(to)

Spec == Init /\ [][Next]_vars

(* A request that has begun is run on; a row lock is granted in the order   *)
(* of asking, so one that is free again and again is got: strong fairness.  *)
LiveSpec == Spec /\ \A h \in Handler : SF_vars(Continue(h))

-----------------------------------------------------------------------------
(* What redemptions and refunds promise.                                    *)

Units == [Line -> Nat]

HandlerStates ==
  [step : Steps, voucher : Voucher \cup {NoVoucher},
   todo : Seq([line : Line, qty : Nat \ {0}]), claimed : Units,
   full : BOOLEAN, amount : Nat, back : Units]

(* The shape of the state.  A sold counter below zero is what the condition *)
(* of InventoryService.restock (inventory.service.ts:85) is there to stop.  *)
TypeOK ==
  /\ eventStatus \in EventStatuses
  /\ redeemed \in Units
  /\ order \in [Voucher -> {"PAID", "PARTIALLY_REDEEMED", "REDEEMED", "REFUNDED"}]
  /\ voucher \in [Voucher -> VoucherStatuses]
  /\ refunded \in [Voucher -> Nat]
  /\ available \in [Product -> Nat] /\ sold \in [Product -> Nat]
  /\ handler \in [Handler -> HandlerStates]
  /\ crashes \in 0..MaxCrashes
  /\ crossed \subseteq Voucher /\ shared \subseteq Voucher

(* However many scans race, nobody gets more of a line than was bought      *)
(* (redemption.int.test.ts:157), whether the units are committed or only    *)
(* claimed by open transactions.                                            *)
HandedWithinQty ==
  \A l \in Line : \A h \in Handler : redeemed[l] + handler[h].claimed[l] <= Qty[l]

(* A voucher is called used up only when its last unit has been handed over *)
(* (staff.service.ts:219): no customer is refused a drink that is owed.     *)
RedeemedMeansHanded ==
  \A v \in Voucher : voucher[v] = "REDEEMED" =>
    \A l \in LinesOf(v) : redeemed[l] = Qty[l]

(* Every request ends although redemptions and refunds lock the same rows   *)
(* in different orders: deadlocks are broken and refused lines roll back.   *)
EveryRequestEnds == \A h \in Handler : ~At(h, "idle") ~> At(h, "idle")

(* "Only what was never handed over goes back on sale."                     *)
(* (admin.service.ts:251): what has been drunk still counts as sold.        *)
OnlyUnhandedGoesBack ==
  \A p \in Product : Cardinality(UnitsOf(redeemed, p)) <= sold[p]

(* What does hold of it, however requests overlap: the only products whose  *)
(* handed units may be missing from stock_sold are those on a voucher of    *)
(* which a refund overlapped with another request.                          *)
Clean(p) == \A l \in Line : ProductOf[l] = p => OwnerOf[l] \notin crossed

HandedWereSold ==
  \A p \in Product : Clean(p) => Cardinality(UnitsOf(redeemed, p)) <= sold[p]

(* The voucher is marked redeemed once nothing is pending                   *)
(* (redemption.int.test.ts:174), unless two redemptions of it overlapped;   *)
(* refunds may race with it as they like.                                   *)
RedeemedWhenDone ==
  \A v \in Voucher \ shared :
    LinesOf(v) # {} /\ (\A l \in LinesOf(v) : redeemed[l] = Qty[l])
    => ~voucherIsRedeemable(voucher[v])

Ledger == INSTANCE VoucherLedger WITH handed <- redeemed, phase <- order

(* Multi-line handovers and refunds are the atomic steps of VoucherLedger,  *)
(* whatever crashes and whatever goes on with other vouchers: all of a      *)
(* request or nothing.  A voucher strays from it only once two requests     *)
(* about that voucher overlapped.                                           *)
LedgerSpec ==
  /\ Ledger!Init
  /\ [][\/ Ledger!Next
        \/ \E v \in crossed \cup shared : Ledger!Stray(v)]_<<redeemed, order>>

=============================================================================
