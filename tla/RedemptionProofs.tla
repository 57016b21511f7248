-------------------------- MODULE RedemptionProofs --------------------------
(***************************************************************************)
(* What redemptions and refunds keep whatever overlaps, deadlocks or       *)
(* crashes: the shape of the state, no unit handed over twice, a voucher   *)
(* called used up only when it is; and, with a history of the requests     *)
(* that overlapped, counters and statuses of everything no overlap of      *)
(* requests about one voucher has touched.                                 *)
(***************************************************************************)
EXTENDS Redemption, FiniteSetTheorems, SequenceTheorems, TLAPS

(* A row that one transaction has claimed is claimed by no other.           *)
RowsLocked ==
  \A g, h \in Handler : g # h =>
    \A l \in Line : handler[g].claimed[l] = 0 \/ handler[h].claimed[l] = 0

(* A request that found everything handed over is still right when it       *)
(* writes so: units are never taken back from a customer.                   *)
FullMeansHanded ==
  \A h \in Handler : handler[h].full =>
    \A l \in LinesOf(handler[h].voucher) : HandedOver(h, l)

\* A request that has begun is about some voucher.
HasVoucher == \A h \in Handler : ~At(h, "idle") => handler[h].voucher \in Voucher

RaceInv ==
  /\ TypeOK
  /\ HasVoucher
  /\ HandedWithinQty
  /\ RowsLocked
  /\ FullMeansHanded
  /\ RedeemedMeansHanded

LEMMA QtyType ==
  ASSUME NEW l \in Line
  PROVE  /\ Qty[l] \in Nat /\ Qty[l] >= 1 /\ Qty[l] <= MaxQty
         /\ OwnerOf[l] \in Voucher /\ ProductOf[l] \in Product
BY LineAssumption

LEMMA IdleType == Idle \in HandlerStates
<1>1. <<>> \in Seq([line : Line, qty : Nat \ {0}])
  OBVIOUS
<1> QED
  BY <1>1 DEF Idle, HandlerStates, Units, Steps

LEMMA RaceInit == Init => RaceInv
<1> SUFFICES ASSUME Init PROVE RaceInv
  OBVIOUS
<1>1. handler \in [Handler -> HandlerStates]
  BY IdleType DEF Init
<1>2. TypeOK
  BY <1>1, SoldAssumption, CrashesAssumption
  DEF Init, TypeOK, Units, EventStatuses, VoucherStatuses
<1>3. HandedWithinQty /\ RowsLocked
  BY QtyType DEF Init, Idle, HandedWithinQty, RowsLocked
<1>4. FullMeansHanded /\ RedeemedMeansHanded
  BY DEF Init, Idle, FullMeansHanded, RedeemedMeansHanded
<1>5. HasVoucher
  BY DEF Init, Idle, HasVoucher, At
<1> QED
  BY <1>2, <1>3, <1>4, <1>5 DEF RaceInv

-----------------------------------------------------------------------------
(* The shape of the state.                                                 *)

USE DEF At, tables

\* Most steps write nothing but what their request remembers.
LEMMA HandlerStepType ==
  ASSUME TypeOK, NEW h \in Handler, NEW r \in HandlerStates,
         handler' = [handler EXCEPT ![h] = r],
         UNCHANGED <<eventStatus, tables, history>>, crashes' \in 0..MaxCrashes
  PROVE  TypeOK'
BY DEF TypeOK, history

LEMMA AbortType ==
  ASSUME TypeOK, NEW h \in Handler, Abort(h)
  PROVE  TypeOK'
BY HandlerStepType, IdleType DEF Abort, TypeOK

LEMMA RestockType ==
  ASSUME TypeOK, NEW h \in Handler, NEW p \in Product
  PROVE  Restocked(h, p) \in Nat /\ Restocked(h, p) <= sold[p]
<1>1. handler[h].back \in Units
  BY DEF TypeOK, HandlerStates
<1>2. MovementOf(h, p) \in Nat
  <2> DEFINE lines == {l \in Line : ProductOf[l] = p /\ handler[h].back[l] > 0}
  <2>1. CASE lines = {}
    BY <2>1 DEF MovementOf
  <2>2. CASE lines # {}
    <3>1. (CHOOSE l \in lines : TRUE) \in Line
      BY <2>2
    <3> QED
      BY <1>1, <2>2, <3>1 DEF MovementOf, Units
  <2> QED
    BY <2>1, <2>2
<1> QED
  BY <1>2 DEF Restocked, TypeOK

LEMMA VoucherStep == TypeOK /\ HasVoucher /\ [Next]_vars => HasVoucher'
<1> SUFFICES ASSUME TypeOK, HasVoucher, [Next]_vars, NEW g \in Handler,
                    handler'[g].step # "idle"
             PROVE  handler'[g].voucher \in Voucher
  BY DEF HasVoucher
<1>1. ASSUME NEW h \in Handler, handler' = [handler EXCEPT ![h] = Idle]
      PROVE  handler'[g].voucher \in Voucher
  BY <1>1 DEF Idle, TypeOK, HasVoucher
<1>2. ASSUME NEW h \in Handler, Continue(h) PROVE handler'[g].voucher \in Voucher
  <2>1. CASE handler' = [handler EXCEPT ![h] = Idle]
    BY <1>1, <2>1
  <2>2. CASE /\ handler'[g].voucher = handler[g].voucher
             /\ handler[g].step = "idle" => handler'[g].step = "idle"
    BY <2>2 DEF HasVoucher
  <2>3. ASSUME ClaimLine(h) \/ CountPending(h) \/ MarkVoucher(h) \/ MarkRefunded(h)
        PROVE  /\ handler'[g].voucher = handler[g].voucher
               /\ handler[g].step = "idle" => handler'[g].step = "idle"
    <3>1. /\ handler'[g].voucher = handler[g].voucher
          /\ g # h => handler'[g] = handler[g]
      BY <2>3 DEF ClaimLine, CountPending, MarkVoucher, MarkRefunded, TypeOK,
        HandlerStates
    <3>2. handler[h].step # "idle"
      BY <2>3 DEF ClaimLine, CountPending, MarkVoucher, MarkRefunded
    <3> QED
      BY <3>1, <3>2
  <2> QED
    <3>1. ASSUME CommitRedeem(h) \/ CommitRefund(h) \/ RefuseLine(h) \/ DeadlockVictim(h)
          PROVE  handler' = [handler EXCEPT ![h] = Idle]
      BY <3>1 DEF RefuseLine, CommitRedeem, CommitRefund, DeadlockVictim, Abort
    <3> QED
      BY <1>2, <2>1, <2>2, <2>3, <3>1 DEF Continue, Redeem
<1>3. ASSUME NEW h \in Handler, NEW v \in Voucher, NEW claims \in Claims,
             BeginRedeem(h, v, claims)
      PROVE  handler'[g].voucher \in Voucher
  BY <1>3 DEF BeginRedeem, Idle, TypeOK, HasVoucher
<1>4. ASSUME NEW h \in Handler, NEW v \in Voucher, NEW restock \in BOOLEAN,
             NEW amount \in Amounts \cup {Total[v] - refunded[v]},
             BeginRefund(h, v, amount, restock)
      PROVE  handler'[g].voucher \in Voucher
  BY <1>4 DEF BeginRefund, Idle, TypeOK, HasVoucher
<1>5. CASE UNCHANGED handler
  BY <1>5 DEF HasVoucher
<1> QED
  BY <1>1, <1>2, <1>3, <1>4, <1>5 DEF Next, Crash, ChangeEventStatus, vars

LEMMA TypeStep == TypeOK /\ HasVoucher /\ HandedWithinQty /\ [Next]_vars => TypeOK'
<1> SUFFICES ASSUME TypeOK, HasVoucher, HandedWithinQty, [Next]_vars PROVE TypeOK'
  OBVIOUS
<1>1. ASSUME NEW h \in Handler, NEW v \in Voucher, NEW claims \in Claims,
             BeginRedeem(h, v, claims)
      PROVE  TypeOK'
  <2> DEFINE r == [Idle EXCEPT !.step = "claiming", !.voucher = v, !.todo = claims]
  <2>1. r \in HandlerStates
    BY IdleType, ClaimsAssumption DEF Idle, HandlerStates, Steps
  <2> QED
    BY <1>1, <2>1, HandlerStepType DEF BeginRedeem, TypeOK
<1>2. ASSUME NEW h \in Handler, NEW v \in Voucher, NEW restock \in BOOLEAN,
             NEW amount \in Amounts \cup {Total[v] - refunded[v]},
             BeginRefund(h, v, amount, restock)
      PROVE  TypeOK'
  <2> DEFINE back == IF restock THEN Pending(v) ELSE Idle.back
             r == [Idle EXCEPT !.step = "refunding", !.voucher = v,
                               !.amount = amount, !.back = back]
  <2>1. amount \in Nat
    BY <1>2, AmountsAssumption, TotalAssumption
    DEF BeginRefund, ValidAmount, TypeOK
  <2>2. Pending(v) \in Units
    BY QtyType DEF Pending, Units, TypeOK, HandedWithinQty, HandlerStates
  <2>3. r \in HandlerStates
    BY <2>1, <2>2, IdleType DEF Idle, HandlerStates, Steps, Units
  <2> QED
    BY <1>2, <2>3, HandlerStepType DEF BeginRefund, TypeOK
<1>3. ASSUME NEW h \in Handler, ClaimLine(h) PROVE TypeOK'
  <2> DEFINE item == Head(handler[h].todo)
             r == [handler[h] EXCEPT !.claimed[item.line] = @ + item.qty,
                                     !.todo = Tail(@)]
  <2>1. handler[h] \in HandlerStates /\ handler[h].todo # <<>>
    BY <1>3 DEF TypeOK, ClaimLine
  <2>2. /\ item \in [line : Line, qty : Nat \ {0}]
        /\ Tail(handler[h].todo) \in Seq([line : Line, qty : Nat \ {0}])
    <3>1. handler[h].todo \in Seq([line : Line, qty : Nat \ {0}])
      BY <2>1 DEF HandlerStates
    <3> QED
      BY <2>1, <3>1, HeadTailProperties
  <2>3. r \in HandlerStates
    <3> DEFINE claimed == [handler[h].claimed EXCEPT ![item.line] = @ + item.qty]
    <3>1. item.line \in Line /\ item.qty \in Nat
      BY <2>2
    <3>2. claimed \in Units
      <4>1. handler[h].claimed \in [Line -> Nat]
        BY <2>1 DEF HandlerStates, Units
      <4>2. handler[h].claimed[item.line] + item.qty \in Nat
        BY <3>1, <4>1
      <4> QED
        BY <3>1, <4>1, <4>2 DEF Units
    <3>3. r = [handler[h] EXCEPT !.claimed = claimed, !.todo = Tail(handler[h].todo)]
      BY <2>1 DEF HandlerStates
    <3> QED
      BY <2>1, <2>2, <3>2, <3>3 DEF HandlerStates
  <2>4. handler' = [handler EXCEPT ![h] = r]
    BY <1>3, <2>1 DEF ClaimLine, HandlerStates, TypeOK
  <2> QED
    BY <1>3, <2>3, <2>4, HandlerStepType DEF ClaimLine, TypeOK
<1>4. ASSUME NEW h \in Handler, RefuseLine(h) \/ DeadlockVictim(h)
      PROVE  TypeOK'
  BY <1>4, AbortType DEF RefuseLine, DeadlockVictim
<1>5. ASSUME NEW h \in Handler, CountPending(h) PROVE TypeOK'
  <2> DEFINE r == [handler[h] EXCEPT !.step = "marking", !.full =
                     \A l \in LinesOf(handler[h].voucher) : HandedOver(h, l)]
  <2>1. r \in HandlerStates
    BY DEF TypeOK, HandlerStates, Steps
  <2>2. handler' = [handler EXCEPT ![h] = r]
    BY <1>5 DEF CountPending, TypeOK, HandlerStates
  <2> QED
    BY <1>5, <2>1, <2>2, HandlerStepType DEF CountPending, TypeOK
<1>6. ASSUME NEW h \in Handler, MarkVoucher(h) \/ MarkRefunded(h) PROVE TypeOK'
  <2>1. PICK step \in Steps : handler' = [handler EXCEPT ![h].step = step]
    BY <1>6 DEF MarkVoucher, MarkRefunded, Steps
  <2> DEFINE r == [handler[h] EXCEPT !.step = step]
  <2>2. r \in HandlerStates /\ handler' = [handler EXCEPT ![h] = r]
    BY <2>1 DEF TypeOK, HandlerStates
  <2> QED
    BY <1>6, <2>2, HandlerStepType DEF MarkVoucher, MarkRefunded, TypeOK
<1>7. ASSUME NEW h \in Handler, CommitRedeem(h) PROVE TypeOK'
  <2>1. redeemed' \in Units
    BY <1>7 DEF CommitRedeem, TypeOK, HandlerStates, Units
  <2>2. /\ order' \in [Voucher -> {"PAID", "PARTIALLY_REDEEMED", "REDEEMED",
                                   "REFUNDED"}]
        /\ voucher' \in [Voucher -> VoucherStatuses]
    BY <1>7 DEF CommitRedeem, TypeOK, VoucherStatuses
  <2>3. handler' \in [Handler -> HandlerStates]
    BY <1>7, IdleType DEF CommitRedeem, TypeOK
  <2>4. crossed' \subseteq Voucher /\ shared' \subseteq Voucher
    BY <1>7 DEF CommitRedeem, TypeOK, HasVoucher
  <2> QED
    BY <1>7, <2>1, <2>2, <2>3, <2>4 DEF CommitRedeem, TypeOK
<1>8. ASSUME NEW h \in Handler, CommitRefund(h) PROVE TypeOK'
  <2>1. refunded' \in [Voucher -> Nat]
    <3>1. handler[h].amount \in Nat
      BY DEF TypeOK, HandlerStates
    <3>2. CASE handler[h].voucher \in Voucher
      BY <1>8, <3>1, <3>2 DEF CommitRefund, TypeOK
    <3>3. CASE handler[h].voucher \notin Voucher
      BY <1>8, <3>3 DEF CommitRefund, TypeOK
    <3> QED
      BY <3>2, <3>3
  <2>2. available' \in [Product -> Nat] /\ sold' \in [Product -> Nat]
    BY <1>8, RestockType DEF CommitRefund, TypeOK
  <2>3. /\ order' \in [Voucher -> {"PAID", "PARTIALLY_REDEEMED", "REDEEMED",
                                   "REFUNDED"}]
        /\ voucher' \in [Voucher -> VoucherStatuses]
    BY <1>8 DEF CommitRefund, TypeOK, VoucherStatuses
  <2>4. handler' \in [Handler -> HandlerStates]
    BY <1>8, IdleType DEF CommitRefund, TypeOK
  <2>5. crossed' \subseteq Voucher /\ shared' \subseteq Voucher
    BY <1>8 DEF CommitRefund, Crossed, TypeOK, HasVoucher
  <2> QED
    BY <1>8, <2>1, <2>2, <2>3, <2>4, <2>5 DEF CommitRefund, TypeOK
<1>9. ASSUME NEW h \in Handler, Crash(h) PROVE TypeOK'
  <2>1. crashes' \in 0..MaxCrashes
    BY <1>9, CrashesAssumption DEF Crash, TypeOK
  <2> QED
    BY <1>9, <2>1, IdleType, HandlerStepType DEF Crash, history
<1>10. ASSUME NEW to \in StatusTargets, ChangeEventStatus(to) PROVE TypeOK'
  BY <1>10
  DEF ChangeEventStatus, canTransitionEvent, EVENT_TRANSITIONS, EventStatuses, TypeOK,
    history
<1>11. CASE UNCHANGED vars
  BY <1>11 DEF vars, history, TypeOK
<1> QED
  BY <1>1, <1>2, <1>3, <1>4, <1>5, <1>6, <1>7, <1>8, <1>9, <1>10, <1>11
  DEF Next, Continue, Redeem

-----------------------------------------------------------------------------
(* No unit is handed over twice.                                           *)

\* What one request remembers of its rows, typed.
LEMMA ClaimedType ==
  ASSUME TypeOK, NEW h \in Handler, NEW l \in Line
  PROVE  /\ handler[h].claimed[l] \in Nat /\ redeemed[l] \in Nat
         /\ handler[h] \in HandlerStates
BY DEF TypeOK, HandlerStates, Units

\* A request that begins, aborts or dies holds no row and has seen nothing.
LEMMA RowsForgotten ==
  ASSUME RaceInv, NEW h \in Handler, NEW r,
         r.claimed = [l \in Line |-> 0], r.full = FALSE,
         handler' = [handler EXCEPT ![h] = r], UNCHANGED <<redeemed, voucher>>
  PROVE  HandedWithinQty' /\ RowsLocked' /\ FullMeansHanded' /\ RedeemedMeansHanded'
<1>1. \A g \in Handler : handler'[g] = IF g = h THEN r ELSE handler[g]
  BY DEF RaceInv, TypeOK
<1>2. \A l \in Line : r.claimed[l] = 0
  OBVIOUS
<1>3. HandedWithinQty'
  <2> SUFFICES ASSUME NEW l \in Line, NEW g \in Handler
               PROVE  redeemed[l] + handler'[g].claimed[l] <= Qty[l]
    BY DEF HandedWithinQty
  <2>1. redeemed[l] + handler[g].claimed[l] <= Qty[l]
    BY DEF RaceInv, HandedWithinQty
  <2> QED
    BY <1>1, <1>2, <2>1, ClaimedType, QtyType DEF RaceInv
<1>4. RowsLocked'
  BY <1>1, <1>2 DEF RaceInv, RowsLocked
<1>5. FullMeansHanded'
  <2> SUFFICES ASSUME NEW g \in Handler, handler'[g].full,
                      NEW l \in LinesOf(handler'[g].voucher)
               PROVE  HandedOver(g, l)'
    BY DEF FullMeansHanded, LinesOf
  <2>1. g # h /\ handler'[g] = handler[g]
    BY <1>1
  <2> QED
    BY <2>1 DEF RaceInv, FullMeansHanded, HandedOver
<1>6. RedeemedMeansHanded'
  BY DEF RaceInv, RedeemedMeansHanded
<1> QED
  BY <1>3, <1>4, <1>5, <1>6

\* A request that moves on without touching a row.
LEMMA RowsKept ==
  ASSUME RaceInv, NEW h \in Handler, NEW r,
         r.claimed = handler[h].claimed, r.full = handler[h].full,
         r.voucher = handler[h].voucher,
         handler' = [handler EXCEPT ![h] = r], UNCHANGED <<redeemed, voucher>>
  PROVE  HandedWithinQty' /\ RowsLocked' /\ FullMeansHanded' /\ RedeemedMeansHanded'
<1>1. \A g \in Handler :
        /\ handler'[g].claimed = handler[g].claimed
        /\ handler'[g].full = handler[g].full
        /\ handler'[g].voucher = handler[g].voucher
  BY DEF RaceInv, TypeOK
<1> QED
  BY <1>1 DEF RaceInv, HandedWithinQty, RowsLocked, FullMeansHanded,
    RedeemedMeansHanded, HandedOver, LinesOf

LEMMA RaceStep == RaceInv /\ [Next]_vars => RaceInv'
<1> SUFFICES ASSUME RaceInv, [Next]_vars PROVE RaceInv'
  OBVIOUS
<1> DEFINE Rest == HandedWithinQty /\ RowsLocked /\ FullMeansHanded
                     /\ RedeemedMeansHanded
<1>0. TypeOK' /\ HasVoucher'
  BY TypeStep, VoucherStep DEF RaceInv
<1>1. ASSUME NEW h \in Handler, NEW v \in Voucher, NEW claims \in Claims,
             BeginRedeem(h, v, claims)
      PROVE  Rest'
  <2> DEFINE r == [Idle EXCEPT !.step = "claiming", !.voucher = v, !.todo = claims]
  <2>1. r.claimed = [l \in Line |-> 0] /\ r.full = FALSE
    BY DEF Idle
  <2> QED
    BY <1>1, <2>1, RowsForgotten DEF BeginRedeem
<1>2. ASSUME NEW h \in Handler, NEW v \in Voucher, NEW restock \in BOOLEAN,
             NEW amount \in Amounts \cup {Total[v] - refunded[v]},
             BeginRefund(h, v, amount, restock)
      PROVE  Rest'
  <2> DEFINE back == IF restock THEN Pending(v) ELSE Idle.back
             r == [Idle EXCEPT !.step = "refunding", !.voucher = v,
                               !.amount = amount, !.back = back]
  <2>1. r.claimed = [l \in Line |-> 0] /\ r.full = FALSE
    BY DEF Idle
  <2>2. handler' = [handler EXCEPT ![h] = r]
    BY <1>2 DEF BeginRefund
  <2> QED
    BY <1>2, <2>1, <2>2, RowsForgotten DEF BeginRefund
<1>3. ASSUME NEW h \in Handler, Abort(h) \/ Crash(h) PROVE Rest'
  <2>1. Idle.claimed = [l \in Line |-> 0] /\ Idle.full = FALSE
    BY DEF Idle
  <2> QED
    BY <1>3, <2>1, RowsForgotten DEF Abort, Crash
<1>4. ASSUME NEW h \in Handler, ClaimLine(h) PROVE Rest'
  <2> DEFINE item == Head(handler[h].todo)
             k == item.line
  <2>1. handler[h] \in HandlerStates /\ handler[h].todo # <<>>
    BY <1>4 DEF RaceInv, TypeOK, ClaimLine
  <2>2. item \in [line : Line, qty : Nat \ {0}]
    <3>1. handler[h].todo \in Seq([line : Line, qty : Nat \ {0}])
      BY <2>1 DEF HandlerStates
    <3> QED
      BY <2>1, <3>1, HeadTailProperties
  <2>3. /\ \A g \in Handler \ {h} : handler'[g] = handler[g]
        /\ handler'[h].full = handler[h].full
        /\ handler'[h].voucher = handler[h].voucher
        /\ \A l \in Line : handler'[h].claimed[l] =
             handler[h].claimed[l] + (IF l = k THEN item.qty ELSE 0)
    <3> DEFINE claimed == [handler[h].claimed EXCEPT ![k] = @ + item.qty]
    <3>1. handler[h].claimed \in [Line -> Nat]
      BY <2>1 DEF HandlerStates, Units
    <3>2. /\ \A g \in Handler \ {h} : handler'[g] = handler[g]
          /\ handler'[h].full = handler[h].full
          /\ handler'[h].voucher = handler[h].voucher
          /\ handler'[h].claimed = claimed
      BY <1>4, <2>1 DEF ClaimLine, RaceInv, TypeOK, HandlerStates
    <3>3. \A l \in Line : claimed[l] =
            handler[h].claimed[l] + (IF l = k THEN item.qty ELSE 0)
      BY <2>2, <3>1
    <3> QED
      BY <3>2, <3>3
  <2>4. redeemed[k] + handler[h].claimed[k] <= Qty[k] - item.qty
    BY <1>4 DEF ClaimLine, CanClaim
  <2>5. \A g \in Handler \ {h} : handler[g].claimed[k] = 0
    <3> SUFFICES ASSUME NEW g \in Handler \ {h} PROVE handler[g].claimed[k] = 0
      OBVIOUS
    <3>1. g \notin Blockers(h)
      BY <1>4 DEF ClaimLine
    <3>2. ~(handler[g].claimed[k] > 0)
      BY <1>4, <3>1 DEF ClaimLine, Blockers, Blocks
    <3> QED
      BY <2>2, <3>2, ClaimedType DEF RaceInv
  <2>6. UNCHANGED <<redeemed, voucher>>
    BY <1>4 DEF ClaimLine
  <2>7. HandedWithinQty'
    <3> SUFFICES ASSUME NEW l \in Line, NEW g \in Handler
                 PROVE  redeemed[l] + handler'[g].claimed[l] <= Qty[l]
      BY <2>6 DEF HandedWithinQty
    <3>1. redeemed[l] + handler[g].claimed[l] <= Qty[l]
      BY DEF RaceInv, HandedWithinQty
    <3>2. /\ handler[g].claimed[l] \in Nat /\ redeemed[l] \in Nat
          /\ Qty[l] \in Nat /\ item.qty \in Nat
      BY <2>2, ClaimedType, QtyType DEF RaceInv
    <3> QED
      BY <2>3, <2>4, <3>1, <3>2
  <2>8. RowsLocked'
    BY <2>2, <2>3, <2>5, ClaimedType DEF RaceInv, RowsLocked
  <2>9. FullMeansHanded'
    <3> SUFFICES ASSUME NEW g \in Handler, handler'[g].full,
                        NEW l \in LinesOf(handler'[g].voucher)
                 PROVE  redeemed[l] + handler'[g].claimed[l] >= Qty[l]
      BY <2>6 DEF FullMeansHanded, HandedOver, LinesOf
    <3>1. handler[g].full /\ l \in LinesOf(handler[g].voucher) /\ l \in Line
      BY <2>3 DEF LinesOf
    <3>2. redeemed[l] + handler[g].claimed[l] >= Qty[l]
      BY <3>1 DEF RaceInv, FullMeansHanded, HandedOver
    <3>3. /\ handler[g].claimed[l] \in Nat /\ redeemed[l] \in Nat
          /\ Qty[l] \in Nat /\ item.qty \in Nat
      BY <2>2, <3>1, ClaimedType, QtyType DEF RaceInv
    <3> QED
      BY <2>3, <3>1, <3>2, <3>3
  <2>10. RedeemedMeansHanded'
    BY <2>6 DEF RaceInv, RedeemedMeansHanded
  <2> QED
    BY <2>7, <2>8, <2>9, <2>10
<1>5. ASSUME NEW h \in Handler, CountPending(h) PROVE Rest'
  <2>1. /\ \A g \in Handler \ {h} : handler'[g] = handler[g]
        /\ handler'[h].claimed = handler[h].claimed
        /\ handler'[h].voucher = handler[h].voucher
        /\ handler'[h].full =
             \A l \in LinesOf(handler[h].voucher) : HandedOver(h, l)
    BY <1>5 DEF CountPending, RaceInv, TypeOK, HandlerStates
  <2>2. UNCHANGED <<redeemed, voucher>>
    BY <1>5 DEF CountPending
  <2>3. HandedWithinQty' /\ RowsLocked' /\ RedeemedMeansHanded'
    BY <2>1, <2>2 DEF RaceInv, HandedWithinQty, RowsLocked, RedeemedMeansHanded
  <2>4. FullMeansHanded'
    BY <2>1, <2>2 DEF RaceInv, FullMeansHanded, HandedOver, LinesOf
  <2> QED
    BY <2>3, <2>4
<1>6. ASSUME NEW h \in Handler, MarkVoucher(h) \/ MarkRefunded(h) PROVE Rest'
  <2>1. PICK step \in Steps : handler' = [handler EXCEPT ![h].step = step]
    BY <1>6 DEF MarkVoucher, MarkRefunded, Steps
  <2> DEFINE r == [handler[h] EXCEPT !.step = step]
  <2>2. /\ handler' = [handler EXCEPT ![h] = r]
        /\ r.claimed = handler[h].claimed /\ r.full = handler[h].full
        /\ r.voucher = handler[h].voucher
    BY <2>1 DEF RaceInv, TypeOK, HandlerStates
  <2> QED
    BY <1>6, <2>2, RowsKept DEF MarkVoucher, MarkRefunded
<1>7. ASSUME NEW h \in Handler, CommitRedeem(h) PROVE Rest'
  <2> DEFINE v == handler[h].voucher
  <2>1. /\ \A g \in Handler \ {h} : handler'[g] = handler[g]
        /\ \A l \in Line : handler'[h].claimed[l] = 0
        /\ handler'[h].full = FALSE
    BY <1>7 DEF CommitRedeem, Idle, RaceInv, TypeOK
  <2>2. \A l \in Line : redeemed'[l] = redeemed[l] + handler[h].claimed[l]
    BY <1>7 DEF CommitRedeem
  <2>3. \A g \in Handler, l \in Line :
          /\ handler[g].claimed[l] \in Nat /\ redeemed[l] \in Nat /\ Qty[l] \in Nat
          /\ redeemed[l] + handler[g].claimed[l] <= Qty[l]
    BY ClaimedType, QtyType DEF RaceInv, HandedWithinQty
  <2>4. \A g \in Handler \ {h}, l \in Line :
          handler[g].claimed[l] = 0 \/ handler[h].claimed[l] = 0
    BY DEF RaceInv, RowsLocked
  <2>5. HandedWithinQty'
    <3> SUFFICES ASSUME NEW l \in Line, NEW g \in Handler
                 PROVE  redeemed'[l] + handler'[g].claimed[l] <= Qty[l]
      BY DEF HandedWithinQty
    <3>1. CASE g = h
      BY <2>1, <2>2, <2>3, <3>1
    <3>2. CASE g # h
      BY <2>1, <2>2, <2>3, <2>4, <3>2
    <3> QED
      BY <3>1, <3>2
  <2>6. RowsLocked'
    BY <2>1 DEF RaceInv, RowsLocked
  <2>7. FullMeansHanded'
    <3> SUFFICES ASSUME NEW g \in Handler, handler'[g].full,
                        NEW l \in LinesOf(handler'[g].voucher)
                 PROVE  redeemed'[l] + handler'[g].claimed[l] >= Qty[l]
      BY DEF FullMeansHanded, HandedOver, LinesOf
    <3>1. g \in Handler \ {h} /\ l \in Line /\ handler'[g] = handler[g]
      BY <2>1 DEF LinesOf
    <3>2. redeemed[l] + handler[g].claimed[l] >= Qty[l]
      BY <3>1 DEF RaceInv, FullMeansHanded, HandedOver
    <3> QED
      BY <2>2, <2>3, <3>1, <3>2
  <2>8. RedeemedMeansHanded'
    <3> SUFFICES ASSUME NEW w \in Voucher, voucher'[w] = "REDEEMED",
                        NEW l \in LinesOf(w)
                 PROVE  redeemed'[l] = Qty[l]
      BY DEF RedeemedMeansHanded, LinesOf
    <3>1. l \in Line
      BY DEF LinesOf
    <3>2. CASE w = v /\ handler[h].full
      <4>1. redeemed[l] + handler[h].claimed[l] >= Qty[l]
        BY <3>2 DEF RaceInv, FullMeansHanded, HandedOver
      <4> QED
        BY <2>2, <2>3, <3>1, <4>1
    <3>3. CASE ~(w = v /\ handler[h].full)
      <4>1. voucher[w] = "REDEEMED"
        BY <1>7, <3>3 DEF CommitRedeem, RaceInv, TypeOK
      <4>2. redeemed[l] = Qty[l]
        BY <4>1 DEF RaceInv, RedeemedMeansHanded
      <4> QED
        BY <2>2, <2>3, <3>1, <4>2
    <3> QED
      BY <3>2, <3>3
  <2> QED
    BY <2>5, <2>6, <2>7, <2>8
<1>8. ASSUME NEW h \in Handler, CommitRefund(h) PROVE Rest'
  <2>1. /\ \A g \in Handler \ {h} : handler'[g] = handler[g]
        /\ \A l \in Line : handler'[h].claimed[l] = 0
        /\ handler'[h].full = FALSE /\ redeemed' = redeemed
    BY <1>8 DEF CommitRefund, Idle, RaceInv, TypeOK
  <2>2. HandedWithinQty'
    <3> SUFFICES ASSUME NEW l \in Line, NEW g \in Handler
                 PROVE  redeemed[l] + handler'[g].claimed[l] <= Qty[l]
      BY <2>1 DEF HandedWithinQty
    <3>1. redeemed[l] + handler[g].claimed[l] <= Qty[l]
      BY DEF RaceInv, HandedWithinQty
    <3> QED
      BY <2>1, <3>1, ClaimedType, QtyType DEF RaceInv
  <2>3. RowsLocked' /\ FullMeansHanded'
    BY <2>1 DEF RaceInv, RowsLocked, FullMeansHanded, HandedOver, LinesOf
  <2>4. RedeemedMeansHanded'
    BY <1>8, <2>1 DEF CommitRefund, RaceInv, TypeOK, RedeemedMeansHanded
  <2> QED
    BY <2>2, <2>3, <2>4
<1>9. ASSUME NEW to \in StatusTargets, ChangeEventStatus(to) PROVE Rest'
  BY <1>9 DEF ChangeEventStatus, RaceInv, HandedWithinQty, RowsLocked,
    FullMeansHanded, HandedOver, RedeemedMeansHanded
<1>10. ASSUME UNCHANGED vars PROVE Rest'
  <2>1. UNCHANGED <<redeemed, voucher, handler>>
    BY <1>10 DEF vars
  <2>2. HandedWithinQty' /\ RowsLocked' /\ RedeemedMeansHanded'
    BY <2>1 DEF RaceInv, HandedWithinQty, RowsLocked, RedeemedMeansHanded
  <2>3. FullMeansHanded'
    BY <2>1 DEF RaceInv, FullMeansHanded, HandedOver
  <2> QED
    BY <2>2, <2>3
<1>11. Rest'
  <2> HIDE DEF Rest
  <2>1. ASSUME NEW h \in Handler, Continue(h) PROVE Rest'
    BY <1>3, <1>4, <1>5, <1>6, <1>7, <1>8, <2>1
    DEF Continue, Redeem, RefuseLine, DeadlockVictim
  <2> QED
    BY <1>1, <1>2, <1>3, <1>9, <1>10, <2>1 DEF Next
<1> QED
  BY <1>0, <1>11 DEF RaceInv

LEMMA RaceCorrect == Spec => []RaceInv
<1> QED
  BY RaceInit, RaceStep, PTL DEF Spec

(* The shape of the state; in particular restocking never takes the sold    *)
(* counter below zero (inventory.service.ts:85).                            *)
THEOREM TypeCorrect == Spec => []TypeOK
<1>1. RaceInv => TypeOK
  BY DEF RaceInv
<1> QED
  BY <1>1, RaceCorrect, PTL

(* However many redemptions race, and whatever refunds, deadlocks and       *)
(* crashes come between, no line is handed over beyond what was bought      *)
(* (staff.service.ts:193).                                                  *)
THEOREM NothingHandedTwice == Spec => []HandedWithinQty
<1>1. RaceInv => HandedWithinQty
  BY DEF RaceInv
<1> QED
  BY <1>1, RaceCorrect, PTL

(* A voucher marked REDEEMED owes nothing (staff.service.ts:219-225).       *)
THEOREM UsedUpMeansHanded == Spec => []RedeemedMeansHanded
<1>1. RaceInv => RedeemedMeansHanded
  BY DEF RaceInv
<1> QED
  BY <1>1, RaceCorrect, PTL

-----------------------------------------------------------------------------
(* Counting units.                                                         *)

LEMMA UnitsFinite ==
  ASSUME NEW count, NEW p \in Product
  PROVE  /\ IsFiniteSet(UnitsOf(count, p))
         /\ Cardinality(UnitsOf(count, p)) \in Nat
<1>1. MaxQty \in Int /\ 1 \in Int
  BY LineAssumption
<1>2. IsFiniteSet(1..MaxQty)
  BY <1>1, FS_Interval
<1>3. IsFiniteSet(Line \X (1..MaxQty))
  BY <1>2, LineAssumption, FS_Product
<1>4. UnitsOf(count, p) \in SUBSET (Line \X (1..MaxQty))
  BY DEF UnitsOf
<1>5. IsFiniteSet(UnitsOf(count, p))
  BY <1>3, <1>4, FS_Subset
<1> QED
  BY <1>5, FS_CardinalityType

LEMMA UnitsMonotone ==
  ASSUME NEW few \in Units, NEW many \in Units, NEW p \in Product,
         \A l \in Line : ProductOf[l] = p => few[l] <= many[l]
  PROVE  Cardinality(UnitsOf(few, p)) <= Cardinality(UnitsOf(many, p))
<1>1. UnitsOf(few, p) \in SUBSET UnitsOf(many, p)
  BY DEF UnitsOf, Units
<1> QED
  BY <1>1, UnitsFinite, FS_Subset

\* Counts that differ in one line differ by the units of that line.
LEMMA UnitsDiffer ==
  ASSUME NEW few \in Units, NEW many \in Units, NEW p \in Product,
         NEW k \in Line, ProductOf[k] = p,
         few[k] <= many[k], many[k] <= MaxQty,
         \A l \in Line \ {k} : ProductOf[l] = p => few[l] = many[l]
  PROVE  Cardinality(UnitsOf(many, p)) =
           Cardinality(UnitsOf(few, p)) + (many[k] - few[k])
<1> DEFINE n == many[k] - few[k]
           Extra == {u \in UnitsOf(many, p) : u[1] = k /\ u[2] > few[k]}
           f == [i \in 1..n |-> <<k, few[k] + i>>]
<1>1. few[k] \in Nat /\ many[k] \in Nat /\ n \in Nat /\ MaxQty \in Nat
  BY LineAssumption DEF Units
<1>2. /\ UnitsOf(many, p) = UnitsOf(few, p) \cup Extra
      /\ UnitsOf(few, p) \cap Extra = {}
  BY <1>1 DEF UnitsOf, Units
<1>3. Cardinality(Extra) = n /\ IsFiniteSet(Extra)
  <2>1. \A i \in 1..n : f[i] \in Extra
    BY <1>1 DEF UnitsOf
  <2>2. \A i, j \in 1..n : f[i] = f[j] => i = j
    BY <1>1
  <2>3. ASSUME NEW u \in Extra PROVE \E i \in 1..n : f[i] = u
    <3>1. /\ u = <<k, u[2]>> /\ u[2] \in Nat
          /\ u[2] > few[k] /\ u[2] <= many[k]
      BY <1>1 DEF UnitsOf
    <3>2. u[2] - few[k] \in 1..n /\ few[k] + (u[2] - few[k]) = u[2]
      BY <1>1, <3>1
    <3> QED
      BY <3>1, <3>2
  <2>4. f \in Bijection(1..n, Extra)
    BY <2>1, <2>2, <2>3 DEF Bijection, Injection, Surjection, IsInjective
  <2>5. ExistsBijection(1..n, Extra)
    BY <2>4 DEF ExistsBijection
  <2>6. Extra \in SUBSET UnitsOf(many, p)
    OBVIOUS
  <2> QED
    BY <1>1, <2>5, <2>6, FS_CountingElements, UnitsFinite, FS_Subset
<1>4. Cardinality(UnitsOf(few, p) \cup Extra) =
        Cardinality(UnitsOf(few, p)) + Cardinality(Extra) - Cardinality({})
  BY <1>2, <1>3, UnitsFinite, FS_Union
<1>5. Cardinality({}) = 0
  BY FS_EmptySet
<1>6. Cardinality(UnitsOf(many, p)) =
        Cardinality(UnitsOf(few, p)) + Cardinality(Extra) - Cardinality({})
  BY <1>2, <1>4
<1> QED
  BY <1>1, <1>3, <1>5, <1>6, UnitsFinite

-----------------------------------------------------------------------------
(* What a request that is open may rely on.  Its rows are the voucher's.    *)
(* What it has read is still so, unless another request about the same      *)
(* voucher was committed since; the history says when that happened.        *)

RedeemOwn(h) ==
  LET Claimed(l) == handler[h].claimed[l] > 0
  IN  Redeeming(h) =>
        /\ handler[h].voucher \in Voucher
        /\ \A l \in Line : Claimed(l) => OwnerOf[l] = handler[h].voucher
        /\ handler[h].todo # <<>> \/ \E l \in Line : Claimed(l)
        /\ ~At(h, "claiming") => handler[h].todo = <<>>

RefundOwn(h) ==
  Refunding(h) =>
    /\ handler[h].voucher \in Voucher
    /\ \A l \in Line : handler[h].back[l] = 0 \/ OwnerOf[l] = handler[h].voucher

RedeemFresh(h) ==
  LET v == handler[h].voucher IN
  Redeeming(h) =>
    /\ v \notin crossed => order[v] # "REFUNDED"
    /\ v \notin crossed \cup shared => Refundable(v)
    /\ v \notin shared /\ ~At(h, "claiming") /\ ~handler[h].full =>
         \E l \in LinesOf(v) : ~HandedOver(h, l)

RefundFresh(h) ==
  LET v == handler[h].voucher IN
  Refunding(h) /\ v \notin crossed =>
    /\ Refundable(v)
    /\ \A l \in Line : \/ handler[h].back[l] = 0
                       \/ handler[h].back[l] = Qty[l] - redeemed[l]

Request(h) == RedeemOwn(h) /\ RefundOwn(h) /\ RedeemFresh(h) /\ RefundFresh(h)

StatusesAgree ==
  \A v \in Voucher :
    voucher[v] = IF order[v] = "PAID" THEN "ACTIVE" ELSE order[v]

\* The units that must still count as sold.
Kept == [l \in Line |-> IF order[OwnerOf[l]] = "REFUNDED" THEN redeemed[l] ELSE Qty[l]]

SoldCoversKept ==
  \A p \in Product : Clean(p) => Cardinality(UnitsOf(Kept, p)) <= sold[p]

OpenInv ==
  /\ RaceInv
  /\ \A h \in Handler : Request(h)
  /\ StatusesAgree
  /\ SoldCoversKept


LEMMA IdleRequest ==
  ASSUME NEW h \in Handler, At(h, "idle")
  PROVE  Request(h)
BY DEF Request, RedeemOwn, RefundOwn, RedeemFresh, RefundFresh, Redeeming, Refunding

LEMMA OpenInit == Init => OpenInv
<1> SUFFICES ASSUME Init PROVE OpenInv
  OBVIOUS
<1>1. RaceInv
  BY RaceInit
<1>2. \A h \in Handler : Request(h)
  BY IdleRequest DEF Init, Idle
<1>3. StatusesAgree
  BY DEF Init, StatusesAgree
<1>4. Kept = Qty
  BY QtyType, LineAssumption DEF Init, Kept
<1>5. SoldCoversKept
  <2> SUFFICES ASSUME NEW p \in Product
               PROVE  Cardinality(UnitsOf(Qty, p)) <= sold[p]
    BY <1>4 DEF SoldCoversKept
  <2>1. sold[p] = SoldBefore[p] /\ sold[p] \in Nat
    BY SoldAssumption DEF Init
  <2> QED
    BY <2>1, SoldAssumption, UnitsFinite
<1> QED
  BY <1>1, <1>2, <1>3, <1>5 DEF OpenInv

LEMMA KeptType == RaceInv => Kept \in Units
BY QtyType, ClaimedType DEF RaceInv, TypeOK, Kept, Units

\* When one request moves and writes no table, the others rely on what they did.
LEMMA OthersKept ==
  ASSUME OpenInv, NEW h \in Handler, NEW r,
         handler' = [handler EXCEPT ![h] = r],
         UNCHANGED <<redeemed, order, history>>, Request(h)'
  PROVE  \A g \in Handler : Request(g)'
<1> SUFFICES ASSUME NEW g \in Handler, g # h PROVE Request(g)'
  OBVIOUS
<1>1. handler'[g] = handler[g] /\ Request(g)
  BY DEF OpenInv, RaceInv, TypeOK
<1> QED
  BY <1>1 DEF Request, RedeemOwn, RefundOwn, RedeemFresh, RefundFresh,
    Redeeming, Refunding, Refundable, HandedOver, LinesOf, history

\* Steps that write no table.
LEMMA TablesKept ==
  ASSUME OpenInv, UNCHANGED <<tables, history>>
  PROVE  StatusesAgree' /\ SoldCoversKept'
<1>1. Kept' = Kept /\ \A p \in Product : Clean(p)' = Clean(p)
  BY DEF Kept, Clean, history
<1>2. \A p \in Product : UnitsOf(Kept', p) = UnitsOf(Kept, p)
  BY <1>1
<1> QED
  BY <1>1, <1>2 DEF OpenInv, StatusesAgree, SoldCoversKept

\* The books of clean products, after a commit that lowers what must be kept.
LEMMA CleanKept ==
  ASSUME RaceInv, RaceInv', SoldCoversKept, NEW p \in Product, Clean(p),
         sold'[p] = sold[p],
         \A l \in Line : ProductOf[l] = p => Kept'[l] <= Kept[l]
  PROVE  Cardinality(UnitsOf(Kept', p)) <= sold'[p]
<1>1. Kept \in Units /\ Kept' \in Units
  BY KeptType, QtyType, ClaimedType DEF RaceInv, TypeOK, Kept, Units
<1>2. Cardinality(UnitsOf(Kept', p)) <= Cardinality(UnitsOf(Kept, p))
  BY <1>1, UnitsMonotone
<1>3. Cardinality(UnitsOf(Kept, p)) <= sold[p] /\ sold[p] \in Nat
  BY DEF SoldCoversKept, RaceInv, TypeOK
<1> QED
  BY <1>2, <1>3, UnitsFinite

LEMMA RedeemCommits ==
  ASSUME OpenInv, RaceInv', NEW h \in Handler, CommitRedeem(h)
  PROVE  OpenInv'
<1> DEFINE v == handler[h].voucher
           status == IF handler[h].full THEN "REDEEMED" ELSE "PARTIALLY_REDEEMED"
<1>1. /\ v \in Voucher
      /\ \A l \in Line : handler[h].claimed[l] > 0 => OwnerOf[l] = v
      /\ v \notin crossed => order[v] # "REFUNDED"
  BY DEF CommitRedeem, OpenInv, Request, RedeemOwn, RedeemFresh, Redeeming
<1>2. /\ order' = [order EXCEPT ![v] = status]
      /\ voucher' = [voucher EXCEPT ![v] = status]
      /\ \A l \in Line : redeemed'[l] = redeemed[l] + handler[h].claimed[l]
      /\ UNCHANGED sold
      /\ handler' = [handler EXCEPT ![h] = Idle]
      /\ crossed' = IF RefundedElsewhere(h) THEN crossed \cup {v} ELSE crossed
      /\ shared' = IF RedeemedElsewhere(h) THEN shared \cup {v} ELSE shared
  BY DEF CommitRedeem
<1>3. \A l \in Line : OwnerOf[l] # v => redeemed'[l] = redeemed[l]
  BY <1>1, <1>2, ClaimedType DEF OpenInv, RaceInv
<1>4. /\ order'[v] # "REFUNDED"
      /\ \A w \in Voucher \ {v} : order'[w] = order[w]
  BY <1>1, <1>2 DEF OpenInv, RaceInv, TypeOK
<1>5. ASSUME NEW g \in Handler PROVE Request(g)'
  <2>1. CASE g = h
    <3>1. handler'[g].step = "idle"
      BY <1>2, <2>1 DEF Idle, OpenInv, RaceInv, TypeOK
    <3> QED
      BY <3>1 DEF Request, RedeemOwn, RefundOwn, RedeemFresh, RefundFresh,
        Redeeming, Refunding
  <2>2. CASE g # h
    <3> DEFINE w == handler[g].voucher
    <3>1. handler'[g] = handler[g] /\ Request(g)
      BY <1>2, <2>2 DEF OpenInv, RaceInv, TypeOK
    <3>2. (RedeemOwn(g) /\ RefundOwn(g))'
      BY <3>1 DEF Request, RedeemOwn, RefundOwn, Redeeming, Refunding
    <3>3. CASE w = v
      <4>1. Redeeming(g) => v \in shared'
        BY <1>2, <2>2, <3>3 DEF RedeemedElsewhere
      <4>2. Refunding(g) => v \in crossed'
        BY <1>2, <2>2, <3>3 DEF RefundedElsewhere
      <4>3. RedeemFresh(g)'
        BY <1>4, <3>1, <3>3, <4>1 DEF RedeemFresh, Redeeming
      <4>4. RefundFresh(g)'
        BY <3>1, <3>3, <4>2 DEF RefundFresh, Refunding
      <4> QED
        BY <3>2, <4>3, <4>4 DEF Request
    <3>4. CASE w # v
      <4>1. crossed \subseteq crossed' /\ shared \subseteq shared'
        BY <1>2
      <4>2. RedeemFresh(g)'
        <5>1. \A l \in LinesOf(w) : redeemed'[l] = redeemed[l]
          BY <1>3, <3>4 DEF LinesOf
        <5>2. \A l \in LinesOf(w) : HandedOver(g, l)' = HandedOver(g, l)
          BY <3>1, <5>1 DEF HandedOver
        <5>3. Redeeming(g) => w \in Voucher \ {v}
          BY <3>1, <3>4 DEF Request, RedeemOwn
        <5> QED
          BY <1>4, <3>1, <4>1, <5>2, <5>3
          DEF Request, RedeemFresh, Redeeming, Refundable, LinesOf
      <4>3. RefundFresh(g)'
        <5>1. Refunding(g) => w \in Voucher \ {v}
          BY <3>1, <3>4 DEF Request, RefundOwn
        <5>2. Refunding(g) =>
                \A l \in Line : handler[g].back[l] = 0 \/ redeemed'[l] = redeemed[l]
          BY <1>3, <3>1, <3>4 DEF Request, RefundOwn
        <5> QED
          BY <1>4, <3>1, <4>1, <5>1, <5>2
          DEF Request, RefundFresh, Refunding, Refundable
      <4> QED
        BY <3>2, <4>2, <4>3 DEF Request
    <3> QED
      BY <3>3, <3>4
  <2> QED
    BY <2>1, <2>2
<1>6. StatusesAgree'
  BY <1>2 DEF StatusesAgree, OpenInv, RaceInv, TypeOK
<1>7. SoldCoversKept'
  <2> SUFFICES ASSUME NEW p \in Product, Clean(p)'
               PROVE  Cardinality(UnitsOf(Kept', p)) <= sold'[p]
    BY DEF SoldCoversKept, UnitsOf
  <2>1. Clean(p)
    BY <1>2 DEF Clean
  <2>2. ASSUME NEW l \in Line, ProductOf[l] = p PROVE Kept'[l] = Kept[l]
    <3>1. OwnerOf[l] \in Voucher /\ OwnerOf[l] \notin crossed
      BY <2>1, <2>2, QtyType DEF Clean
    <3>2. CASE OwnerOf[l] = v
      BY <1>1, <1>4, <3>1, <3>2 DEF Kept
    <3>3. CASE OwnerOf[l] # v
      BY <1>3, <1>4, <3>1, <3>3 DEF Kept
    <3> QED
      BY <3>2, <3>3
  <2>3. \A l \in Line : ProductOf[l] = p => Kept'[l] <= Kept[l]
    BY <2>2, KeptType DEF OpenInv, Units
  <2> QED
    BY <1>2, <2>1, <2>3, CleanKept DEF OpenInv
<1> QED
  BY <1>5, <1>6, <1>7 DEF OpenInv

LEMMA RefundCommits ==
  ASSUME OpenInv, RaceInv', NEW h \in Handler, CommitRefund(h)
  PROVE  OpenInv'
<1> DEFINE v == handler[h].voucher
           back == handler[h].back
<1>1. /\ v \in Voucher
      /\ \A l \in Line : back[l] = 0 \/ OwnerOf[l] = v
      /\ v \notin crossed =>
           /\ Refundable(v)
           /\ \A l \in Line : back[l] = 0 \/ back[l] = Qty[l] - redeemed[l]
  BY DEF CommitRefund, OpenInv, Request, RefundOwn, RefundFresh, Refunding
<1>2. /\ order' = [order EXCEPT ![v] = "REFUNDED"]
      /\ voucher' = [voucher EXCEPT ![v] = "REFUNDED"]
      /\ redeemed' = redeemed /\ shared' = shared
      /\ \A p \in Product : sold'[p] = sold[p] - Restocked(h, p)
      /\ handler' = [handler EXCEPT ![h] = Idle]
      /\ crossed' = IF RefundedElsewhere(h) \/ RedeemedElsewhere(h)
                    THEN crossed \cup {v} ELSE crossed
  BY DEF CommitRefund, Crossed
<1>3. /\ order'[v] = "REFUNDED"
      /\ \A w \in Voucher \ {v} : order'[w] = order[w]
  BY <1>1, <1>2 DEF OpenInv, RaceInv, TypeOK
<1>4. ASSUME NEW g \in Handler PROVE Request(g)'
  <2>1. CASE g = h
    <3>1. handler'[g].step = "idle"
      BY <1>2, <2>1 DEF Idle, OpenInv, RaceInv, TypeOK
    <3> QED
      BY <3>1 DEF Request, RedeemOwn, RefundOwn, RedeemFresh, RefundFresh,
        Redeeming, Refunding
  <2>2. CASE g # h
    <3> DEFINE w == handler[g].voucher
    <3>1. handler'[g] = handler[g] /\ Request(g)
      BY <1>2, <2>2 DEF OpenInv, RaceInv, TypeOK
    <3>2. (RedeemOwn(g) /\ RefundOwn(g))'
      BY <3>1 DEF Request, RedeemOwn, RefundOwn, Redeeming, Refunding
    <3>3. \A l \in Line : HandedOver(g, l)' = HandedOver(g, l)
      BY <1>2, <3>1 DEF HandedOver
    <3>4. CASE w = v
      <4>1. Redeeming(g) \/ Refunding(g) => v \in crossed'
        BY <1>2, <2>2, <3>4 DEF RedeemedElsewhere, RefundedElsewhere
      <4>2. RedeemFresh(g)'
        BY <1>2, <3>1, <3>3, <3>4, <4>1 DEF Request, RedeemFresh, Redeeming, LinesOf
      <4>3. RefundFresh(g)'
        BY <3>1, <3>4, <4>1 DEF RefundFresh, Refunding
      <4> QED
        BY <3>2, <4>2, <4>3 DEF Request
    <3>5. CASE w # v
      <4>1. crossed \subseteq crossed'
        BY <1>2
      <4>2. Redeeming(g) \/ Refunding(g) => w \in Voucher \ {v}
        BY <3>1, <3>5 DEF Request, RedeemOwn, RefundOwn
      <4>3. RedeemFresh(g)'
        BY <1>2, <1>3, <3>1, <3>3, <4>1, <4>2
        DEF Request, RedeemFresh, Redeeming, Refundable, LinesOf
      <4>4. RefundFresh(g)'
        BY <1>2, <1>3, <3>1, <4>1, <4>2 DEF Request, RefundFresh, Refunding, Refundable
      <4> QED
        BY <3>2, <4>3, <4>4 DEF Request
    <3> QED
      BY <3>4, <3>5
  <2> QED
    BY <2>1, <2>2
<1>5. StatusesAgree'
  BY <1>2 DEF StatusesAgree, OpenInv, RaceInv, TypeOK
<1>6. /\ Kept \in Units /\ Kept' \in Units
      /\ \A l \in Line : /\ OwnerOf[l] # v => Kept'[l] = Kept[l]
                         /\ OwnerOf[l] = v => Kept'[l] = redeemed[l]
                         /\ Kept'[l] <= Kept[l]
                         /\ redeemed[l] \in Nat /\ redeemed[l] <= Qty[l]
                         /\ Qty[l] \in Nat /\ Qty[l] <= MaxQty /\ back[l] \in Nat
  <2>1. Kept \in Units /\ Kept' \in Units
    BY KeptType, QtyType, ClaimedType DEF OpenInv, RaceInv, TypeOK, Kept, Units
  <2>2. ASSUME NEW l \in Line
        PROVE  /\ redeemed[l] \in Nat /\ redeemed[l] <= Qty[l] /\ back[l] \in Nat
               /\ Qty[l] \in Nat /\ Qty[l] <= MaxQty
    <3>1. redeemed[l] + handler[h].claimed[l] <= Qty[l]
      BY DEF OpenInv, RaceInv, HandedWithinQty
    <3>2. back[l] \in Nat
      BY DEF OpenInv, RaceInv, TypeOK, HandlerStates, Units
    <3> QED
      BY <3>1, <3>2, QtyType, ClaimedType DEF OpenInv, RaceInv
  <2>3. ASSUME NEW l \in Line
        PROVE  /\ OwnerOf[l] # v => Kept'[l] = Kept[l]
               /\ OwnerOf[l] = v => Kept'[l] = redeemed[l]
    BY <1>2, <1>3, QtyType DEF Kept
  <2>4. ASSUME NEW l \in Line PROVE Kept'[l] <= Kept[l]
    <3>1. Kept[l] = redeemed[l] \/ Kept[l] = Qty[l]
      BY DEF Kept
    <3>2. CASE OwnerOf[l] = v
      BY <2>2, <2>3, <3>1, <3>2
    <3>3. CASE OwnerOf[l] # v
      BY <2>1, <2>3, <3>3 DEF Units
    <3> QED
      BY <3>2, <3>3
  <2> QED
    BY <2>1, <2>2, <2>3, <2>4
<1>7. ASSUME NEW p \in Product, Clean(p)'
      PROVE  Cardinality(UnitsOf(Kept', p)) <= sold'[p]
  <2> DEFINE lines == {l \in Line : ProductOf[l] = p /\ back[l] > 0}
  <2>1. Clean(p)
    BY <1>2, <1>7 DEF Clean
  <2>2. Restocked(h, p) \in Nat /\ sold'[p] = sold[p] - Restocked(h, p)
    BY <1>2, RestockType DEF OpenInv, RaceInv
  <2>3. CASE lines = {}
    <3>1. Restocked(h, p) = 0 /\ sold[p] \in Nat
      BY <2>3 DEF Restocked, MovementOf, OpenInv, RaceInv, TypeOK
    <3> QED
      BY <1>6, <2>1, <2>2, <3>1, CleanKept DEF OpenInv
  <2>4. CASE lines # {}
    <3> DEFINE k == CHOOSE l \in lines : TRUE
    <3>1. k \in Line /\ ProductOf[k] = p /\ back[k] > 0
      BY <2>4
    <3> HIDE DEF k
    <3>2. MovementOf(h, p) = back[k]
      BY <2>4 DEF MovementOf, k
    <3>3. OwnerOf[k] = v /\ v \notin crossed
      BY <1>1, <2>1, <3>1 DEF Clean
    <3>4. back[k] = Qty[k] - redeemed[k] /\ Refundable(v)
      BY <1>1, <3>1, <3>3
    <3>5. Kept[k] = Qty[k]
      BY <3>1, <3>3, <3>4 DEF Kept, Refundable
    <3>6. \A l \in Line \ {k} : ProductOf[l] = p => Kept'[l] = Kept[l]
      BY <1>6, <3>1, <3>3, OneLineAssumption
    <3>7. Cardinality(UnitsOf(Kept, p)) =
            Cardinality(UnitsOf(Kept', p)) + (Kept[k] - Kept'[k])
      BY <1>6, <3>1, <3>3, <3>5, <3>6, UnitsDiffer
    <3>8. Restocked(h, p) <= back[k]
      BY <1>6, <3>1, <3>2 DEF Restocked
    <3>9. /\ Cardinality(UnitsOf(Kept, p)) <= sold[p] /\ sold[p] \in Nat
          /\ Cardinality(UnitsOf(Kept, p)) \in Nat
          /\ Cardinality(UnitsOf(Kept', p)) \in Nat
      BY <2>1, UnitsFinite DEF OpenInv, RaceInv, TypeOK, SoldCoversKept
    <3> QED
      BY <1>6, <2>2, <3>1, <3>3, <3>4, <3>5, <3>7, <3>8, <3>9
  <2> QED
    BY <2>3, <2>4
<1>8. SoldCoversKept'
  BY <1>7 DEF SoldCoversKept, UnitsOf
<1> QED
  BY <1>4, <1>5, <1>8 DEF OpenInv

LEMMA OpenStep == OpenInv /\ [Next]_vars => OpenInv'
<1> SUFFICES ASSUME OpenInv, [Next]_vars PROVE OpenInv'
  OBVIOUS
<1>0. RaceInv'
  BY RaceStep DEF OpenInv
\* A request that moves and writes no table.
<1>1. ASSUME NEW h \in Handler, NEW r, handler' = [handler EXCEPT ![h] = r],
             UNCHANGED <<tables, history>>, Request(h)'
      PROVE  OpenInv'
  <2>1. \A g \in Handler : Request(g)'
    BY <1>1, OthersKept
  <2> QED
    BY <1>0, <1>1, <2>1, TablesKept DEF OpenInv
<1>2. ASSUME NEW h \in Handler, NEW v \in Voucher, NEW claims \in Claims,
             BeginRedeem(h, v, claims)
      PROVE  OpenInv'
  <2> DEFINE r == [Idle EXCEPT !.step = "claiming", !.voucher = v, !.todo = claims]
  <2>1. handler' = [handler EXCEPT ![h] = r] /\ UNCHANGED <<tables, history>>
    BY <1>2 DEF BeginRedeem
  <2>2. /\ handler'[h].step = "claiming" /\ handler'[h].voucher = v
        /\ handler'[h].todo = claims
        /\ \A l \in Line : handler'[h].claimed[l] = 0
    BY <2>1 DEF OpenInv, RaceInv, TypeOK, Idle
  <2>3. Refundable(v)
    BY <1>2 DEF BeginRedeem, voucherIsRedeemable, OpenInv, RaceInv, TypeOK,
      StatusesAgree, Refundable
  <2>4. RedeemOwn(h)'
    BY <2>2, ClaimsAssumption DEF RedeemOwn
  <2>5. RedeemFresh(h)'
    BY <2>1, <2>2, <2>3 DEF RedeemFresh, Refundable
  <2>6. (RefundOwn(h) /\ RefundFresh(h))'
    BY <2>2 DEF RefundOwn, RefundFresh, Refunding
  <2> QED
    BY <1>1, <2>1, <2>4, <2>5, <2>6 DEF Request
<1>3. ASSUME NEW h \in Handler, NEW v \in Voucher, NEW restock \in BOOLEAN,
             NEW amount \in Amounts \cup {Total[v] - refunded[v]},
             BeginRefund(h, v, amount, restock)
      PROVE  OpenInv'
  <2> DEFINE back == IF restock THEN Pending(v) ELSE Idle.back
             r == [Idle EXCEPT !.step = "refunding", !.voucher = v,
                               !.amount = amount, !.back = back]
  <2>1. handler' = [handler EXCEPT ![h] = r] /\ UNCHANGED <<tables, history>>
    BY <1>3 DEF BeginRefund
  <2>2. /\ handler'[h].step = "refunding" /\ handler'[h].voucher = v
        /\ handler'[h].back = back
    BY <2>1 DEF OpenInv, RaceInv, TypeOK, Idle
  <2>3. \A l \in Line : \/ back[l] = 0
                        \/ OwnerOf[l] = v /\ back[l] = Qty[l] - redeemed[l]
    BY DEF Pending, Idle
  <2>4. Refundable(v)
    BY <1>3 DEF BeginRefund
  <2>5. RefundOwn(h)'
    BY <2>2, <2>3 DEF RefundOwn
  <2>6. RefundFresh(h)'
    BY <2>1, <2>2, <2>3, <2>4 DEF RefundFresh, Refundable
  <2>7. (RedeemOwn(h) /\ RedeemFresh(h))'
    BY <2>2 DEF RedeemOwn, RedeemFresh, Redeeming
  <2> QED
    BY <1>1, <2>1, <2>5, <2>6, <2>7 DEF Request
<1>4. ASSUME NEW h \in Handler, Abort(h) \/ Crash(h) PROVE OpenInv'
  <2>1. handler' = [handler EXCEPT ![h] = Idle] /\ UNCHANGED <<tables, history>>
    BY <1>4 DEF Abort, Crash
  <2>2. handler'[h].step = "idle"
    BY <2>1 DEF OpenInv, RaceInv, TypeOK, Idle
  <2>3. Request(h)'
    BY <2>2 DEF Request, RedeemOwn, RefundOwn, RedeemFresh, RefundFresh,
      Redeeming, Refunding
  <2> QED
    BY <1>1, <2>1, <2>3
<1>5. ASSUME NEW h \in Handler, ClaimLine(h) PROVE OpenInv'
  <2> DEFINE item == Head(handler[h].todo)
             k == item.line
             claimed == [handler[h].claimed EXCEPT ![k] = @ + item.qty]
             r == [handler[h] EXCEPT !.claimed = claimed, !.todo = Tail(@)]
  <2>1. handler[h] \in HandlerStates /\ handler[h].todo # <<>>
    BY <1>5 DEF OpenInv, RaceInv, TypeOK, ClaimLine
  <2>2. item \in [line : Line, qty : Nat \ {0}]
    <3>1. handler[h].todo \in Seq([line : Line, qty : Nat \ {0}])
      BY <2>1 DEF HandlerStates
    <3> QED
      BY <2>1, <3>1, HeadTailProperties
  <2>3. handler' = [handler EXCEPT ![h] = r] /\ UNCHANGED <<tables, history>>
    BY <1>5, <2>1 DEF ClaimLine, OpenInv, RaceInv, TypeOK, HandlerStates
  <2>4. /\ handler'[h].step = "claiming" /\ handler'[h].claimed = claimed
        /\ handler'[h].voucher = handler[h].voucher
    BY <1>5, <2>1, <2>3 DEF ClaimLine, OpenInv, RaceInv, TypeOK, HandlerStates
  <2>5. \A l \in Line : claimed[l] =
          handler[h].claimed[l] + (IF l = k THEN item.qty ELSE 0)
    <3>1. handler[h].claimed \in [Line -> Nat]
      BY <2>1 DEF HandlerStates, Units
    <3> QED
      BY <2>2, <3>1
  <2>6. OwnerOf[k] = handler[h].voucher
    BY <1>5 DEF ClaimLine, CanClaim
  <2>7. RedeemOwn(h) /\ RedeemFresh(h) /\ Redeeming(h)
    BY <1>5 DEF OpenInv, Request, ClaimLine, Redeeming
  <2>8. claimed[k] > 0
    BY <2>2, <2>5, ClaimedType DEF OpenInv, RaceInv
  <2>9. \A l \in Line : claimed[l] > 0 => OwnerOf[l] = handler[h].voucher
    BY <2>5, <2>6, <2>7, ClaimedType DEF OpenInv, RaceInv, RedeemOwn
  <2>10. RedeemOwn(h)'
    <3>1. handler[h].voucher \in Voucher /\ k \in Line
      BY <2>2, <2>7 DEF RedeemOwn
    <3> QED
      BY <2>4, <2>8, <2>9, <3>1 DEF RedeemOwn
  <2>11. RedeemFresh(h)'
    BY <2>3, <2>4, <2>7 DEF RedeemFresh, Refundable, history
  <2>12. (RefundOwn(h) /\ RefundFresh(h))'
    BY <2>4 DEF RefundOwn, RefundFresh, Refunding
  <2> QED
    BY <1>1, <2>3, <2>10, <2>11, <2>12 DEF Request
<1>6. ASSUME NEW h \in Handler, CountPending(h) PROVE OpenInv'
  <2> DEFINE v == handler[h].voucher
             full == \A l \in LinesOf(v) : HandedOver(h, l)
             r == [handler[h] EXCEPT !.step = "marking", !.full = full]
  <2>1. handler' = [handler EXCEPT ![h] = r] /\ UNCHANGED <<tables, history>>
    BY <1>6 DEF CountPending, OpenInv, RaceInv, TypeOK, HandlerStates
  <2>2. /\ handler'[h].step = "marking" /\ handler'[h].claimed = handler[h].claimed
        /\ handler'[h].voucher = v /\ handler'[h].full = full
        /\ handler'[h].todo = <<>>
    BY <1>6 DEF CountPending, OpenInv, RaceInv, TypeOK, HandlerStates
  <2>3. RedeemOwn(h) /\ RedeemFresh(h) /\ Redeeming(h) /\ handler[h].todo = <<>>
    BY <1>6 DEF OpenInv, Request, CountPending, Redeeming
  <2>4. RedeemOwn(h)'
    BY <2>2, <2>3 DEF RedeemOwn
  <2>5. RedeemFresh(h)'
    BY <2>1, <2>2, <2>3 DEF RedeemFresh, Refundable, HandedOver, LinesOf, history
  <2>6. (RefundOwn(h) /\ RefundFresh(h))'
    BY <2>2 DEF RefundOwn, RefundFresh, Refunding
  <2> QED
    BY <1>1, <2>1, <2>4, <2>5, <2>6 DEF Request
<1>7. ASSUME NEW h \in Handler, MarkVoucher(h) PROVE OpenInv'
  <2> DEFINE r == [handler[h] EXCEPT !.step = "ordering"]
  <2>1. handler' = [handler EXCEPT ![h] = r] /\ UNCHANGED <<tables, history>>
    BY <1>7 DEF MarkVoucher, OpenInv, RaceInv, TypeOK, HandlerStates
  <2>2. /\ handler'[h].step = "ordering" /\ handler'[h].claimed = handler[h].claimed
        /\ handler'[h].voucher = handler[h].voucher
        /\ handler'[h].full = handler[h].full /\ handler'[h].todo = handler[h].todo
    BY <2>1 DEF OpenInv, RaceInv, TypeOK, HandlerStates
  <2>3. RedeemOwn(h) /\ RedeemFresh(h) /\ Redeeming(h) /\ ~At(h, "claiming")
    BY <1>7 DEF OpenInv, Request, MarkVoucher, Redeeming
  <2>4. RedeemOwn(h)'
    BY <2>2, <2>3 DEF RedeemOwn
  <2>5. RedeemFresh(h)'
    BY <2>1, <2>2, <2>3 DEF RedeemFresh, Refundable, HandedOver, LinesOf, history
  <2>6. (RefundOwn(h) /\ RefundFresh(h))'
    BY <2>2 DEF RefundOwn, RefundFresh, Refunding
  <2> QED
    BY <1>1, <2>1, <2>4, <2>5, <2>6 DEF Request
<1>8. ASSUME NEW h \in Handler, MarkRefunded(h) PROVE OpenInv'
  <2> DEFINE r == [handler[h] EXCEPT !.step = "refunded"]
  <2>1. handler' = [handler EXCEPT ![h] = r] /\ UNCHANGED <<tables, history>>
    BY <1>8 DEF MarkRefunded, OpenInv, RaceInv, TypeOK, HandlerStates
  <2>2. /\ handler'[h].step = "refunded" /\ handler'[h].back = handler[h].back
        /\ handler'[h].voucher = handler[h].voucher
    BY <2>1 DEF OpenInv, RaceInv, TypeOK, HandlerStates
  <2>3. RefundOwn(h) /\ RefundFresh(h) /\ Refunding(h)
    BY <1>8 DEF OpenInv, Request, MarkRefunded, Refunding
  <2>4. (RefundOwn(h) /\ RefundFresh(h))'
    BY <2>1, <2>2, <2>3 DEF RefundOwn, RefundFresh, Refunding, Refundable, history
  <2>5. (RedeemOwn(h) /\ RedeemFresh(h))'
    BY <2>2 DEF RedeemOwn, RedeemFresh, Redeeming
  <2> QED
    BY <1>1, <2>1, <2>4, <2>5 DEF Request
<1>9. ASSUME UNCHANGED <<tables, handler, history>> PROVE OpenInv'
  <2>1. \A h \in Handler : Request(h)'
    BY <1>9 DEF OpenInv, Request, RedeemOwn, RefundOwn, RedeemFresh, RefundFresh,
      Redeeming, Refunding, Refundable, HandedOver, history
  <2> QED
    BY <1>0, <1>9, <2>1, TablesKept DEF OpenInv
<1>10. ASSUME NEW to \in StatusTargets, ChangeEventStatus(to) PROVE OpenInv'
  BY <1>9, <1>10 DEF ChangeEventStatus
<1>11. CASE UNCHANGED vars
  BY <1>9, <1>11 DEF vars
<1>12. ASSUME NEW h \in Handler, Continue(h) PROVE OpenInv'
  BY <1>0, <1>4, <1>5, <1>6, <1>7, <1>8, <1>12, RedeemCommits, RefundCommits
  DEF Continue, Redeem, RefuseLine, DeadlockVictim
<1> QED
  BY <1>2, <1>3, <1>4, <1>10, <1>11, <1>12 DEF Next

LEMMA OpenCorrect == Spec => []OpenInv
<1> QED
  BY OpenInit, OpenStep, PTL DEF Spec

(* Only what was never handed over goes back on sale                        *)
(* (admin.service.ts:251), except on a voucher of which a refund overlapped *)
(* with another request: the counters of all other products are right,      *)
(* whatever races, deadlocks and crashes there are.                         *)
THEOREM HandedStaySold == Spec => []HandedWereSold
<1>1. OpenInv => HandedWereSold
  <2> SUFFICES ASSUME OpenInv, NEW p \in Product, Clean(p)
               PROVE  Cardinality(UnitsOf(redeemed, p)) <= sold[p]
    BY DEF HandedWereSold
  <2>1. redeemed \in Units /\ Kept \in Units /\ sold[p] \in Nat
    BY KeptType DEF OpenInv, RaceInv, TypeOK
  <2>2. ASSUME NEW l \in Line PROVE redeemed[l] <= Kept[l]
    <3>1. \A h \in Handler : redeemed[l] + handler[h].claimed[l] <= Qty[l]
      BY DEF OpenInv, RaceInv, HandedWithinQty
    <3> QED
      BY <3>1, HandlerAssumption, QtyType, ClaimedType DEF OpenInv, RaceInv, Kept
  <2>3. Cardinality(UnitsOf(redeemed, p)) <= Cardinality(UnitsOf(Kept, p))
    BY <2>1, <2>2, UnitsMonotone
  <2> QED
    BY <2>1, <2>3, UnitsFinite DEF OpenInv, SoldCoversKept
<1> QED
  BY <1>1, OpenCorrect, PTL

LEMMA DoneStep ==
  ASSUME OpenInv, RedeemedWhenDone, [Next]_vars
  PROVE  RedeemedWhenDone'
<1> SUFFICES ASSUME NEW v \in Voucher, v \notin shared', LinesOf(v) # {},
                    \A l \in LinesOf(v) : redeemed'[l] = Qty[l]
             PROVE  ~voucherIsRedeemable(voucher'[v])
  BY DEF RedeemedWhenDone
<1>1. ASSUME NEW h \in Handler, CommitRedeem(h)
      PROVE  ~voucherIsRedeemable(voucher'[v])
  <2> DEFINE own == handler[h].voucher
  <2>0. v \notin shared
    BY <1>1 DEF CommitRedeem
  <2>1. /\ own \in Voucher
        /\ own \notin shared /\ ~handler[h].full =>
             \E l \in LinesOf(own) : ~HandedOver(h, l)
        /\ \A l \in Line : handler[h].claimed[l] > 0 => OwnerOf[l] = own
    BY <1>1 DEF OpenInv, Request, RedeemOwn, RedeemFresh, Redeeming, CommitRedeem
  <2>2. \A l \in Line : redeemed'[l] = redeemed[l] + handler[h].claimed[l]
    BY <1>1 DEF CommitRedeem
  <2>3. CASE v = own
    <3>1. ASSUME NEW l \in LinesOf(v) PROVE HandedOver(h, l)
      <4>1. l \in Line /\ redeemed[l] + handler[h].claimed[l] = Qty[l]
        BY <2>2 DEF LinesOf
      <4> QED
        BY <4>1, QtyType DEF HandedOver
    <3>2. handler[h].full
      BY <2>0, <2>1, <2>3, <3>1
    <3>3. voucher'[v] = "REDEEMED"
      BY <1>1, <2>3, <3>2 DEF CommitRedeem, OpenInv, RaceInv, TypeOK
    <3> QED
      BY <3>3 DEF voucherIsRedeemable
  <2>4. CASE v # own
    <3>1. voucher'[v] = voucher[v]
      BY <1>1, <2>4 DEF CommitRedeem, OpenInv, RaceInv, TypeOK
    <3>2. ASSUME NEW l \in LinesOf(v) PROVE redeemed[l] = Qty[l]
      <4>1. l \in Line /\ OwnerOf[l] # own
        BY <2>4 DEF LinesOf
      <4>2. handler[h].claimed[l] = 0 /\ redeemed[l] \in Nat
        BY <2>1, <4>1, ClaimedType DEF OpenInv, RaceInv, TypeOK, Units
      <4> QED
        BY <2>2, <4>1, <4>2
    <3> QED
      BY <2>0, <3>1, <3>2 DEF RedeemedWhenDone
  <2> QED
    BY <2>3, <2>4
<1>2. ASSUME NEW h \in Handler, CommitRefund(h)
      PROVE  ~voucherIsRedeemable(voucher'[v])
  <2>1. redeemed' = redeemed /\ shared' = shared
    BY <1>2 DEF CommitRefund
  <2>2. \/ voucher'[v] = voucher[v]
        \/ voucher'[v] \notin {"ACTIVE", "PARTIALLY_REDEEMED"}
    BY <1>2 DEF CommitRefund, OpenInv, RaceInv, TypeOK
  <2> QED
    BY <2>1, <2>2 DEF RedeemedWhenDone, voucherIsRedeemable
<1>3. CASE UNCHANGED <<redeemed, voucher, shared>>
  BY <1>3 DEF RedeemedWhenDone
<1>4. ASSUME NEW h \in Handler, Continue(h)
      PROVE  ~voucherIsRedeemable(voucher'[v])
  BY <1>1, <1>2, <1>3, <1>4
  DEF Continue, Redeem, ClaimLine, RefuseLine, CountPending, MarkVoucher,
    MarkRefunded, DeadlockVictim, Abort, history
<1> QED
  BY <1>3, <1>4
  DEF Next, BeginRedeem, BeginRefund, Crash, Abort, ChangeEventStatus, vars, history

(* The voucher is marked redeemed once nothing is pending                   *)
(* (staff.service.ts:220), unless two redemptions of that voucher           *)
(* overlapped; refunds and other vouchers may race as they like.            *)
THEOREM NothingPendingMeansRedeemed == Spec => []RedeemedWhenDone
<1>1. Init => RedeemedWhenDone
  BY QtyType DEF Init, RedeemedWhenDone, LinesOf
<1>2. OpenInv /\ RedeemedWhenDone /\ [Next]_vars => RedeemedWhenDone'
  BY DoneStep
<1> QED
  BY <1>1, <1>2, OpenCorrect, PTL DEF Spec

-----------------------------------------------------------------------------
(* The abstract voucher.                                                   *)

\* What a commit of a redemption does to the lines.
LEMMA LinesHanded ==
  ASSUME OpenInv, RaceInv', NEW h \in Handler, CommitRedeem(h)
  PROVE  /\ handler[h].voucher \in Voucher
         /\ redeemed' \in [Line -> Nat] /\ redeemed' # redeemed
         /\ \A l \in Line :
              /\ redeemed[l] <= redeemed'[l] /\ redeemed'[l] <= Qty[l]
              /\ OwnerOf[l] # handler[h].voucher => redeemed'[l] = redeemed[l]
<1> DEFINE v == handler[h].voucher
<1>1. /\ v \in Voucher
      /\ \A l \in Line : handler[h].claimed[l] > 0 => OwnerOf[l] = v
      /\ \E l \in Line : handler[h].claimed[l] > 0
  BY DEF CommitRedeem, OpenInv, Request, RedeemOwn, Redeeming
<1>2. ASSUME NEW l \in Line
      PROVE  /\ redeemed'[l] = redeemed[l] + handler[h].claimed[l]
             /\ handler[h].claimed[l] \in Nat /\ redeemed[l] \in Nat
             /\ Qty[l] \in Nat /\ redeemed'[l] <= Qty[l]
  <2>1. redeemed[l] + handler[h].claimed[l] <= Qty[l]
    BY DEF OpenInv, RaceInv, HandedWithinQty
  <2>2. redeemed'[l] = redeemed[l] + handler[h].claimed[l]
    BY DEF CommitRedeem
  <2> QED
    BY <2>1, <2>2, ClaimedType, QtyType DEF OpenInv, RaceInv
<1>3. redeemed' \in [Line -> Nat]
  BY DEF RaceInv, TypeOK, Units
<1>4. redeemed' # redeemed
  BY <1>1, <1>2
<1> QED
  BY <1>1, <1>2, <1>3, <1>4

LEMMA HandOverIsAtomic ==
  ASSUME OpenInv, RaceInv', NEW h \in Handler, CommitRedeem(h),
         handler[h].voucher \notin crossed \cup shared
  PROVE  Ledger!HandOver(handler[h].voucher)
<1> DEFINE v == handler[h].voucher
<1>1. /\ Refundable(v)
      /\ ~handler[h].full => \E l \in LinesOf(v) : ~HandedOver(h, l)
  BY DEF CommitRedeem, OpenInv, Request, RedeemFresh, Redeeming
<1>2. ASSUME NEW l \in Line
      PROVE  /\ redeemed'[l] = redeemed[l] + handler[h].claimed[l]
             /\ redeemed'[l] \in Nat /\ Qty[l] \in Nat /\ redeemed'[l] <= Qty[l]
  BY LinesHanded, QtyType DEF CommitRedeem
<1>3. handler[h].full <=> \A l \in Line : OwnerOf[l] = v => redeemed'[l] = Qty[l]
  <2>1. ASSUME handler[h].full, NEW l \in Line, OwnerOf[l] = v
        PROVE  redeemed'[l] = Qty[l]
    <3>1. redeemed[l] + handler[h].claimed[l] >= Qty[l]
      BY <2>1 DEF OpenInv, RaceInv, FullMeansHanded, LinesOf, HandedOver
    <3> QED
      BY <1>2, <3>1
  <2>2. ASSUME ~handler[h].full
        PROVE  \E l \in Line : OwnerOf[l] = v /\ redeemed'[l] # Qty[l]
    <3>1. PICK l \in LinesOf(v) : ~HandedOver(h, l)
      BY <1>1, <2>2
    <3>2. l \in Line /\ OwnerOf[l] = v /\ ~(redeemed'[l] >= Qty[l])
      BY <1>2, <3>1 DEF LinesOf, HandedOver
    <3> QED
      BY <1>2, <3>2
  <2> QED
    BY <2>1, <2>2
<1>4. order' = [order EXCEPT ![v] =
        IF \A l \in Line : OwnerOf[l] = v => redeemed'[l] = Qty[l]
        THEN "REDEEMED" ELSE "PARTIALLY_REDEEMED"]
  BY <1>3 DEF CommitRedeem
<1> QED
  BY <1>1, <1>4, LinesHanded DEF Ledger!HandOver, Ledger!Open, Refundable

LEMMA LedgerStep ==
  ASSUME OpenInv, RaceInv', [Next]_vars
  PROVE  [\/ Ledger!Next
          \/ \E v \in crossed \cup shared : Ledger!Stray(v)]_<<redeemed, order>>
<1> DEFINE Step == Ledger!Next \/ \E v \in crossed \cup shared : Ledger!Stray(v)
<1>1. ASSUME NEW h \in Handler, CommitRedeem(h) PROVE Step
  <2> DEFINE v == handler[h].voucher
  <2>1. CASE v \notin crossed \cup shared
    BY <1>1, <2>1, HandOverIsAtomic, LinesHanded DEF Ledger!Next
  <2>2. CASE v \in crossed \cup shared
    <3>1. \E to \in {"PARTIALLY_REDEEMED", "REDEEMED", "REFUNDED"} :
            order' = [order EXCEPT ![v] = to]
      BY <1>1 DEF CommitRedeem
    <3>2. Ledger!Stray(v)
      BY <1>1, <3>1, LinesHanded DEF Ledger!Stray
    <3> QED
      BY <2>2, <3>2
  <2> QED
    BY <2>1, <2>2
<1>2. ASSUME NEW h \in Handler, CommitRefund(h) PROVE Step
  <2> DEFINE v == handler[h].voucher
  <2>1. /\ v \in Voucher
        /\ v \notin crossed => Refundable(v)
        /\ redeemed' = redeemed /\ order' = [order EXCEPT ![v] = "REFUNDED"]
    BY <1>2 DEF CommitRefund, OpenInv, Request, RefundOwn, RefundFresh, Refunding
  <2>2. CASE v \notin crossed
    <3>1. Ledger!GiveBack(v)
      BY <2>1, <2>2 DEF Ledger!GiveBack, Ledger!Open, Refundable
    <3> QED
      BY <2>1, <3>1 DEF Ledger!Next
  <2>3. CASE v \in crossed
    <3>1. \A l \in Line : redeemed[l] \in Nat /\ redeemed[l] <= Qty[l]
      <4> SUFFICES ASSUME NEW l \in Line
                   PROVE  redeemed[l] \in Nat /\ redeemed[l] <= Qty[l]
        OBVIOUS
      <4>1. redeemed[l] + handler[h].claimed[l] <= Qty[l]
        BY DEF OpenInv, RaceInv, HandedWithinQty
      <4> QED
        BY <4>1, ClaimedType, QtyType DEF OpenInv, RaceInv
    <3>2. redeemed' \in [Line -> Nat]
      BY DEF RaceInv, TypeOK, Units
    <3>3. Ledger!Stray(v)
      BY <2>1, <3>1, <3>2 DEF Ledger!Stray
    <3> QED
      BY <2>3, <3>3
  <2> QED
    BY <2>2, <2>3
<1>3. ASSUME NEW h \in Handler, Continue(h)
      PROVE  CommitRedeem(h) \/ CommitRefund(h) \/ UNCHANGED <<redeemed, order>>
  BY <1>3 DEF Continue, Redeem, ClaimLine, RefuseLine, CountPending, MarkVoucher,
    MarkRefunded, DeadlockVictim, Abort
<1> QED
  BY <1>1, <1>2, <1>3
  DEF Next, BeginRedeem, BeginRefund, Crash, ChangeEventStatus, vars

(* Every redemption and every refund is one atomic step of VoucherLedger,   *)
(* or nothing if it fails or dies.  The vouchers that stray from it are     *)
(* among those of which two requests overlapped, and even there nothing     *)
(* beyond what was bought and nothing of another voucher is handed over.    *)
THEOREM RedemptionImplementsLedger == Spec => LedgerSpec
<1>1. Init => Ledger!Init
  BY DEF Init, Ledger!Init
<1>2. OpenInv /\ OpenInv' /\ [Next]_vars =>
        [\/ Ledger!Next
         \/ \E v \in crossed \cup shared : Ledger!Stray(v)]_<<redeemed, order>>
  BY LedgerStep DEF OpenInv
<1> QED
  BY <1>1, <1>2, OpenCorrect, PTL DEF Spec, LedgerSpec

=============================================================================
