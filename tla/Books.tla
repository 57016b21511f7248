------------------------------- MODULE Books -------------------------------
(***************************************************************************)
(* What the organiser reads: the live dashboard (AdminService.metrics) and *)
(* the exported reports (ReportsService), as operators on the orders, the  *)
(* refunds and the products.  A report is the set of its rows, which the   *)
(* columns an order or a line is known by keep apart.                      *)
(***************************************************************************)
EXTENDS Ranking

Taken == Counted
Settled == Counted \cup {"REFUNDED"}

Numbers(orders, statuses) == {n \in DOMAIN orders : orders[n].status \in statuses}
LinesOf(order) == DOMAIN order.items
lineTotal(item) == item.paid * item.qty
Sold(order, f(_)) == SumFunction([i \in LinesOf(order) |-> f(order.items[i])])

\* money.ts: the change owed at the till.
changeForCash(total, received) == received - total

-----------------------------------------------------------------------------
\* The money and units of the orders that stand, by line, method and product.
metrics(orders, products, methods) ==
  LET standing == Numbers(orders, Taken)
      line(n, f(_)) == Sold(orders[n], f)
      onSale == {p \in DOMAIN products : ~products[p].archived}
  IN  [revenueCents |-> SumFunction([n \in standing |-> line(n, lineTotal)]),
       unitsSold |-> SumFunction([n \in standing |-> line(n, LAMBDA i : i.qty)]),
       pendingOrders |-> Cardinality(Numbers(orders, {"PENDING"})),
       takings |-> [m \in methods |->
         SumFunction([n \in {n \in standing : orders[n].method = m} |-> orders[n].total])],
       products |-> [p \in onSale |->
         SumFunction([n \in standing |->
                        line(n, LAMBDA i : IF i.product = p THEN i.qty ELSE 0)])],
       lowStock |-> {p \in onSale : /\ products[p].stockInitial > 0
                                    /\ products[p].stock * 10 < products[p].stockInitial}]

-----------------------------------------------------------------------------
\* vendas: every line of every order, whatever became of it.
sales(orders) ==
  UNION {{[order |-> n, line |-> i, status |-> orders[n].status, who |-> orders[n].who,
           method |-> orders[n].method, product |-> orders[n].items[i].product,
           qty |-> orders[n].items[i].qty, paid |-> orders[n].items[i].paid,
           base |-> orders[n].items[i].base, total |-> lineTotal(orders[n].items[i])] :
          i \in LinesOf(orders[n])} : n \in DOMAIN orders}

\* Fault: the till report leaves out what was refunded.
till_Standing(orders) ==
  {[order |-> n, method |-> orders[n].method, status |-> orders[n].status,
    total |-> orders[n].total, received |-> orders[n].received,
    change |-> IF orders[n].received = 0 THEN 0
               ELSE changeForCash(orders[n].total, orders[n].received)] :
   n \in Numbers(orders, Taken)}

\* caixa: one row per order that was ever paid, refunded ones included.
till(orders) ==
  {[order |-> n, method |-> orders[n].method, status |-> orders[n].status,
    total |-> orders[n].total, received |-> orders[n].received,
    change |-> IF orders[n].received = 0 THEN 0
               ELSE changeForCash(orders[n].total, orders[n].received)] :
   n \in Numbers(orders, Settled)}

\* reembolsos: every refund with the order it gives back; refunds is a
\* sequence of [order, amount].
refundRows(orders, refunds) ==
  {[refund |-> r, order |-> refunds[r].order, amount |-> refunds[r].amount,
    total |-> orders[refunds[r].order].total] : r \in DOMAIN refunds}

=============================================================================
