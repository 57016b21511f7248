------------------------------ MODULE Pricing ------------------------------
(***************************************************************************)
(* packages/pricing-engine and the money it rounds with, as operators.     *)
(* A product is a record with the fields of ProductState; pin = 0 is "no   *)
(* manual override", share = 0 "no expected share".  Floats are integers:  *)
(* raw prices in tenths of a cent, ratios and parameters in thousandths,   *)
(* each rounded to the nearest, and demand in hundredths of a unit,        *)
(* rounded down: what decays to nothing is idle, as under DEMAND_EPSILON.  *)
(***************************************************************************)
EXTENDS Integers, FiniteSets, FiniteSetsExt, Functions

One == 1000                                   \* a ratio of one
Fine == 10                                    \* raw prices per cent

abs(n) == IF n < 0 THEN -n ELSE n
round(a, b) == (2 * a + b) \div (2 * b)       \* Math.round(a / b), for b > 0
clip(v, min, max) == Max({min, Min({v, max})})
times(v, ratio) == round(v * ratio, One)

-----------------------------------------------------------------------------
(* money.ts.  A value is v / Fine cents, a bound and a step are cents.     *)

\* To the nearest multiple of step, halves away from zero.
roundToStep(v, step) ==
  (IF v < 0 THEN -1 ELSE 1) * round(abs(v), step * Fine) * step

nearestBound(v, min, max) == IF v - min * Fine <= max * Fine - v THEN min ELSE max

roundIntoRange(v, min, max, step) ==
  LET clamped == clip(v, min * Fine, max * Fine)
      rounded == roundToStep(clamped, step)
      down == (max \div step) * step
      up == -((-min) \div step) * step
  IN  CASE rounded > max -> IF down >= min THEN down ELSE nearestBound(clamped, min, max)
        [] rounded < min -> IF up <= max THEN up ELSE nearestBound(clamped, min, max)
        [] OTHER -> rounded

-----------------------------------------------------------------------------
(* validate.ts: what makes runTick throw, and what only warns.             *)

validProduct(q) == /\ q.base > 0 /\ q.min <= q.base /\ q.base <= q.max
                   /\ q.min <= q.price /\ q.price <= q.max
                   /\ q.demand >= 0 /\ q.share >= 0 /\ q.stock >= 0

\* schemas/engine.ts: what an organiser can set.
engineParamsSchema(c) ==
  /\ {c.ewmaLambda, c.demandSensitivity, c.meanReversion, c.stockPressure,
      c.lowStockThreshold} \subseteq 0 .. One
  /\ c.maxStepPct \in 0 .. One \div 2
  /\ c.roundingCents \in 1 .. 100
  /\ c.renormalize \in BOOLEAN

validParams(c) == /\ c.roundingCents > 0
                  /\ {c.maxStepPct, c.ewmaLambda, c.lowStockThreshold} \subseteq 0 .. One

Active(products) == {p \in DOMAIN products : products[p].stock > 0}
GroupOf(products, p) == {o \in Active(products) : products[o].group = products[p].group}

\* Groups whose configuration is legal and will surprise the organiser.
engineWarnings(products, c) ==
  {products[p].group : p \in {o \in Active(products) :
     \/ c.renormalize /\ Cardinality(GroupOf(products, o)) < 2
     \/ \A other \in GroupOf(products, o) : products[other].min = products[other].max}}

-----------------------------------------------------------------------------
(* engine.ts.  G is the set of the active products of one group.           *)

overrideAppliesAt(q, tick) == q.pin # 0 /\ tick <= q.until

\* Fault: the tick starts from the rounded price.
previousRawPrice_Rounded(q) == clip(q.price * Fine, q.min * Fine, q.max * Fine)

previousRawPrice(q) == clip(q.raw, q.min * Fine, q.max * Fine)

newDemand(q, units, c) ==
  (c.ewmaLambda * units * 100 + (One - c.ewmaLambda) * q.demand) \div One

expectedShare(products, G, p) ==
  LET raw == [o \in G |-> IF products[o].share > 0 THEN products[o].share
                                                   ELSE One \div Cardinality(G)]
      total == SumFunction(raw)
  IN  IF total > 0 THEN round(raw[p] * One, total) ELSE 0

\* x, r and k of one product, and the step they ask for.
signals(products, G, demand, p, c) ==
  LET q == products[p]
      total == SumFunction(demand)
      expected == expectedShare(products, G, p)
      observed == IF total = 0 THEN expected ELSE round(demand[p] * One, total)
      stockRatio == IF q.stockInitial > 0 THEN (q.stock * One) \div q.stockInitial ELSE 0
  IN  [x |-> IF expected > 0
               THEN clip(round((observed - expected) * One, expected), -One, One) ELSE 0,
       r |-> round((previousRawPrice(q) - q.base * Fine) * One, q.base * Fine),
       k |-> IF c.lowStockThreshold > 0
               THEN round(Max({0, c.lowStockThreshold - stockRatio}) * One,
                          c.lowStockThreshold) ELSE 0]

delta(s, c) ==
  clip(round(c.demandSensitivity * s.x - c.meanReversion * s.r + c.stockPressure * s.k, One),
       -c.maxStepPct, c.maxStepPct)

\* The weighted sum of prices of the free products, and what brings it back
\* to that of their base prices.
weighted(free, demand, price) == SumFunction([p \in free |-> (demand[p] + 10) * price[p]])

correction(products, free, demand, cand) ==
  round(weighted(free, demand, [p \in free |-> products[p].base * Fine]) * One,
        weighted(free, demand, cand))

\* Each corrected price is clipped; a factor of nearly one is the last, and
\* prices that add up to nothing get none.
corrected(products, free, demand, s) ==
  IF s.done \/ weighted(free, demand, s.cand) <= 0 THEN s
  ELSE LET c == correction(products, free, demand, s.cand) IN
       [cand |-> [p \in free |-> clip(times(s.cand[p], c), products[p].min * Fine,
                                                          products[p].max * Fine)],
        done |-> c = One]

\* At most five corrections.
renormalizeGroup(products, free, demand, cand) ==
  LET next(s) == corrected(products, free, demand, s)
  IN  next(next(next(next(next([cand |-> cand, done |-> FALSE]))))).cand

\* Fault: what renormalisation made of a candidate is not capped again.
Capped_Once(q, candidate, c) == clip(candidate, q.min * Fine, q.max * Fine)

\* A renormalised candidate still obeys the cap of one tick and the range.
Capped(q, candidate, c) ==
  LET previous == previousRawPrice(q) IN
  clip(clip(candidate, times(previous, One - c.maxStepPct), times(previous, One + c.maxStepPct)),
       q.min * Fine, q.max * Fine)

runGroup(products, G, tick, c, units) ==
  LET demand == [p \in G |-> newDemand(products[p], units[p], c)]
      free == {p \in G : ~overrideAppliesAt(products[p], tick)}
      moved == [p \in free |->
                  LET previous == previousRawPrice(products[p])
                      step == delta(signals(products, G, demand, p, c), c)
                  IN  previous + times(previous, step)]
      candidate == IF c.renormalize /\ free # {}
                     THEN renormalizeGroup(products, free, demand, moved) ELSE moved
      raw == [p \in G |-> IF p \in free THEN Capped(products[p], candidate[p], c)
                          ELSE clip(products[p].pin * Fine, products[p].min * Fine,
                                    products[p].max * Fine)]
  IN  [p \in G |->
         [products[p] EXCEPT
            !.price = roundIntoRange(raw[p], products[p].min, products[p].max, c.roundingCents),
            !.raw = raw[p], !.demand = demand[p],
            !.pin = IF p \in free THEN 0 ELSE @]]

\* A sold-out product leaves the calculation and keeps everything it has.
runTick(products, tick, c, units) ==
  [p \in DOMAIN products |->
     IF products[p].stock = 0 THEN products[p]
     ELSE runGroup(products, GroupOf(products, p), tick, c, units)[p]]

=============================================================================
