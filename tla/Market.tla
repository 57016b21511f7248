------------------------------- MODULE Market -------------------------------
(***************************************************************************)
(* The market of one event: the worker's sweep that ticks it under a Redis *)
(* lock, the tick itself (tick.service.ts: five awaits between what it     *)
(* reads and what it writes), the sales it counts, and the organiser's     *)
(* requests that write the same rows (admin.service.ts).                   *)
(*                                                                         *)
(* The engine is what Pricing.tla says of it: any price inside the range   *)
(* it was handed.  `calm' is chosen once, and says what keeps quiet: with  *)
(* "lock" a lock outlives the tick that holds it, with "requests" none     *)
(* overlaps a tick, with "organiser" there are none, with "payments" no    *)
(* sale is made.                                                           *)
(***************************************************************************)
EXTENDS States, Integers, FiniteSets, FiniteSetsExt

CONSTANTS Products, NewProducts, Workers, Sales, None,
          Ranges,       \* the [min, base, max] an organiser may enter
          Opening,      \* the one the first products were created with
          TickSeconds,  \* the values of engineParams.tickSeconds
          MaxTick, MaxRequests, MaxFaults,   \* bounds
          Modes         \* the values `calm' may have

ASSUME RangesAssumption ==
  /\ Opening \in Ranges
  /\ \A g \in Ranges : /\ g.min \in Nat /\ g.base \in Nat /\ g.max \in Nat
                       /\ g.min <= g.base /\ g.base <= g.max
ASSUME BoundsAssumption == /\ None \notin Workers /\ None \notin Nat
                           /\ TickSeconds # {} /\ TickSeconds \subseteq Nat \ {0}
                           /\ Modes \subseteq SUBSET {"lock", "requests", "organiser", "payments"}

VARIABLES event,    \* the events row
          product,  \* the products rows
          engine,   \* the product_engine_state rows
          rows,     \* the price_ticks rows, with the sales each one counted
          sale,     \* payments with what they paid for
          lock,     \* lock:tick:<event> in Redis
          worker,   \* where each worker is in its tick, and what it read
          request,  \* the organiser's request in flight, and what it read
          clock, requests, faults, calm,
          stopped   \* history: the tick at which the market was last stopped

vars == <<event, product, engine, rows, sale, lock, worker, request, clock,
          requests, faults, calm, stopped>>
market == <<event, product, engine, rows, stopped>>

Idle == [step |-> "idle"]
NoRequest == [op |-> "none"]

Running == eventAllowsPriceTicks(event.status) /\ ~event.fixedPrices
Listed == {p \in Products : product[p].listed = "listed"}
Exists(p) == product[p].listed # "absent"
clip(price, r) == Max({r.min, Min({r.max, price})})

toEngineState(p) ==
  [min |-> product[p].min, max |-> product[p].max, inStock |-> product[p].inStock,
   price |-> engine[p].price, pin |-> engine[p].pin, until |-> engine[p].until]

validateProduct(q) == q.min <= q.price /\ q.price <= q.max

\* One price outside its range, as updateProduct may leave it, stops every tick.
Readable == \A p \in Listed : validateProduct(toEngineState(p))

Requested == "organiser" \notin calm /\ requests < MaxRequests

Fresh(g) == [price |-> g.base, pin |-> None, until |-> 0]

Init == /\ \E t \in TickSeconds :
             event = [status |-> "OPEN", fixedPrices |-> FALSE, currentTick |-> 0,
                      lastTickAt |-> 0, tickSeconds |-> t]
        /\ product = [p \in Products |->
                        [listed |-> IF p \in NewProducts THEN "absent" ELSE "listed",
                         min |-> Opening.min, base |-> Opening.base,
                         max |-> Opening.max, inStock |-> TRUE]]
        /\ engine = [p \in Products |-> Fresh(Opening)]
        /\ rows = {}
        /\ sale = [s \in Sales |-> [state |-> "none", product |-> None, at |-> 0]]
        /\ lock = None
        /\ worker = [w \in Workers |-> Idle]
        /\ request = NoRequest
        /\ clock = 1 /\ requests = 0 /\ faults = 0
        /\ calm \in Modes
        /\ stopped = 0

-----------------------------------------------------------------------------
(* The wall clock moves on when something already happened at this instant *)
(* (a tick that will not be skipped or thrown out, a payment), or when the *)
(* next tick is not due yet: nothing else can tell times apart.            *)
Stamped == \/ event.lastTickAt = clock
           \/ \E s \in Sales : sale[s].at = clock
           \/ Listed # {} /\ Readable /\ \E w \in Workers : worker[w] # Idle /\ worker[w].now = clock

Due == event.lastTickAt = 0 \/ clock - event.lastTickAt >= event.tickSeconds

TimePasses == /\ Stamped \/ ~Due
              /\ clock' = clock + 1
              /\ UNCHANGED <<market, sale, lock, worker, request, requests, faults, calm>>

\* settle writes receivedAt inside its transaction; others see it at the commit.
\* What was ordered earlier may be archived or sold out by now, and the bar closed.
StampPayment(s, p) ==
  /\ "payments" \notin calm /\ sale[s].state = "none" /\ Exists(p)
  /\ sale' = [sale EXCEPT ![s] = [state |-> "stamped", product |-> p, at |-> clock]]
  /\ UNCHANGED <<market, lock, worker, request, clock, requests, faults, calm>>

CommitPayment(s) ==
  /\ sale[s].state = "stamped"
  /\ sale' = [sale EXCEPT ![s].state = "paid"]
  /\ UNCHANGED <<market, lock, worker, request, clock, requests, faults, calm>>

\* The last unit is sold, or the organiser corrects the stock.
StockRunsOutOrIn(p) ==
  /\ Exists(p) /\ Requested
  /\ product' = [product EXCEPT ![p].inStock = ~@]
  /\ requests' = requests + 1
  /\ UNCHANGED <<event, engine, rows, stopped, sale, lock, worker, request, clock,
                 faults, calm>>

-----------------------------------------------------------------------------
(* The worker.                                                             *)

Sweep(w) ==
  /\ worker[w] = Idle /\ event.currentTick < MaxTick
  /\ Running /\ Due
  /\ "requests" \in calm => request = NoRequest
  /\ worker' = [worker EXCEPT ![w] = [step |-> "due", now |-> 0]]
  /\ UNCHANGED <<market, sale, lock, request, clock, requests, faults, calm>>

\* SET NX; runFor is called with now = new Date() before it reads anything.
AcquireLock(w) ==
  /\ worker[w].step = "due"
  /\ IF lock = None
       THEN /\ lock' = w
            /\ worker' = [worker EXCEPT ![w] = [step |-> "called", now |-> clock]]
       ELSE /\ worker' = [worker EXCEPT ![w] = Idle]
            /\ UNCHANGED lock
  /\ UNCHANGED <<market, sale, request, clock, requests, faults, calm>>

Skip(w) == worker' = [worker EXCEPT ![w] = [step |-> "release", now |-> 0]]

\* Fault: trusts what the sweep saw of the event.
ReadEvent_AnyState(w) ==
  /\ worker[w].step = "called"
  /\ worker' = [worker EXCEPT ![w] =
       [step |-> "event", now |-> @.now, tick |-> event.currentTick + 1,
        since |-> event.lastTickAt]]
  /\ UNCHANGED <<market, sale, lock, request, clock, requests, faults, calm>>

ReadEvent(w) ==
  /\ worker[w].step = "called"
  /\ IF ~Running
       THEN Skip(w)
       ELSE worker' = [worker EXCEPT ![w] =
              [step |-> "event", now |-> @.now, tick |-> event.currentTick + 1,
               since |-> event.lastTickAt]]
  /\ UNCHANGED <<market, sale, lock, request, clock, requests, faults, calm>>

ReadProducts(w) ==
  /\ worker[w].step = "event"
  /\ IF Listed = {}
       THEN Skip(w)
       ELSE worker' = [worker EXCEPT ![w] =
              [step |-> "products", now |-> @.now, tick |-> @.tick, since |-> @.since,
               read |-> [p \in Listed |-> toEngineState(p)]]]
  /\ UNCHANGED <<market, sale, lock, request, clock, requests, faults, calm>>

\* Fault: counts the sales of the last tick's own instant again.
paidUnitsSince_Inclusive(since, now) ==
  {s \in Sales : sale[s].state = "paid" /\ since <= sale[s].at /\ sale[s].at <= now}

paidUnitsSince(since, now) ==
  {s \in Sales : sale[s].state = "paid" /\ since < sale[s].at /\ sale[s].at <= now}

\* One price outside its range and runTick throws: nothing is written.
ReadSales(w) ==
  /\ worker[w].step = "products"
  /\ LET read == worker[w].read IN
     IF \A p \in DOMAIN read : validateProduct(read[p])
       THEN worker' = [worker EXCEPT ![w] =
              [step |-> "persist", now |-> @.now, tick |-> @.tick, read |-> read,
               units |-> paidUnitsSince(@.since, @.now)]]
       ELSE Skip(w)
  /\ UNCHANGED <<market, sale, lock, request, clock, requests, faults, calm>>

\* What runTick may answer for a product: sold out keeps everything, pinned
\* keeps its pin, the others go anywhere in their range and lose an old pin.
\* Prices count rounding steps, so every price of a range can be reached.
Answers(q, tick) ==
  IF ~q.inStock THEN {[price |-> q.price, pin |-> q.pin, until |-> q.until]}
  ELSE IF q.pin # None /\ tick <= q.until
  THEN {[price |-> clip(q.pin, q), pin |-> q.pin, until |-> q.until]}
  ELSE {[price |-> c, pin |-> None, until |-> 0] : c \in q.min .. q.max}

\* Fault: trusts the lock, and neither the tick number nor the index.
CanPersist_Loose(w) == event.currentTick <= worker[w].tick

\* The transaction: unique (event, tick, product), and the event's own tick.
CanPersist(w) ==
  /\ event.currentTick = worker[w].tick - 1
  /\ ~\E r \in rows : r.tick = worker[w].tick /\ r.product \in DOMAIN worker[w].read

Persist(w) ==
  /\ worker[w].step = "persist"
  /\ CanPersist(w)
  /\ LET tick == worker[w].tick  read == worker[w].read  now == worker[w].now IN
     \E out \in [DOMAIN read -> UNION {Answers(read[p], tick) : p \in DOMAIN read}] :
       /\ \A p \in DOMAIN read : out[p] \in Answers(read[p], tick)
       /\ engine' = [p \in Products |-> IF p \in DOMAIN read THEN out[p] ELSE engine[p]]
       /\ rows' = rows \cup {[tick |-> tick, product |-> p, at |-> now, by |-> w,
                              sales |-> {s \in worker[w].units : sale[s].product = p}] :
                             p \in DOMAIN read}
       /\ event' = [event EXCEPT !.currentTick = tick, !.lastTickAt = now]
  /\ Skip(w)
  /\ UNCHANGED <<product, stopped, sale, lock, request, clock, requests, faults, calm>>

PersistFails(w) ==
  /\ worker[w].step = "persist"
  /\ IF CanPersist(w) THEN faults < MaxFaults /\ faults' = faults + 1
                      ELSE UNCHANGED faults
  /\ Skip(w)
  /\ UNCHANGED <<market, sale, lock, request, clock, requests, calm>>

\* finally: get the lock, and only then delete it.
CheckLock(w) ==
  /\ worker[w].step = "release"
  /\ worker' = [worker EXCEPT ![w] = IF lock = w THEN [step |-> "delete", now |-> 0]
                                                 ELSE Idle]
  /\ UNCHANGED <<market, sale, lock, request, clock, requests, faults, calm>>

DeleteLock(w) ==
  /\ worker[w].step = "delete"
  /\ lock' = None
  /\ worker' = [worker EXCEPT ![w] = Idle]
  /\ UNCHANGED <<market, sale, request, clock, requests, faults, calm>>

Crash(w) ==
  /\ worker[w] # Idle /\ faults < MaxFaults
  /\ faults' = faults + 1
  /\ worker' = [worker EXCEPT ![w] = Idle]
  /\ UNCHANGED <<market, sale, lock, request, clock, requests, calm>>

\* A holder is a worker between its SET and its DEL.
Holding(w) == worker[w].step \notin {"idle", "due"}

\* Fault: the lock is set without PX.
LockExpires_NoTtl == FALSE /\ UNCHANGED vars

LockExpires ==
  /\ lock # None
  /\ IF Holding(lock) THEN "lock" \notin calm /\ faults < MaxFaults /\ faults' = faults + 1
                      ELSE UNCHANGED faults
  /\ lock' = None
  /\ UNCHANGED <<market, sale, worker, request, clock, requests, calm>>

-----------------------------------------------------------------------------
(* The organiser: each request reads, checks, and writes later.            *)

Begin(r) ==
  /\ request = NoRequest /\ Requested
  /\ "requests" \in calm => \A w \in Workers : worker[w] = Idle
  /\ requests' = requests + 1
  /\ request' = r
  /\ UNCHANGED <<market, sale, lock, worker, clock, faults, calm>>

BeginChangeState == \E to \in EventStatuses :
  /\ canTransitionEvent(event.status, to)
  /\ Begin([op |-> "status", to |-> to])

BeginFixedPrices == \E b \in BOOLEAN : Begin([op |-> "fixed", to |-> b])

BeginEngineParams == \E t \in TickSeconds : Begin([op |-> "params", to |-> t])

BeginOverride == \E p \in Products : \E price \in product[p].min .. product[p].max :
  /\ Exists(p)
  /\ \E ticks \in 1 .. MaxTick :
       Begin([op |-> "override", product |-> p, pin |-> price,
              until |-> event.currentTick + ticks])

\* The three prices are written back together, the ones not sent as they were read.
BeginUpdateProduct == \E p \in Products, g \in Ranges, sent \in SUBSET {"min", "base", "max"} :
  LET next == [k \in {"min", "base", "max"} |-> IF k \in sent THEN g[k] ELSE product[p][k]] IN
  /\ Exists(p)
  /\ next.min <= next.base /\ next.base <= next.max
  /\ Begin([op |-> "range", product |-> p, to |-> next])

BeginArchive == \E p \in Products :
  Exists(p) /\ Begin([op |-> "archive", product |-> p])

Answer == request' = NoRequest
          /\ UNCHANGED <<rows, sale, lock, worker, clock, requests, faults, calm>>

Stop == stopped' = IF Running THEN event.currentTick ELSE stopped

ChangeStatus ==
  /\ request.op = "status"
  /\ event' = [event EXCEPT !.status = request.to]
  /\ Stop
  /\ Answer /\ UNCHANGED <<product, engine>>

\* FIXED_PRICES is one transaction: the switch, and every price back to its base.
FixPrices ==
  /\ request.op = "fixed"
  /\ event' = [event EXCEPT !.fixedPrices = request.to]
  /\ Stop
  /\ engine' = IF request.to
                 THEN [p \in Products |-> IF Exists(p) THEN Fresh(product[p]) ELSE engine[p]]
                 ELSE engine
  /\ Answer /\ UNCHANGED product

UpdateEngineParams ==
  /\ request.op = "params"
  /\ event' = [event EXCEPT !.tickSeconds = request.to]
  /\ Answer /\ UNCHANGED <<stopped, product, engine>>

OverridePrice ==
  /\ request.op = "override"
  /\ engine' = [engine EXCEPT ![request.product].pin = request.pin,
                              ![request.product].until = request.until]
  /\ Answer /\ UNCHANGED <<stopped, event, product>>

UpdateProduct ==
  /\ request.op = "range"
  /\ product' = [product EXCEPT ![request.product].min = request.to.min,
                                ![request.product].base = request.to.base,
                                ![request.product].max = request.to.max]
  /\ Answer /\ UNCHANGED <<stopped, event, engine>>

ArchiveProduct ==
  /\ request.op = "archive"
  /\ product' = [product EXCEPT ![request.product].listed = "archived"]
  /\ Answer /\ UNCHANGED <<stopped, event, engine>>

CreateProduct == \E p \in Products, g \in Ranges :
  /\ ~Exists(p) /\ Requested
  /\ product' = [product EXCEPT ![p] = [listed |-> "listed", min |-> g.min,
                                        base |-> g.base, max |-> g.max, inStock |-> TRUE]]
  /\ engine' = [engine EXCEPT ![p] = Fresh(g)]
  /\ requests' = requests + 1
  /\ UNCHANGED <<event, rows, stopped, sale, lock, worker, request, clock, faults, calm>>

-----------------------------------------------------------------------------
Tick(w) == \/ Sweep(w) \/ AcquireLock(w) \/ ReadEvent(w) \/ ReadProducts(w)
           \/ ReadSales(w) \/ Persist(w) \/ PersistFails(w) \/ CheckLock(w)
           \/ DeleteLock(w)

Organiser == \/ ChangeStatus \/ FixPrices \/ UpdateEngineParams \/ OverridePrice
             \/ UpdateProduct \/ ArchiveProduct

Next == \/ \E w \in Workers : Tick(w) \/ Crash(w)
        \/ Organiser \/ CreateProduct
        \/ BeginChangeState \/ BeginFixedPrices \/ BeginEngineParams
        \/ BeginOverride \/ BeginUpdateProduct \/ BeginArchive
        \/ LockExpires \/ TimePasses
        \/ \E s \in Sales : CommitPayment(s) \/ \E p \in Products : StampPayment(s, p)
        \/ \E p \in Products : StockRunsOutOrIn(p)

Fairness == /\ \A w \in Workers : WF_vars(Tick(w))
            /\ WF_vars(LockExpires) /\ WF_vars(TimePasses) /\ WF_vars(Organiser)

Spec == Init /\ [][Next]_vars /\ Fairness

-----------------------------------------------------------------------------
\* "If two workers ever race past the Redis lock" (tick.service.ts): each tick
\* is still written once, by one of them, and none is missing.
OneWriterPerTick ==
  /\ {r.tick : r \in rows} = 1 .. event.currentTick
  /\ \A r, s \in rows : r.tick = s.tick => r.by = s.by /\ r.at = s.at

\* paidUnitsSince: as long as a lock outlives its tick, no sale moves the
\* prices twice, whatever fails in between.
CountedOnce ==
  "lock" \in calm =>
    \A r, s \in rows : r.sales \cap s.sales # {} => r = s

\* A pause, a close or the emergency switch is overtaken by at most one tick
\* already begun, however many workers are at it, and by none when the
\* organiser's request came alone.
StoppedMeansStopped ==
  ~Running => event.currentTick <= stopped + IF "requests" \in calm THEN 0 ELSE 1

\* "a worker that dies mid-tick does not freeze the market" (scheduler): a
\* running market with something to sell reaches its next tick, unless a range
\* was moved away from under a price.
TheMarketMoves ==
  \A n \in 0 .. MaxTick - 1 :
    (event.currentTick = n)
      ~> (event.currentTick > n \/ ~Running \/ Listed = {} \/ ~Readable)

=============================================================================
