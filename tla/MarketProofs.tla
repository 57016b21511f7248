---------------------------- MODULE MarketProofs ----------------------------
(***************************************************************************)
(* What the market keeps however many workers tick it, whatever lock runs  *)
(* out and whoever dies; and what it owes to a lock that outlives its      *)
(* tick, or to an organiser whose requests come alone.                     *)
(***************************************************************************)
EXTENDS Market, TLAPS

(* A worker between reading the event and writing its tick.                 *)
Ticking(w) == worker[w].step \in {"event", "products", "persist"}

TypeOK ==
  /\ event \in [status : EventStatuses, fixedPrices : BOOLEAN, currentTick : Nat,
                lastTickAt : Nat, tickSeconds : TickSeconds]
  /\ sale \in [Sales -> [state : {"none", "stamped", "paid"}, product : Products \cup {None},
                         at : Nat]]
  /\ worker = [w \in Workers |-> worker[w]]
  /\ \A w \in Workers : Ticking(w) => worker[w].tick \in Nat
  /\ \A w \in Workers : worker[w].step \in {"products", "persist"} => DOMAIN worker[w].read # {}
  /\ \A w \in Workers : Ticking(w) \/ worker[w].step = "called" => worker[w].now \in Nat
  /\ request.op = "status" => request.to \in EventStatuses
  /\ request.op = "fixed" => request.to \in BOOLEAN
  /\ request.op = "params" => request.to \in TickSeconds
  /\ clock \in Nat /\ stopped \in Nat

(* A tick under way is the next one, and past a stop at most one.           *)
TicksAreNext ==
  \A w \in Workers : Ticking(w) =>
    /\ worker[w].tick <= event.currentTick + 1
    /\ ~Running => worker[w].tick <= stopped + 1

(* Where requests come alone, nobody ticks a market that was stopped.       *)
RequestsAlone ==
  "requests" \in calm /\ (request # NoRequest \/ ~Running) => \A w \in Workers : worker[w] = Idle

TickInv ==
  /\ TypeOK
  /\ OneWriterPerTick
  /\ StoppedMeansStopped
  /\ TicksAreNext
  /\ RequestsAlone

-----------------------------------------------------------------------------
LEMMA TickInit == Init => TickInv
<1> SUFFICES ASSUME Init PROVE TickInv
  OBVIOUS
<1>1. PICK t \in TickSeconds :
        event = [status |-> "OPEN", fixedPrices |-> FALSE, currentTick |-> 0,
                 lastTickAt |-> 0, tickSeconds |-> t]
  BY DEF Init
<1>2. Running /\ \A w \in Workers : worker[w] = Idle /\ ~Ticking(w) /\ Idle.step = "idle"
  BY <1>1 DEF Init, Running, eventAllowsPriceTicks, Ticking, Idle
<1>3. TypeOK
  BY <1>1, <1>2 DEF Init, TypeOK, EventStatuses, NoRequest, Idle, Ticking
<1>4. OneWriterPerTick
  BY <1>1 DEF Init, OneWriterPerTick
<1> QED
  BY <1>2, <1>3, <1>4 DEF Init, TickInv, StoppedMeansStopped, TicksAreNext, RequestsAlone

(* A step of one worker that writes nothing to the database.                *)
LEMMA WorkerMoves ==
  ASSUME TickInv, NEW w \in Workers, NEW r,
         worker' = [worker EXCEPT ![w] = r],
         UNCHANGED <<event, rows, stopped, sale, request, clock, calm>>,
         r.step \in {"event", "products", "persist"} =>
           /\ r.tick \in Nat /\ r.tick <= event.currentTick + 1
           /\ ~Running => r.tick <= stopped + 1,
         r.step \in {"products", "persist"} => DOMAIN r.read # {},
         r.step \in {"event", "products", "persist", "called"} => r.now \in Nat,
         "requests" \in calm /\ (request # NoRequest \/ ~Running) => r = Idle
  PROVE  TickInv'
<1>1. /\ worker'[w] = r /\ worker' = [v \in Workers |-> worker'[v]]
      /\ \A v \in Workers \ {w} : worker'[v] = worker[v]
  BY DEF TickInv, TypeOK
<1>2. Running' = Running
  BY DEF Running
<1>3. TypeOK'
  BY <1>1 DEF TickInv, TypeOK, Ticking
<1>4. TicksAreNext'
  BY <1>1, <1>2 DEF TickInv, TicksAreNext, Ticking
<1>5. RequestsAlone'
  BY <1>1, <1>2 DEF TickInv, RequestsAlone
<1> QED
  BY <1>2, <1>3, <1>4, <1>5 DEF TickInv, OneWriterPerTick, StoppedMeansStopped

(* A step of the organiser, a buyer or the clock that leaves the event.     *)
LEMMA OthersMove ==
  ASSUME TickInv,
         UNCHANGED <<event, rows, stopped, worker, calm>>,
         sale' \in [Sales -> [state : {"none", "stamped", "paid"},
                              product : Products \cup {None}, at : Nat]],
         clock' \in Nat,
         request'.op = "status" => request'.to \in EventStatuses,
         request'.op = "fixed" => request'.to \in BOOLEAN,
         request'.op = "params" => request'.to \in TickSeconds,
         \/ request' \in {request, NoRequest}
         \/ "requests" \in calm => \A w \in Workers : worker[w] = Idle
  PROVE  TickInv'
<1>1. Running' = Running
  BY DEF Running
<1>2. TypeOK' /\ TicksAreNext'
  BY <1>1 DEF TickInv, TypeOK, TicksAreNext, Ticking
<1>3. RequestsAlone'
  BY <1>1 DEF TickInv, RequestsAlone
<1> QED
  BY <1>1, <1>2, <1>3 DEF TickInv, OneWriterPerTick, StoppedMeansStopped

(* The organiser writes the event: the ticks stay where they are.           *)
LEMMA EventWritten ==
  ASSUME TickInv, NEW e,
         e \in [status : EventStatuses, fixedPrices : BOOLEAN, currentTick : Nat,
                lastTickAt : Nat, tickSeconds : TickSeconds],
         event' = e, e.currentTick = event.currentTick,
         Stop \/ (stopped' = stopped /\ Running' = Running),
         request # NoRequest, Answer
  PROVE  TickInv'
<1>1. UNCHANGED <<rows, sale, worker, clock, calm>> /\ request' = NoRequest
  BY DEF Answer
<1>3. TypeOK'
  BY <1>1 DEF TickInv, TypeOK, Stop, Ticking, NoRequest
<1>4. OneWriterPerTick'
  BY <1>1 DEF TickInv, OneWriterPerTick
<1>5. StoppedMeansStopped' /\ TicksAreNext'
  <2>1. CASE stopped' = stopped /\ (Running' = Running \/ ~Running)
    BY <1>1, <2>1 DEF TickInv, TypeOK, StoppedMeansStopped, TicksAreNext, Ticking
  <2>2. CASE Running /\ stopped' = event.currentTick
    BY <1>1, <2>2 DEF TickInv, TypeOK, StoppedMeansStopped, TicksAreNext, Ticking
  <2> QED
    BY <2>1, <2>2 DEF Stop
<1>6. RequestsAlone'
  BY <1>1 DEF TickInv, RequestsAlone
<1> QED
  BY <1>3, <1>4, <1>5, <1>6 DEF TickInv

LEMMA TickStep ==
  ASSUME TickInv, [Next]_vars
  PROVE  TickInv'
<1> USE DEF TickInv
<1>1. ASSUME NEW w \in Workers, Sweep(w) PROVE TickInv'
  BY <1>1, WorkerMoves, [step |-> "due", now |-> 0].step = "due" DEF Sweep, market
<1>2. ASSUME NEW w \in Workers, AcquireLock(w) PROVE TickInv'
  <2>1. "requests" \in calm => ~(request # NoRequest \/ ~Running)
    BY <1>2 DEF AcquireLock, RequestsAlone, Idle
  <2>2. CASE lock = None
    <3> DEFINE r == [step |-> "called", now |-> clock]
    <3>1. r.step = "called" /\ r.now \in Nat
      BY DEF TypeOK
    <3> QED
      BY <1>2, <2>1, <2>2, <3>1, WorkerMoves DEF AcquireLock, market
  <2>3. CASE lock # None
    BY <1>2, <2>3, WorkerMoves, Idle.step = "idle" DEF AcquireLock, market, Idle
  <2> QED
    BY <2>2, <2>3
<1>3. ASSUME NEW w \in Workers, NEW step \in {"called", "event", "products", "persist"},
             worker[w].step = step, Skip(w),
             UNCHANGED <<event, rows, stopped, sale, request, clock, calm>>
      PROVE  TickInv'
  <2> DEFINE r == [step |-> "release", now |-> 0]
  <2>1. r.step = "release"
    OBVIOUS
  <2>2. "requests" \in calm => ~(request # NoRequest \/ ~Running)
    BY <1>3 DEF RequestsAlone, Idle
  <2> QED
    BY <1>3, <2>1, <2>2, WorkerMoves DEF Skip
<1>4. ASSUME NEW w \in Workers, ReadEvent(w) PROVE TickInv'
  <2>1. CASE ~Running
    BY <1>3, <1>4, <2>1 DEF ReadEvent, market
  <2>2. CASE Running
    <3> DEFINE r == [step |-> "event", now |-> worker[w].now, tick |-> event.currentTick + 1,
                     since |-> event.lastTickAt]
    <3>1. worker' = [worker EXCEPT ![w] = r]
      BY <1>4, <2>2 DEF ReadEvent
    <3>2. /\ r.step = "event" /\ r.tick \in Nat /\ r.tick <= event.currentTick + 1
          /\ r.now \in Nat
      BY <1>4 DEF ReadEvent, TypeOK
    <3>3. "requests" \in calm => request = NoRequest
      BY <1>4 DEF ReadEvent, RequestsAlone, Idle
    <3> HIDE DEF r
    <3> QED
      BY <1>4, <2>2, <3>1, <3>2, <3>3, WorkerMoves DEF ReadEvent, market
  <2> QED
    BY <2>1, <2>2
<1>5. ASSUME NEW w \in Workers, ReadProducts(w) PROVE TickInv'
  <2>1. CASE Listed = {}
    BY <1>3, <1>5, <2>1 DEF ReadProducts, market
  <2>2. CASE Listed # {}
    <3> DEFINE r == [step |-> "products", now |-> worker[w].now, tick |-> worker[w].tick,
                     since |-> worker[w].since, read |-> [p \in Listed |-> toEngineState(p)]]
    <3>1. worker' = [worker EXCEPT ![w] = r]
      BY <1>5, <2>2 DEF ReadProducts
    <3>2. /\ r.step = "products" /\ DOMAIN r.read # {} /\ r.now \in Nat
          /\ r.tick \in Nat /\ r.tick <= event.currentTick + 1 /\ (~Running => r.tick <= stopped + 1)
      BY <1>5, <2>2 DEF ReadProducts, TypeOK, TicksAreNext, Ticking
    <3>3. "requests" \in calm => ~(request # NoRequest \/ ~Running)
      BY <1>5 DEF ReadProducts, RequestsAlone, Idle
    <3> HIDE DEF r
    <3> QED
      BY <1>5, <3>1, <3>2, <3>3, WorkerMoves DEF ReadProducts, market
  <2> QED
    BY <2>1, <2>2
<1>6. ASSUME NEW w \in Workers, ReadSales(w) PROVE TickInv'
  <2> DEFINE r == [step |-> "persist", now |-> worker[w].now, tick |-> worker[w].tick,
                   read |-> worker[w].read,
                   units |-> paidUnitsSince(worker[w].since, worker[w].now)]
  <2>1. CASE worker' = [worker EXCEPT ![w] = r]
    <3>1. /\ r.step = "persist" /\ DOMAIN r.read # {} /\ r.now \in Nat
          /\ r.tick \in Nat /\ r.tick <= event.currentTick + 1 /\ (~Running => r.tick <= stopped + 1)
      BY <1>6 DEF ReadSales, TypeOK, TicksAreNext, Ticking
    <3>2. "requests" \in calm => ~(request # NoRequest \/ ~Running)
      BY <1>6 DEF ReadSales, RequestsAlone, Idle
    <3> HIDE DEF r
    <3> QED
      BY <1>6, <2>1, <3>1, <3>2, WorkerMoves DEF ReadSales, market
  <2>2. CASE Skip(w)
    BY <1>3, <1>6, <2>2 DEF ReadSales, market
  <2> QED
    BY <1>6, <2>1, <2>2 DEF ReadSales
<1>7. ASSUME NEW w \in Workers, Persist(w) PROVE TickInv'
  <2> DEFINE tick == worker[w].tick  read == worker[w].read  now == worker[w].now
  <2>1. /\ tick \in Nat /\ now \in Nat /\ DOMAIN read # {} /\ tick = event.currentTick + 1
        /\ worker' = [worker EXCEPT ![w] = [step |-> "release", now |-> 0]]
        /\ event' = [event EXCEPT !.currentTick = tick, !.lastTickAt = now]
        /\ UNCHANGED <<product, stopped, sale, lock, request, clock, requests, faults, calm>>
    BY <1>7 DEF Persist, CanPersist, Skip, TypeOK, Ticking
  <2>2. PICK new : /\ rows' = rows \cup new
                   /\ \E r \in new : r.tick = tick
                   /\ \A r \in new : r.tick = tick /\ r.at = now /\ r.by = w
    <3>1. PICK p \in DOMAIN read : TRUE
      BY <2>1
    <3> DEFINE row(q) == [tick |-> tick, product |-> q, at |-> now, by |-> w,
                          sales |-> {s \in worker[w].units : sale[s].product = q}]
               N == {row(q) : q \in DOMAIN read}
    <3>2. rows' = rows \cup N
      BY <1>7 DEF Persist
    <3>3. \A q \in DOMAIN read : row(q).tick = tick /\ row(q).at = now /\ row(q).by = w
      OBVIOUS
    <3>4. /\ \E r \in N : r.tick = tick
          /\ \A r \in N : r.tick = tick /\ r.at = now /\ r.by = w
      <4> HIDE DEF row
      <4> QED
        BY <3>3
    <3> HIDE DEF N
    <3> QED
      BY <3>2, <3>4
  <2>3. /\ event' \in [status : EventStatuses, fixedPrices : BOOLEAN, currentTick : Nat,
                      lastTickAt : Nat, tickSeconds : TickSeconds]
        /\ event'.currentTick = tick /\ Running' = Running
    BY <2>1 DEF TypeOK, Running
  <2>4. /\ worker' = [v \in Workers |-> worker'[v]]
        /\ ~Ticking(w)' /\ worker'[w].step = "release"
        /\ \A v \in Workers \ {w} : worker'[v] = worker[v]
    BY <2>1 DEF TypeOK, Ticking
  <2>5. TypeOK'
    BY <2>1, <2>3, <2>4 DEF TypeOK, Ticking
  <2>6. OneWriterPerTick'
    <3>1. \A r \in rows : r.tick \in 1 .. event.currentTick
      BY DEF OneWriterPerTick
    <3>2. {r.tick : r \in rows'} = 1 .. tick
      <4>1. {r.tick : r \in rows'} = {r.tick : r \in rows} \cup {tick}
        BY <2>2
      <4> QED
        <5>1. \A n \in Nat : (1 .. n) \cup {n + 1} = 1 .. (n + 1)
          OBVIOUS
        <5> HIDE DEF tick
        <5> QED
          BY <4>1, <2>1, <5>1 DEF OneWriterPerTick, TypeOK
    <3>3. \A r \in rows' : r.tick = tick => r.by = w /\ r.at = now
      BY <2>1, <2>2, <3>1 DEF TypeOK
    <3>4. \A r \in rows' : r.tick # tick => r \in rows
      BY <2>2
    <3> QED
      BY <2>3, <3>2, <3>3, <3>4 DEF OneWriterPerTick
  <2>7. StoppedMeansStopped' /\ TicksAreNext' /\ RequestsAlone'
    <3>1. "requests" \in calm => ~(request # NoRequest \/ ~Running)
      BY <1>7 DEF Persist, RequestsAlone, Idle
    <3>2. ~Running => tick <= stopped + 1
      BY <1>7 DEF Persist, TicksAreNext, Ticking
    <3>3. StoppedMeansStopped'
      BY <2>1, <2>3, <3>1, <3>2 DEF StoppedMeansStopped
    <3>4. TicksAreNext'
      BY <2>1, <2>3, <2>4 DEF TicksAreNext, Ticking, TypeOK
    <3> QED
      BY <2>1, <2>3, <3>1, <3>3, <3>4 DEF RequestsAlone
  <2> QED
    BY <2>5, <2>6, <2>7
<1>8. ASSUME NEW w \in Workers, PersistFails(w) PROVE TickInv'
  BY <1>3, <1>8 DEF PersistFails, market
<1>9. ASSUME NEW w \in Workers, CheckLock(w) PROVE TickInv'
  <2>1. "requests" \in calm => ~(request # NoRequest \/ ~Running)
    BY <1>9 DEF CheckLock, RequestsAlone, Idle
  <2> DEFINE r == IF lock = w THEN [step |-> "delete", now |-> 0] ELSE Idle
  <2>2. r.step \in {"delete", "idle"}
    BY DEF Idle
  <2>3. worker' = [worker EXCEPT ![w] = r]
    BY <1>9 DEF CheckLock
  <2> HIDE DEF r
  <2> QED
    BY <1>9, <2>1, <2>2, <2>3, WorkerMoves DEF CheckLock, market
<1>10. ASSUME NEW w \in Workers, DeleteLock(w) \/ Crash(w) PROVE TickInv'
  BY <1>10, WorkerMoves, Idle.step = "idle" DEF DeleteLock, Crash, market, Idle
<1>11. ASSUME Organiser PROVE TickInv'
  <2> DEFINE E == [status : EventStatuses, fixedPrices : BOOLEAN, currentTick : Nat,
                   lastTickAt : Nat, tickSeconds : TickSeconds]
  <2>1. CASE ChangeStatus
    <3> DEFINE e == [event EXCEPT !.status = request.to]
    <3>1. e \in E /\ e.currentTick = event.currentTick
      BY <2>1 DEF ChangeStatus, TypeOK
    <3> HIDE DEF e
    <3> QED
      BY <2>1, <3>1, EventWritten DEF ChangeStatus, NoRequest, e
  <2>2. CASE FixPrices
    <3> DEFINE e == [event EXCEPT !.fixedPrices = request.to]
    <3>1. e \in E /\ e.currentTick = event.currentTick
      BY <2>2 DEF FixPrices, TypeOK
    <3> HIDE DEF e
    <3> QED
      BY <2>2, <3>1, EventWritten DEF FixPrices, NoRequest, e
  <2>3. CASE UpdateEngineParams
    <3> DEFINE e == [event EXCEPT !.tickSeconds = request.to]
    <3>1. e \in E /\ e.currentTick = event.currentTick
      BY <2>3 DEF UpdateEngineParams, TypeOK
    <3>2. Running' = Running
      BY <2>3 DEF UpdateEngineParams, TypeOK, Running
    <3> HIDE DEF e
    <3> QED
      BY <2>3, <3>1, <3>2, EventWritten DEF UpdateEngineParams, NoRequest, e
  <2>4. CASE OverridePrice \/ UpdateProduct \/ ArchiveProduct
    BY <2>4, OthersMove DEF OverridePrice, UpdateProduct, ArchiveProduct, Answer, NoRequest, TypeOK
  <2> QED
    BY <1>11, <2>1, <2>2, <2>3, <2>4 DEF Organiser
<1>12. ASSUME NEW r, Begin(r),
              r.op = "status" => r.to \in EventStatuses,
              r.op = "fixed" => r.to \in BOOLEAN,
              r.op = "params" => r.to \in TickSeconds
       PROVE  TickInv'
  BY <1>12, OthersMove DEF Begin, market, TypeOK
<1>13. CASE BeginChangeState
  BY <1>12, <1>13 DEF BeginChangeState
<1>14. CASE BeginFixedPrices \/ BeginEngineParams
  BY <1>12, <1>14 DEF BeginFixedPrices, BeginEngineParams
<1>15. CASE BeginOverride \/ BeginArchive
  BY <1>12, <1>15 DEF BeginOverride, BeginArchive
<1>16. CASE BeginUpdateProduct
  BY <1>12, <1>16 DEF BeginUpdateProduct
<1>17. CASE CreateProduct \/ LockExpires \/ TimePasses \/ \E p \in Products : StockRunsOutOrIn(p)
  BY <1>17, OthersMove DEF CreateProduct, LockExpires, TimePasses, StockRunsOutOrIn, market, TypeOK
<1>18. ASSUME NEW s \in Sales, CommitPayment(s) \/ \E p \in Products : StampPayment(s, p)
       PROVE  TickInv'
  <2>1. sale' \in [Sales -> [state : {"none", "stamped", "paid"},
                            product : Products \cup {None}, at : Nat]]
    BY <1>18 DEF CommitPayment, StampPayment, TypeOK
  <2> QED
    BY <1>18, <2>1, OthersMove DEF CommitPayment, StampPayment, market, TypeOK
<1>19. CASE UNCHANGED vars
  BY <1>19, OthersMove DEF vars, TypeOK
<1> QED
  BY <1>1, <1>2, <1>4, <1>5, <1>6, <1>7, <1>8, <1>9, <1>10, <1>11, <1>13, <1>14, <1>15,
    <1>16, <1>17, <1>18, <1>19 DEF Next, Tick

(* Each tick is written once, by one worker, and none is missing, even when *)
(* the lock is lost and two of them race.                                   *)
THEOREM TicksHaveOneWriter == Spec => []OneWriterPerTick
<1>1. TickInv => OneWriterPerTick
  BY DEF TickInv
<1> QED
  BY TickInit, TickStep, <1>1, PTL DEF Spec

(* A stop is overtaken by one tick at most, and by none when the request    *)
(* came alone.                                                              *)
THEOREM StopsHold == Spec => []StoppedMeansStopped
<1>1. TickInv => StoppedMeansStopped
  BY DEF TickInv
<1> QED
  BY TickInit, TickStep, <1>1, PTL DEF Spec

-----------------------------------------------------------------------------
(* Where a lock outlives the tick that holds it.                            *)

LockHeld == \A w \in Workers : Holding(w) => lock = w

TimesInOrder ==
  /\ event.lastTickAt <= clock
  /\ \A w \in Workers : Ticking(w) \/ worker[w].step = "called" =>
       event.lastTickAt <= worker[w].now /\ worker[w].now <= clock

(* What the one tick under way counts is later than what any before it did. *)
WindowsFresh ==
  \A w \in Workers :
    /\ worker[w].step \in {"event", "products"} => worker[w].since = event.lastTickAt
    /\ worker[w].step = "persist" =>
         \A s \in worker[w].units :
           /\ s \in Sales /\ sale[s].state = "paid"
           /\ event.lastTickAt < sale[s].at /\ sale[s].at <= worker[w].now

CountedByTheTick ==
  \A r \in rows : \A s \in r.sales :
    /\ s \in Sales /\ sale[s].state = "paid" /\ sale[s].product = r.product
    /\ sale[s].at <= event.lastTickAt

CountInv ==
  "lock" \in calm =>
    LockHeld /\ TimesInOrder /\ WindowsFresh /\ CountedByTheTick /\ CountedOnce

LEMMA CountInit == Init => CountInv
<1> SUFFICES ASSUME Init PROVE CountInv
  OBVIOUS
<1>1. \A w \in Workers : worker[w].step = "idle"
  BY DEF Init, Idle
<1>2. event.lastTickAt = 0 /\ clock = 1 /\ rows = {}
  BY DEF Init
<1> QED
  BY <1>1, <1>2 DEF CountInv, LockHeld, Holding, TimesInOrder, Ticking, WindowsFresh,
    CountedByTheTick, CountedOnce

(* A step of one worker that writes nothing to the database.                *)
LEMMA WorkerCounts ==
  ASSUME TypeOK, "lock" \in calm, CountInv, NEW w \in Workers, NEW r,
         worker' = [worker EXCEPT ![w] = r],
         UNCHANGED <<event, rows, sale, clock, calm>>,
         r.step \in {"event", "products", "persist", "called"} =>
           event.lastTickAt <= r.now /\ r.now <= clock,
         r.step \in {"event", "products"} => r.since = event.lastTickAt,
         r.step = "persist" =>
           \A s \in r.units : /\ s \in Sales /\ sale[s].state = "paid"
                              /\ event.lastTickAt < sale[s].at /\ sale[s].at <= r.now,
         r.step \notin {"idle", "due"} => lock' = w,
         \A v \in Workers \ {w} : Holding(v) => lock' = v
  PROVE  CountInv'
<1>1. /\ worker'[w] = r
      /\ \A v \in Workers \ {w} : worker'[v] = worker[v]
  BY DEF TypeOK
<1>2. LockHeld'
  BY <1>1 DEF LockHeld, Holding
<1>3. TimesInOrder' /\ WindowsFresh'
  BY <1>1 DEF CountInv, TimesInOrder, WindowsFresh, Ticking
<1> QED
  BY <1>2, <1>3 DEF CountInv, CountedByTheTick, CountedOnce

(* A step that leaves the workers where they are.                           *)
LEMMA OthersCount ==
  ASSUME TypeOK, "lock" \in calm, CountInv,
         UNCHANGED <<worker, rows, calm>>,
         event'.lastTickAt = event.lastTickAt,
         clock \in Nat, clock' \in Nat, clock <= clock',
         \A s \in Sales : sale[s].state = "paid" => sale'[s] = sale[s],
         lock' = lock \/ \A w \in Workers : ~Holding(w)
  PROVE  CountInv'
<1>1. LockHeld'
  BY DEF CountInv, LockHeld, Holding
<1>2. TimesInOrder'
  BY DEF CountInv, TypeOK, TimesInOrder, Ticking
<1>3. WindowsFresh'
  BY DEF CountInv, WindowsFresh
<1>4. CountedByTheTick'
  BY DEF CountInv, CountedByTheTick
<1> QED
  BY <1>1, <1>2, <1>3, <1>4 DEF CountInv, CountedOnce

LEMMA CountStep ==
  ASSUME TypeOK, CountInv, [Next]_vars
  PROVE  CountInv'
<1> SUFFICES ASSUME "lock" \in calm PROVE CountInv'
  BY DEF CountInv, Next, vars, Tick, Organiser, Sweep, AcquireLock, ReadEvent, ReadProducts,
    ReadSales, Persist, PersistFails, CheckLock, DeleteLock, Crash, ChangeStatus, FixPrices,
    UpdateEngineParams, OverridePrice, UpdateProduct, ArchiveProduct, Answer, CreateProduct,
    BeginChangeState, BeginFixedPrices, BeginEngineParams, BeginOverride, BeginUpdateProduct,
    BeginArchive, Begin, LockExpires, TimePasses, CommitPayment, StampPayment, StockRunsOutOrIn
<1>0. /\ LockHeld /\ TimesInOrder /\ WindowsFresh /\ CountedByTheTick /\ CountedOnce
      /\ clock \in Nat /\ event.lastTickAt \in Nat
  BY DEF CountInv, TypeOK
<1>1. ASSUME NEW w \in Workers PROVE Holding(w) => lock = w /\ \A v \in Workers : Holding(v) => v = w
  BY <1>0 DEF LockHeld
<1>2. ASSUME NEW w \in Workers, Sweep(w) \/ Crash(w) PROVE CountInv'
  BY <1>0, <1>2, WorkerCounts, Idle.step = "idle", [step |-> "due", now |-> 0].step = "due"
    DEF Sweep, Crash, LockHeld, market, Idle
<1>3. ASSUME NEW w \in Workers, AcquireLock(w) PROVE CountInv'
  <2>1. CASE lock = None
    <3> DEFINE r == [step |-> "called", now |-> clock]
    <3>1. r.step = "called" /\ r.now = clock /\ worker' = [worker EXCEPT ![w] = r]
      BY <1>3, <2>1 DEF AcquireLock
    <3>2. \A v \in Workers : ~Holding(v)
      BY <1>0, <2>1, BoundsAssumption DEF LockHeld
    <3> HIDE DEF r
    <3>3. lock' = w /\ UNCHANGED <<event, rows, sale, clock, calm>>
      BY <1>3, <2>1 DEF AcquireLock, market
    <3>4. event.lastTickAt <= r.now /\ r.now <= clock
      BY <1>0, <3>1 DEF TimesInOrder
    <3>5. r.step \notin {"event", "products", "persist"}
      BY <3>1
    <3> HIDE DEF r
    <3> QED
      BY <3>1, <3>2, <3>3, <3>4, <3>5, WorkerCounts
  <2>2. CASE lock # None
    BY <1>0, <1>3, <2>2, WorkerCounts, Idle.step = "idle" DEF AcquireLock, market, LockHeld, Idle
  <2> QED
    BY <2>1, <2>2
<1>4. ASSUME NEW w \in Workers, Skip(w), Holding(w), UNCHANGED <<event, rows, sale, lock, clock, calm>>
      PROVE  CountInv'
  BY <1>0, <1>1, <1>4, WorkerCounts, [step |-> "release", now |-> 0].step = "release"
    DEF Skip, LockHeld
<1>5. ASSUME NEW w \in Workers, ReadEvent(w) PROVE CountInv'
  <2>1. CASE Skip(w)
    BY <1>4, <1>5, <2>1 DEF ReadEvent, Holding, market
  <2>2. CASE ~Skip(w)
    <3> DEFINE r == [step |-> "event", now |-> worker[w].now, tick |-> event.currentTick + 1,
                     since |-> event.lastTickAt]
    <3>1. /\ worker' = [worker EXCEPT ![w] = r]
          /\ r.step = "event" /\ r.now = worker[w].now /\ r.since = event.lastTickAt
      BY <1>5, <2>2 DEF ReadEvent
    <3> HIDE DEF r
    <3> QED
      BY <1>0, <1>1, <1>5, <3>1, WorkerCounts DEF ReadEvent, Holding, market, TimesInOrder, LockHeld
  <2> QED
    BY <2>1, <2>2
<1>6. ASSUME NEW w \in Workers, ReadProducts(w) PROVE CountInv'
  <2>1. CASE Skip(w)
    BY <1>4, <1>6, <2>1 DEF ReadProducts, Holding, market
  <2>2. CASE ~Skip(w)
    <3> DEFINE r == [step |-> "products", now |-> worker[w].now, tick |-> worker[w].tick,
                     since |-> worker[w].since, read |-> [p \in Listed |-> toEngineState(p)]]
    <3>1. /\ worker' = [worker EXCEPT ![w] = r]
          /\ r.step = "products" /\ r.now = worker[w].now /\ r.since = worker[w].since
      BY <1>6, <2>2 DEF ReadProducts
    <3> HIDE DEF r
    <3> QED
      BY <1>0, <1>1, <1>6, <3>1, WorkerCounts
        DEF ReadProducts, Holding, market, TimesInOrder, Ticking, WindowsFresh, LockHeld
  <2> QED
    BY <2>1, <2>2
<1>7. ASSUME NEW w \in Workers, ReadSales(w) PROVE CountInv'
  <2>1. CASE Skip(w)
    BY <1>4, <1>7, <2>1 DEF ReadSales, Holding, market
  <2>2. CASE ~Skip(w)
    <3> DEFINE r == [step |-> "persist", now |-> worker[w].now, tick |-> worker[w].tick,
                     read |-> worker[w].read,
                     units |-> paidUnitsSince(worker[w].since, worker[w].now)]
    <3>1. /\ worker' = [worker EXCEPT ![w] = r]
          /\ r.step = "persist" /\ r.now = worker[w].now
          /\ r.units = paidUnitsSince(worker[w].since, worker[w].now)
      BY <1>7, <2>2 DEF ReadSales
    <3>2. \A s \in r.units : /\ s \in Sales /\ sale[s].state = "paid"
                             /\ event.lastTickAt < sale[s].at /\ sale[s].at <= r.now
      BY <1>0, <1>7, <3>1 DEF ReadSales, WindowsFresh, paidUnitsSince
    <3> HIDE DEF r
    <3> QED
      BY <1>0, <1>1, <1>7, <3>1, <3>2, WorkerCounts
        DEF ReadSales, Holding, market, TimesInOrder, Ticking, LockHeld
  <2> QED
    BY <2>1, <2>2
<1>8. ASSUME NEW w \in Workers, Persist(w) PROVE CountInv'
  <2> DEFINE now == worker[w].now  units == worker[w].units
             row(p) == [tick |-> worker[w].tick, product |-> p, at |-> now, by |-> w,
                        sales |-> {s \in units : sale[s].product = p}]
             new == {row(p) : p \in DOMAIN worker[w].read}
  <2>1. /\ rows' = rows \cup new /\ event'.lastTickAt = now
        /\ worker' = [worker EXCEPT ![w] = [step |-> "release", now |-> 0]]
        /\ UNCHANGED <<sale, lock, clock, calm>>
    BY <1>8 DEF Persist, Skip, TypeOK
  <2>2. /\ now \in Nat /\ event.lastTickAt <= now /\ now <= clock
        /\ \A s \in units : /\ s \in Sales /\ sale[s].state = "paid"
                            /\ event.lastTickAt < sale[s].at /\ sale[s].at <= now
    BY <1>0, <1>8 DEF Persist, TypeOK, Ticking, TimesInOrder, WindowsFresh
  <2>3. /\ worker'[w].step = "release"
        /\ \A v \in Workers \ {w} : worker'[v] = worker[v] /\ ~Holding(v)
    BY <1>1, <1>8, <2>1 DEF Persist, TypeOK, Holding
  <2>4. LockHeld'
    BY <1>1, <1>8, <2>1, <2>3 DEF Persist, LockHeld, Holding
  <2>5. TimesInOrder' /\ WindowsFresh'
    BY <2>1, <2>2, <2>3 DEF TimesInOrder, WindowsFresh, Ticking, Holding
  <2>6. \A r \in new : \A s \in r.sales : s \in units /\ sale[s].product = r.product
    OBVIOUS
  <2>7. \A r, q \in new : r.product = q.product => r = q
    OBVIOUS
  <2> HIDE DEF new, units, now
  <2>8. CountedByTheTick'
    BY <1>0, <2>1, <2>2, <2>6 DEF CountedByTheTick, TypeOK
  <2>9. ASSUME NEW r \in rows', NEW q \in rows', NEW s \in r.sales \cap q.sales PROVE r = q
    <3>1. CASE r \in rows /\ q \in rows
      BY <1>0, <2>9, <3>1 DEF CountedOnce
    <3>2. CASE r \in new /\ q \in new
      BY <2>6, <2>7, <3>2
    <3>3. ASSUME NEW a \in rows, NEW b \in new, s \in a.sales, s \in b.sales PROVE FALSE
      BY <1>0, <2>2, <2>6, <3>3 DEF CountedByTheTick, TypeOK
    <3> QED
      BY <2>1, <3>1, <3>2, <3>3
  <2> QED
    BY <2>4, <2>5, <2>8, <2>9 DEF CountInv, CountedOnce
<1>9. ASSUME NEW w \in Workers, PersistFails(w) PROVE CountInv'
  BY <1>4, <1>9 DEF PersistFails, Holding, market
<1>10. ASSUME NEW w \in Workers, CheckLock(w) PROVE CountInv'
  <2> DEFINE r == IF lock = w THEN [step |-> "delete", now |-> 0] ELSE Idle
  <2>1. r.step \in {"delete", "idle"} /\ worker' = [worker EXCEPT ![w] = r] /\ lock = w
    BY <1>1, <1>10 DEF CheckLock, Idle, Holding
  <2> HIDE DEF r
  <2> QED
    BY <1>0, <1>10, <2>1, WorkerCounts DEF CheckLock, market, LockHeld
<1>11. ASSUME NEW w \in Workers, DeleteLock(w) PROVE CountInv'
  BY <1>1, <1>11, WorkerCounts, Idle.step = "idle" DEF DeleteLock, market, Idle, Holding
<1>12. CASE LockExpires
  <2>1. \A w \in Workers : ~Holding(w)
    BY <1>0, <1>12 DEF LockExpires, LockHeld
  <2> QED
    BY <1>0, <1>12, <2>1, OthersCount DEF LockExpires, market
<1>13. CASE TimePasses
  BY <1>0, <1>13, OthersCount DEF TimePasses, market
<1>14. CASE Organiser
  <2>1. event'.lastTickAt = event.lastTickAt
    BY <1>14 DEF Organiser, ChangeStatus, FixPrices, UpdateEngineParams, OverridePrice,
      UpdateProduct, ArchiveProduct, TypeOK
  <2>2. UNCHANGED <<rows, sale, lock, worker, clock, calm>>
    BY <1>14 DEF Organiser, ChangeStatus, FixPrices, UpdateEngineParams, OverridePrice,
      UpdateProduct, ArchiveProduct, Answer
  <2> QED
    BY <1>0, <2>1, <2>2, OthersCount
<1>15. ASSUME NEW r, Begin(r) PROVE CountInv'
  BY <1>0, <1>15, OthersCount DEF Begin, market
<1>16. CASE BeginChangeState \/ BeginFixedPrices \/ BeginEngineParams \/ BeginOverride
            \/ BeginUpdateProduct \/ BeginArchive
  BY <1>15, <1>16 DEF BeginChangeState, BeginFixedPrices, BeginEngineParams, BeginOverride,
    BeginUpdateProduct, BeginArchive
<1>17. CASE CreateProduct \/ \E p \in Products : StockRunsOutOrIn(p)
  BY <1>0, <1>17, OthersCount DEF CreateProduct, StockRunsOutOrIn
<1>18. ASSUME NEW s \in Sales, CommitPayment(s) \/ \E p \in Products : StampPayment(s, p)
       PROVE  CountInv'
  <2>1. \A t \in Sales : sale[t].state = "paid" => sale'[t] = sale[t]
    BY <1>18 DEF CommitPayment, StampPayment, TypeOK
  <2> QED
    BY <1>0, <1>18, <2>1, OthersCount DEF CommitPayment, StampPayment, market
<1>19. CASE UNCHANGED vars
  BY <1>0, <1>19, OthersCount DEF vars
<1> QED
  BY <1>2, <1>3, <1>5, <1>6, <1>7, <1>8, <1>9, <1>10, <1>11, <1>12, <1>13, <1>14, <1>16,
    <1>17, <1>18, <1>19 DEF Next, Tick

(* As long as a lock outlives its tick, no sale moves the prices twice.     *)
THEOREM SalesCountOnce == Spec => []CountedOnce
<1>1. TickInv /\ CountInv => CountedOnce
  BY DEF CountInv, CountedOnce
<1>2. TickInv /\ CountInv /\ [Next]_vars => CountInv'
  BY CountStep DEF TickInv
<1> QED
  BY TickInit, CountInit, TickStep, <1>1, <1>2, PTL DEF Spec

=============================================================================
