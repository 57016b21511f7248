------------------------------ MODULE Requests ------------------------------
(***************************************************************************)
(* A request to the API, from its guard to its answer: the session, the    *)
(* idempotency key it may carry (IdempotencyInterceptor), and what its     *)
(* handler leaves in the rows of Sessions.  Requests overlap, and any of   *)
(* them may die at any step.  A repeated request is a new request with the *)
(* key of another one.                                                     *)
(***************************************************************************)
EXTENDS Sessions

CONSTANTS
  Key, Body,
  MaxRequests  \* bound: requests, named in the order of their arrival

NoKey == "none"

ASSUME RequestsAssumption == MaxRequests \in Nat /\ NoKey \notin Key

VARIABLES
  requests,    \* past their guard and not answered, by name
  arrived,     \* requests so far
  keys,        \* the idempotency_keys table
  executions,  \* history: handlers that ran to their end: [id, key, what]
  replays      \* history: stored answers given out: [id of the execution, what was asked]

requestVars == <<requests, arrived, keys, executions, replays>>
vars == <<sessionVars, requestVars>>

NoAnswer == 0
NoClaim == [what |-> <<>>, response |-> NoAnswer]

TypeOK ==
  /\ SessionsTypeOK
  /\ arrived \in 0..MaxRequests
  /\ \A r \in requests : /\ r.id \in 1..arrived /\ r.key \in Key \cup {NoKey}
                         /\ r.stage \in {"find", "insert", "run", "open", "written", "remember"}
  /\ DOMAIN keys = Key /\ \A k \in Key : keys[k].response \in Nat

Init ==
  /\ SessionsInit
  /\ requests = {} /\ arrived = 0
  /\ keys = [k \in Key |-> NoClaim]
  /\ executions = {} /\ replays = {}

-----------------------------------------------------------------------------
(* The guard, and the scope of a key: who, what for, and the body's hash.   *)

\* Fault: keys are told apart by route and body only.
Scope_NoActor(route, actor, body) == <<route, Nobody, body>>

Scope(route, actor, body) == <<route, actor, body>>

Arrive(route, actors, key, body) ==
  /\ arrived < MaxRequests
  /\ \E actor \in actors :
       /\ arrived' = arrived + 1
       /\ requests' = requests \cup
            {[id |-> arrived', route |-> route, actor |-> actor, body |-> body, key |-> key,
              stage |-> IF key = NoKey THEN "run" ELSE "find"]}
  /\ UNCHANGED <<sessionVars, keys, executions, replays>>

\* The controllers that sell take a key.  POST /counter/sales does as well, and
\* touches no row of Sessions: to the key it is one more route.
PostOrder(d, key, body) == Arrive("orders", ParticipantOf(d), key, body)

PostCounterQuote(t, key, body) == Arrive("counter", StaffOf(t, {"CASHIER"}), key, body)

Post ==
  \E body \in Body, key \in Key \cup {NoKey} :
    \/ \E d \in Phone : PostOrder(d, key, body)
    \/ \E t \in Terminal : PostCounterQuote(t, key, body)

-----------------------------------------------------------------------------
(* claim() and remember().                                                  *)

What(r) == Scope(r.route, r.actor, r.body)

Moved(r, stage) == requests' = (requests \ {r}) \cup {[r EXCEPT !.stage = stage]}
Ends(r) == requests' = requests \ {r}

FindKey(r) ==
  /\ r.stage = "find"
  /\ IF keys[r.key] = NoClaim THEN Moved(r, "insert") /\ UNCHANGED replays
     ELSE /\ Ends(r)
          /\ IF keys[r.key].what = What(r) /\ keys[r.key].response # NoAnswer
             THEN replays' = replays \cup
                    {[id |-> keys[r.key].response, what |-> <<r.route, r.actor, r.body>>]}
             ELSE UNCHANGED replays
  /\ UNCHANGED <<sessionVars, arrived, keys, executions>>

\* Fault: the claim is an upsert, which the loser of a race does not notice.
CanClaim_Upsert(key) == TRUE

CanClaim(key) == keys[key] = NoClaim

InsertKey(r) ==
  /\ r.stage = "insert"
  /\ IF CanClaim(r.key)
     THEN keys' = [keys EXCEPT ![r.key] = [what |-> What(r), response |-> NoAnswer]] /\ Moved(r, "run")
     ELSE UNCHANGED keys /\ Ends(r)
  /\ UNCHANGED <<sessionVars, arrived, executions, replays>>

\* Not awaited: the answer is on its way already, and this may fail.
Remember(r) ==
  /\ r.stage = "remember"
  /\ keys' = [keys EXCEPT ![r.key].response = r.id]
  /\ Ends(r)
  /\ UNCHANGED <<sessionVars, arrived, executions, replays>>

-----------------------------------------------------------------------------
(* The handlers, as far as they touch the rows of Sessions: the event is     *)
(* read, then a row is written, then the rest of the handler.              *)

requirePurchasable(r) ==
  /\ r.stage = "run" /\ status = "OPEN"
  /\ Moved(r, "open")
  /\ UNCHANGED <<sessionVars, arrived, keys, executions, replays>>

Order(r) ==
  /\ r.route = "orders"
  /\ people' = [people EXCEPT ![r.actor].phone = TRUE]

\* A row for every quote of the till, also of one that is refused after it,
\* with a session no cookie has.
CreateCounterCustomer(r) ==
  /\ r.route = "counter"
  /\ \E p \in Free : /\ \A q \in Free : p <= q
                     /\ people' = [people EXCEPT ![p] = NewRow(Placeholder)]

Write(r) ==
  /\ r.stage = "open"
  /\ Order(r) \/ CreateCounterCustomer(r)
  /\ Moved(r, "written")
  /\ UNCHANGED <<status, overdue, join, cookie, bar, batch, arrived, keys, executions, replays>>

Execute(r) ==
  /\ r.stage = "written"
  /\ executions' = executions \cup
       {[id |-> r.id, key |-> r.key, what |-> <<r.route, r.actor, r.body>>]}
  /\ IF r.key = NoKey THEN Ends(r) ELSE Moved(r, "remember")
  /\ UNCHANGED <<sessionVars, arrived, keys, replays>>

\* Refused by its handler, or the process dies: the key stays claimed.
Dies(r) ==
  /\ Ends(r)
  /\ UNCHANGED <<sessionVars, arrived, keys, executions, replays>>

\* No request lives for days.
RetentionDaysPass ==
  /\ status = "FINISHED" /\ ~overdue /\ overdue' = TRUE
  /\ requests = {} /\ \A d \in Phone : join[d] = Nobody
  /\ UNCHANGED <<status, guests, bar, batch, requestVars>>

Next ==
  \/ SessionsNext /\ UNCHANGED requestVars
  \/ Post
  \/ \E r \in requests : \/ FindKey(r) \/ InsertKey(r) \/ requirePurchasable(r) \/ Write(r)
                         \/ Execute(r) \/ Remember(r) \/ Dies(r)
  \/ RetentionDaysPass

\* The job comes back every few hours; a database that works does not refuse
\* the same row for ever.
Fairness ==
  /\ WF_vars(ReadBatch /\ UNCHANGED requestVars)
  /\ \A p \in Rows : SF_vars(Anonymize(p) /\ UNCHANGED requestVars)

Spec == Init /\ [][Next]_vars /\ Fairness

-----------------------------------------------------------------------------
\* "A repeated tap on a bad connection cannot create a second order": a key is
\* executed once, and its stored answer is given to nobody but whoever made that
\* request, for that same request (idempotency.interceptor.ts).
OncePerKey ==
  /\ \A e, f \in executions : e.key = f.key /\ e.key # NoKey => e = f
  /\ \A a \in replays : \E e \in executions : e.id = a.id /\ e.what = a.what

\* Once the retention days are over, the name and the phone of every guest are gone
\* in the end and stay so, however many guests there are, however often an update
\* fails and whatever cookies are still about (retention.service.ts).
Personal(p) == people[p].nickname \in Nickname \/ people[p].phone
EveryoneForgotten == overdue ~> [](\A p \in Rows : ~Personal(p))

=============================================================================
