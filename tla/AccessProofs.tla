---------------------------- MODULE AccessProofs ----------------------------
(***************************************************************************)
(* A key is executed once, for any number of requests, devices and keys,   *)
(* whatever of it dies on the way.                                         *)
(***************************************************************************)
EXTENDS Requests, TLAPS

Routes == {"orders", "counter"}
Scopes == Routes \X (Rows \cup Staff) \X Body
Running == {"run", "open", "written"}
Stages == {"find", "insert", "remember"} \cup Running

RequestSet == [id : Nat \ {0}, route : Routes, actor : Rows \cup Staff, body : Body,
               key : Key \cup {NoKey}, stage : Stages]

RequestsTyped ==
  /\ arrived \in Nat
  /\ requests \subseteq RequestSet
  /\ \A r \in requests : r.id <= arrived /\ (r.stage \notin Running => r.key \in Key)
  /\ keys \in [Key -> [what : Scopes \cup {<<>>}, response : Nat]]

IdsDiffer == \A q, r \in requests : q.id = r.id => q = r

(* A request that got past its key, as long as it holds it.                 *)
Claiming(r) == r.key \in Key /\ r.stage \in Running \cup {"remember"}

(* It is the one of its key, the key says so, and nothing is stored yet.    *)
ClaimsAlone ==
  /\ \A r \in requests : Claiming(r) =>
       keys[r.key].what = What(r) /\ keys[r.key].response = NoAnswer
  /\ \A q, r \in requests : Claiming(q) /\ Claiming(r) /\ q.key = r.key => q = r

(* What ran had claimed its key, and the one that runs has not run.         *)
ExecutedOnce ==
  /\ \A e \in executions : e.key \in Key => keys[e.key] # NoClaim
  /\ \A e \in executions, r \in requests : r.key \in Key /\ r.stage \in Running => e.key # r.key
  /\ \A e, f \in executions : e.key = f.key /\ e.key # NoKey => e = f
  /\ \A e \in executions : e.key \in Key \cup {NoKey}

(* A stored answer is the one of the execution it names.                    *)
AnswersTrue ==
  /\ \A r \in requests : r.stage = "remember" =>
       \E e \in executions : e.id = r.id /\ e.what = What(r)
  /\ \A k \in Key : keys[k].response # NoAnswer =>
       \E e \in executions : e.id = keys[k].response /\ e.what = keys[k].what
  /\ \A a \in replays : \E e \in executions : e.id = a.id /\ e.what = a.what

KeyInv == RequestsTyped /\ IdsDiffer /\ ClaimsAlone /\ ExecutedOnce /\ AnswersTrue

AccessInv == KeyInv /\ SessionsTypeOK /\ arrived <= MaxRequests

-----------------------------------------------------------------------------
LEMMA NoClaimIsNoScope == NoClaim.what \notin Scopes /\ NoClaim.response = NoAnswer
  BY DEF NoClaim, Scopes, Routes

LEMMA WhatIsScope ==
  ASSUME NEW r \in RequestSet
  PROVE  What(r) \in Scopes /\ What(r) = <<r.route, r.actor, r.body>> /\ What(r) # <<>>
  BY DEF RequestSet, What, Scope, Scopes

(* The stage is all that moves of a request.                                *)
LEMMA StageMoves ==
  ASSUME NEW r \in RequestSet, NEW s \in Stages
  PROVE  LET q == [r EXCEPT !.stage = s] IN
           /\ q \in RequestSet /\ q.stage = s
           /\ q.id = r.id /\ q.key = r.key /\ What(q) = What(r)
  BY DEF RequestSet, What, Scope

Row == [nickname : Nickname \cup {Placeholder, Nobody}, phone : BOOLEAN,
        session : BOOLEAN, anonymized : BOOLEAN]

LEMMA RowsMade ==
  /\ NoRow \in Row
  /\ \A n \in Nickname \cup {Placeholder, Nobody} : NewRow(n) \in Row
  /\ \A row \in Row : Forgotten(row) \in Row
  BY DEF Row, NoRow, NewRow, Forgotten

LEMMA AccessInit == Init => AccessInv
<1> SUFFICES ASSUME Init PROVE AccessInv
  OBVIOUS
<1>1. KeyInv
  BY DEF Init, KeyInv, RequestsTyped, IdsDiffer, ClaimsAlone, ExecutedOnce, AnswersTrue, NoClaim, NoAnswer
<1>2. SessionsTypeOK /\ arrived <= MaxRequests
  <2>1. people \in [Rows -> Row]
    BY RowsMade DEF Init, SessionsInit
  <2>2. arrived <= MaxRequests
    BY RequestsAssumption DEF Init
  <2>3. cookie \in [Phone -> Rows \cup {NoSession}] /\ join \in [Phone -> Nickname \cup {Nobody}]
    BY DEF Init, SessionsInit
  <2> QED
    BY <2>1, <2>2, <2>3 DEF Init, SessionsInit, SessionsTypeOK, Row
<1> QED
  BY <1>1, <1>2 DEF AccessInv

LEMMA SessionsStep ==
  ASSUME SessionsTypeOK, SessionsNext
  PROVE  SessionsTypeOK'
<1> USE DEF SessionsTypeOK, guests, bar
<1>1. ASSUME NEW d \in Phone, NEW n \in Nickname, BeginJoin(d, n) PROVE SessionsTypeOK'
  BY <1>1 DEF BeginJoin
<1>2. ASSUME NEW d \in Phone, CreateParticipant(d) PROVE SessionsTypeOK'
  <2>1. CASE Taken(join[d])
    BY <1>2, <2>1 DEF CreateParticipant
  <2>2. CASE ~Taken(join[d])
    <3>1. PICK p \in Free : people' = [people EXCEPT ![p] = NewRow(join[d])]
      BY <1>2, <2>2 DEF CreateParticipant
    <3>2. p \in Rows /\ NewRow(join[d]) \in Row
      BY RowsMade DEF Free
    <3>3. people \in [Rows -> Row] /\ people' \in [Rows -> Row]
      BY <3>1, <3>2 DEF Row
    <3>4. cookie' \in [Phone -> Rows \cup {NoSession}]
      BY <1>2, <2>2 DEF CreateParticipant, Free
    <3> QED
      BY <1>2, <3>3, <3>4 DEF CreateParticipant, Row
  <2> QED
    BY <2>1, <2>2
<1>3. ASSUME NEW d \in Phone, CookieExpires(d) PROVE SessionsTypeOK'
  BY <1>3 DEF CookieExpires
<1>4. ASSUME NEW s \in Staff, CreateUser(s) \/ Deactivate(s) PROVE SessionsTypeOK'
  BY <1>4 DEF CreateUser, Deactivate
<1>5. ASSUME NEW t \in Terminal,
             Logout(t) \/ \E s \in Staff, totp \in BOOLEAN : Login(t, s, totp)
      PROVE  SessionsTypeOK'
  BY <1>5 DEF Login, Logout
<1>6. ASSUME NEW to \in {"OPEN", "FINISHED"}, ChangeState(to) PROVE SessionsTypeOK'
  BY <1>6 DEF ChangeState
<1>7. CASE ReadBatch
  BY <1>7 DEF ReadBatch, Unforgotten
<1>8. ASSUME NEW p \in Rows, Anonymize(p) PROVE SessionsTypeOK'
  <2>1. people \in [Rows -> Row] /\ Forgotten(people[p]) \in Row
    BY RowsMade DEF Row
  <2>2. people' \in [Rows -> Row]
    BY <1>8, <2>1 DEF Anonymize
  <2> QED
    BY <1>8, <2>2 DEF Anonymize, Row
<1>9. ASSUME NEW rows \in SUBSET Rows, AnonymizeFails(rows) PROVE SessionsTypeOK'
  BY <1>9 DEF AnonymizeFails
<1> QED
  BY <1>1, <1>2, <1>3, <1>4, <1>5, <1>6, <1>7, <1>8, <1>9 DEF SessionsNext

(* What a handler does to the rows.                                         *)
LEMMA HandlerStep ==
  ASSUME SessionsTypeOK, NEW r, Write(r)
  PROVE  SessionsTypeOK'
<1>1. people \in [Rows -> Row]
  BY DEF SessionsTypeOK, Row
<1>2. people' \in [Rows -> Row]
  <2>1. CASE Order(r)
    BY <1>1, <2>1 DEF Order, Row
  <2>2. CASE CreateCounterCustomer(r)
    BY <1>1, <2>2, RowsMade DEF CreateCounterCustomer, Free
  <2> QED
    BY <2>1, <2>2 DEF Write
<1> QED
  BY <1>2 DEF Write, SessionsTypeOK, Row, bar

-----------------------------------------------------------------------------
LEMMA ArriveStep ==
  ASSUME AccessInv, NEW route \in Routes, NEW actors \in SUBSET (Rows \cup Staff),
         NEW key \in Key \cup {NoKey}, NEW body \in Body, Arrive(route, actors, key, body)
  PROVE  KeyInv'
<1>1. PICK actor \in actors :
        requests' = requests \cup
          {[id |-> arrived', route |-> route, actor |-> actor, body |-> body, key |-> key,
            stage |-> IF key = NoKey THEN "run" ELSE "find"]}
  BY DEF Arrive
<1> DEFINE new == [id |-> arrived', route |-> route, actor |-> actor, body |-> body, key |-> key,
                   stage |-> IF key = NoKey THEN "run" ELSE "find"]
<1>2. /\ arrived' = arrived + 1 /\ requests' = requests \cup {new}
      /\ UNCHANGED <<keys, executions, replays>>
  BY <1>1 DEF Arrive
<1>3. /\ new \in RequestSet /\ new.id = arrived + 1
      /\ new.key \in Key => new.stage = "find"
      /\ new.stage \notin Running => new.key \in Key
      /\ new.stage # "remember"
  BY <1>2, RequestsAssumption DEF AccessInv, KeyInv, RequestsTyped, RequestSet, Stages, Running
<1> HIDE DEF new
<1>4. RequestsTyped'
  BY <1>2, <1>3 DEF AccessInv, KeyInv, RequestsTyped, RequestSet
<1>5. IdsDiffer'
  BY <1>2, <1>3 DEF AccessInv, KeyInv, RequestsTyped, RequestSet, IdsDiffer
<1>6. ClaimsAlone'
  BY <1>2, <1>3 DEF AccessInv, KeyInv, ClaimsAlone, Claiming, Running
<1>7. ExecutedOnce'
  BY <1>2, <1>3 DEF AccessInv, KeyInv, ExecutedOnce, Running
<1>8. AnswersTrue'
  BY <1>2, <1>3 DEF AccessInv, KeyInv, AnswersTrue
<1> QED
  BY <1>4, <1>5, <1>6, <1>7, <1>8 DEF KeyInv

(* A request that is gone takes nothing with it.                            *)
LEMMA EndsStep ==
  ASSUME KeyInv, NEW r \in requests, Ends(r), UNCHANGED <<arrived, keys, executions>>,
         \A a \in replays' : \E e \in executions : e.id = a.id /\ e.what = a.what
  PROVE  KeyInv'
  BY DEF KeyInv, Ends, RequestsTyped, IdsDiffer, ClaimsAlone, ExecutedOnce, AnswersTrue

LEMMA FindStep ==
  ASSUME KeyInv, NEW r \in requests, FindKey(r)
  PROVE  KeyInv'
<1>1. r \in RequestSet /\ r.stage = "find" /\ r.key \in Key
  BY DEF FindKey, KeyInv, RequestsTyped, Running
<1>2. UNCHANGED <<arrived, keys, executions>>
  BY DEF FindKey
<1>3. CASE keys[r.key] = NoClaim
  <2> DEFINE q == [r EXCEPT !.stage = "insert"]
  <2>1. q \in RequestSet /\ q.stage = "insert" /\ q.id = r.id /\ q.key = r.key
    BY <1>1, StageMoves DEF Stages, Running
  <2>2. requests' = (requests \ {r}) \cup {q} /\ UNCHANGED replays
    BY <1>3 DEF FindKey, Moved
  <2> HIDE DEF q
  <2> QED
    BY <1>1, <1>2, <2>1, <2>2
      DEF KeyInv, RequestsTyped, IdsDiffer, ClaimsAlone, Claiming, ExecutedOnce, Running, AnswersTrue
<1>4. CASE keys[r.key] # NoClaim
  <2>1. \A a \in replays' : \E e \in executions : e.id = a.id /\ e.what = a.what
    <3>1. CASE keys[r.key].what = What(r) /\ keys[r.key].response # NoAnswer
      BY <1>1, <1>4, <3>1, WhatIsScope DEF FindKey, KeyInv, AnswersTrue
    <3>2. CASE ~(keys[r.key].what = What(r) /\ keys[r.key].response # NoAnswer)
      BY <1>4, <3>2 DEF FindKey, KeyInv, AnswersTrue
    <3> QED
      BY <3>1, <3>2
  <2> QED
    BY <1>2, <1>4, <2>1, EndsStep DEF FindKey
<1> QED
  BY <1>3, <1>4

LEMMA InsertStep ==
  ASSUME KeyInv, NEW r \in requests, InsertKey(r)
  PROVE  KeyInv'
<1>1. r \in RequestSet /\ r.stage = "insert" /\ r.key \in Key
  BY DEF InsertKey, KeyInv, RequestsTyped, Running
<1>2. UNCHANGED <<arrived, executions, replays>>
  BY DEF InsertKey
<1>3. CASE keys[r.key] = NoClaim
  <2> DEFINE q == [r EXCEPT !.stage = "run"]
             c == [what |-> What(r), response |-> NoAnswer]
  <2>1. /\ q \in RequestSet /\ q.stage = "run" /\ q.id = r.id /\ q.key = r.key
        /\ What(q) = What(r)
    BY <1>1, StageMoves DEF Stages, Running
  <2>2. /\ c \in [what : Scopes \cup {<<>>}, response : Nat]
        /\ c.what = What(r) /\ c.response = NoAnswer /\ c # NoClaim
    BY <1>1, WhatIsScope, NoClaimIsNoScope DEF NoAnswer
  <2>3. requests' = (requests \ {r}) \cup {q} /\ keys' = [keys EXCEPT ![r.key] = c]
    BY <1>3 DEF InsertKey, CanClaim, Moved
  <2> HIDE DEF q, c
  <2>4. /\ keys'[r.key] = c
        /\ \A k \in Key \ {r.key} : keys'[k] = keys[k]
    BY <1>1, <2>3 DEF KeyInv, RequestsTyped
  <2>5. \A p \in requests : Claiming(p) => p.key # r.key
    BY <1>1, <1>3, WhatIsScope, NoClaimIsNoScope DEF KeyInv, ClaimsAlone, RequestsTyped, Claiming
  <2>6. \A e \in executions : e.key # r.key
    BY <1>1, <1>3 DEF KeyInv, ExecutedOnce
  <2>7. RequestsTyped' /\ IdsDiffer'
    BY <1>1, <1>2, <2>1, <2>2, <2>3 DEF KeyInv, RequestsTyped, IdsDiffer
  <2>8. ClaimsAlone'
    BY <1>1, <2>1, <2>2, <2>3, <2>4, <2>5 DEF KeyInv, ClaimsAlone, Claiming
  <2>9. ExecutedOnce'
    BY <1>1, <1>2, <2>1, <2>2, <2>3, <2>4, <2>6 DEF KeyInv, ExecutedOnce
  <2>10. AnswersTrue'
    BY <1>1, <1>2, <2>1, <2>2, <2>3, <2>4 DEF KeyInv, AnswersTrue
  <2> QED
    BY <2>7, <2>8, <2>9, <2>10 DEF KeyInv
<1>4. CASE keys[r.key] # NoClaim
  BY <1>2, <1>4, EndsStep DEF InsertKey, CanClaim, KeyInv, AnswersTrue
<1> QED
  BY <1>3, <1>4

(* A handler that goes on holds its key as it did.                          *)
LEMMA AdvanceStep ==
  ASSUME KeyInv, NEW r \in requests, r.stage \in Running, NEW s \in Running, Moved(r, s),
         UNCHANGED <<arrived, keys, executions, replays>>
  PROVE  KeyInv'
<1> DEFINE q == [r EXCEPT !.stage = s]
<1>1. r \in RequestSet
  BY DEF KeyInv, RequestsTyped
<1>2. /\ q \in RequestSet /\ q.stage \in Running /\ q.id = r.id /\ q.key = r.key
      /\ What(q) = What(r)
  BY <1>1, StageMoves DEF Stages
<1>3. requests' = (requests \ {r}) \cup {q}
  BY DEF Moved
<1>4. q.stage # "remember"
  BY <1>2 DEF Running
<1> HIDE DEF q
<1>5. RequestsTyped' /\ IdsDiffer'
  BY <1>1, <1>2, <1>3 DEF KeyInv, RequestsTyped, IdsDiffer
<1>6. ClaimsAlone'
  BY <1>2, <1>3 DEF KeyInv, ClaimsAlone, Claiming
<1>7. ExecutedOnce' /\ AnswersTrue'
  BY <1>2, <1>3, <1>4 DEF KeyInv, ExecutedOnce, AnswersTrue
<1> QED
  BY <1>5, <1>6, <1>7 DEF KeyInv

LEMMA ExecuteStep ==
  ASSUME KeyInv, NEW r \in requests, Execute(r)
  PROVE  KeyInv'
<1> DEFINE x == [id |-> r.id, key |-> r.key, what |-> <<r.route, r.actor, r.body>>]
<1>1. r \in RequestSet /\ r.stage \in Running /\ r.key \in Key \cup {NoKey}
  BY DEF Running, Execute, KeyInv, RequestsTyped, RequestSet
<1>2. /\ UNCHANGED <<arrived, keys, replays>> /\ executions' = executions \cup {x}
      /\ x.id = r.id /\ x.key = r.key /\ x.what = What(r)
  BY <1>1, WhatIsScope DEF Execute
<1> HIDE DEF x
<1>3. \A e \in executions : r.key \in Key => e.key # r.key
  BY <1>1 DEF KeyInv, ExecutedOnce
<1>4. CASE r.key = NoKey
  <2>1. Ends(r)
    BY <1>4 DEF Execute
  <2> QED
    BY <1>1, <1>2, <1>3, <1>4, <2>1, RequestsAssumption
      DEF KeyInv, Ends, RequestsTyped, IdsDiffer, ClaimsAlone, ExecutedOnce, AnswersTrue
<1>5. CASE r.key # NoKey
  <2> DEFINE q == [r EXCEPT !.stage = "remember"]
  <2>1. /\ q \in RequestSet /\ q.stage = "remember" /\ q.id = r.id /\ q.key = r.key
        /\ What(q) = What(r) /\ r.key \in Key
    BY <1>1, <1>5, StageMoves DEF Stages, Running
  <2>2. requests' = (requests \ {r}) \cup {q}
    BY <1>5 DEF Execute, Moved
  <2> HIDE DEF q
  <2>3. keys[r.key].what = What(r) /\ keys[r.key] # NoClaim
    BY <1>1, <2>1, WhatIsScope, NoClaimIsNoScope DEF KeyInv, ClaimsAlone, Claiming
  <2>4. RequestsTyped' /\ IdsDiffer'
    BY <1>1, <1>2, <2>1, <2>2 DEF KeyInv, RequestsTyped, IdsDiffer
  <2>5. ClaimsAlone'
    BY <1>1, <1>2, <2>1, <2>2 DEF KeyInv, ClaimsAlone, Claiming
  <2>6. \A p \in requests' : p.key \in Key /\ p.stage \in Running => p \in requests /\ p.key # r.key
    BY <1>1, <2>1, <2>2 DEF KeyInv, ClaimsAlone, Claiming, Running
  <2>7. ExecutedOnce'
    BY <1>2, <1>3, <2>1, <2>3, <2>6 DEF KeyInv, ExecutedOnce
  <2>8. AnswersTrue'
    BY <1>2, <2>1, <2>2 DEF KeyInv, AnswersTrue
  <2> QED
    BY <2>4, <2>5, <2>7, <2>8 DEF KeyInv
<1> QED
  BY <1>4, <1>5

LEMMA RememberStep ==
  ASSUME KeyInv, NEW r \in requests, Remember(r)
  PROVE  KeyInv'
<1>1. r \in RequestSet /\ r.stage = "remember" /\ r.key \in Key /\ r.id \in Nat
  BY DEF Remember, KeyInv, RequestsTyped, RequestSet, Running
<1>2. UNCHANGED <<arrived, executions, replays>> /\ requests' = requests \ {r}
  BY DEF Remember, Ends
<1>3. /\ keys' = [keys EXCEPT ![r.key].response = r.id]
      /\ keys \in [Key -> [what : Scopes \cup {<<>>}, response : Nat]]
  BY DEF Remember, KeyInv, RequestsTyped
<1>4. /\ keys' \in [Key -> [what : Scopes \cup {<<>>}, response : Nat]]
      /\ keys'[r.key].what = keys[r.key].what /\ keys'[r.key].response = r.id
      /\ \A k \in Key \ {r.key} : keys'[k] = keys[k]
  BY <1>1, <1>3
<1>5. keys[r.key].what = What(r) /\ What(r) \in Scopes
  BY <1>1, WhatIsScope DEF KeyInv, ClaimsAlone, Claiming
<1>6. RequestsTyped' /\ IdsDiffer'
  BY <1>2, <1>4 DEF KeyInv, RequestsTyped, IdsDiffer
<1>7. ClaimsAlone'
  BY <1>1, <1>2, <1>4 DEF KeyInv, ClaimsAlone, Claiming, RequestsTyped, RequestSet
<1>8. keys'[r.key] # NoClaim
  BY <1>4, <1>5, NoClaimIsNoScope
<1>9. ExecutedOnce'
  BY <1>1, <1>2, <1>4, <1>8 DEF KeyInv, ExecutedOnce
<1>10. AnswersTrue'
  <2>1. \E e \in executions : e.id = r.id /\ e.what = What(r)
    BY <1>1 DEF KeyInv, AnswersTrue
  <2> QED
    BY <1>1, <1>2, <1>4, <1>5, <2>1 DEF KeyInv, AnswersTrue
<1> QED
  BY <1>6, <1>7, <1>9, <1>10 DEF KeyInv

-----------------------------------------------------------------------------
LEMMA AccessStep ==
  ASSUME AccessInv, [Next]_vars
  PROVE  AccessInv'
<1>1. CASE SessionsNext /\ UNCHANGED requestVars
  BY <1>1, SessionsStep DEF AccessInv, requestVars, KeyInv, RequestsTyped, IdsDiffer,
    ClaimsAlone, ExecutedOnce, AnswersTrue
<1>2. CASE Post
  <2>1. SessionsTypeOK' /\ arrived' <= MaxRequests
    BY <1>2, RequestsAssumption DEF Post, PostOrder, PostCounterQuote, Arrive, sessionVars, guests,
      bar, AccessInv, KeyInv, RequestsTyped, SessionsTypeOK
  <2>2. ASSUME NEW d \in Phone, NEW key \in Key \cup {NoKey}, NEW body \in Body,
               PostOrder(d, key, body)
        PROVE  KeyInv'
    <3>1. ParticipantOf(d) \in SUBSET (Rows \cup Staff)
      BY DEF ParticipantOf, AccessInv, SessionsTypeOK
    <3> QED
      BY <2>2, <3>1, ArriveStep DEF PostOrder, Routes
  <2>3. ASSUME NEW t \in Terminal, NEW key \in Key \cup {NoKey}, NEW body \in Body,
               PostCounterQuote(t, key, body)
        PROVE  KeyInv'
    <3>1. StaffOf(t, {"CASHIER"}) \in SUBSET (Rows \cup Staff)
      BY DEF StaffOf, AccessInv, SessionsTypeOK
    <3> QED
      BY <2>3, <3>1, ArriveStep DEF PostCounterQuote, Routes
  <2> QED
    BY <1>2, <2>1, <2>2, <2>3 DEF Post, AccessInv
<1>3. ASSUME NEW r \in requests,
             \/ FindKey(r) \/ InsertKey(r) \/ requirePurchasable(r) \/ Write(r)
             \/ Execute(r) \/ Remember(r) \/ Dies(r)
      PROVE  AccessInv'
  <2>1. arrived' <= MaxRequests
    BY <1>3 DEF FindKey, InsertKey, requirePurchasable, Write, Execute, Remember, Dies, AccessInv
  <2>2. SessionsTypeOK'
    <3>1. CASE Write(r)
      BY <3>1, HandlerStep DEF AccessInv
    <3>2. CASE UNCHANGED sessionVars
      BY <3>2 DEF AccessInv, SessionsTypeOK, sessionVars, guests, bar
    <3> QED
      BY <1>3, <3>1, <3>2 DEF FindKey, InsertKey, requirePurchasable, Execute, Remember, Dies
  <2>3. CASE Dies(r)
    <3>1. Ends(r) /\ UNCHANGED <<arrived, keys, executions, replays>> /\ KeyInv
      BY <2>3 DEF Dies, AccessInv
    <3>2. \A a \in replays' : \E e \in executions : e.id = a.id /\ e.what = a.what
      BY <3>1 DEF KeyInv, AnswersTrue
    <3>3. KeyInv'
      BY <3>1, <3>2, EndsStep
    <3> QED
      BY <2>1, <2>2, <3>3 DEF AccessInv
  <2>4. CASE requirePurchasable(r) \/ Write(r)
    <3>1. /\ KeyInv /\ r.stage \in Running /\ "open" \in Running /\ "written" \in Running
          /\ Moved(r, "open") \/ Moved(r, "written")
          /\ UNCHANGED <<arrived, keys, executions, replays>>
      BY <2>4 DEF requirePurchasable, Write, AccessInv, Running
    <3>2. KeyInv'
      BY <3>1, AdvanceStep
    <3> QED
      BY <2>1, <2>2, <3>2 DEF AccessInv
  <2> QED
    BY <1>3, <2>1, <2>2, <2>3, <2>4, FindStep, InsertStep, ExecuteStep, RememberStep DEF AccessInv
<1>4. CASE RetentionDaysPass
  BY <1>4 DEF RetentionDaysPass, requestVars, guests, bar, AccessInv, SessionsTypeOK, KeyInv,
    RequestsTyped, IdsDiffer, ClaimsAlone, ExecutedOnce, AnswersTrue
<1>5. CASE UNCHANGED vars
  BY <1>5 DEF vars, sessionVars, requestVars, guests, bar, AccessInv, SessionsTypeOK, KeyInv,
    RequestsTyped, IdsDiffer, ClaimsAlone, ExecutedOnce, AnswersTrue
<1> QED
  BY <1>1, <1>2, <1>3, <1>4, <1>5 DEF Next

-----------------------------------------------------------------------------
(* Requests, keys, rows and cookies keep their types.                       *)
THEOREM TypeCorrect == Spec => []TypeOK
<1>1. AccessInv => TypeOK
  BY RequestsAssumption DEF AccessInv, KeyInv, RequestsTyped, RequestSet, Stages, Running, TypeOK
<1> QED
  BY <1>1, AccessInit, AccessStep, PTL DEF Spec

(* A repeated tap on a bad connection cannot sell twice, and a stored       *)
(* answer goes to nobody but whoever asked, for what was asked.             *)
THEOREM KeysExecuteOnce == Spec => []OncePerKey
<1>1. AccessInv => OncePerKey
  BY DEF AccessInv, KeyInv, ExecutedOnce, AnswersTrue, OncePerKey
<1> QED
  BY <1>1, AccessInit, AccessStep, PTL DEF Spec

=============================================================================
