------------------------------ MODULE Sessions ------------------------------
(***************************************************************************)
(* Who is at the party: participants, known by the session of a cookie and *)
(* by nothing else; the accounts of the bar; and the retention job that    *)
(* forgets the participants of an event some days after its end.  Prices,  *)
(* orders and money are elsewhere.                                         *)
(***************************************************************************)
EXTENDS Integers, FiniteSets

CONSTANTS
  Phone, Terminal,  \* devices of guests and of the bar
  Nickname,
  MaxPeople,        \* bound: participant rows
  BATCH_SIZE,       \* rows the retention job takes at a time
  Staff, Role,      \* accounts of the bar and what each may do
  Nobody

ASSUME SessionsAssumption ==
  /\ MaxPeople \in Nat /\ BATCH_SIZE \in Nat \ {0}
  /\ Role \in [Staff -> {"STAFF", "CASHIER", "ADMIN"}]

Rows == 1..MaxPeople
NoSession == 0

VARIABLES
  status,       \* of the event: "DRAFT", "OPEN" (paused or sales closed included), "FINISHED"
  overdue,      \* its retention days are over
  people,       \* the participants table: a row per participant
  join,         \* per phone, the nickname its POST /join found free, or Nobody
  cookie,       \* per phone, the session it presents, named after the row it was made for
  accounts,     \* staff accounts created, and
  active,       \* those of them that may act
  staffCookie,  \* per terminal, the account of its token
  batch         \* rows the retention job has read and not tried yet

guests == <<people, join, cookie>>
bar == <<accounts, active, staffCookie>>
sessionVars == <<status, overdue, guests, bar, batch>>

\* A nickname nobody chose: of a row of the till, or left by the retention job.
Placeholder == "placeholder"

NoRow == [nickname |-> Nobody, phone |-> FALSE, session |-> FALSE, anonymized |-> FALSE]
Free == {p \in Rows : people[p] = NoRow}
Taken(nickname) == \E p \in Rows : people[p].nickname = nickname

SessionsTypeOK ==
  /\ status \in {"DRAFT", "OPEN", "FINISHED"} /\ overdue \in BOOLEAN
  /\ people \in [Rows -> [nickname : Nickname \cup {Placeholder, Nobody}, phone : BOOLEAN,
                          session : BOOLEAN, anonymized : BOOLEAN]]
  /\ join \in [Phone -> Nickname \cup {Nobody}]
  /\ cookie \in [Phone -> Rows \cup {NoSession}]
  /\ accounts \subseteq Staff /\ active \subseteq accounts
  /\ staffCookie \in [Terminal -> Staff \cup {Nobody}]
  /\ batch \subseteq Rows

SessionsInit ==
  /\ status = "DRAFT" /\ overdue = FALSE
  /\ people = [p \in Rows |-> NoRow] /\ join = [d \in Phone |-> Nobody]
  /\ cookie = [d \in Phone |-> NoSession]
  /\ accounts = {} /\ active = {} /\ staffCookie = [t \in Terminal |-> Nobody]
  /\ batch = {}

-----------------------------------------------------------------------------
(* Joining: a nickname, looked up first and unique in the table.            *)

BeginJoin(d, nickname) ==
  /\ status \notin {"DRAFT", "FINISHED"}
  /\ join[d] = Nobody /\ ~Taken(nickname)
  /\ join' = [join EXCEPT ![d] = nickname]
  /\ UNCHANGED <<status, overdue, people, cookie, bar, batch>>

NewRow(nickname) == [NoRow EXCEPT !.nickname = nickname, !.session = TRUE]

\* The phone may not hear of it: then it keeps the cookie it had.
CreateParticipant(d) ==
  /\ join[d] # Nobody
  /\ join' = [join EXCEPT ![d] = Nobody]
  /\ IF Taken(join[d]) THEN UNCHANGED <<people, cookie>>
     ELSE \E p \in Free :
            /\ \A q \in Free : p <= q
            /\ people' = [people EXCEPT ![p] = NewRow(join[d])]
            /\ cookie' \in {cookie, [cookie EXCEPT ![d] = p]}
  /\ UNCHANGED <<status, overdue, bar, batch>>

\* The cookie outlives the party by a little.
CookieExpires(d) ==
  /\ cookie[d] # NoSession /\ cookie' = [cookie EXCEPT ![d] = NoSession]
  /\ UNCHANGED <<status, overdue, people, join, bar, batch>>

\* findBySession, and the guard of the participant's routes.
ParticipantOf(d) ==
  IF cookie[d] # NoSession /\ people[cookie[d]].session THEN {cookie[d]} ELSE {}

-----------------------------------------------------------------------------
(* The bar.                                                                 *)

CreateUser(s) ==
  /\ s \notin accounts
  /\ accounts' = accounts \cup {s} /\ active' = active \cup {s}
  /\ UNCHANGED <<status, overdue, guests, staffCookie, batch>>

\* Nothing in the program does this: the organiser, in the database.
Deactivate(s) ==
  /\ s \in active /\ active' = active \ {s}
  /\ UNCHANGED <<status, overdue, guests, accounts, staffCookie, batch>>

\* With the right password; an administrator with the code of the moment too.
MaySignIn(s, totp) == s \in active /\ (Role[s] = "ADMIN" => totp)

\* The form of StaffApp, CounterApp and AdminApp.
Login(t, s, totp) ==
  /\ MaySignIn(s, totp)
  /\ staffCookie' = [staffCookie EXCEPT ![t] = s]
  /\ UNCHANGED <<status, overdue, guests, accounts, active, batch>>

\* Or the token runs out.
Logout(t) ==
  /\ staffCookie[t] # Nobody
  /\ staffCookie' = [staffCookie EXCEPT ![t] = Nobody]
  /\ UNCHANGED <<status, overdue, guests, accounts, active, batch>>

\* fromToken and the roles of the route: read again for every request.
StaffOf(t, roles) ==
  {s \in active : staffCookie[t] = s /\ Role[s] \in roles \cup {"ADMIN"}}

-----------------------------------------------------------------------------
(* The end of the event and what is kept of its guests.                     *)

ChangeState(to) ==
  /\ <<status, to>> \in {<<"DRAFT", "OPEN">>, <<"OPEN", "FINISHED">>}
  /\ status' = to
  /\ UNCHANGED <<overdue, guests, bar, batch>>

\* Fault: the batch is taken from all rows.
Unforgotten_All == Rows \ Free

Unforgotten == {p \in Rows \ Free : ~people[p].anonymized}

ReadBatch ==
  /\ status = "FINISHED" /\ overdue /\ batch = {}
  /\ Unforgotten # {}
  /\ \E rows \in SUBSET Unforgotten :
       /\ Cardinality(rows) = BATCH_SIZE \/ (rows = Unforgotten /\ Cardinality(rows) < BATCH_SIZE)
       /\ batch' = rows
  /\ UNCHANGED <<status, overdue, guests, bar>>

Forgotten(row) ==
  [row EXCEPT !.nickname = Placeholder, !.phone = FALSE, !.session = FALSE, !.anonymized = TRUE]

Anonymize(p) ==
  /\ p \in batch /\ batch' = batch \ {p}
  /\ people' = [people EXCEPT ![p] = Forgotten(@)]
  /\ UNCHANGED <<status, overdue, join, cookie, bar>>

\* The update fails and the next row is tried, or the worker dies.
AnonymizeFails(rows) ==
  /\ rows # {} /\ rows \subseteq batch /\ batch' = batch \ rows
  /\ UNCHANGED <<status, overdue, guests, bar>>

SessionsNext ==
  \/ \E d \in Phone : \/ \E nickname \in Nickname : BeginJoin(d, nickname)
                      \/ CreateParticipant(d) \/ CookieExpires(d)
  \/ \E s \in Staff : CreateUser(s) \/ Deactivate(s)
  \/ \E t \in Terminal : \/ \E s \in Staff, totp \in BOOLEAN : Login(t, s, totp)
                         \/ Logout(t)
  \/ \E to \in {"OPEN", "FINISHED"} : ChangeState(to)
  \/ ReadBatch
  \/ \E p \in Rows : Anonymize(p)
  \/ \E rows \in SUBSET Rows : AnonymizeFails(rows)

=============================================================================
