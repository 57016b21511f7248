----------------------------- MODULE Invoicing -----------------------------
(***************************************************************************)
(* Fiscal documents: InvoicingService.processPending takes a batch of the  *)
(* invoices still owed, claims each one, asks the certified provider for   *)
(* the document and records the answer.  The scheduler starts the job      *)
(* every 30 s with a concurrency of 4, so executions overlap whenever one  *)
(* takes longer than that.                                                 *)
(***************************************************************************)
EXTENDS Integers, FiniteSets

CONSTANTS
  Order,
  Worker,        \* executions of the job that may overlap
  MaxAttempts,   \* MAX_ATTEMPTS
  BatchSize,     \* BATCH_SIZE
  MaxCrashes,
  NoOrder

ASSUME AttemptsAssumption == MaxAttempts \in Nat \ {0} /\ BatchSize \in Nat \ {0}
ASSUME CrashAssumption == MaxCrashes \in Nat
ASSUME OrderAssumption == IsFiniteSet(Order)
ASSUME NoOrderAssumption == NoOrder \notin Order

VARIABLES
  status,      \* invoices.status, "NONE" while there is no row
  attempts,    \* invoices.attempts
  createdAt,   \* invoices.created_at, as the place of the row in that order
  documents,   \* orders for which the provider holds a document
  worker,
  crashes      \* so far

rows == <<status, attempts, createdAt>>
vars == <<rows, documents, worker, crashes>>

InvoiceStatuses == {"PENDING", "ISSUED", "FAILED"}

\* A row as findMany returned it; attempts is not read again.
Snapshot == [order : Order, attempts : Nat]

Steps == {"idle", "claiming", "issuing", "issued", "refused"}

\* batch: rows of the batch not yet reached.  order, attempts: the one at hand.
WorkerStates == [step : Steps, batch : SUBSET Snapshot,
                 order : Order \cup {NoOrder}, attempts : Nat]

Idle == [step |-> "idle", batch |-> {}, order |-> NoOrder, attempts |-> 0]

At(w, step) == worker[w].step = step

Init ==
  /\ status = [o \in Order |-> "NONE"]
  /\ attempts = [o \in Order |-> 0]
  /\ createdAt = [o \in Order |-> 0]
  /\ documents = {}
  /\ worker = [w \in Worker |-> Idle]
  /\ crashes = 0

Invoiced == {o \in Order : status[o] # "NONE"}

\* settle() upserts the row; a row that is there is left as it is.
Enqueue(o) ==
  /\ status[o] = "NONE"
  /\ status' = [status EXCEPT ![o] = "PENDING"]
  /\ createdAt' = [createdAt EXCEPT ![o] = Cardinality(Invoiced) + 1]
  /\ UNCHANGED <<attempts, documents, worker, crashes>>

\* Fault: the query forgets that attempts run out.
Due_Always(o) == status[o] = "PENDING"

Due(o) == status[o] = "PENDING" /\ attempts[o] < MaxAttempts

\* The oldest BatchSize of the rows that are due.
IsBatch(S) ==
  LET due == {o \in Order : Due(o)} IN
  /\ S \subseteq due
  /\ S = due \/ Cardinality(S) = BatchSize
  /\ Cardinality(S) <= BatchSize
  /\ \A o \in S, later \in due \ S : createdAt[o] < createdAt[later]

\* The loop over the rows of the batch that are left.
Loop(batch) ==
  IF batch = {} THEN Idle
  ELSE [step |-> "claiming", batch |-> batch, order |-> NoOrder, attempts |-> 0]

\* The job runs: findMany.
Fetch(w) ==
  /\ At(w, "idle")
  /\ \E S \in SUBSET Order :
       /\ S # {} /\ IsBatch(S)
       /\ worker' = [worker EXCEPT ![w] =
            Loop({[order |-> o, attempts |-> attempts[o]] : o \in S})]
  /\ UNCHANGED <<rows, documents, crashes>>

\* The loop takes the rows in the order of the query.
IsNext(w, row) ==
  /\ row \in worker[w].batch
  /\ \A other \in worker[w].batch : createdAt[row.order] <= createdAt[other.order]

\* Fault: the claim is not conditional on the attempts.
CanClaim_AnyAttempt(row) == status[row.order] = "PENDING"

\* The conditional update finds the row as the query saw it.
CanClaim(row) == status[row.order] = "PENDING" /\ attempts[row.order] = row.attempts

\* Fault: an attempt is not counted.
Claimed_NotCounted(o) == UNCHANGED attempts

Claimed(o) == attempts' = [attempts EXCEPT ![o] = @ + 1]

Claim(w, row) ==
  /\ At(w, "claiming") /\ IsNext(w, row) /\ CanClaim(row)
  /\ Claimed(row.order)
  /\ worker' = [worker EXCEPT ![w] =
       [step |-> "issuing", batch |-> @.batch \ {row},
        order |-> row.order, attempts |-> row.attempts]]
  /\ UNCHANGED <<status, createdAt, documents, crashes>>

\* claimed.count === 0: someone else has it, or it is done.
Skip(w, row) ==
  /\ At(w, "claiming") /\ IsNext(w, row) /\ ~CanClaim(row)
  /\ worker' = [worker EXCEPT ![w] = Loop(@.batch \ {row})]
  /\ UNCHANGED <<rows, documents, crashes>>

Answer(w, step) == worker' = [worker EXCEPT ![w].step = step]

\* The provider issues the document, or finds it by its Idempotency-Key.
ProviderIssues(w) ==
  /\ At(w, "issuing")
  /\ documents' = documents \cup {worker[w].order}
  /\ Answer(w, "issued")
  /\ UNCHANGED <<rows, crashes>>

\* It does, but issue() throws: the 15 s pass first, the answer is lost or has
\* no number.  An update that fails after the answer comes to the same.
AnswerLost(w) ==
  /\ At(w, "issuing")
  /\ documents' = documents \cup {worker[w].order}
  /\ Answer(w, "refused")
  /\ UNCHANGED <<rows, crashes>>

\* Fault: an answer without a document number is taken for a success.
ProviderRefuses_Unread(w) ==
  /\ At(w, "issuing")
  /\ Answer(w, "issued")
  /\ UNCHANGED <<rows, documents, crashes>>

ProviderRefuses(w) ==
  /\ At(w, "issuing")
  /\ Answer(w, "refused")
  /\ UNCHANGED <<rows, documents, crashes>>

\* Both updates are by id alone: what the row has become meanwhile is not asked.
Record(w, outcome) ==
  /\ status' = [status EXCEPT ![worker[w].order] = outcome]
  /\ worker' = [worker EXCEPT ![w] = Loop(@.batch)]
  /\ UNCHANGED <<attempts, createdAt, documents, crashes>>

RecordIssued(w) == At(w, "issued") /\ Record(w, "ISSUED")

\* Fault: one attempt too few.
AfterRefusal_Early(seen) == IF seen + 2 >= MaxAttempts THEN "FAILED" ELSE "PENDING"

AfterRefusal(seen) == IF seen + 1 >= MaxAttempts THEN "FAILED" ELSE "PENDING"

RecordRefused(w) == At(w, "refused") /\ Record(w, AfterRefusal(worker[w].attempts))

\* The process dies, or the database fails and the error ends the job.
Crash(w) ==
  /\ crashes < MaxCrashes /\ ~At(w, "idle")
  /\ crashes' = crashes + 1
  /\ worker' = [worker EXCEPT ![w] = Idle]
  /\ UNCHANGED <<rows, documents>>

Continue(w) ==
  \/ \E row \in worker[w].batch : Claim(w, row) \/ Skip(w, row)
  \/ ProviderIssues(w) \/ AnswerLost(w) \/ ProviderRefuses(w)
  \/ RecordIssued(w) \/ RecordRefused(w)

Next ==
  \/ \E o \in Order : Enqueue(o)
  \/ \E w \in Worker : Fetch(w) \/ Continue(w) \/ Crash(w)

Spec == Init /\ [][Next]_vars

(* Fairness.  An execution that has begun runs on: the request to the       *)
(* provider ends within 15 s one way or another.  While invoices are due    *)
(* the scheduler, every 30 s, starts an execution that finds them.  Nothing *)
(* makes the provider issue.                                                *)
Fairness ==
  /\ \A w \in Worker : WF_vars(Continue(w))
  /\ WF_vars(\E w \in Worker : Fetch(w))

LiveSpec == Spec /\ Fairness

-----------------------------------------------------------------------------
(* What invoicing promises.                                                *)

\* w has claimed a row and not recorded the outcome.
Working(w) == worker[w].step \in {"issuing", "issued", "refused"}

(* The shape of the state.  In particular no invoice is ever claimed more   *)
(* than MAX_ATTEMPTS times, whatever overlaps or dies.                      *)
TypeOK ==
  /\ status \in [Order -> InvoiceStatuses \cup {"NONE"}]
  /\ attempts \in [Order -> 0..MaxAttempts]
  /\ createdAt \in [Order -> Nat]
  /\ documents \subseteq Order
  /\ worker \in [Worker -> WorkerStates]
  /\ \A w \in Worker : Working(w) => worker[w].order \in Order
  /\ crashes \in 0..MaxCrashes

(* "Claimed with a conditional update, so two workers never issue the same  *)
(* document twice" (invoicing.service.ts:54): what the claim does give.     *)
(* Two executions may be at the provider for one invoice, but on different  *)
(* attempts, so each attempt is one request and MAX_ATTEMPTS bounds them.   *)
AttemptsDiffer ==
  \A v, w \in Worker :
    v # w /\ Working(v) /\ Working(w) /\ worker[v].order = worker[w].order
      => worker[v].attempts # worker[w].attempts

(* L6: an invoice that says ISSUED has its document at the provider.        *)
IssuedMeansDocument == \A o \in Order : status[o] = "ISSUED" => o \in documents

(* "Only give up after MAX_ATTEMPTS" (invoicing.service.ts:93): an invoice  *)
(* that says FAILED, which is what raises the alarm, was tried that often.  *)
FailedMeansGivenUp ==
  \A o \in Order : status[o] = "FAILED" => attempts[o] = MaxAttempts

(* Whatever fails, an invoice does not stay in the queue for ever with      *)
(* attempts to spare: not behind others in the batch, not behind a worker   *)
(* that died.                                                               *)
EveryInvoiceIsTried ==
  \A o \in Order :
    status[o] = "PENDING" ~> (status[o] # "PENDING" \/ attempts[o] = MaxAttempts)

=============================================================================
