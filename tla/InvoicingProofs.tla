-------------------------- MODULE InvoicingProofs --------------------------
(***************************************************************************)
(* What the queue of fiscal documents keeps however many executions of the *)
(* job overlap, and whatever the provider answers or a crash interrupts.   *)
(***************************************************************************)
EXTENDS Invoicing, FiniteSetTheorems, TLAPS

USE DEF At, Working

(* An attempt that is under way has been counted on the row.                *)
AttemptsCounted ==
  \A w \in Worker : Working(w) => worker[w].attempts < attempts[worker[w].order]

(* Who waits with an answer that has a number knows of a document.          *)
AnsweredMeansDocument ==
  \A w \in Worker : At(w, "issued") => worker[w].order \in documents

(* What an execution read of a row was due then.                            *)
BatchWasDue ==
  \A w \in Worker : \A row \in worker[w].batch : row.attempts < MaxAttempts

QueueInv ==
  /\ TypeOK
  /\ AttemptsCounted
  /\ AttemptsDiffer
  /\ BatchWasDue
  /\ AnsweredMeansDocument
  /\ IssuedMeansDocument
  /\ FailedMeansGivenUp

LEMMA IdleType == Idle \in WorkerStates /\ ~(Idle.step \in {"issuing", "issued", "refused"})
BY DEF Idle, WorkerStates, Steps

LEMMA QueueInit == Init => QueueInv
<1> SUFFICES ASSUME Init PROVE QueueInv
  OBVIOUS
<1>1. worker \in [Worker -> WorkerStates] /\ \A w \in Worker : worker[w] = Idle
  BY IdleType DEF Init
<1>2. TypeOK
  BY <1>1, AttemptsAssumption, CrashAssumption, IdleType DEF Init, TypeOK, InvoiceStatuses
<1> QED
  BY <1>1, <1>2 DEF Init, QueueInv, AttemptsCounted, AttemptsDiffer, BatchWasDue,
    AnsweredMeansDocument, IssuedMeansDocument, FailedMeansGivenUp, Idle

(* An execution that holds no claim cannot break what is said of claims.    *)
LEMMA FreeWorkerStep ==
  ASSUME QueueInv, NEW w \in Worker, NEW r \in WorkerStates,
         r.step \in {"idle", "claiming"},
         \A row \in r.batch : row.attempts < MaxAttempts,
         worker' = [worker EXCEPT ![w] = r], UNCHANGED <<attempts, documents>>
  PROVE  /\ worker' \in [Worker -> WorkerStates]
         /\ \A v \in Worker : Working(v)' => v # w /\ worker'[v] = worker[v]
         /\ \A v \in Worker : Working(v)' => worker'[v].order \in Order
         /\ AttemptsCounted' /\ AttemptsDiffer' /\ BatchWasDue'
         /\ AnsweredMeansDocument'
<1>1. /\ worker' \in [Worker -> WorkerStates] /\ worker'[w] = r
      /\ \A v \in Worker \ {w} : worker'[v] = worker[v]
  BY DEF QueueInv, TypeOK
<1> QED
  BY <1>1 DEF QueueInv, TypeOK, AttemptsCounted, AttemptsDiffer, BatchWasDue,
    AnsweredMeansDocument

LEMMA LoopType ==
  ASSUME NEW batch \in SUBSET Snapshot
  PROVE  /\ Loop(batch) \in WorkerStates
         /\ Loop(batch).step \in {"idle", "claiming"}
         /\ \A row \in Loop(batch).batch : row \in batch
BY DEF Loop, Idle, WorkerStates, Steps

LEMMA WorkerType ==
  ASSUME TypeOK, NEW w \in Worker
  PROVE  /\ worker[w] \in WorkerStates
         /\ worker[w].batch \subseteq Snapshot
         /\ worker[w].attempts \in Nat
         /\ Working(w) => worker[w].order \in Order
BY DEF TypeOK, WorkerStates

LEMMA QueueStep ==
  ASSUME QueueInv, [Next]_vars
  PROVE  QueueInv'
<1> USE DEF QueueInv
<1> DEFINE Claims == AttemptsCounted /\ AttemptsDiffer /\ BatchWasDue
                       /\ AnsweredMeansDocument
<1>1. ASSUME NEW o \in Order, Enqueue(o) PROVE QueueInv'
  <2>1. /\ createdAt' \in [Order -> Nat] /\ status' \in [Order -> InvoiceStatuses \cup {"NONE"}]
    <3>1. Cardinality(Invoiced) \in Nat
      BY OrderAssumption, FS_Subset, FS_CardinalityType DEF Invoiced
    <3> QED
      BY <1>1, <3>1 DEF Enqueue, TypeOK, InvoiceStatuses
  <2> QED
    BY <1>1, <2>1 DEF Enqueue, TypeOK, AttemptsCounted, AttemptsDiffer, BatchWasDue,
      AnsweredMeansDocument, IssuedMeansDocument, FailedMeansGivenUp
<1>2. ASSUME NEW w \in Worker, Fetch(w) PROVE QueueInv'
  <2>1. PICK S \in SUBSET Order :
          /\ IsBatch(S)
          /\ worker' = [worker EXCEPT ![w] =
               Loop({[order |-> o, attempts |-> attempts[o]] : o \in S})]
    BY <1>2 DEF Fetch
  <2> DEFINE batch == {[order |-> o, attempts |-> attempts[o]] : o \in S}
             r == Loop(batch)
  <2>2. \A o \in S : attempts[o] \in Nat /\ attempts[o] < MaxAttempts
    BY <2>1, AttemptsAssumption DEF IsBatch, Due, TypeOK
  <2>3. batch \in SUBSET Snapshot /\ \A row \in batch : row.attempts < MaxAttempts
    BY <2>2 DEF Snapshot
  <2>4. /\ r \in WorkerStates /\ r.step \in {"idle", "claiming"}
        /\ \A row \in r.batch : row.attempts < MaxAttempts
    <3> HIDE DEF batch
    <3> QED
      BY <2>3, LoopType
  <2>5. worker' = [worker EXCEPT ![w] = r] /\ UNCHANGED <<rows, documents, crashes>>
    BY <1>2, <2>1 DEF Fetch
  <2>6. worker' \in [Worker -> WorkerStates] /\ Claims'
        /\ \A v \in Worker : Working(v)' => worker'[v].order \in Order
    <3> HIDE DEF r
    <3> QED
      BY <2>4, <2>5, FreeWorkerStep DEF rows
  <2> QED
    BY <2>5, <2>6 DEF rows, TypeOK, IssuedMeansDocument, FailedMeansGivenUp
<1>3. ASSUME NEW w \in Worker, NEW row \in worker[w].batch, Claim(w, row) PROVE QueueInv'
  <2> DEFINE o == row.order
             r == [step |-> "issuing", batch |-> worker[w].batch \ {row},
                   order |-> o, attempts |-> row.attempts]
  <2>1. /\ o \in Order /\ row.attempts \in Nat /\ row.attempts < MaxAttempts
        /\ attempts[o] = row.attempts
    <3>1. row \in Snapshot
      BY WorkerType
    <3> QED
      BY <1>3, <3>1 DEF Claim, CanClaim, Snapshot, BatchWasDue
  <2>2. /\ worker' = [worker EXCEPT ![w] = r]
        /\ attempts' = [attempts EXCEPT ![o] = @ + 1]
        /\ UNCHANGED <<status, createdAt, documents, crashes>>
    BY <1>3 DEF Claim, Claimed
  <2>3. r \in WorkerStates
    BY <2>1, WorkerType DEF WorkerStates, Steps
  <2>4. /\ worker' \in [Worker -> WorkerStates] /\ worker'[w] = r
        /\ \A v \in Worker \ {w} : worker'[v] = worker[v]
    BY <2>2, <2>3 DEF TypeOK
  <2>5. attempts' \in [Order -> 0..MaxAttempts]
        /\ attempts'[o] = row.attempts + 1
        /\ \A p \in Order \ {o} : attempts'[p] = attempts[p]
    BY <2>1, <2>2, AttemptsAssumption DEF TypeOK
  <2>6. TypeOK'
    BY <2>1, <2>2, <2>4, <2>5 DEF TypeOK
  <2>7. AttemptsCounted'
    <3> SUFFICES ASSUME NEW v \in Worker, Working(v)'
                 PROVE  worker'[v].attempts < attempts'[worker'[v].order]
      BY DEF AttemptsCounted
    <3>1. CASE v = w
      BY <2>1, <2>4, <2>5, <3>1
    <3>2. CASE v # w
      <4>1. /\ worker'[v] = worker[v] /\ worker[v].order \in Order
            /\ worker[v].attempts < attempts[worker[v].order]
            /\ worker[v].attempts \in Nat /\ attempts[worker[v].order] \in Nat
        BY <2>4, <3>2, WorkerType DEF AttemptsCounted, TypeOK
      <4> QED
        BY <2>1, <2>5, <4>1
    <3> QED
      BY <3>1, <3>2
  <2>8. AttemptsDiffer'
    <3>1. ASSUME NEW v \in Worker \ {w}, Working(v), worker[v].order = o
          PROVE  worker[v].attempts # row.attempts
      <4>1. worker[v].attempts < attempts[o] /\ worker[v].attempts \in Nat
        BY <3>1, WorkerType DEF AttemptsCounted
      <4> QED
        BY <2>1, <4>1
    <3> QED
      BY <2>4, <3>1 DEF AttemptsDiffer
  <2>9. BatchWasDue' /\ AnsweredMeansDocument'
    BY <2>2, <2>4 DEF BatchWasDue, AnsweredMeansDocument
  <2>10. IssuedMeansDocument' /\ FailedMeansGivenUp'
    <3>1. status[o] = "PENDING"
      BY <1>3 DEF Claim, CanClaim
    <3> QED
      BY <2>2, <2>5, <3>1 DEF IssuedMeansDocument, FailedMeansGivenUp
  <2> QED
    BY <2>6, <2>7, <2>8, <2>9, <2>10
<1>4. ASSUME NEW w \in Worker, NEW row \in worker[w].batch, Skip(w, row) PROVE QueueInv'
  <2> DEFINE r == Loop(worker[w].batch \ {row})
  <2>1. worker' = [worker EXCEPT ![w] = r] /\ UNCHANGED <<rows, documents, crashes>>
    BY <1>4 DEF Skip
  <2>2. worker[w].batch \ {row} \in SUBSET Snapshot
    BY WorkerType
  <2>3. /\ r \in WorkerStates /\ r.step \in {"idle", "claiming"}
        /\ \A x \in r.batch : x.attempts < MaxAttempts
    BY <2>2, LoopType DEF BatchWasDue
  <2>4. worker' \in [Worker -> WorkerStates] /\ Claims'
        /\ \A v \in Worker : Working(v)' => worker'[v].order \in Order
    <3> HIDE DEF r
    <3> QED
      BY <2>1, <2>3, FreeWorkerStep DEF rows
  <2> QED
    BY <2>1, <2>4 DEF rows, TypeOK, IssuedMeansDocument, FailedMeansGivenUp
<1>5. ASSUME NEW w \in Worker, ProviderIssues(w) \/ AnswerLost(w) \/ ProviderRefuses(w)
      PROVE  QueueInv'
  <2>1. PICK step \in {"issued", "refused"} :
          /\ worker' = [worker EXCEPT ![w].step = step]
          /\ step = "issued" => documents' = documents \cup {worker[w].order}
    BY <1>5 DEF ProviderIssues, AnswerLost, ProviderRefuses, Answer
  <2>2. /\ At(w, "issuing") /\ UNCHANGED <<rows, crashes>>
        /\ documents \subseteq documents'
        /\ documents' \subseteq documents \cup {worker[w].order}
    BY <1>5 DEF ProviderIssues, AnswerLost, ProviderRefuses
  <2>3. worker[w].order \in Order
    BY <2>2, WorkerType
  <2>4. /\ worker' \in [Worker -> WorkerStates]
        /\ worker'[w].step = step
        /\ \A v \in Worker : /\ worker'[v].order = worker[v].order
                             /\ worker'[v].attempts = worker[v].attempts
                             /\ worker'[v].batch = worker[v].batch
        /\ \A v \in Worker \ {w} : worker'[v].step = worker[v].step
    BY <2>1 DEF TypeOK, WorkerStates, Steps
  <2>5. \A v \in Worker : Working(v)' = Working(v)
    BY <2>2, <2>4
  <2>6. TypeOK'
    BY <2>2, <2>3, <2>4, <2>5 DEF rows, TypeOK
  <2>7. AttemptsCounted' /\ AttemptsDiffer' /\ BatchWasDue'
    BY <2>2, <2>4, <2>5 DEF rows, AttemptsCounted, AttemptsDiffer, BatchWasDue
  <2>8. AnsweredMeansDocument' /\ IssuedMeansDocument' /\ FailedMeansGivenUp'
    BY <2>1, <2>2, <2>4 DEF rows, AnsweredMeansDocument, IssuedMeansDocument,
      FailedMeansGivenUp
  <2> QED
    BY <2>6, <2>7, <2>8
<1>6. ASSUME NEW w \in Worker, RecordIssued(w) \/ RecordRefused(w) PROVE QueueInv'
  <2> DEFINE o == worker[w].order
             outcome == IF At(w, "issued") THEN "ISSUED"
                        ELSE AfterRefusal(worker[w].attempts)
             r == Loop(worker[w].batch)
  <2>1. /\ Working(w)
        /\ status' = [status EXCEPT ![o] = outcome]
        /\ worker' = [worker EXCEPT ![w] = r]
        /\ UNCHANGED <<attempts, createdAt, documents, crashes>>
    BY <1>6 DEF RecordIssued, RecordRefused, Record
  <2>2. /\ r \in WorkerStates /\ r.step \in {"idle", "claiming"}
        /\ \A x \in r.batch : x.attempts < MaxAttempts
    BY WorkerType, LoopType DEF BatchWasDue
  <2>3. worker' \in [Worker -> WorkerStates] /\ Claims'
        /\ \A v \in Worker : Working(v)' => worker'[v].order \in Order
    <3> HIDE DEF r
    <3> QED
      BY <2>1, <2>2, FreeWorkerStep
  <2>4. o \in Order /\ worker[w].attempts \in Nat
    BY <2>1, WorkerType
  <2>5. /\ status' \in [Order -> InvoiceStatuses \cup {"NONE"}] /\ status'[o] = outcome
        /\ \A p \in Order \ {o} : status'[p] = status[p]
    BY <2>1, <2>4 DEF TypeOK, AfterRefusal, InvoiceStatuses
  <2>6. outcome = "ISSUED" => o \in documents
    BY DEF AfterRefusal, AnsweredMeansDocument
  <2>7. outcome = "FAILED" => attempts[o] = MaxAttempts
    <3>1. outcome = "FAILED" => worker[w].attempts + 1 >= MaxAttempts
      BY DEF AfterRefusal
    <3>2. worker[w].attempts < attempts[o] /\ attempts[o] \in 0..MaxAttempts
      BY <2>1, <2>4 DEF AttemptsCounted, TypeOK
    <3> QED
      BY <2>4, <3>1, <3>2, AttemptsAssumption
  <2> QED
    BY <2>1, <2>3, <2>5, <2>6, <2>7 DEF TypeOK, IssuedMeansDocument, FailedMeansGivenUp
<1>7. ASSUME NEW w \in Worker, Crash(w) PROVE QueueInv'
  <2>1. /\ worker' = [worker EXCEPT ![w] = Idle] /\ UNCHANGED <<rows, documents>>
        /\ crashes < MaxCrashes /\ crashes' = crashes + 1
    BY <1>7 DEF Crash
  <2>2. Idle.step = "idle" /\ Idle.batch = {}
    BY DEF Idle
  <2>3. worker' \in [Worker -> WorkerStates] /\ Claims'
        /\ \A v \in Worker : Working(v)' => worker'[v].order \in Order
    BY <2>1, <2>2, IdleType, FreeWorkerStep DEF rows
  <2>4. crashes' \in 0..MaxCrashes
    BY <2>1, CrashAssumption DEF TypeOK
  <2> QED
    BY <2>1, <2>3, <2>4 DEF rows, TypeOK, IssuedMeansDocument, FailedMeansGivenUp
<1>8. CASE UNCHANGED vars
  BY <1>8 DEF vars, rows, TypeOK, AttemptsCounted, AttemptsDiffer, BatchWasDue,
    AnsweredMeansDocument, IssuedMeansDocument, FailedMeansGivenUp
<1> QED
  BY <1>1, <1>2, <1>3, <1>4, <1>5, <1>6, <1>7, <1>8 DEF Next, Continue

LEMMA QueueCorrect == Spec => []QueueInv
<1>1. QueueInv /\ [Next]_vars => QueueInv'
  BY QueueStep
<1> QED
  BY <1>1, QueueInit, PTL DEF Spec

(* The state keeps its shape: no invoice is claimed more than MAX_ATTEMPTS  *)
(* times, however many executions of the job overlap or die.                *)
THEOREM TypeCorrect == Spec => []TypeOK
<1>1. QueueInv => TypeOK
  BY DEF QueueInv
<1> QED
  BY <1>1, QueueCorrect, PTL

(* Executions at the provider for one invoice make different attempts       *)
(* (invoicing.service.ts:54).                                               *)
THEOREM ClaimsAreExclusive == Spec => []AttemptsDiffer
<1>1. QueueInv => AttemptsDiffer
  BY DEF QueueInv
<1> QED
  BY <1>1, QueueCorrect, PTL

(* L6: an invoice that says ISSUED has its document at the provider.        *)
THEOREM IssuedHaveDocuments == Spec => []IssuedMeansDocument
<1>1. QueueInv => IssuedMeansDocument
  BY DEF QueueInv
<1> QED
  BY <1>1, QueueCorrect, PTL

(* An invoice is given up only when its attempts are used up                *)
(* (invoicing.service.ts:93).                                               *)
THEOREM GivenUpOnlyAtTheEnd == Spec => []FailedMeansGivenUp
<1>1. QueueInv => FailedMeansGivenUp
  BY DEF QueueInv
<1> QED
  BY <1>1, QueueCorrect, PTL

=============================================================================
