--------------------------- MODULE JobQueueProofs ---------------------------
(* Proofs about JobQueue, for every number of Jobs, printers, clients and  *)
(* cancellers, every budget, TTL and clock, and both stores.               *)
EXTENDS JobQueue, TLAPS

-----------------------------------------------------------------------------
(* What the updates of a Job's record do to it. *)

(* A record made from a Job by setting state, attempts and error is a Job. *)
LEMMA JobUpdate ==
  ASSUME NEW a \in Job, NEW s \in JobState, NEW n \in Nat, NEW e \in LastError
  PROVE  /\ [a EXCEPT !.state = s] \in Job
         /\ [a EXCEPT !.attempts = n] \in Job
         /\ [a EXCEPT !.state = s, !.lastError = e] \in Job
         /\ [a EXCEPT !.state = s, !.attempts = n, !.lastError = e] \in Job
         /\ [a EXCEPT !.attempts = n, !.lastError = e, !.state = s] \in Job
BY DEF Job

LEMMA FreshIsJob ==
  ASSUME NEW j \in JobId, NEW c \in PrintCall
  PROVE  Fresh(j, c) \in Job
BY DEF Fresh, Job, PrintCall, JobState, LastError

LEMMA ReactivatedIsJob ==
  ASSUME NEW a \in Job
  PROVE  Reactivated(a) \in Job
BY JobUpdate DEF Reactivated, JobState, LastError

LEMMA AfterAttemptIsJob ==
  ASSUME NEW p \in Printer, next[p] \in Job, outcome[p] \in Outcome
  PROVE  AfterAttempt(p) \in Job
BY JobUpdate DEF AfterAttempt, Outcome, JobState, LastError

-----------------------------------------------------------------------------
(* Types, and the phases they rest on: the record of an idle worker is     *)
(* NoJob, so a step that updates it must be the step of a busy one.        *)

LEMMA TypeInit == Init => TypeOK /\ Phases
BY TimeAssumption DEF Init, TypeOK, Phases, DaemonPhase, WorkerPC, Outcome, Working

LEMMA TypeClient ==
  ASSUME TypeOK, Phases, NEW c \in Client, RequestArrive(c) \/ ClientStep(c)
  PROVE  TypeOK' /\ Phases'
<1>1. CASE RequestArrive(c)
  BY <1>1 DEF TypeOK, Phases, RequestArrive, workerVars, historyVars, PrintCall
<1>2. CASE ClientStep(c)
  <2>1. InFlight(c) /\ call[c] \in PrintCall
    BY <1>2 DEF ClientStep, Enqueue, EnqueueIdempotent, RequestFails, InFlight, TypeOK
  <2>2. CASE Create(c)
    <3>1. PICK j \in JobId : Accepted(j, Fresh(j, call[c])) /\ Answer(c, j)
      BY <2>2 DEF Create
    <3>. QED
      BY <2>1, <3>1, FreshIsJob
      DEF TypeOK, Phases, Accepted, Answer, workerVars, boundVars
  <2>3. CASE Reject(c)
    BY <2>3 DEF TypeOK, Phases, Reject, workerVars, boundVars, historyVars
  <2>4. ASSUME NEW j \in FindByKey(call[c].key, call[c].at),
               IF MayReactivate(jobs[j]) THEN Accepted(j, Reactivated(jobs[j]))
               ELSE UNCHANGED <<jobs, calls, delivered>>,
               Answer(c, j)
        PROVE  TypeOK' /\ Phases'
    <3>1. j \in JobId /\ jobs[j] \in Job
      BY <2>4 DEF FindByKey, Lowest, KeyMatches, Stored, TypeOK
    <3>2. CASE Accepted(j, Reactivated(jobs[j]))
      BY <2>4, <3>1, <3>2, ReactivatedIsJob
      DEF TypeOK, Phases, Accepted, Answer, workerVars, boundVars
    <3>3. CASE UNCHANGED <<jobs, calls, delivered>>
      BY <2>4, <3>1, <3>3 DEF TypeOK, Phases, Answer, workerVars, boundVars
    <3>. QED BY <2>4, <3>2, <3>3
  <2>. QED
    BY <1>2, <2>2, <2>3, <2>4
    DEF ClientStep, Enqueue, EnqueueIdempotent, RequestFails
<1>. QED BY <1>1, <1>2

LEMMA TypeWorker ==
  ASSUME TypeOK, Phases, NEW p \in Printer, WorkerStep(p)
  PROVE  TypeOK' /\ Phases'
<1>. USE DEF workerVars, clientVars, boundVars, historyVars, WorkerGoes, WorkerPC, Working
<1>1. CASE WorkerCheck(p)
  BY <1>1 DEF TypeOK, Phases, WorkerCheck
<1>2. CASE WorkerClaim(p)
  <2>1. PICK j \in JobId :
          /\ jobs[j] \in Job
          /\ jobs' = [jobs EXCEPT ![j] = [jobs[j] EXCEPT !.state = "running"]]
          /\ next' = [next EXCEPT ![p] = [jobs[j] EXCEPT !.state = "running"]]
    BY <1>2 DEF WorkerClaim, Lowest, Claimable, InState, Stored, TypeOK
  <2>2. [jobs[j] EXCEPT !.state = "running"] \in Job
    BY <2>1 DEF Job, JobState
  <2>. QED
    BY <1>2, <2>1, <2>2, NullAssumption DEF TypeOK, Phases, WorkerClaim
<1>3. CASE WorkerIdle(p)
  BY <1>3 DEF TypeOK, Phases, WorkerIdle
<1>4. CASE BeginAttempt(p)
  <2>1. next[p] \in Job
    BY <1>4 DEF TypeOK, Phases, BeginAttempt
  <2>2. next[p].attempts + 1 \in Nat /\ next[p].id \in JobId
    BY <2>1 DEF Job
  <2>3. [next[p] EXCEPT !.attempts = @ + 1] \in Job
    BY <2>1, <2>2 DEF Job
  <2>. QED
    BY <1>4, <2>2, <2>3, NullAssumption DEF TypeOK, Phases, BeginAttempt, FirstCopy, Outcome
<1>5. CASE Dial(p)
  BY <1>5 DEF TypeOK, Phases, Dial, Outcome
<1>6. CASE Write(p)
  <2>1. next[p] \in Job /\ next[p].id \in JobId
    BY <1>6 DEF TypeOK, Phases, Write, Job
  <2>. QED
    BY <1>6, <2>1 DEF TypeOK, Phases, Write, Outcome
<1>7. CASE SaveOutcome(p)
  <2>1. next[p] \in Job /\ next[p].id \in JobId /\ outcome[p] \in Outcome
    BY <1>7 DEF TypeOK, Phases, SaveOutcome, Job
  <2>2. AfterAttempt(p) \in Job
    BY <2>1, AfterAttemptIsJob
  <2>. QED
    BY <1>7, <2>1, <2>2 DEF TypeOK, Phases, SaveOutcome, Release, EndOfCall, Outcome
<1>8. CASE SaveFails(p)
  <2>1. next[p] \in Job /\ next[p].id \in JobId
    BY <1>8 DEF TypeOK, Phases, SaveFails, Job
  <2>. QED
    BY <1>8, <2>1 DEF TypeOK, Phases, SaveFails, Release, EndOfCall, Outcome
<1>9. CASE Backoff(p)
  BY <1>9 DEF TypeOK, Phases, Backoff, Release
<1>. QED
  BY <1>1, <1>2, <1>3, <1>4, <1>5, <1>6, <1>7, <1>8, <1>9 DEF WorkerStep

LEMMA TypeCanceller ==
  ASSUME TypeOK, Phases, NEW x \in Canceller, CancelGet(x) \/ CancelSave(x)
  PROVE  TypeOK' /\ Phases'
<1>. USE DEF workerVars, clientVars, boundVars, historyVars
<1>1. CASE CancelGet(x)
  <2>1. PICK j \in JobId :
          /\ jobs[j] \in Job
          /\ cancelling' = [cancelling EXCEPT ![x] = [jobs[j] EXCEPT !.state = "cancelled"]]
    BY <1>1 DEF CancelGet, InState, Stored, TypeOK
  <2>2. [jobs[j] EXCEPT !.state = "cancelled"] \in Job
    BY <2>1 DEF Job, JobState
  <2>. QED
    BY <1>1, <2>1, <2>2 DEF TypeOK, Phases, CancelGet
<1>2. CASE CancelSave(x)
  <2>1. cancelling[x] \in Job /\ cancelling[x].id \in JobId
    BY <1>2 DEF CancelSave, TypeOK, Job
  <2>. QED
    BY <1>2, <2>1 DEF TypeOK, Phases, CancelSave
<1>. QED BY <1>1, <1>2

(* The end of the process leaves the types alone and everyone idle. *)
LEMMA TypeProcessEnds ==
  ASSUME TypeOK, ProcessEnds, restarts' \in Nat
  PROVE  TypeOK' /\ Phases'
BY DEF TypeOK, Phases, ProcessEnds, WorkerPC, Outcome, DaemonPhase, Working

LEMMA TypeDaemon ==
  ASSUME TypeOK, Phases,
         DaemonStep \/ Signal \/ Crash \/ ReconcileFails \/ Tick
  PROVE  TypeOK' /\ Phases'
<1>. USE DEF workerVars, clientVars, boundVars, historyVars, DaemonPhase
<1>1. CASE ReconcileJob
  <2>1. PICK j \in JobId :
          /\ jobs[j] \in Job
          /\ jobs' = [jobs EXCEPT ![j] =
               [jobs[j] EXCEPT !.attempts = jobs[j].attempts + 1, !.lastError = "interrupted",
                  !.state = IF jobs[j].attempts + 1 < MaxAttempts THEN "pending" ELSE "failed"]]
    BY <1>1 DEF ReconcileJob, Lowest, InState, Stored, TypeOK
  <2>2. jobs[j].attempts + 1 \in Nat
    BY <2>1 DEF Job
  <2>3. [jobs[j] EXCEPT !.attempts = jobs[j].attempts + 1, !.lastError = "interrupted",
           !.state = IF jobs[j].attempts + 1 < MaxAttempts THEN "pending" ELSE "failed"] \in Job
    BY <2>1, <2>2 DEF Job, JobState, LastError
  <2>. QED
    BY <1>1, <2>1, <2>3 DEF TypeOK, Phases, ReconcileJob
<1>2. CASE StartWorkers
  BY <1>2 DEF TypeOK, Phases, StartWorkers, WorkerPC, Working
<1>3. CASE Drained \/ Deadline \/ Crash \/ ReconcileFails
  <2>1. ProcessEnds /\ restarts' \in Nat
    BY <1>3 DEF TypeOK, Drained, Deadline, Crash, ReconcileFails
  <2>. QED BY <2>1, TypeProcessEnds
<1>4. CASE Restart
  BY <1>4 DEF TypeOK, Phases, Restart
<1>5. CASE Signal
  BY <1>5 DEF TypeOK, Phases, Signal
<1>6. CASE Tick
  BY <1>6 DEF TypeOK, Phases, Tick
<1>. QED
  BY <1>1, <1>2, <1>3, <1>4, <1>5, <1>6 DEF DaemonStep

(* Every variable keeps its type, and a worker has a copy of a Job exactly *)
(* while it works on one.                                                  *)
THEOREM TypeCorrect == Spec => [](TypeOK /\ Phases)
<1>1. Init => TypeOK /\ Phases
  BY TypeInit
<1>2. TypeOK /\ Phases /\ [Next]_vars => TypeOK' /\ Phases'
  <2>1. CASE UNCHANGED vars
    BY <2>1 DEF vars, TypeOK, Phases
  <2>. QED
    BY <2>1, TypeClient, TypeWorker, TypeCanceller, TypeDaemon DEF Next
<1>. QED BY <1>1, <1>2, PTL DEF Spec

-----------------------------------------------------------------------------
(* Agreement of the copies.  The steps that change no copy and no Job are  *)
(* dealt with at once.                                                     *)

LEMMA CopiesQuiet ==
  ASSUME CopiesAgree, UNCHANGED <<jobs, next, cancelling>>
  PROVE  CopiesAgree'
BY DEF CopiesAgree, Stored

LEMMA CopiesIdle ==
  ASSUME CopiesAgree, UNCHANGED jobs,
         next' = [p \in Printer |-> NoJob], cancelling' = [x \in Canceller |-> NoJob]
  PROVE  CopiesAgree'
BY DEF CopiesAgree, Stored

(* A pending or failed Job is in no worker's hands. *)
LEMMA OnlyRunningHeld ==
  ASSUME CopiesAgree, NEW j \in JobId, jobs[j].state \in {"pending", "failed", "done"}
  PROVE  \A p \in Printer : next[p] # NoJob => next[p].id # j
BY DEF CopiesAgree

(* No Job is in the hands of two workers: its record names one printer. *)
LEMMA HeldOnce ==
  ASSUME CopiesAgree, NEW p \in Printer, NEW q \in Printer,
         next[p] # NoJob, next[q] # NoJob, next[p].id = next[q].id
  PROVE  p = q
BY DEF CopiesAgree, Agree

LEMMA CopiesClient ==
  ASSUME TypeOK, Phases, CopiesAgree, NEW c \in Client, RequestArrive(c) \/ ClientStep(c)
  PROVE  CopiesAgree'
<1>. USE DEF workerVars, boundVars, historyVars
<1>1. CASE RequestArrive(c)
  BY <1>1, CopiesQuiet DEF RequestArrive
<1>2. CASE ClientStep(c)
  <2>1. InFlight(c) /\ call[c] \in PrintCall
    BY <1>2 DEF ClientStep, Enqueue, EnqueueIdempotent, RequestFails, InFlight, TypeOK
  <2>2. CASE Create(c)
    <3>1. PICK j \in JobId \ Stored : Accepted(j, Fresh(j, call[c])) /\ Answer(c, j)
      BY <2>2 DEF Create
    <3>2. jobs' = [jobs EXCEPT ![j] = Fresh(j, call[c])] /\ UNCHANGED <<next, cancelling>>
      BY <3>1 DEF Accepted, Answer
    <3>3. Fresh(j, call[c]) \in Job /\ Fresh(j, call[c]).id = j
      BY <2>1, FreshIsJob DEF Fresh
    <3>4. Stored' = Stored \cup {j} /\ \A k \in Stored : jobs'[k] = jobs[k]
      BY <3>2, <3>3, NullAssumption DEF Stored, TypeOK
    <3>. QED
      BY <3>2, <3>3, <3>4 DEF CopiesAgree, TypeOK
  <2>3. CASE Reject(c)
    BY <2>3, CopiesQuiet DEF Reject
  <2>4. ASSUME NEW j \in FindByKey(call[c].key, call[c].at),
               IF MayReactivate(jobs[j]) THEN Accepted(j, Reactivated(jobs[j]))
               ELSE UNCHANGED <<jobs, calls, delivered>>,
               Answer(c, j)
        PROVE  CopiesAgree'
    <3>1. j \in Stored /\ jobs[j] \in Job /\ UNCHANGED <<next, cancelling>>
      BY <2>4 DEF FindByKey, Lowest, KeyMatches, Stored, TypeOK, Answer
    <3>2. CASE MayReactivate(jobs[j])
      <4>1. jobs' = [jobs EXCEPT ![j] = Reactivated(jobs[j])] /\ jobs[j].state = "failed"
        BY <2>4, <3>2 DEF Accepted, MayReactivate
      <4>2. Reactivated(jobs[j]) \in Job /\ Agree(Reactivated(jobs[j]), jobs[j])
        BY <3>1, ReactivatedIsJob DEF Reactivated, Agree, Job
      <4>3. Stored' = Stored
        BY <3>1, <4>1, <4>2, NullAssumption DEF Stored, TypeOK
      <4>4. \A p \in Printer : next[p] # NoJob => next[p].id # j
        BY <3>1, <4>1, OnlyRunningHeld DEF Stored
      <4>. QED
        BY <3>1, <4>1, <4>2, <4>3, <4>4 DEF CopiesAgree, Agree, TypeOK, Stored
    <3>3. CASE ~MayReactivate(jobs[j])
      BY <2>4, <3>1, <3>3, CopiesQuiet
    <3>. QED BY <3>2, <3>3
  <2>. QED
    BY <1>2, <2>2, <2>3, <2>4
    DEF ClientStep, Enqueue, EnqueueIdempotent, RequestFails
<1>. QED BY <1>1, <1>2

LEMMA CopiesWorker ==
  ASSUME TypeOK, Phases, CopiesAgree, NEW p \in Printer, WorkerStep(p)
  PROVE  CopiesAgree'
<1>1. CASE WorkerCheck(p) \/ WorkerIdle(p) \/ Dial(p) \/ Write(p)
  BY <1>1, CopiesQuiet DEF WorkerCheck, WorkerIdle, Dial, Write
<1>2. CASE WorkerClaim(p)
  <2>1. PICK j \in Stored :
          /\ jobs[j] \in Job /\ jobs[j].state = "pending" /\ jobs[j].printer = p
          /\ jobs' = [jobs EXCEPT ![j] = [jobs[j] EXCEPT !.state = "running"]]
          /\ next' = [next EXCEPT ![p] = [jobs[j] EXCEPT !.state = "running"]]
          /\ UNCHANGED cancelling
    BY <1>2 DEF WorkerClaim, Lowest, Claimable, InState, Stored, TypeOK
  <2> DEFINE claimed == [jobs[j] EXCEPT !.state = "running"]
  <2>2. claimed \in Job /\ Agree(claimed, jobs[j]) /\ claimed.state = "running"
    BY <2>1 DEF Job, JobState, Agree
  <2>3. Stored' = Stored
    BY <2>1, <2>2, NullAssumption DEF Stored, TypeOK
  <2>4. \A q \in Printer : next[q] # NoJob => next[q].id # j
    BY <2>1, OnlyRunningHeld DEF Stored
  <2>. QED
    BY <2>1, <2>2, <2>3, <2>4 DEF CopiesAgree, Agree, TypeOK, Stored
<1>3. CASE BeginAttempt(p)
  <2>1. next[p] \in Job /\ next[p] # NoJob
    BY <1>3 DEF BeginAttempt, TypeOK, Phases, Working
  <2> DEFINE counted == [next[p] EXCEPT !.attempts = @ + 1]
  <2>2. next' = [next EXCEPT ![p] = counted] /\ UNCHANGED <<jobs, cancelling>>
    BY <1>3 DEF BeginAttempt
  <2>3. Agree(counted, next[p]) /\ counted.state = next[p].state
    BY <2>1 DEF Agree, Job
  <2>. QED
    BY <2>1, <2>2, <2>3 DEF CopiesAgree, Agree, TypeOK, Stored
<1>4. CASE SaveOutcome(p)
  <2>1. /\ next[p] \in Job /\ next[p] # NoJob /\ outcome[p] \in Outcome
        /\ jobs' = [jobs EXCEPT ![next[p].id] = AfterAttempt(p)]
        /\ next' = [next EXCEPT ![p] = IF Done(p) THEN NoJob ELSE next[p]]
        /\ UNCHANGED cancelling
    BY <1>4 DEF SaveOutcome, Release, clientVars, boundVars, historyVars, TypeOK, Phases, Working
  <2>2. /\ AfterAttempt(p) \in Job /\ Agree(AfterAttempt(p), next[p])
        /\ ~Done(p) => AfterAttempt(p).state = "running"
    <3>1. AfterAttempt(p) \in Job
      BY <2>1, AfterAttemptIsJob
    <3>2. Agree(AfterAttempt(p), next[p])
      BY <2>1 DEF AfterAttempt, Agree, Job
    <3>3. ~Done(p) => AfterAttempt(p) = next[p]
      BY DEF AfterAttempt, Done
    <3>. QED BY <2>1, <3>1, <3>2, <3>3 DEF CopiesAgree
  <2>3. Stored' = Stored
    BY <2>1, <2>2, NullAssumption DEF Stored, TypeOK, CopiesAgree
  <2>4. \A q \in Printer \ {p} : next[q] # NoJob => next[q].id # next[p].id
    BY <2>1, HeldOnce
  <2>. QED
    BY <2>1, <2>2, <2>3, <2>4, NullAssumption DEF CopiesAgree, Agree, TypeOK, Stored
<1>5. CASE SaveFails(p) \/ Backoff(p)
  <2>1. UNCHANGED <<jobs, cancelling>> /\ (UNCHANGED next \/ next' = [next EXCEPT ![p] = NoJob])
    BY <1>5 DEF SaveFails, Backoff, Release
  <2>. QED
    BY <2>1, NullAssumption DEF CopiesAgree, TypeOK, Stored
<1>. QED
  BY <1>1, <1>2, <1>3, <1>4, <1>5 DEF WorkerStep

LEMMA CopiesCanceller ==
  ASSUME TypeOK, Phases, CopiesAgree, NEW x \in Canceller, CancelGet(x) \/ CancelSave(x)
  PROVE  CopiesAgree'
<1>1. CASE CancelGet(x)
  <2>1. PICK j \in Stored :
          /\ jobs[j] \in Job
          /\ cancelling' = [cancelling EXCEPT ![x] = [jobs[j] EXCEPT !.state = "cancelled"]]
          /\ UNCHANGED <<jobs, next>>
    BY <1>1 DEF CancelGet, InState, Stored, TypeOK, workerVars
  <2> DEFINE copy == [jobs[j] EXCEPT !.state = "cancelled"]
  <2>2. copy \in Job /\ Agree(copy, jobs[j]) /\ copy.state = "cancelled"
    BY <2>1 DEF Job, JobState, Agree
  <2>. QED
    BY <2>1, <2>2, NullAssumption DEF CopiesAgree, TypeOK, Stored
<1>2. CASE CancelSave(x)
  <2>1. CASE UNCHANGED jobs
    BY <1>2, <2>1, NullAssumption DEF CancelSave, CopiesAgree, TypeOK, Stored, workerVars
  <2>2. CASE jobs' = [jobs EXCEPT ![cancelling[x].id] = cancelling[x]]
    <3>1. /\ cancelling[x] \in Job /\ cancelling[x] # NoJob
          /\ cancelling' = [cancelling EXCEPT ![x] = NoJob] /\ UNCHANGED next
      BY <1>2 DEF CancelSave, TypeOK, workerVars
    <3>2. Stored' = Stored
      BY <2>2, <3>1, NullAssumption DEF Stored, TypeOK, CopiesAgree
    <3>. QED
      BY <2>2, <3>1, <3>2, NullAssumption DEF CopiesAgree, Agree, TypeOK, Stored
  <2>. QED BY <1>2, <2>1, <2>2 DEF CancelSave
<1>. QED BY <1>1, <1>2

LEMMA CopiesDaemon ==
  ASSUME TypeOK, Phases, CopiesAgree,
         DaemonStep \/ Signal \/ Crash \/ ReconcileFails \/ Tick
  PROVE  CopiesAgree'
<1>1. CASE ReconcileJob
  <2>1. PICK j \in Stored :
          /\ jobs[j] \in Job
          /\ jobs' = [jobs EXCEPT ![j] =
               [jobs[j] EXCEPT !.attempts = jobs[j].attempts + 1, !.lastError = "interrupted",
                  !.state = IF jobs[j].attempts + 1 < MaxAttempts THEN "pending" ELSE "failed"]]
    BY <1>1 DEF ReconcileJob, Lowest, InState, Stored, TypeOK
  <2>2. /\ \A p \in Printer : next'[p] = NoJob
        /\ \A x \in Canceller : cancelling'[x] = NoJob
    BY <1>1 DEF ReconcileJob, Phases, Working, workerVars
  <2>3. jobs'[j].id = j /\ \A k \in JobId \ {j} : jobs'[k] = jobs[k]
    BY <2>1 DEF CopiesAgree, TypeOK, Job, Stored
  <2>. QED
    BY <2>1, <2>2, <2>3 DEF CopiesAgree, Stored
<1>2. CASE StartWorkers \/ Signal \/ Tick
  BY <1>2, CopiesQuiet DEF StartWorkers, Signal, Tick, workerVars
<1>3. CASE Drained \/ Deadline \/ Crash \/ ReconcileFails
  BY <1>3, CopiesIdle DEF Drained, Deadline, Crash, ReconcileFails, ProcessEnds
<1>4. CASE Restart
  <2>1. /\ \A p \in Printer : next'[p] = NoJob
        /\ \A x \in Canceller : cancelling'[x] = NoJob
    BY <1>4 DEF Restart, Phases, Working, workerVars
  <2>2. \A j \in Stored' : jobs'[j] = jobs[j] /\ j \in Stored
    BY <1>4 DEF Restart, Stored
  <2>. QED BY <2>1, <2>2 DEF CopiesAgree
<1>. QED
  BY <1>1, <1>2, <1>3, <1>4 DEF DaemonStep

(* What the proofs below start from. *)
Grounded == TypeOK /\ Phases /\ CopiesAgree

(* Every copy that will be saved over the Store is a copy of the Job it    *)
(* replaces.                                                               *)
THEOREM CopiesCorrect == Spec => []Grounded
<1>1. Init => CopiesAgree
  BY NullAssumption DEF Init, CopiesAgree, Stored
<1>2. TypeOK /\ Phases /\ CopiesAgree /\ [Next]_vars => CopiesAgree'
  <2>1. CASE UNCHANGED vars
    BY <2>1, CopiesQuiet DEF vars
  <2>. QED
    BY <2>1, CopiesClient, CopiesWorker, CopiesCanceller, CopiesDaemon DEF Next
<1>. QED
  BY <1>1, <1>2, TypeCorrect, PTL DEF Spec, Grounded

(* No Job is processed by two workers, or for a printer that is not its own. *)
THEOREM OneWorker == Spec => []OneWorkerPerJob
<1>1. Grounded => OneWorkerPerJob
  BY HeldOnce DEF Grounded, CopiesAgree, OneWorkerPerJob, Holds
<1>. QED BY <1>1, CopiesCorrect, PTL

-----------------------------------------------------------------------------
(* The retry budget.  It is not inductive: a running Job's next call is    *)
(* inside the budget because the Store's attempts lag the calls by at most *)
(* one, and because a worker that goes on has counted every call.          *)
Budget == RetryBudget /\ AttemptsDurable

(* Steps that count nothing and send no worker into another attempt. *)
LEMMA BudgetQuiet ==
  ASSUME Budget, UNCHANGED <<jobs, calls>>,
         \A p \in Printer : next'[p] # NoJob =>
           next'[p] = next[p] /\ (wpc'[p] \in {"attempt", "backoff"} => wpc'[p] = wpc[p])
  PROVE  Budget'
BY DEF Budget, RetryBudget, AttemptsDurable, Stored

LEMMA BudgetClient ==
  ASSUME Grounded, Budget, NEW c \in Client, RequestArrive(c) \/ ClientStep(c)
  PROVE  Budget'
<1>. USE DEF workerVars, boundVars, historyVars, Grounded
<1>1. CASE RequestArrive(c)
  BY <1>1, BudgetQuiet DEF RequestArrive
<1>2. CASE ClientStep(c)
  <2>1. InFlight(c) /\ call[c] \in PrintCall
    BY <1>2 DEF ClientStep, Enqueue, EnqueueIdempotent, RequestFails, InFlight, TypeOK
  (* A Job enters the pending state unheld, with nothing counted. *)
  <2>2. ASSUME NEW j \in JobId, NEW job \in Job, Accepted(j, job),
               job.state = "pending", job.attempts = 0, Answer(c, j),
               \A p \in Printer : next[p] # NoJob => next[p].id # j
        PROVE  Budget'
    <3>1. \A k \in Stored' \ {j} : k \in Stored /\ jobs'[k] = jobs[k] /\ calls'[k] = calls[k]
      BY <2>2 DEF Accepted, Stored, TypeOK
    <3>2. jobs'[j] = job /\ calls'[j] = 0 /\ UNCHANGED <<next, wpc>>
      BY <2>2 DEF Accepted, Answer, TypeOK
    <3>3. RetryBudget'
      BY <2>2, BudgetAssumption DEF Accepted, TypeOK, Budget, RetryBudget
    <3>4. \A p \in Printer : next[p] # NoJob =>
            next[p].id \in JobId \ {j} /\ next[p].id \in Stored
      BY <2>2 DEF CopiesAgree, Stored
    <3>5. \A k \in JobId \ {j} : jobs'[k] = jobs[k] /\ calls'[k] = calls[k]
      BY <2>2 DEF Accepted, TypeOK
    <3>. QED
      BY <2>2, <3>1, <3>2, <3>3, <3>4, <3>5, BudgetAssumption
      DEF Budget, AttemptsDurable
  <2>3. CASE Create(c)
    <3>1. PICK j \in JobId \ Stored : Accepted(j, Fresh(j, call[c])) /\ Answer(c, j)
      BY <2>3 DEF Create
    <3>2. Fresh(j, call[c]) \in Job
      BY <2>1, FreshIsJob
    <3>3. \A p \in Printer : next[p] # NoJob => next[p].id # j
      BY <3>1 DEF CopiesAgree
    <3>4. Fresh(j, call[c]).state = "pending" /\ Fresh(j, call[c]).attempts = 0
      BY DEF Fresh
    <3>. QED BY <2>2, <3>1, <3>2, <3>3, <3>4
  <2>4. CASE Reject(c)
    BY <2>4, BudgetQuiet DEF Reject
  <2>5. ASSUME NEW j \in FindByKey(call[c].key, call[c].at),
               IF MayReactivate(jobs[j]) THEN Accepted(j, Reactivated(jobs[j]))
               ELSE UNCHANGED <<jobs, calls, delivered>>,
               Answer(c, j)
        PROVE  Budget'
    <3>1. j \in JobId /\ jobs[j] \in Job
      BY <2>5 DEF FindByKey, Lowest, KeyMatches, Stored, TypeOK
    <3>2. CASE MayReactivate(jobs[j])
      <4>1. Accepted(j, Reactivated(jobs[j])) /\ jobs[j].state = "failed"
        BY <2>5, <3>2 DEF MayReactivate
      <4>2. /\ Reactivated(jobs[j]) \in Job /\ Reactivated(jobs[j]).state = "pending"
            /\ Reactivated(jobs[j]).attempts = 0
        BY <3>1, ReactivatedIsJob DEF Reactivated, Job
      <4>3. \A p \in Printer : next[p] # NoJob => next[p].id # j
        BY <3>1, <4>1, OnlyRunningHeld
      <4>. QED BY <2>2, <2>5, <3>1, <4>1, <4>2, <4>3
    <3>3. CASE ~MayReactivate(jobs[j])
      BY <2>5, <3>3, BudgetQuiet DEF Answer
    <3>. QED BY <3>2, <3>3
  <2>. QED
    BY <1>2, <2>3, <2>4, <2>5
    DEF ClientStep, Enqueue, EnqueueIdempotent, RequestFails
<1>. QED BY <1>1, <1>2

LEMMA BudgetWorker ==
  ASSUME Grounded, Budget, NEW p \in Printer, WorkerStep(p)
  PROVE  Budget'
<1>. USE DEF Grounded, workerVars, clientVars, boundVars, historyVars
<1>1. CASE WorkerCheck(p) \/ WorkerIdle(p)
  BY <1>1, BudgetQuiet DEF WorkerCheck, WorkerIdle, WorkerGoes, TypeOK
<1>2. CASE Dial(p) \/ Write(p)
  <2>1. UNCHANGED <<jobs, calls, next>>
    BY <1>2 DEF Dial, Write
  <2>2. \A q \in Printer : wpc'[q] \in {"attempt", "backoff"} => wpc'[q] = wpc[q]
    BY <1>2 DEF Dial, Write, WorkerGoes, TypeOK
  <2>. QED BY <2>1, <2>2, BudgetQuiet
<1>3. CASE WorkerClaim(p)
  <2>1. PICK j \in Stored :
          /\ jobs[j] \in Job /\ jobs[j].state = "pending"
          /\ jobs' = [jobs EXCEPT ![j] = [jobs[j] EXCEPT !.state = "running"]]
          /\ next' = [next EXCEPT ![p] = [jobs[j] EXCEPT !.state = "running"]]
    BY <1>3 DEF WorkerClaim, Lowest, Claimable, InState, Stored, TypeOK
  <2> DEFINE claimed == [jobs[j] EXCEPT !.state = "running"]
  <2>2. /\ claimed \in Job /\ claimed.id = j /\ claimed.state = "running"
        /\ claimed.attempts = jobs[j].attempts /\ jobs[j].attempts \in Nat
    BY <2>1 DEF Job, JobState, CopiesAgree
  <2>3. calls[j] <= claimed.attempts /\ claimed.attempts < MaxAttempts
    BY <2>1, <2>2 DEF Budget, AttemptsDurable
  <2>4. \A q \in Printer : next[q] # NoJob => next[q].id # j
    BY <2>1, OnlyRunningHeld DEF Stored
  <2>5. UNCHANGED calls /\ wpc' = [wpc EXCEPT ![p] = "attempt"] /\ calls[j] \in Nat
    BY <1>3, <2>1 DEF WorkerClaim, WorkerGoes, TypeOK, Stored
  <2>6. /\ Stored' = Stored /\ jobs'[j] = claimed
        /\ \A k \in JobId \ {j} : jobs'[k] = jobs[k]
    BY <2>1, <2>2, NullAssumption DEF Stored, TypeOK
  <2>7. /\ next'[p] = claimed /\ wpc'[p] = "attempt"
        /\ \A q \in Printer \ {p} : next'[q] = next[q] /\ wpc'[q] = wpc[q]
    BY <2>1, <2>5 DEF TypeOK
  <2>8. \A q \in Printer : next[q] # NoJob => next[q].id \in JobId \ {j}
    BY <2>4 DEF CopiesAgree, Stored
  <2>9. claimed.attempts <= MaxAttempts /\ calls[j] <= claimed.attempts + 1
    BY <2>2, <2>3, <2>5, BudgetAssumption
  <2> HIDE DEF claimed
  <2>10. \A k \in Stored' :
           /\ jobs'[k].state = "pending" =>
                calls'[k] <= jobs'[k].attempts /\ jobs'[k].attempts < MaxAttempts
           /\ jobs'[k].state = "running" =>
                calls'[k] <= jobs'[k].attempts + 1 /\ jobs'[k].attempts < MaxAttempts
    BY <2>2, <2>3, <2>5, <2>6, <2>9 DEF Budget, AttemptsDurable, Stored
  <2>. QED
    BY <2>2, <2>3, <2>5, <2>6, <2>7, <2>8, <2>9, <2>10 DEF Budget, RetryBudget, AttemptsDurable
<1>4. CASE BeginAttempt(p)
  <2>1. next[p] \in Job /\ next[p] # NoJob
    BY <1>4 DEF BeginAttempt, TypeOK, Phases, Working
  <2> DEFINE counted == [next[p] EXCEPT !.attempts = @ + 1]
             j == next[p].id
  <2>2. /\ next' = [next EXCEPT ![p] = counted] /\ calls' = [calls EXCEPT ![j] = @ + 1]
        /\ wpc[p] = "attempt" /\ UNCHANGED jobs
        /\ wpc'[p] \in {"dial", "save"} /\ \A q \in Printer \ {p} : wpc'[q] = wpc[q]
    BY <1>4 DEF BeginAttempt, WorkerGoes, TypeOK
  <2>3. counted.id = j /\ counted.attempts = next[p].attempts + 1 /\ next[p].attempts \in Nat
    BY <2>1 DEF Job
  <2>4. j \in JobId /\ calls[j] \in Nat /\ calls'[j] = calls[j] + 1
    BY <2>1, <2>2 DEF Job, TypeOK
  <2>5. /\ calls[j] <= next[p].attempts /\ next[p].attempts < MaxAttempts
        /\ jobs[j].state = "running" => jobs[j].attempts = next[p].attempts
    BY <2>1, <2>2 DEF Budget, AttemptsDurable
  <2>6. calls'[j] <= counted.attempts /\ counted.attempts <= MaxAttempts
    BY <2>3, <2>4, <2>5, BudgetAssumption
  <2>7. jobs[j].state \in {"running", "cancelled"}
    BY <2>1 DEF CopiesAgree
  <2>8. \A q \in Printer \ {p} : next[q] # NoJob => next[q].id # j
    BY <2>1, HeldOnce
  <2>9. RetryBudget'
    BY <2>2, <2>3, <2>4, <2>6, BudgetAssumption DEF Budget, RetryBudget, TypeOK
  <2>10. \A k \in JobId \ {j} : calls'[k] = calls[k]
    BY <2>2 DEF TypeOK
  <2>11. next'[p] = counted /\ \A q \in Printer \ {p} : next'[q] = next[q]
    BY <2>2 DEF TypeOK
  <2>12. \A k \in Stored' :
           /\ jobs'[k].state = "pending" =>
                calls'[k] <= jobs'[k].attempts /\ jobs'[k].attempts < MaxAttempts
           /\ jobs'[k].state = "running" =>
                calls'[k] <= jobs'[k].attempts + 1 /\ jobs'[k].attempts < MaxAttempts
    BY <2>2, <2>3, <2>4, <2>5, <2>6, <2>7, <2>10 DEF Budget, AttemptsDurable, Stored
  <2>13. \A q \in Printer : next[q] # NoJob => next[q].id \in JobId
    BY DEF CopiesAgree, Stored
  <2>. QED
    <3>. HIDE DEF counted
    <3>. QED
      BY <2>2, <2>3, <2>6, <2>8, <2>9, <2>10, <2>11, <2>12, <2>13 DEF Budget, AttemptsDurable
<1>5. CASE SaveOutcome(p)
  <2> DEFINE j == next[p].id
             saved == AfterAttempt(p)
  <2>1. /\ next[p] \in Job /\ next[p] # NoJob /\ outcome[p] \in Outcome
        /\ jobs' = [jobs EXCEPT ![j] = saved]
        /\ next' = [next EXCEPT ![p] = IF Done(p) THEN NoJob ELSE next[p]]
        /\ UNCHANGED calls
        /\ wpc'[p] = (IF Done(p) THEN "poll" ELSE "backoff")
        /\ \A q \in Printer \ {p} : wpc'[q] = wpc[q]
    BY <1>5 DEF SaveOutcome, Release, WorkerGoes, TypeOK, Phases, Working
  <2>2. saved \in Job
    BY <2>1, AfterAttemptIsJob
  <2>3. Done(p) => saved.state \in {"done", "failed"}
    BY <2>1 DEF AfterAttempt, Job
  <2>4. ~Done(p) => saved = next[p] /\ next[p].attempts < MaxAttempts /\ saved.state = "running"
    BY <2>1, BudgetAssumption DEF AfterAttempt, Done, Job, CopiesAgree
  <2>5. calls[j] <= next[p].attempts /\ j \in JobId /\ j \in Stored /\ calls[j] \in Nat
        /\ next[p].attempts \in Nat
    BY <2>1 DEF Budget, AttemptsDurable, Job, CopiesAgree, TypeOK
  <2>6. \A q \in Printer \ {p} : next[q] # NoJob => next[q].id \in JobId \ {j}
    BY <2>1, HeldOnce DEF CopiesAgree, Stored
  <2>7. Stored' = Stored /\ jobs'[j] = saved /\ \A k \in JobId \ {j} : jobs'[k] = jobs[k]
    BY <2>1, <2>2, <2>5, NullAssumption DEF Stored, TypeOK
  <2>8. /\ next'[p] = (IF Done(p) THEN NoJob ELSE next[p])
        /\ \A q \in Printer \ {p} : next'[q] = next[q]
    BY <2>1 DEF TypeOK
  <2>9. \A k \in Stored' :
           /\ jobs'[k].state = "pending" =>
                calls'[k] <= jobs'[k].attempts /\ jobs'[k].attempts < MaxAttempts
           /\ jobs'[k].state = "running" =>
                calls'[k] <= jobs'[k].attempts + 1 /\ jobs'[k].attempts < MaxAttempts
    <3>1. CASE Done(p)
      BY <2>1, <2>3, <2>7, <3>1 DEF Budget, AttemptsDurable, Stored
    <3>2. CASE ~Done(p)
      BY <2>1, <2>4, <2>5, <2>7, <3>2 DEF Budget, AttemptsDurable, Stored
    <3>. QED BY <3>1, <3>2
  <2>. QED
    <3>. HIDE DEF saved
    <3>. QED
      BY <2>1, <2>4, <2>5, <2>6, <2>7, <2>8, <2>9 DEF Budget, RetryBudget, AttemptsDurable
<1>6. CASE SaveFails(p)
  <2>1. UNCHANGED <<jobs, calls>> /\ next' = [next EXCEPT ![p] = NoJob]
        /\ \A q \in Printer \ {p} : wpc'[q] = wpc[q]
    BY <1>6 DEF SaveFails, Release, WorkerGoes, TypeOK
  <2>. QED
    BY <2>1, BudgetQuiet DEF TypeOK
<1>7. CASE Backoff(p)
  <2>1. UNCHANGED <<jobs, calls>> /\ (UNCHANGED next \/ next' = [next EXCEPT ![p] = NoJob])
        /\ wpc[p] = "backoff" /\ \A q \in Printer \ {p} : wpc'[q] = wpc[q]
    BY <1>7 DEF Backoff, Release, WorkerGoes, TypeOK
  <2>. QED
    BY <2>1, NullAssumption DEF Budget, RetryBudget, AttemptsDurable, Stored, TypeOK
<1>. QED
  BY <1>1, <1>2, <1>3, <1>4, <1>5, <1>6, <1>7 DEF WorkerStep

LEMMA BudgetCanceller ==
  ASSUME Grounded, Budget, NEW x \in Canceller, CancelGet(x) \/ CancelSave(x)
  PROVE  Budget'
<1>1. UNCHANGED <<wpc, next, calls>>
  BY DEF CancelGet, CancelSave, workerVars, historyVars
<1>2. CASE UNCHANGED jobs
  BY <1>1, <1>2, BudgetQuiet
<1>3. CASE CancelSave(x) /\ jobs' # jobs
  <2> DEFINE j == cancelling[x].id
  <2>1. /\ cancelling[x] # NoJob /\ cancelling[x].state = "cancelled" /\ j \in JobId
        /\ jobs' = [jobs EXCEPT ![j] = cancelling[x]] /\ j \in Stored
    BY <1>3 DEF CancelSave, Grounded, CopiesAgree, Stored
  <2>2. jobs'[j].state = "cancelled" /\ \A k \in JobId \ {j} : jobs'[k] = jobs[k]
    BY <2>1 DEF Grounded, TypeOK
  <2>3. \A k \in Stored' \ {j} : k \in Stored
    BY <2>2 DEF Stored
  <2>4. \A p \in Printer : next[p] # NoJob => next[p].id \in JobId
    BY DEF Grounded, CopiesAgree, Stored
  <2>. QED
    BY <1>1, <2>2, <2>3, <2>4 DEF Budget, RetryBudget, AttemptsDurable, Stored
<1>. QED BY <1>2, <1>3 DEF CancelGet

LEMMA BudgetDaemon ==
  ASSUME Grounded, Budget, DaemonStep \/ Signal \/ Crash \/ ReconcileFails \/ Tick
  PROVE  Budget'
<1>. USE DEF Grounded, workerVars, clientVars, boundVars, historyVars
<1>1. CASE ReconcileJob
  <2>1. PICK j \in Stored :
          /\ jobs[j] \in Job /\ jobs[j].state = "running"
          /\ jobs' = [jobs EXCEPT ![j] =
               [jobs[j] EXCEPT !.attempts = jobs[j].attempts + 1, !.lastError = "interrupted",
                  !.state = IF jobs[j].attempts + 1 < MaxAttempts THEN "pending" ELSE "failed"]]
    BY <1>1 DEF ReconcileJob, Lowest, InState, Stored, TypeOK
  <2>2. UNCHANGED calls /\ \A p \in Printer : next'[p] = NoJob
    BY <1>1 DEF ReconcileJob, Phases, Working
  <2>3. /\ jobs'[j].attempts = jobs[j].attempts + 1 /\ jobs[j].attempts \in Nat
        /\ jobs'[j].state = IF jobs[j].attempts + 1 < MaxAttempts THEN "pending" ELSE "failed"
    BY <2>1 DEF Stored, TypeOK, Job
  <2>4. \A k \in Stored' \ {j} : k \in Stored /\ jobs'[k] = jobs[k]
    BY <2>1 DEF Stored, TypeOK
  <2>5. calls[j] <= jobs[j].attempts + 1
    BY <2>1 DEF Budget, AttemptsDurable
  <2>. QED
    BY <2>2, <2>3, <2>4, <2>5 DEF Budget, RetryBudget, AttemptsDurable
<1>2. CASE StartWorkers \/ Signal \/ Tick
  BY <1>2, BudgetQuiet DEF StartWorkers, Signal, Tick, Phases, Working, TypeOK
<1>3. CASE Drained \/ Deadline \/ Crash \/ ReconcileFails
  <2>1. UNCHANGED <<jobs, calls>> /\ \A p \in Printer : next'[p] = NoJob
    BY <1>3 DEF Drained, Deadline, Crash, ReconcileFails, ProcessEnds
  <2>. QED BY <2>1, BudgetQuiet
<1>4. CASE Restart
  <2>1. \A p \in Printer : next'[p] = NoJob
    BY <1>4 DEF Restart, Phases, Working
  <2>2. CASE UNCHANGED <<jobs, calls>>
    BY <2>1, <2>2, BudgetQuiet
  <2>3. CASE jobs' = [j \in JobId |-> NoJob] /\ calls' = [j \in JobId |-> 0]
    BY <2>1, <2>3, BudgetAssumption DEF Budget, RetryBudget, AttemptsDurable, Stored
  <2>. QED BY <1>4, <2>2, <2>3 DEF Restart
<1>. QED
  BY <1>1, <1>2, <1>3, <1>4 DEF DaemonStep

(* The Store lags behind the calls of Process by at most the one under way, *)
(* and a call begins only with budget left.                                 *)
THEOREM BudgetInvariant == Spec => []Budget
<1>1. Init => Budget
  BY BudgetAssumption, NullAssumption
  DEF Init, Budget, RetryBudget, AttemptsDurable, Stored
<1>2. Grounded /\ Budget /\ [Next]_vars => Budget'
  <2>1. CASE UNCHANGED vars
    BY <2>1, BudgetQuiet DEF vars
  <2>. QED
    BY <2>1, BudgetClient, BudgetWorker, BudgetCanceller, BudgetDaemon DEF Next
<1>. QED
  BY <1>1, <1>2, CopiesCorrect, PTL DEF Spec

(* Process is never called more than queue.max_attempts times for a Job     *)
(* between two requests, over any number of crashes, shutdowns, failed      *)
(* Saves and racing cancellations.                                          *)
THEOREM BudgetKept == Spec => []RetryBudget
<1>1. Budget => RetryBudget
  BY DEF Budget
<1>. QED
  BY <1>1, BudgetInvariant, PTL

-----------------------------------------------------------------------------
(* No running Job is forgotten while the daemon serves. *)

LEMMA LimboStep ==
  ASSUME Grounded, NoLimbo, Next
  PROVE  NoLimbo'
<1>. USE DEF Grounded, workerVars, clientVars, boundVars, historyVars
<1>. SUFFICES ASSUME daemon' = "serving"
     PROVE  NoLimbo'
  BY DEF NoLimbo
<1>1. ASSUME UNCHANGED <<daemon, abandoned, next>>,
             \A j \in InState("running")' : j \in InState("running")
      PROVE  NoLimbo'
  BY <1>1 DEF NoLimbo, Holds
<1>2. ASSUME NEW c \in Client, RequestArrive(c) \/ ClientStep(c)
      PROVE  NoLimbo'
  <2>1. UNCHANGED <<daemon, abandoned, next>>
    BY <1>2 DEF RequestArrive, ClientStep, Enqueue, EnqueueIdempotent, RequestFails,
                Create, Answer, Reject
  <2>2. ASSUME NEW k \in JobId, NEW job, job.state = "pending", Accepted(k, job)
        PROVE  \A j \in InState("running")' : j \in InState("running")
    BY <2>2 DEF Accepted, InState, Stored, TypeOK
  <2>3. CASE UNCHANGED jobs
    BY <1>1, <2>1, <2>3 DEF InState, Stored
  <2>4. CASE Create(c)
    BY <1>1, <2>1, <2>2, <2>4 DEF Create, Fresh
  <2>5. ASSUME NEW j \in JobId, jobs[j] \in Job, Accepted(j, Reactivated(jobs[j]))
        PROVE  NoLimbo'
    <3>1. Reactivated(jobs[j]).state = "pending"
      BY <2>5 DEF Reactivated, Job
    <3>. QED BY <1>1, <2>1, <2>2, <2>5, <3>1
  <2>. QED
    BY <1>2, <2>3, <2>4, <2>5
    DEF RequestArrive, ClientStep, Enqueue, EnqueueIdempotent, RequestFails, Reject,
        FindByKey, Lowest, KeyMatches, Stored, TypeOK
<1>3. ASSUME NEW p \in Printer, WorkerStep(p)
      PROVE  NoLimbo'
  <2>1. daemon = "serving"
    BY <1>3 DEF WorkerStep, WorkerCheck, WorkerClaim, WorkerIdle, BeginAttempt, Dial, Write,
                SaveOutcome, SaveFails, Backoff
  <2>2. CASE WorkerCheck(p) \/ WorkerIdle(p) \/ Dial(p) \/ Write(p) \/ Backoff(p)
    BY <1>1, <2>1, <2>2
    DEF WorkerCheck, WorkerIdle, Dial, Write, Backoff, InState, Stored
  <2>3. CASE WorkerClaim(p)
    <3>1. PICK j \in Stored :
            /\ jobs[j] \in Job /\ jobs[j].state = "pending" /\ jobs[j].printer = p
            /\ jobs' = [jobs EXCEPT ![j] = [jobs[j] EXCEPT !.state = "running"]]
            /\ next' = [next EXCEPT ![p] = [jobs[j] EXCEPT !.state = "running"]]
      BY <2>3 DEF WorkerClaim, Lowest, Claimable, InState, Stored, TypeOK
    <3>2. next'[p].id = j /\ next'[p] # NoJob
      BY <3>1, NullAssumption DEF TypeOK, CopiesAgree, Job, JobState
    <3>3. wpc[p] = "claim" /\ next[p] = NoJob /\ UNCHANGED abandoned
      BY <2>3 DEF WorkerClaim, Phases, Working
    <3>. QED
      BY <2>1, <3>1, <3>2, <3>3 DEF NoLimbo, Holds, InState, Stored, TypeOK
  <2>4. CASE BeginAttempt(p)
    <3>1. next[p] \in Job /\ UNCHANGED <<jobs, abandoned>>
      BY <2>4 DEF BeginAttempt, TypeOK, Phases, Working
    <3>2. [next[p] EXCEPT !.attempts = @ + 1].id = next[p].id
          /\ [next[p] EXCEPT !.attempts = @ + 1] # NoJob
      <4>1. next[p].attempts + 1 \in Nat
        BY <3>1 DEF Job
      <4>. QED BY <3>1, <4>1, NullAssumption DEF Job
    <3>. QED
      BY <2>1, <2>4, <3>1, <3>2 DEF BeginAttempt, NoLimbo, Holds, InState, Stored, TypeOK
  <2>5. CASE SaveOutcome(p)
    <3>1. /\ next[p] \in Job /\ next[p] # NoJob /\ outcome[p] \in Outcome
          /\ next[p].id \in JobId
          /\ jobs' = [jobs EXCEPT ![next[p].id] = AfterAttempt(p)]
          /\ next' = [next EXCEPT ![p] = IF Done(p) THEN NoJob ELSE next[p]]
          /\ UNCHANGED abandoned
      BY <2>5 DEF SaveOutcome, Release, TypeOK, Phases, Working, Job
    <3>2. Done(p) => AfterAttempt(p).state # "running"
      BY <3>1 DEF AfterAttempt, Job
    <3>. QED
      BY <2>1, <3>1, <3>2 DEF NoLimbo, Holds, InState, Stored, TypeOK
  <2>6. CASE SaveFails(p)
    BY <2>1, <2>6 DEF SaveFails, Release, NoLimbo, Holds, InState, Stored, TypeOK
  <2>. QED
    BY <1>3, <2>2, <2>3, <2>4, <2>5, <2>6 DEF WorkerStep
<1>4. ASSUME NEW x \in Canceller, CancelGet(x) \/ CancelSave(x)
      PROVE  NoLimbo'
  <2>1. UNCHANGED <<daemon, abandoned, next>>
    BY <1>4 DEF CancelGet, CancelSave
  <2>2. \A j \in InState("running")' : j \in InState("running")
    BY <1>4 DEF CancelGet, CancelSave, CopiesAgree, InState, Stored, TypeOK
  <2>. QED BY <1>1, <2>1, <2>2
<1>5. CASE DaemonStep \/ Signal \/ Crash \/ ReconcileFails \/ Tick
  <2>1. CASE StartWorkers
    BY <2>1 DEF StartWorkers, Reconciled, NoLimbo, InState, Stored
  <2>2. CASE Tick
    BY <1>1, <2>2 DEF Tick, InState, Stored
  <2>. QED
    BY <1>5, <2>1, <2>2
    DEF DaemonStep, ReconcileJob, Drained, Deadline, Restart, Signal, Crash, ReconcileFails,
        ProcessEnds
<1>. QED BY <1>2, <1>3, <1>4, <1>5 DEF Next

(* While the daemon serves, a running Job has a worker that runs it, or was *)
(* given up by one whose Save failed.                                       *)
THEOREM NoJobInLimbo == Spec => []NoLimbo
<1>1. Init => NoLimbo
  BY DEF Init, NoLimbo
<1>2. Grounded /\ NoLimbo /\ [Next]_vars => NoLimbo'
  <2>1. CASE UNCHANGED vars
    BY <2>1 DEF vars, NoLimbo, Holds, InState, Stored
  <2>. QED BY <2>1, LimboStep
<1>. QED
  BY <1>1, <1>2, CopiesCorrect, PTL DEF Spec

-----------------------------------------------------------------------------
(* What a step can do to the Store. *)

(* The request of client c is stored as the new Job j. *)
Created(c, j) ==
  /\ InFlight(c) /\ call[c] \in PrintCall
  /\ jobs' = [jobs EXCEPT ![j] = Fresh(j, call[c])]
  /\ call[c].key \in Key => KeyMatches(call[c].key, call[c].at) = {}

(* Job j is rewritten in state, attempts and error only. *)
Rewritten(j) ==
  \E r \in Job : Agree(r, jobs[j]) /\ jobs' = [jobs EXCEPT ![j] = r]

StoreStep ==
  \/ UNCHANGED jobs
  \/ \E c \in Client : \E j \in JobId \ Stored : Created(c, j)
  \/ \E j \in Stored : Rewritten(j)
  \/ Store = "memory" /\ jobs' = [j \in JobId |-> NoJob]

LEMMA StoreStepKinds ==
  ASSUME Grounded, Grounded', [Next]_vars
  PROVE  StoreStep
<1>. USE DEF Grounded
(* A step that changes one stored Job, as agreement then shows, rewrites it. *)
<1>1. ASSUME NEW j \in Stored, NEW r \in Job, Agree(r, jobs[j]),
             jobs' = [jobs EXCEPT ![j] = r]
      PROVE  StoreStep
  BY <1>1 DEF StoreStep, Rewritten
<1>2. ASSUME NEW c \in Client, RequestArrive(c) \/ ClientStep(c)
      PROVE  StoreStep
  <2>1. CASE RequestArrive(c) \/ RequestFails(c) \/ Reject(c)
    BY <2>1 DEF RequestArrive, RequestFails, Reject, StoreStep
  <2>2. CASE Enqueue(c)
    <3>1. PICK j \in JobId \ Stored : Accepted(j, Fresh(j, call[c]))
      BY <2>2 DEF Enqueue, Create
    <3>2. Created(c, j)
      BY <2>2, <3>1, NullAssumption DEF Enqueue, Created, Accepted, InFlight, TypeOK
    <3>. QED BY <3>1, <3>2 DEF StoreStep
  <2>3. CASE EnqueueIdempotent(c)
    <3>1. CASE KeyMatches(call[c].key, call[c].at) = {} /\ Create(c)
      <4>1. PICK j \in JobId \ Stored : Accepted(j, Fresh(j, call[c]))
        BY <3>1 DEF Create
      <4>2. Created(c, j)
        BY <2>3, <3>1, <4>1 DEF EnqueueIdempotent, Created, Accepted, InFlight, TypeOK
      <4>. QED BY <4>1, <4>2 DEF StoreStep
    <3>2. CASE UNCHANGED jobs \/ Reject(c)
      BY <3>2 DEF StoreStep, Reject
    <3>3. ASSUME NEW j \in FindByKey(call[c].key, call[c].at), Accepted(j, Reactivated(jobs[j]))
          PROVE  StoreStep
      <4>1. j \in Stored /\ jobs[j] \in Job
        BY <3>3 DEF FindByKey, Lowest, KeyMatches, Stored, TypeOK
      <4>2. Reactivated(jobs[j]) \in Job /\ Agree(Reactivated(jobs[j]), jobs[j])
        BY <4>1, ReactivatedIsJob DEF Reactivated, Agree, Job
      <4>. QED BY <1>1, <3>3, <4>1, <4>2 DEF Accepted
    <3>. QED BY <2>3, <3>1, <3>2, <3>3 DEF EnqueueIdempotent
  <2>. QED BY <1>2, <2>1, <2>2, <2>3 DEF ClientStep
<1>3. ASSUME NEW p \in Printer, WorkerStep(p)
      PROVE  StoreStep
  <2>1. CASE WorkerClaim(p)
    <3>1. PICK j \in Stored :
            jobs[j] \in Job /\ jobs' = [jobs EXCEPT ![j] = [jobs[j] EXCEPT !.state = "running"]]
      BY <2>1 DEF WorkerClaim, Lowest, Claimable, InState, Stored, TypeOK
    <3>2. LET r == [jobs[j] EXCEPT !.state = "running"] IN r \in Job /\ Agree(r, jobs[j])
      BY <3>1 DEF Job, JobState, Agree
    <3>. QED BY <1>1, <3>1, <3>2
  <2>2. CASE SaveOutcome(p)
    <3>1. /\ next[p] \in Job /\ next[p] # NoJob /\ outcome[p] \in Outcome
          /\ jobs' = [jobs EXCEPT ![next[p].id] = AfterAttempt(p)]
      BY <2>2 DEF SaveOutcome, TypeOK, Phases, Working
    <3>2. AfterAttempt(p) \in Job /\ next[p].id \in Stored
      BY <3>1, AfterAttemptIsJob DEF CopiesAgree
    <3>3. Agree(AfterAttempt(p), next[p])
      BY <3>1 DEF AfterAttempt, Agree, Job
    <3>4. Agree(AfterAttempt(p), jobs[next[p].id])
      BY <3>1, <3>3 DEF CopiesAgree, Agree
    <3>. QED BY <1>1, <3>1, <3>2, <3>4
  <2>. QED
    BY <1>3, <2>1, <2>2
    DEF WorkerStep, WorkerCheck, WorkerIdle, BeginAttempt, Dial, Write, SaveFails, Backoff,
        StoreStep
<1>4. ASSUME NEW x \in Canceller, CancelGet(x) \/ CancelSave(x)
      PROVE  StoreStep
  <2>1. CASE jobs' = [jobs EXCEPT ![cancelling[x].id] = cancelling[x]] /\ CancelSave(x)
    <3>1. cancelling[x] \in Job /\ cancelling[x] # NoJob
      BY <2>1 DEF CancelSave, TypeOK
    <3>2. cancelling[x].id \in Stored /\ Agree(cancelling[x], jobs[cancelling[x].id])
      BY <3>1 DEF CopiesAgree
    <3>. QED BY <1>1, <2>1, <3>1, <3>2
  <2>. QED BY <1>4, <2>1 DEF CancelGet, CancelSave, StoreStep
<1>5. CASE DaemonStep \/ Signal \/ Crash \/ ReconcileFails \/ Tick
  <2>1. CASE ReconcileJob
    <3>1. PICK j \in Stored :
            /\ jobs[j] \in Job
            /\ jobs' = [jobs EXCEPT ![j] =
                 [jobs[j] EXCEPT !.attempts = jobs[j].attempts + 1, !.lastError = "interrupted",
                    !.state = IF jobs[j].attempts + 1 < MaxAttempts THEN "pending" ELSE "failed"]]
      BY <2>1 DEF ReconcileJob, Lowest, InState, Stored, TypeOK
    <3> DEFINE r == [jobs[j] EXCEPT !.attempts = jobs[j].attempts + 1, !.lastError = "interrupted",
                       !.state = IF jobs[j].attempts + 1 < MaxAttempts THEN "pending" ELSE "failed"]
    <3>2. jobs[j].attempts + 1 \in Nat
      BY <3>1 DEF Job
    <3>3. r \in Job /\ Agree(r, jobs[j])
      BY <3>1, <3>2 DEF Job, JobState, LastError, Agree
    <3>. QED BY <1>1, <3>1, <3>3
  <2>2. CASE Restart
    BY <2>2, StoreAssumption DEF Restart, StoreStep
  <2>. QED
    BY <1>5, <2>1, <2>2
    DEF DaemonStep, StartWorkers, Drained, Deadline, Crash, Signal, ReconcileFails,
        ProcessEnds, Tick, StoreStep
<1>. QED BY <1>2, <1>3, <1>4, <1>5 DEF Next, vars, StoreStep

(* Only creation adds Jobs, and no step changes what a Job was created as. *)
LEMMA StoreStepFrame ==
  ASSUME Grounded, Grounded', StoreStep, NEW k \in Stored', k \in Stored
  PROVE  Agree(jobs'[k], jobs[k])
BY DEF Grounded, StoreStep, Created, Rewritten, Agree, Stored, TypeOK

(* Two Jobs carry the same key only if they were created more than the TTL *)
(* apart, however requests and the clock interleave.                       *)
THEOREM KeysSpaced == Spec => []KeySpacing
<1>1. Init => KeySpacing
  BY DEF Init, KeySpacing, Stored
<1>2. Grounded /\ Grounded' /\ KeySpacing /\ [Next]_vars => KeySpacing'
  <2>. SUFFICES ASSUME Grounded, Grounded', KeySpacing, StoreStep
                PROVE  KeySpacing'
    BY StoreStepKinds
  <2>1. CASE Stored' \subseteq Stored
    <3>1. \A k \in Stored' : Agree(jobs'[k], jobs[k])
      BY <2>1, StoreStepFrame
    <3>. QED BY <2>1, <3>1 DEF KeySpacing, Agree
  <2>2. ASSUME NEW c \in Client, NEW j \in JobId \ Stored, Created(c, j)
        PROVE  KeySpacing'
    <3>1. /\ jobs'[j].key = call[c].key /\ jobs'[j].createdAt = call[c].at
          /\ \A k \in JobId \ {j} : jobs'[k] = jobs[k]
      BY <2>2 DEF Created, Fresh, Grounded, TypeOK
    <3>2. ASSUME NEW k \in Stored, jobs[k].key = call[c].key, call[c].key \in Key
          PROVE  call[c].at > jobs[k].createdAt + TTL
      BY <2>2, <3>2 DEF Created, KeyMatches, Expired
    <3>3. \A k \in Stored' \ {j} : k \in Stored
      BY <3>1 DEF Stored
    <3>4. ASSUME NEW k \in Stored', NEW l \in Stored', k # l,
                 jobs'[k].key \in Key, jobs'[k].key = jobs'[l].key
          PROVE  \/ jobs'[k].createdAt > jobs'[l].createdAt + TTL
                 \/ jobs'[l].createdAt > jobs'[k].createdAt + TTL
      <4>1. CASE k = j
        BY <3>1, <3>2, <3>3, <3>4, <4>1 DEF Stored
      <4>2. CASE l = j
        BY <3>1, <3>2, <3>3, <3>4, <4>2 DEF Stored
      <4>3. CASE k # j /\ l # j
        BY <3>1, <3>3, <3>4, <4>3 DEF KeySpacing, Stored
      <4>. QED BY <4>1, <4>2, <4>3
    <3>. QED BY <3>4 DEF KeySpacing
  <2>3. CASE UNCHANGED jobs \/ jobs' = [j \in JobId |-> NoJob]
    BY <2>1, <2>3 DEF Stored
  <2>4. ASSUME NEW j \in Stored, Rewritten(j)
        PROVE  KeySpacing'
    BY <2>1, <2>4 DEF Rewritten, Stored, Grounded, TypeOK
  <2>. QED BY <2>2, <2>3, <2>4 DEF StoreStep
<1>. QED
  BY <1>1, <1>2, CopiesCorrect, PTL DEF Spec

(* Who is answered, and with what. *)
Answered(d) ==
  \E j \in Stored' :
    /\ reply'[d] = j
    /\ SameRequest(jobs'[j], call'[d]) /\ jobs'[j].key = call'[d].key

LEMMA ReplyFrame ==
  ASSUME Grounded, Next, NEW d \in Client, reply'[d] # NoReply
  PROVE  Answered(d) \/ (reply'[d] = reply[d] /\ call'[d] = call[d])
<1>. USE DEF Grounded, workerVars, clientVars, boundVars, historyVars
<1>1. ASSUME NEW c \in Client, RequestArrive(c)
      PROVE  reply'[d] = reply[d] /\ call'[d] = call[d]
  BY <1>1 DEF RequestArrive, TypeOK
<1>2. ASSUME NEW c \in Client, ClientStep(c)
      PROVE  Answered(d) \/ (reply'[d] = reply[d] /\ call'[d] = call[d])
  <2>1. InFlight(c) /\ call[c] \in PrintCall
    BY <1>2 DEF ClientStep, Enqueue, EnqueueIdempotent, RequestFails, InFlight, TypeOK
  <2>2. CASE Reject(c)
    BY <2>1, <2>2 DEF Reject, InFlight, TypeOK
  <2>3. CASE Create(c)
    <3>1. PICK j \in JobId \ Stored : Accepted(j, Fresh(j, call[c])) /\ Answer(c, j)
      BY <2>3 DEF Create
    <3>2. Fresh(j, call[c]) \in Job
      BY <2>1, FreshIsJob
    <3>3. jobs'[j] = Fresh(j, call[c]) /\ j \in Stored'
      BY <3>1, <3>2, NullAssumption DEF Accepted, Stored, TypeOK
    <3>4. SameRequest(jobs'[j], call[c]) /\ jobs'[j].key = call[c].key
      BY <3>3 DEF Fresh, SameRequest
    <3>. QED BY <3>1, <3>3, <3>4 DEF Answer, Answered, TypeOK
  <2>4. ASSUME NEW j \in FindByKey(call[c].key, call[c].at),
               SameRequest(jobs[j], call[c]),
               IF MayReactivate(jobs[j]) THEN Accepted(j, Reactivated(jobs[j]))
               ELSE UNCHANGED <<jobs, calls, delivered>>,
               Answer(c, j)
        PROVE  Answered(d) \/ (reply'[d] = reply[d] /\ call'[d] = call[d])
    <3>1. j \in Stored /\ jobs[j] \in Job /\ jobs[j].key = call[c].key
      BY <2>4 DEF FindByKey, Lowest, KeyMatches, Stored, TypeOK
    <3>2. Reactivated(jobs[j]) \in Job /\ Agree(Reactivated(jobs[j]), jobs[j])
      BY <3>1, ReactivatedIsJob DEF Reactivated, Agree, Job
    <3>3. jobs'[j] \in {jobs[j], Reactivated(jobs[j])} /\ j \in Stored'
      BY <2>4, <3>1, <3>2, NullAssumption DEF Accepted, Stored, TypeOK
    <3>4. SameRequest(jobs'[j], call[c]) /\ jobs'[j].key = call[c].key
      BY <2>4, <3>1, <3>2, <3>3 DEF Agree, SameRequest
    <3>. QED BY <2>4, <3>3, <3>4 DEF Answer, Answered, TypeOK
  <2>. QED
    BY <1>2, <2>2, <2>3, <2>4 DEF ClientStep, Enqueue, EnqueueIdempotent, RequestFails
<1>3. ASSUME NEW p \in Printer, WorkerStep(p)
      PROVE  UNCHANGED <<reply, call>>
  BY <1>3 DEF WorkerStep, WorkerCheck, WorkerClaim, WorkerIdle, BeginAttempt, Dial, Write,
              SaveOutcome, SaveFails, Backoff
<1>4. ASSUME NEW x \in Canceller, CancelGet(x) \/ CancelSave(x)
      PROVE  UNCHANGED <<reply, call>>
  BY <1>4 DEF CancelGet, CancelSave
<1>5. CASE DaemonStep \/ Signal \/ Crash \/ ReconcileFails \/ Tick
  <2>1. CASE ProcessEnds
    BY <2>1 DEF ProcessEnds, InFlight, TypeOK
  <2>2. CASE ReconcileJob \/ StartWorkers \/ Restart \/ Signal \/ Tick
    BY <2>2 DEF ReconcileJob, StartWorkers, Restart, Signal, Tick
  <2>. QED
    BY <1>5, <2>1, <2>2 DEF DaemonStep, Drained, Deadline, Crash, ReconcileFails
<1>. QED BY <1>1, <1>2, <1>3, <1>4, <1>5 DEF Next

(* The Job a client was answered with keeps standing for what it asked for. *)
THEOREM RepliesStand == Spec => []ReplyStands
<1>1. Init => ReplyStands
  BY DEF Init, ReplyStands
<1>2. Grounded /\ Grounded' /\ ReplyStands /\ [Next]_vars => ReplyStands'
  <2>. SUFFICES ASSUME Grounded, Grounded', ReplyStands, [Next]_vars, Store = "bbolt",
                       NEW d \in Client, reply'[d] # NoReply
                PROVE  Answered(d)
    BY DEF ReplyStands, Answered, SameRequest
  <2>1. CASE reply'[d] = reply[d] /\ call'[d] = call[d]
    <3>1. /\ reply[d] \in Stored /\ SameRequest(jobs[reply[d]], call[d])
          /\ jobs[reply[d]].key = call[d].key
      BY <2>1 DEF ReplyStands, SameRequest
    <3>2. StoreStep
      BY StoreStepKinds
    <3>3. Stored \subseteq Stored'
      <4>1. CASE UNCHANGED jobs
        BY <4>1 DEF Stored
      <4>2. ASSUME NEW c \in Client, NEW j \in JobId \ Stored, Created(c, j)
            PROVE  Stored \subseteq Stored'
        BY <4>2 DEF Created, Stored, Grounded, TypeOK
      <4>3. ASSUME NEW j \in Stored, Rewritten(j)
            PROVE  Stored \subseteq Stored'
        BY <4>3, NullAssumption DEF Rewritten, Stored, Grounded, TypeOK
      <4>. QED BY <3>2, <4>1, <4>2, <4>3 DEF StoreStep
    <3>4. Agree(jobs'[reply[d]], jobs[reply[d]])
      BY <3>1, <3>2, <3>3, StoreStepFrame
    <3>. QED BY <2>1, <3>1, <3>3, <3>4 DEF Answered, SameRequest, Agree
  <2>2. CASE UNCHANGED vars
    BY <2>1, <2>2 DEF vars
  <2>3. CASE Next
    BY <2>1, <2>3, ReplyFrame
  <2>. QED BY <2>2, <2>3
<1>. QED
  BY <1>1, <1>2, CopiesCorrect, PTL DEF Spec

-----------------------------------------------------------------------------
(* Done means delivered. *)

Delivery == DoneMeansDelivered /\ SentIsDelivered

LEMMA DeliveryQuiet ==
  ASSUME Delivery, UNCHANGED <<jobs, delivered>>,
         \A p \in Printer : next'[p] # NoJob =>
           /\ next'[p] = next[p]
           /\ wpc'[p] \in {"dial", "write"} =>
                wpc[p] \in {"dial", "write"} /\ sent'[p] = sent[p]
           /\ wpc'[p] = "save" /\ outcome'[p] = "ok" => wpc[p] = "save" /\ outcome[p] = "ok"
  PROVE  Delivery'
BY DEF Delivery, DoneMeansDelivered, SentIsDelivered, InState, Stored

(* A Job nobody holds, and that is not done, is rewritten or created. *)
LEMMA DeliveryUnheld ==
  ASSUME Grounded, Delivery, NEW j \in JobId, NEW job \in Job,
         jobs' = [jobs EXCEPT ![j] = job], job.state # "done",
         delivered' = [delivered EXCEPT ![j] = delivered'[j]],
         UNCHANGED <<wpc, next, outcome, sent>>,
         delivered'[j] = delivered[j] \/ \A p \in Printer : next[p] # NoJob => next[p].id # j
  PROVE  Delivery'
<1>1. \A k \in InState("done")' : k \in InState("done") /\ k # j /\ jobs'[k] = jobs[k]
  BY DEF InState, Stored, Grounded, TypeOK
<1>2. \A k \in JobId \ {j} : delivered'[k] = delivered[k]
  BY DEF Grounded, TypeOK
<1>3. \A p \in Printer : next[p] # NoJob => next[p].id \in JobId
  BY DEF Grounded, CopiesAgree, Stored
<1>4. DoneMeansDelivered'
  BY <1>1, <1>2 DEF Delivery, DoneMeansDelivered, InState, Stored
<1>5. \A p \in Printer : next[p] # NoJob => delivered'[next[p].id] = delivered[next[p].id]
  BY <1>2, <1>3
<1>6. SentIsDelivered'
  BY <1>5 DEF Delivery, SentIsDelivered
<1>. QED BY <1>4, <1>6 DEF Delivery

LEMMA DeliveryClient ==
  ASSUME Grounded, Delivery, NEW c \in Client, RequestArrive(c) \/ ClientStep(c)
  PROVE  Delivery'
<1>. USE DEF Grounded, workerVars, boundVars, historyVars
<1>1. CASE RequestArrive(c) \/ Reject(c)
  BY <1>1, DeliveryQuiet DEF RequestArrive, Reject
<1>2. CASE Create(c) /\ InFlight(c)
  <2>1. PICK j \in JobId \ Stored : Accepted(j, Fresh(j, call[c])) /\ Answer(c, j)
    BY <1>2 DEF Create
  <2>2. Fresh(j, call[c]) \in Job /\ Fresh(j, call[c]).state = "pending"
    BY <1>2, FreshIsJob DEF InFlight, TypeOK, Fresh
  <2>3. \A p \in Printer : next[p] # NoJob => next[p].id # j
    BY <2>1 DEF CopiesAgree
  <2>4. delivered' = [delivered EXCEPT ![j] = delivered'[j]]
    BY <2>1 DEF Accepted, TypeOK
  <2>. QED BY <2>1, <2>2, <2>3, <2>4, DeliveryUnheld DEF Accepted, Answer
<1>3. ASSUME NEW j \in FindByKey(call[c].key, call[c].at),
             IF MayReactivate(jobs[j]) THEN Accepted(j, Reactivated(jobs[j]))
             ELSE UNCHANGED <<jobs, calls, delivered>>,
             Answer(c, j)
      PROVE  Delivery'
  <2>1. j \in JobId /\ jobs[j] \in Job
    BY <1>3 DEF FindByKey, Lowest, KeyMatches, Stored, TypeOK
  <2>2. CASE MayReactivate(jobs[j])
    <3>1. Accepted(j, Reactivated(jobs[j])) /\ jobs[j].state = "failed"
      BY <1>3, <2>2 DEF MayReactivate
    <3>2. Reactivated(jobs[j]) \in Job /\ Reactivated(jobs[j]).state = "pending"
      BY <2>1, ReactivatedIsJob DEF Reactivated, Job
    <3>3. \A p \in Printer : next[p] # NoJob => next[p].id # j
      BY <2>1, <3>1, OnlyRunningHeld
    <3>4. delivered' = [delivered EXCEPT ![j] = delivered'[j]]
      BY <2>1, <3>1 DEF Accepted, TypeOK
    <3>. QED
      BY <1>3, <2>1, <3>1, <3>2, <3>3, <3>4, DeliveryUnheld DEF Accepted, Answer
  <2>3. CASE ~MayReactivate(jobs[j])
    BY <1>3, <2>3, DeliveryQuiet DEF Answer
  <2>. QED BY <2>2, <2>3
<1>. QED
  BY <1>1, <1>2, <1>3 DEF ClientStep, Enqueue, EnqueueIdempotent, RequestFails

LEMMA DeliveryWorker ==
  ASSUME Grounded, Delivery, NEW p \in Printer, WorkerStep(p)
  PROVE  Delivery'
<1>. USE DEF Grounded, workerVars, clientVars, boundVars, historyVars, WorkerGoes
<1>1. CASE WorkerCheck(p) \/ WorkerIdle(p) \/ Dial(p) \/ Backoff(p) \/ SaveFails(p)
  <2>1. UNCHANGED <<jobs, delivered>>
    BY <1>1 DEF WorkerCheck, WorkerIdle, Dial, Backoff, SaveFails
  <2>2. ASSUME NEW q \in Printer, next'[q] # NoJob
        PROVE  /\ next'[q] = next[q]
               /\ wpc'[q] \in {"dial", "write"} =>
                    wpc[q] \in {"dial", "write"} /\ sent'[q] = sent[q]
               /\ wpc'[q] = "save" /\ outcome'[q] = "ok" => wpc[q] = "save" /\ outcome[q] = "ok"
    BY <1>1, <2>2
    DEF WorkerCheck, WorkerIdle, Dial, Backoff, SaveFails, Release, EndOfCall, TypeOK
  <2>. QED BY <2>1, <2>2, DeliveryQuiet
<1>2. CASE WorkerClaim(p)
  <2>1. PICK j \in Stored :
          /\ jobs[j] \in Job
          /\ jobs' = [jobs EXCEPT ![j] = [jobs[j] EXCEPT !.state = "running"]]
    BY <1>2 DEF WorkerClaim, Lowest, Claimable, InState, Stored, TypeOK
  <2>2. [jobs[j] EXCEPT !.state = "running"].state = "running"
    BY <2>1 DEF Job
  <2>3. \A k \in InState("done")' : k \in InState("done") /\ jobs'[k] = jobs[k]
    BY <2>1, <2>2 DEF InState, Stored, TypeOK
  <2>4. UNCHANGED <<delivered, sent, outcome>> /\ wpc'[p] = "attempt"
        /\ \A q \in Printer \ {p} : next'[q] = next[q] /\ wpc'[q] = wpc[q]
    BY <1>2 DEF WorkerClaim, TypeOK
  <2>. QED
    BY <2>3, <2>4 DEF Delivery, DoneMeansDelivered, SentIsDelivered
<1>3. CASE BeginAttempt(p)
  <2>1. next[p] \in Job /\ next[p] # NoJob /\ next[p].id \in JobId
    BY <1>3 DEF BeginAttempt, TypeOK, Phases, Working, Job
  <2>2. next'[p].id = next[p].id
    BY <1>3, <2>1 DEF BeginAttempt, TypeOK, Job
  <2>3. UNCHANGED jobs /\ sent'[p] = 0 /\ outcome'[p] # "ok"
        /\ \A q \in Printer \ {p} : /\ next'[q] = next[q] /\ wpc'[q] = wpc[q]
                                   /\ sent'[q] = sent[q] /\ outcome'[q] = outcome[q]
    BY <1>3 DEF BeginAttempt, FirstCopy, TypeOK
  <2>4. delivered'[next[p].id] = 0 /\ \A k \in JobId \ {next[p].id} : delivered'[k] = delivered[k]
    BY <1>3, <2>1 DEF BeginAttempt, TypeOK
  <2>5. \A q \in Printer \ {p} : next[q] # NoJob => next[q].id \in JobId \ {next[p].id}
    BY <2>1, HeldOnce DEF CopiesAgree, Stored
  <2>6. next[p].id \notin InState("done")
    BY <2>1 DEF CopiesAgree, InState
  <2>7. DoneMeansDelivered'
    BY <2>3, <2>4, <2>6 DEF Delivery, DoneMeansDelivered, InState, Stored
  <2>8. next'[p].receipt = next[p].receipt /\ next[p].receipt \in Receipt
    BY <1>3, <2>1 DEF BeginAttempt, TypeOK, Job
  <2>9. Copies[next[p].receipt] > 0
    BY <2>8, CopiesAssumption
  <2>10. ASSUME NEW q \in Printer, next'[q] # NoJob
         PROVE  /\ wpc'[q] \in {"dial", "write"} =>
                     sent'[q] = delivered'[next'[q].id] /\ sent'[q] < Copies[next'[q].receipt]
                /\ wpc'[q] = "save" /\ outcome'[q] = "ok" =>
                     delivered'[next'[q].id] = Copies[next'[q].receipt]
    <3>1. CASE q = p
      BY <2>2, <2>3, <2>4, <2>8, <2>9, <3>1
    <3>2. CASE q # p
      BY <2>3, <2>4, <2>5, <2>10, <3>2 DEF Delivery, SentIsDelivered
    <3>. QED BY <3>1, <3>2
  <2>. QED
    BY <2>7, <2>10 DEF Delivery, SentIsDelivered
<1>4. CASE Write(p)
  <2>1. next[p] \in Job /\ next[p] # NoJob /\ next[p].id \in JobId /\ next[p].receipt \in Receipt
    BY <1>4 DEF Write, TypeOK, Phases, Working, Job
  <2>2. UNCHANGED <<jobs, next>>
        /\ \A q \in Printer \ {p} : /\ wpc'[q] = wpc[q]
                                   /\ sent'[q] = sent[q] /\ outcome'[q] = outcome[q]
    BY <1>4 DEF Write, TypeOK
  <2>3. \A q \in Printer \ {p} : next[q] # NoJob => next[q].id \in JobId \ {next[p].id}
    BY <2>1, HeldOnce DEF CopiesAgree, Stored
  <2>4. delivered[next[p].id] = sent[p] /\ sent[p] \in Nat /\ sent[p] < Copies[next[p].receipt]
    BY <1>4, <2>1 DEF Write, Delivery, SentIsDelivered, TypeOK
  <2>5. CASE outcome'[p] = "transient" /\ wpc'[p] = "save" /\ UNCHANGED <<sent, delivered>>
    BY <2>2, <2>5 DEF Delivery, DoneMeansDelivered, SentIsDelivered, InState, Stored
  <2>6. CASE /\ sent' = [sent EXCEPT ![p] = @ + 1]
             /\ delivered' = [delivered EXCEPT ![next[p].id] = @ + 1]
             /\ IF LastCopy(p)
                  THEN wpc'[p] = "save"
                  ELSE wpc'[p] = "dial"
    <3>1. sent'[p] = sent[p] + 1 /\ delivered'[next[p].id] = delivered[next[p].id] + 1
      BY <2>1, <2>6 DEF TypeOK
    <3>2. next[p].id \notin InState("done")
      BY <2>1 DEF CopiesAgree, InState
    <3>3. \A k \in JobId \ {next[p].id} : delivered'[k] = delivered[k]
      BY <2>6 DEF TypeOK
    <3>4. IF sent[p] + 1 >= Copies[next[p].receipt] THEN wpc'[p] = "save" ELSE wpc'[p] = "dial"
      BY <2>6 DEF LastCopy
    <3>5. Copies[next[p].receipt] \in Nat
      BY <2>1, CopiesAssumption
    <3>6. DoneMeansDelivered'
      BY <2>2, <3>2, <3>3 DEF Delivery, DoneMeansDelivered, InState, Stored
    <3>7. /\ wpc'[p] # "write" /\ delivered'[next[p].id] = sent'[p]
          /\ wpc'[p] = "dial" => sent'[p] < Copies[next[p].receipt]
          /\ wpc'[p] = "save" => delivered'[next[p].id] = Copies[next[p].receipt]
      BY <2>4, <3>1, <3>4, <3>5
    <3>. QED
      BY <2>2, <2>3, <3>3, <3>6, <3>7 DEF Delivery, SentIsDelivered
  <2>. QED BY <1>4, <2>5, <2>6 DEF Write, TypeOK
<1>5. CASE SaveOutcome(p)
  <2>1. /\ next[p] \in Job /\ next[p] # NoJob /\ outcome[p] \in Outcome /\ next[p].id \in JobId
        /\ jobs' = [jobs EXCEPT ![next[p].id] = AfterAttempt(p)]
        /\ next' = [next EXCEPT ![p] = IF Done(p) THEN NoJob ELSE next[p]]
        /\ UNCHANGED delivered /\ wpc[p] = "save" /\ wpc'[p] \in {"poll", "backoff"}
        /\ \A q \in Printer \ {p} : /\ wpc'[q] = wpc[q] /\ sent'[q] = sent[q]
                                   /\ outcome'[q] = outcome[q]
    BY <1>5 DEF SaveOutcome, Release, EndOfCall, TypeOK, Phases, Working, Job
  <2>2. AfterAttempt(p).state = "done" =>
          outcome[p] = "ok" /\ AfterAttempt(p).receipt = next[p].receipt
    BY <2>1 DEF AfterAttempt, Job, CopiesAgree
  <2>3. outcome[p] = "ok" => delivered[next[p].id] = Copies[next[p].receipt]
    BY <2>1 DEF Delivery, SentIsDelivered
  <2>4. DoneMeansDelivered'
    BY <2>1, <2>2, <2>3 DEF Delivery, DoneMeansDelivered, InState, Stored, TypeOK
  <2>5. \A q \in Printer \ {p} : next'[q] = next[q]
    BY <2>1 DEF TypeOK
  <2>. QED
    BY <2>1, <2>4, <2>5 DEF Delivery, SentIsDelivered
<1>. QED
  BY <1>1, <1>2, <1>3, <1>4, <1>5 DEF WorkerStep

LEMMA DeliveryCanceller ==
  ASSUME Grounded, Delivery, NEW x \in Canceller, CancelGet(x) \/ CancelSave(x)
  PROVE  Delivery'
<1>. USE DEF Grounded, workerVars, historyVars
<1>1. CASE UNCHANGED jobs
  BY <1>1, DeliveryQuiet DEF CancelGet, CancelSave
<1>2. CASE CancelSave(x) /\ jobs' = [jobs EXCEPT ![cancelling[x].id] = cancelling[x]]
  <2>1. cancelling[x] \in Job /\ cancelling[x].id \in JobId /\ cancelling[x].state = "cancelled"
    BY <1>2 DEF CancelSave, CopiesAgree, TypeOK, Stored
  <2>2. UNCHANGED <<wpc, next, outcome, sent, delivered>>
        /\ delivered = [delivered EXCEPT ![cancelling[x].id] = delivered[cancelling[x].id]]
    BY <1>2, <2>1 DEF CancelSave, TypeOK
  <2>. QED BY <1>2, <2>1, <2>2, DeliveryUnheld
<1>. QED BY <1>1, <1>2 DEF CancelGet, CancelSave

LEMMA DeliveryDaemon ==
  ASSUME Grounded, Delivery, DaemonStep \/ Signal \/ Crash \/ ReconcileFails \/ Tick
  PROVE  Delivery'
<1>. USE DEF Grounded, workerVars, clientVars, boundVars, historyVars
<1>1. CASE ReconcileJob
  <2>1. PICK j \in Stored :
          /\ jobs[j] \in Job
          /\ jobs' = [jobs EXCEPT ![j] =
               [jobs[j] EXCEPT !.attempts = jobs[j].attempts + 1, !.lastError = "interrupted",
                  !.state = IF jobs[j].attempts + 1 < MaxAttempts THEN "pending" ELSE "failed"]]
    BY <1>1 DEF ReconcileJob, Lowest, InState, Stored, TypeOK
  <2>2. \A k \in InState("done")' : k \in InState("done") /\ jobs'[k] = jobs[k]
    BY <2>1 DEF InState, Stored, TypeOK, Job
  <2>3. UNCHANGED delivered /\ \A p \in Printer : next'[p] = NoJob
    BY <1>1 DEF ReconcileJob, Phases, Working
  <2>. QED BY <2>2, <2>3 DEF Delivery, DoneMeansDelivered, SentIsDelivered
<1>2. CASE StartWorkers \/ Signal \/ Tick
  BY <1>2, DeliveryQuiet DEF StartWorkers, Signal, Tick, Phases, Working
<1>3. CASE Drained \/ Deadline \/ Crash \/ ReconcileFails
  <2>1. UNCHANGED <<jobs, delivered>> /\ \A p \in Printer : next'[p] = NoJob
    BY <1>3 DEF Drained, Deadline, Crash, ReconcileFails, ProcessEnds
  <2>. QED BY <2>1, DeliveryQuiet
<1>4. CASE Restart
  <2>1. \A p \in Printer : next'[p] = NoJob
    BY <1>4 DEF Restart, Phases, Working
  <2>2. CASE UNCHANGED <<jobs, delivered>>
    BY <2>1, <2>2, DeliveryQuiet
  <2>3. CASE jobs' = [j \in JobId |-> NoJob]
    BY <2>1, <2>3 DEF Delivery, DoneMeansDelivered, SentIsDelivered, InState, Stored
  <2>. QED BY <1>4, <2>2, <2>3 DEF Restart
<1>. QED
  BY <1>1, <1>2, <1>3, <1>4 DEF DaemonStep

(* A call of Process counts the copies it put out itself, and returns nil   *)
(* when these are all the receipt asks for: done means no less.             *)
THEOREM DeliveryInvariant == Spec => []Delivery
<1>1. Init => Delivery
  BY DEF Init, Delivery, DoneMeansDelivered, SentIsDelivered, InState, Stored
<1>2. Grounded /\ Delivery /\ [Next]_vars => Delivery'
  <2>1. CASE UNCHANGED vars
    BY <2>1, DeliveryQuiet DEF vars
  <2>. QED
    BY <2>1, DeliveryClient, DeliveryWorker, DeliveryCanceller, DeliveryDaemon DEF Next
<1>. QED
  BY <1>1, <1>2, CopiesCorrect, PTL DEF Spec

(* A Job is done only by a Process call that put out every copy asked for,  *)
(* and no more, whatever the calls before it had printed (process.go:53).   *)
THEOREM DoneIsDelivered == Spec => []DoneMeansDelivered
<1>1. Delivery => DoneMeansDelivered
  BY DEF Delivery
<1>. QED BY <1>1, DeliveryInvariant, PTL

-----------------------------------------------------------------------------
(* Where the daemon may die at any moment, the attempts the Store knows of  *)
(* lag the calls made by one at most, and only a Job with budget left is    *)
(* pending, running or backed off from.                                     *)
THEOREM AttemptsSurvive == Spec => []AttemptsDurable
<1>1. Budget => AttemptsDurable
  BY DEF Budget
<1>. QED BY <1>1, BudgetInvariant, PTL

(* The invariant that makes the others inductive: phases, copies, attempts  *)
(* and deliveries agree in every state of every run.                        *)
THEOREM InvHolds == Spec => []Inv
<1>1. Grounded /\ Budget /\ Delivery => Inv
  BY DEF Grounded, Budget, Delivery, Inv
<1>. QED
  BY <1>1, CopiesCorrect, BudgetInvariant, DeliveryInvariant, PTL
=============================================================================
