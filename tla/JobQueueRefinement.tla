------------------------- MODULE JobQueueRefinement -------------------------
(* JobQueue implements JobLifecycle: with the durable store, and without a  *)
(* caller of Queue.Cancel (the daemon has none), each Job only ever makes   *)
(* the moves of its abstract life, and each call of Process is a try of a   *)
(* running Job with budget left.                                            *)
EXTENDS JobQueueProofs

(* The refinement mapping of the Store. *)
Status == [j \in JobId |-> IF jobs[j] = NoJob THEN "absent" ELSE jobs[j].state]

(* What the mapping needs beside Grounded and Budget: an ID without a Job   *)
(* has no calls, an attempt is counted before Process is called, and no Job *)
(* is cancelled.                                                            *)
Lived ==
  /\ \A j \in JobId \ Stored : calls[j] = 0
  /\ \A p \in Printer : wpc[p] \in {"dial", "write", "save"} => calls[next[p].id] > 0
  /\ \A j \in Stored : jobs[j].state # "cancelled"

-----------------------------------------------------------------------------
(* Writing one record moves one Job of the mapping. *)
LEMMA StatusOfWrite ==
  ASSUME TypeOK, NEW j \in JobId, NEW job \in Job, jobs' = [jobs EXCEPT ![j] = job]
  PROVE  /\ Status' = [Status EXCEPT ![j] = job.state]
         /\ Stored' = Stored \cup {j}
         /\ jobs'[j] = job /\ \A k \in JobId \ {j} : jobs'[k] = jobs[k]
<1>1. jobs'[j] = job /\ \A k \in JobId \ {j} : jobs'[k] = jobs[k]
  BY DEF TypeOK
<1>2. job # NoJob
  BY NullAssumption
<1>3. Stored' = Stored \cup {j}
  BY <1>1, <1>2 DEF Stored
<1>4. \A k \in JobId : Status'[k] = IF k = j THEN job.state ELSE Status[k]
  BY <1>1, <1>2 DEF Status
<1>5. Status' = [Status EXCEPT ![j] = job.state]
  BY <1>4 DEF Status
<1>. QED BY <1>1, <1>3, <1>5

LEMMA StatusOfJob ==
  ASSUME NEW j \in Stored
  PROVE  Status[j] = jobs[j].state
BY DEF Status, Stored

LEMMA Stutter ==
  ASSUME UNCHANGED <<jobs, calls>>
  PROVE  UNCHANGED <<Status, calls>> /\ Stored' = Stored
BY DEF Status, Stored

LEMMA Moved ==
  ASSUME NEW j \in JobId, NEW s, NEW t, Status[j] = s, Status' = [Status EXCEPT ![j] = t]
  PROVE  Lifecycle!Move(j, s, t)
BY DEF Lifecycle!Move, Status

(* Who holds a Job holds it running. *)
LEMMA HeldRuns ==
  ASSUME Grounded, Lived, NEW p \in Printer, next[p] # NoJob
  PROVE  /\ next[p] \in Job /\ next[p].id \in Stored /\ Stored \subseteq JobId
         /\ jobs[next[p].id].state = "running" /\ Status[next[p].id] = "running"
BY StatusOfJob DEF Grounded, TypeOK, CopiesAgree, Lived, Stored

Simulates == Lifecycle!Next \/ UNCHANGED <<Status, calls>>

-----------------------------------------------------------------------------
(* Each actor's steps keep Lived and are moves of JobLifecycle. *)

LEMMA LivedQuiet ==
  ASSUME Lived, UNCHANGED <<jobs, calls>>,
         \A p \in Printer : wpc'[p] \in {"dial", "write", "save"} =>
           wpc[p] \in {"dial", "write", "save"} /\ next'[p].id = next[p].id
  PROVE  Lived' /\ Simulates
BY Stutter DEF Lived, Simulates

LEMMA ClientSimulates ==
  ASSUME Grounded, Lived, NEW c \in Client, RequestArrive(c) \/ ClientStep(c)
  PROVE  Lived' /\ Simulates
<1>. USE DEF Grounded, workerVars, clientVars, boundVars, historyVars
<1>1. UNCHANGED <<wpc, next>>
  BY DEF RequestArrive, ClientStep, Enqueue, EnqueueIdempotent, RequestFails,
         Create, Answer, Reject
<1>2. CASE UNCHANGED <<jobs, calls>>
  BY <1>1, <1>2, LivedQuiet
<1>3. CASE InFlight(c) /\ Create(c)
  <2>1. PICK j \in JobId \ Stored : Accepted(j, Fresh(j, call[c]))
    BY <1>3 DEF Create
  <2>2. Fresh(j, call[c]) \in Job /\ Fresh(j, call[c]).state = "pending"
    BY <1>3, <2>1, FreshIsJob DEF Fresh, InFlight, TypeOK
  <2>3. /\ Status' = [Status EXCEPT ![j] = "pending"] /\ Stored' = Stored \cup {j}
        /\ jobs'[j].state = "pending" /\ \A k \in JobId \ {j} : jobs'[k] = jobs[k]
    BY <2>1, <2>2, StatusOfWrite DEF Accepted
  <2>4. calls' = calls
    BY <2>1 DEF Accepted, Lived, TypeOK
  <2>5. Status[j] = "absent"
    BY <2>1 DEF Status, Stored
  <2>6. Lifecycle!Accept(j)
    BY <2>1, <2>3, <2>4, <2>5, Moved DEF Lifecycle!Accept
  <2>7. Lived'
    BY <1>1, <2>3, <2>4 DEF Lived, Stored
  <2>. QED BY <2>1, <2>6, <2>7 DEF Simulates, Lifecycle!Next
<1>4. ASSUME NEW j \in Stored, jobs[j].state = "failed", Accepted(j, Reactivated(jobs[j]))
      PROVE  Lived' /\ Simulates
  <2>1. j \in JobId /\ jobs[j] \in Job
    BY DEF Stored, TypeOK
  <2>2. Reactivated(jobs[j]) \in Job /\ Reactivated(jobs[j]).state = "pending"
    BY <2>1, ReactivatedIsJob DEF Reactivated, Job
  <2>3. /\ Status' = [Status EXCEPT ![j] = "pending"] /\ Stored' = Stored \cup {j}
        /\ jobs'[j].state = "pending" /\ \A k \in JobId \ {j} : jobs'[k] = jobs[k]
    <3>. HIDE DEF Grounded
    <3>1. PICK job \in Job : job = Reactivated(jobs[j])
      BY <2>2
    <3>2. jobs' = [jobs EXCEPT ![j] = job] /\ TypeOK /\ job.state = "pending"
      BY <1>4, <2>2, <3>1 DEF Accepted, Grounded
    <3>3. /\ Status' = [Status EXCEPT ![j] = job.state] /\ Stored' = Stored \cup {j}
          /\ jobs'[j] = job /\ \A k \in JobId \ {j} : jobs'[k] = jobs[k]
      BY <2>1, <3>1, <3>2, StatusOfWrite
    <3>. QED BY <3>2, <3>3
  <2>4. calls' = [calls EXCEPT ![j] = 0]
    BY <1>4 DEF Accepted
  <2>5. Lifecycle!Reactivate(j)
    BY <1>4, <2>1, <2>3, <2>4, StatusOfJob, Moved DEF Lifecycle!Reactivate
  <2>6. \A p \in Printer : next[p] # NoJob => next[p].id # j
    BY <1>4, HeldRuns
  <2>7. \A p \in Printer : wpc[p] \in {"dial", "write", "save"} =>
          next[p] # NoJob /\ next[p].id \in JobId
    BY DEF Phases, Working, CopiesAgree, Stored
  <2>8. Lived'
    BY <1>1, <2>1, <2>3, <2>4, <2>6, <2>7 DEF Lived, Stored, TypeOK
  <2>. QED BY <2>1, <2>5, <2>8 DEF Simulates, Lifecycle!Next
<1>5. CASE RequestArrive(c) \/ RequestFails(c) \/ Reject(c)
  BY <1>2, <1>5 DEF RequestArrive, RequestFails, Reject
<1>6. ASSUME NEW j \in FindByKey(call[c].key, call[c].at),
             IF MayReactivate(jobs[j]) THEN Accepted(j, Reactivated(jobs[j]))
             ELSE UNCHANGED <<jobs, calls, delivered>>
      PROVE  Lived' /\ Simulates
  <2>1. j \in Stored
    BY <1>6 DEF FindByKey, Lowest, KeyMatches
  <2>. QED BY <1>2, <1>4, <1>6, <2>1 DEF MayReactivate
<1>. QED
  BY <1>3, <1>5, <1>6 DEF ClientStep, Enqueue, EnqueueIdempotent

LEMMA WorkerSimulates ==
  ASSUME Grounded, Budget, Lived, NEW p \in Printer, WorkerStep(p)
  PROVE  Lived' /\ Simulates
<1>. USE DEF workerVars, clientVars, boundVars, historyVars
<1>1. CASE WorkerCheck(p) \/ WorkerIdle(p) \/ Backoff(p)
  BY <1>1, LivedQuiet
  DEF WorkerCheck, WorkerIdle, Backoff, Release, WorkerGoes, Grounded, TypeOK
<1>2. CASE WorkerClaim(p)
  <2>1. PICK j \in Stored :
          /\ jobs[j] \in Job /\ jobs[j].state = "pending"
          /\ jobs' = [jobs EXCEPT ![j] = [jobs[j] EXCEPT !.state = "running"]]
    BY <1>2 DEF WorkerClaim, Lowest, Claimable, InState, Stored, Grounded, TypeOK
  <2>2. /\ [jobs[j] EXCEPT !.state = "running"] \in Job /\ j \in JobId
        /\ [jobs[j] EXCEPT !.state = "running"].state = "running"
    BY <2>1 DEF Job, JobState, Stored
  <2>3. /\ Status' = [Status EXCEPT ![j] = "running"] /\ Stored' = Stored \cup {j}
        /\ jobs'[j].state = "running" /\ \A k \in JobId \ {j} : jobs'[k] = jobs[k]
    BY <2>1, <2>2, StatusOfWrite DEF Grounded
  <2>4. UNCHANGED calls /\ wpc'[p] = "attempt"
        /\ \A q \in Printer \ {p} : wpc'[q] = wpc[q] /\ next'[q] = next[q]
    BY <1>2 DEF WorkerClaim, WorkerGoes, Grounded, TypeOK
  <2>5. Lifecycle!Claim(j)
    BY <2>1, <2>2, <2>3, <2>4, StatusOfJob, Moved DEF Lifecycle!Claim
  <2>6. Lived'
    BY <2>1, <2>3, <2>4 DEF Lived, Stored
  <2>. QED BY <2>2, <2>5, <2>6 DEF Simulates, Lifecycle!Next
<1>3. CASE BeginAttempt(p)
  <2> DEFINE j == next[p].id
  <2>1. /\ next[p] # NoJob /\ wpc[p] = "attempt" /\ UNCHANGED jobs
        /\ calls' = [calls EXCEPT ![j] = @ + 1]
        /\ \A q \in Printer \ {p} : wpc'[q] = wpc[q] /\ next'[q] = next[q]
        /\ next'[p] = [next[p] EXCEPT !.attempts = @ + 1]
    BY <1>3 DEF BeginAttempt, WorkerGoes, Grounded, TypeOK, Phases, Working
  <2>2. /\ next[p] \in Job /\ j \in Stored /\ j \in JobId
        /\ Status[j] = "running"
    BY <2>1, HeldRuns
  <2>3. calls[j] <= next[p].attempts /\ next[p].attempts < MaxAttempts
    BY <2>1 DEF Budget, AttemptsDurable
  <2>4. calls \in [JobId -> Nat] /\ next[p].attempts \in Nat /\ next'[p].id = j
    BY <2>1, <2>2 DEF Grounded, TypeOK, Job
  <2>5. calls[j] \in Nat /\ calls[j] < MaxAttempts
    BY <2>2, <2>3, <2>4, BudgetAssumption
  <2>6. UNCHANGED Status
    BY <2>1 DEF Status
  <2>7. Lifecycle!Try(j)
    BY <2>1, <2>2, <2>5, <2>6 DEF Lifecycle!Try, Status
  <2>8. \A q \in Printer : wpc[q] \in {"dial", "write", "save"} => next[q].id \in JobId
    BY DEF Grounded, Phases, Working, CopiesAgree, Stored
  <2>9. calls'[j] > 0 /\ \A k \in JobId \ {j} : calls'[k] = calls[k]
    BY <2>1, <2>2, <2>4, <2>5
  <2>10. Lived'
    BY <2>1, <2>2, <2>4, <2>8, <2>9 DEF Lived, Stored
  <2>. QED BY <2>2, <2>7, <2>10 DEF Simulates, Lifecycle!Next
<1>4. CASE Dial(p) \/ Write(p)
  BY <1>4, LivedQuiet DEF Dial, Write, WorkerGoes, Grounded, TypeOK
<1>5. CASE SaveFails(p)
  BY <1>5, LivedQuiet DEF SaveFails, Release, EndOfCall, WorkerGoes, Grounded, TypeOK
<1>6. CASE SaveOutcome(p)
  <2> DEFINE saved == AfterAttempt(p)
  <2>0. next[p] # NoJob /\ next[p].id \in JobId
    BY <1>6, HeldRuns DEF SaveOutcome, Grounded, Phases, Working
  <2> PICK j \in JobId : j = next[p].id
    BY <2>0
  <2>1. /\ next[p] # NoJob /\ wpc[p] = "save" /\ UNCHANGED calls
        /\ jobs' = [jobs EXCEPT ![j] = saved] /\ outcome[p] \in Outcome
        /\ wpc'[p] \in {"poll", "backoff"}
        /\ \A q \in Printer \ {p} : wpc'[q] = wpc[q] /\ next'[q] = next[q]
    BY <1>6
    DEF SaveOutcome, Release, EndOfCall, WorkerGoes, Grounded, TypeOK, Phases, Working
  <2>2. /\ next[p] \in Job /\ j \in Stored /\ j \in JobId
        /\ Status[j] = "running"
    BY <2>1, HeldRuns
  <2>3. saved \in Job
    BY <2>1, <2>2, AfterAttemptIsJob
  <2>4. /\ Status' = [Status EXCEPT ![j] = saved.state] /\ Stored' = Stored \cup {j}
        /\ jobs'[j] = saved /\ \A k \in JobId \ {j} : jobs'[k] = jobs[k]
    BY <2>1, <2>2, <2>3, StatusOfWrite DEF Grounded
  <2>5. next[p].state = "running"
    BY <2>1 DEF Grounded, CopiesAgree
  <2>6. saved.state \in {"done", "failed", "running"}
    BY <2>2, <2>5 DEF AfterAttempt, Job
  <2>7. Lived'
    BY <2>1, <2>2, <2>4, <2>6 DEF Lived, Stored
  <2>8. calls[j] > 0
    BY <2>1 DEF Lived
  <2>. HIDE DEF saved
  <2>9. CASE saved.state = "done"
    <3>1. Lifecycle!Succeed(j)
      BY <2>1, <2>2, <2>4, <2>8, <2>9, Moved DEF Lifecycle!Succeed
    <3>. QED BY <2>7, <3>1 DEF Simulates, Lifecycle!Next
  <2>10. CASE saved.state = "failed"
    <3>1. Lifecycle!Fail(j)
      BY <2>1, <2>2, <2>4, <2>10, Moved DEF Lifecycle!Fail
    <3>. QED BY <2>7, <3>1 DEF Simulates, Lifecycle!Next
  <2>11. CASE saved.state = "running"
    <3>1. UNCHANGED Status
      BY <2>2, <2>4, <2>11 DEF Status
    <3>. QED BY <2>1, <2>7, <3>1 DEF Simulates
  <2>. QED BY <2>6, <2>9, <2>10, <2>11
<1>. QED
  BY <1>1, <1>2, <1>3, <1>4, <1>5, <1>6 DEF WorkerStep

LEMMA DaemonSimulates ==
  ASSUME Grounded, Lived, Store = "bbolt",
         DaemonStep \/ Signal \/ Crash \/ ReconcileFails \/ Tick
  PROVE  Lived' /\ Simulates
<1>. USE DEF workerVars, clientVars, boundVars, historyVars
<1>1. CASE ReconcileJob
  <2>1. PICK j \in Stored, t \in {"pending", "failed"} :
          /\ jobs[j] \in Job /\ jobs[j].state = "running"
          /\ jobs' = [jobs EXCEPT ![j] =
               [jobs[j] EXCEPT !.attempts = jobs[j].attempts + 1,
                               !.lastError = "interrupted", !.state = t]]
    BY <1>1 DEF ReconcileJob, Lowest, InState, Stored, Grounded, TypeOK
  <2> DEFINE resolved == [jobs[j] EXCEPT !.attempts = jobs[j].attempts + 1,
                                         !.lastError = "interrupted", !.state = t]
  <2>2. resolved \in Job /\ resolved.state = t /\ j \in JobId
    <3>1. jobs[j].attempts + 1 \in Nat /\ t \in JobState /\ "interrupted" \in LastError
      BY <2>1 DEF Job, JobState, LastError
    <3>2. resolved \in Job
      BY <2>1, <3>1, JobUpdate
    <3>3. resolved.state = t
      BY <2>1 DEF Job
    <3>. QED BY <3>2, <3>3 DEF Stored
  <2>. HIDE DEF resolved
  <2>3. jobs' = [jobs EXCEPT ![j] = resolved]
    BY <2>1 DEF resolved
  <2>4. /\ Status' = [Status EXCEPT ![j] = t] /\ Stored' = Stored \cup {j}
        /\ jobs'[j].state = t /\ \A k \in JobId \ {j} : jobs'[k] = jobs[k]
    BY <2>2, <2>3, StatusOfWrite DEF Grounded
  <2>5. UNCHANGED <<calls, wpc, next>>
    BY <1>1 DEF ReconcileJob
  <2>6. Lifecycle!Requeue(j) \/ Lifecycle!Fail(j)
    BY <2>1, <2>2, <2>4, <2>5, StatusOfJob, Moved DEF Lifecycle!Requeue, Lifecycle!Fail
  <2>7. Lived'
    BY <2>1, <2>4, <2>5 DEF Lived, Stored
  <2>. QED BY <2>2, <2>6, <2>7 DEF Simulates, Lifecycle!Next
<1>2. CASE StartWorkers
  BY <1>2, LivedQuiet DEF StartWorkers
<1>3. CASE Drained \/ Deadline \/ Crash \/ ReconcileFails
  BY <1>3, LivedQuiet DEF Drained, Deadline, Crash, ReconcileFails, ProcessEnds
<1>4. CASE Signal \/ Restart \/ Tick
  BY <1>4, LivedQuiet DEF Signal, Restart, Tick
<1>. QED
  BY <1>1, <1>2, <1>3, <1>4 DEF DaemonStep

-----------------------------------------------------------------------------
(* With the durable store, and no caller of Queue.Cancel, every behaviour   *)
(* of the queue is a behaviour of JobLifecycle: whatever requests, retries, *)
(* crashes, shutdowns and failed Saves do, a Job makes only the documented  *)
(* transitions, and Process is only ever called for a running one.          *)
THEOREM Refinement ==
  ASSUME Store = "bbolt", Canceller = {}
  PROVE  Spec => ImplementsLifecycle
<1>1. Init => Lived /\ Lifecycle!Init
  BY NullAssumption DEF Init, Lived, Lifecycle!Init, Stored
<1>2. Grounded /\ Budget /\ Lived /\ [Next]_vars => Lived' /\ Simulates
  <2>1. CASE UNCHANGED vars
    BY <2>1, LivedQuiet DEF vars
  <2>. QED
    BY <2>1, ClientSimulates, WorkerSimulates, DaemonSimulates DEF Next
<1>3. Simulates => [Lifecycle!Next]_(Lifecycle!lifecycleVars)
  BY DEF Simulates, Lifecycle!lifecycleVars, Status
<1>. QED
  BY <1>1, <1>2, <1>3, CopiesCorrect, BudgetInvariant, PTL
  DEF Spec, ImplementsLifecycle, Lifecycle!Spec
=============================================================================
