------------------------------ MODULE JobQueue ------------------------------
(***************************************************************************)
(* The print queue of receiptd: the Store and its transactions, the print  *)
(* requests that put Jobs into it, the worker of each configured printer,  *)
(* the callers of Queue.Cancel, and the life of the daemon around them     *)
(* (startup reconciliation, graceful shutdown, crash).                     *)
(*                                                                         *)
(* Every Store operation is one critical section in the code (a bbolt      *)
(* transaction, or a section under memoryStore.mu), so it is one step      *)
(* here.  What the code does between two Store operations is what          *)
(* interleaves: a request reads the clock before its transaction, Cancel   *)
(* reads the Job before it saves it, a worker tests the context before it  *)
(* claims, and it calls Process between claiming a Job and saving it.      *)
(***************************************************************************)
EXTENDS Naturals, FiniteSets

CONSTANTS
  JobId,         (* Job IDs; random hex strings in the code, ordered        *)
  Printer,       (* configured printers: one worker each                    *)
  Unconfigured,  (* printer names a request may carry that have no worker   *)
  Receipt,       (* receipts that pass Receipt.Validate                     *)
  Copies,        (* Copies[r]: Receipt.EffectiveCopies of r                 *)
  Client,        (* concurrent callers of Service.Print                     *)
  Canceller,     (* concurrent callers of Queue.Cancel                      *)
  Key,           (* idempotency keys                                        *)
  NoKey,         (* the empty key                                           *)
  NoJob,         (* no Job: an unused ID, an idle worker or canceller       *)
  NoCall,        (* a client with no request, or whose request failed       *)
  NoReply,       (* a request that has not been answered                    *)
  Store,         (* queue.store: "bbolt" or "memory"                        *)
  SaveMayFail,   (* whether Store writes can fail                           *)
  MaxAttempts,   (* queue.max_attempts                                      *)
  TTL,           (* IdempotencyKeyTTL, in ticks of the clock                *)
  MaxTime,       (* bound: the last instant of the clock                    *)
  MaxRequests,   (* bound: print requests in a behaviour                    *)
  MaxRestarts    (* bound: shutdowns and crashes in a behaviour             *)

ASSUME JobIdAssumption == JobId \subseteq Nat
ASSUME CopiesAssumption == Copies \in [Receipt -> Nat \ {0}]
ASSUME BudgetAssumption == MaxAttempts \in Nat \ {0}
ASSUME StoreAssumption == Store \in {"bbolt", "memory"} /\ SaveMayFail \in BOOLEAN
ASSUME TimeAssumption == TTL \in Nat /\ MaxTime \in Nat
ASSUME BoundAssumption == MaxRequests \in Nat /\ MaxRestarts \in Nat

VARIABLES
  jobs,       (* the Store: jobs[j] is the Job persisted under j, or NoJob  *)
  daemon,     (* where the process is in its life                           *)
  wpc,        (* wpc[p]: where the worker of printer p is in its loop       *)
  next,       (* next[p]: the worker's own copy of the Job it runs          *)
  outcome,    (* outcome[p]: what Process returned                          *)
  sent,       (* sent[p]: copies sent by the Process call under way         *)
  call,       (* call[c]: client c's last request, and the clock it read    *)
  reply,      (* reply[c]: the Job ID it was answered with                  *)
  cancelling, (* cancelling[x]: the copy canceller x is about to save       *)
  now,        (* the clock                                                  *)
  requests,   (* print requests so far                                      *)
  restarts,   (* shutdowns and crashes so far                               *)
  calls,      (* history: calls[j], Process calls since j became pending by *)
              (* a request                                                  *)
  delivered,  (* history: delivered[j], copies put out in full by the last  *)
              (* of those calls, the one under way included                 *)
  abandoned   (* history: Jobs whose worker gave up on a failed Save since  *)
              (* the process started                                        *)

workerVars  == <<wpc, next, outcome, sent>>
clientVars  == <<call, reply>>
boundVars   == <<requests, restarts>>
historyVars == <<calls, delivered, abandoned>>
vars == <<jobs, daemon, wpc, next, outcome, sent, call, reply,
          cancelling, now, requests, restarts, calls, delivered, abandoned>>

-----------------------------------------------------------------------------
PrinterName == Printer \cup Unconfigured
KeyOrNone   == Key \cup {NoKey}
JobState    == {"pending", "running", "done", "failed", "cancelled"}

(* What apperr tells the retry loop of an attempt: nil, KindTransient, or   *)
(* any other kind.  "canceled" is the KindTransient of a dial whose context *)
(* was cancelled by the shutdown.                                           *)
Outcome   == {"none", "ok", "transient", "canceled", "permanent"}

(* LastError keeps the failed attempt's text, or Reconcile's diagnostic. *)
LastError == {"none", "transient", "canceled", "permanent", "interrupted"}

Job == [id : JobId, printer : PrinterName, receipt : Receipt,
        state : JobState, attempts : Nat, lastError : LastError,
        createdAt : Nat, key : KeyOrNone]


PrintCall == [printer : PrinterName, receipt : Receipt, key : KeyOrNone,
              at : Nat]

ASSUME NullAssumption ==
  NoJob \notin Job /\ NoCall \notin PrintCall /\ NoReply \notin JobId /\ NoKey \notin Key

WorkerPC == {"off", "poll", "claim", "attempt", "dial", "write", "save",
             "backoff", "stopped"}
DaemonPhase == {"reconciling", "serving", "draining", "down"}

Stored == {j \in JobId : jobs[j] # NoJob}
InState(s) == {j \in Stored : jobs[j].state = s}

Lowest(S) == {j \in S : \A k \in S : j <= k}

-----------------------------------------------------------------------------
(* The Store. *)

(* Mutant of SameRequest: the receipts are not compared. *)
SamePrinterOnly(job, c) == job.printer = c.printer

(* sameLogicalRequest, of a stored Job and a request. *)
SameRequest(job, c) == job.printer = c.printer /\ job.receipt = c.receipt

(* Mutant of Expired: the boundary instant counts as expired. *)
ExpiredAtTTL(job, t) == t >= job.createdAt + TTL

(* idempotencyKeyExpired: now.Sub(CreatedAt) > IdempotencyKeyTTL.  A clock *)
(* read before the Job was created makes the difference negative.          *)
Expired(job, t) == t > job.createdAt + TTL

KeyMatches(k, t) == {j \in Stored : jobs[j].key = k /\ ~Expired(jobs[j], t)}

(* findByIdempotencyKey: the first match in ID order in bbolt's cursor; any *)
(* match in memoryStore, which ranges over a map.                           *)
FindByKey(k, t) ==
  IF Store = "bbolt" THEN Lowest(KeyMatches(k, t)) ELSE KeyMatches(k, t)

(* Mutant of Fresh: the state is left at its zero value. *)
FreshWithoutState(j, c) ==
  [id |-> j, printer |-> c.printer, receipt |-> c.receipt,
   state |-> "", attempts |-> 0, lastError |-> "none",
   createdAt |-> c.at, key |-> c.key]

(* The Job a request is stored as. *)
Fresh(j, c) ==
  [id |-> j, printer |-> c.printer, receipt |-> c.receipt,
   state |-> "pending", attempts |-> 0, lastError |-> "none",
   createdAt |-> c.at, key |-> c.key]

(* Mutant of MayReactivate: a print that is done is printed again. *)
MayReactivateEnded(job) == job.state \in {"failed", "done"}

(* The states a same-key retry restarts the Job from. *)
MayReactivate(job) == job.state = "failed"

(* The in-place reset of a Failed Job by a same-key retry. *)
Reactivated(job) ==
  [job EXCEPT !.state = "pending", !.attempts = 0, !.lastError = "none"]

(* Mutant of Claimable: the printer's name is ignored. *)
ClaimableByAny(p) == InState("pending")

(* Candidates of ClaimNextPending(printerName). *)
Claimable(p) == {j \in InState("pending") : jobs[j].printer = p}

-----------------------------------------------------------------------------
(* Service.Print, called concurrently by the HTTP handlers.  Validation    *)
(* precedes everything and changes nothing: requests are of Receipt.       *)

(* A request of c is being handled. *)
InFlight(c) == call[c] # NoCall /\ reply[c] = NoReply

(* The request reads the clock before its transaction (time.Now() is an    *)
(* argument of Store.EnqueueIdempotent).  A request whose connection was   *)
(* accepted before the shutdown may get here while the daemon drains.      *)
RequestArrive(c) ==
  /\ daemon \in {"serving", "draining"} /\ ~InFlight(c) /\ requests < MaxRequests
  /\ \E p \in PrinterName, r \in Receipt, k \in KeyOrNone :
       call' = [call EXCEPT ![c] =
                  [printer |-> p, receipt |-> r, key |-> k, at |-> now]]
  /\ reply' = [reply EXCEPT ![c] = NoReply]
  /\ requests' = requests + 1
  /\ UNCHANGED <<jobs, daemon, workerVars, cancelling, now, restarts, historyVars>>

(* The request is answered with the ID of a Job. *)
Answer(c, j) ==
  /\ reply' = [reply EXCEPT ![c] = j]
  /\ UNCHANGED <<daemon, workerVars, call, cancelling, now, boundVars, abandoned>>

(* It is answered with an error, and leaves no trace. *)
Reject(c) ==
  /\ call' = [call EXCEPT ![c] = NoCall]
  /\ UNCHANGED <<jobs, daemon, workerVars, reply, cancelling, now, boundVars,
                 historyVars>>

(* A Job enters the pending state on a client's behalf: its history starts. *)
Accepted(j, job) ==
  /\ jobs' = [jobs EXCEPT ![j] = job]
  /\ calls' = [calls EXCEPT ![j] = 0]
  /\ delivered' = [delivered EXCEPT ![j] = 0]

(* A new Job under an ID that newJobID has not given out yet. *)
Create(c) ==
  \E j \in JobId \ Stored : Accepted(j, Fresh(j, call[c])) /\ Answer(c, j)

(* Queue.Enqueue: no key, always a new Job. *)
Enqueue(c) == InFlight(c) /\ call[c].key = NoKey /\ Create(c)

(* Store.EnqueueIdempotent, the whole transaction. *)
EnqueueIdempotent(c) ==
  /\ InFlight(c) /\ call[c].key # NoKey
  /\ \/ KeyMatches(call[c].key, call[c].at) = {} /\ Create(c)
     \/ \E j \in FindByKey(call[c].key, call[c].at) :
          \/ /\ SameRequest(jobs[j], call[c])
             /\ IF MayReactivate(jobs[j]) THEN Accepted(j, Reactivated(jobs[j]))
                ELSE UNCHANGED <<jobs, calls, delivered>>
             /\ Answer(c, j)
          \/ ~SameRequest(jobs[j], call[c]) /\ Reject(c)

(* The write fails: the client gets an error and no Job is stored. *)
RequestFails(c) == SaveMayFail /\ InFlight(c) /\ Reject(c)

-----------------------------------------------------------------------------
(* runWorker: the loop of printer p's goroutine. *)

WorkerGoes(p, pc) == wpc' = [wpc EXCEPT ![p] = pc]

(* The select on the shared context, before every claim. *)
WorkerCheck(p) ==
  /\ wpc[p] = "poll"
  /\ WorkerGoes(p, IF daemon = "draining" THEN "stopped" ELSE "claim")
  /\ UNCHANGED <<jobs, daemon, next, outcome, sent, clientVars, cancelling, now,
                 boundVars, historyVars>>

(* Store.ClaimNextPending: it ignores the context, so a claim may follow a *)
(* shutdown that began after the check.                                    *)
WorkerClaim(p) ==
  /\ wpc[p] = "claim"
  /\ \E j \in Lowest(Claimable(p)) :
       LET claimed == [jobs[j] EXCEPT !.state = "running"] IN
       /\ jobs' = [jobs EXCEPT ![j] = claimed]
       /\ next' = [next EXCEPT ![p] = claimed]
  /\ WorkerGoes(p, "attempt")
  /\ UNCHANGED <<daemon, outcome, sent, clientVars, cancelling, now, boundVars,
                 historyVars>>

(* Nothing to claim, or the claim's transaction failed. *)
WorkerIdle(p) ==
  /\ wpc[p] = "claim"
  /\ Claimable(p) = {} \/ SaveMayFail
  /\ WorkerGoes(p, "poll")
  /\ UNCHANGED <<jobs, daemon, next, outcome, sent, clientVars, cancelling, now,
                 boundVars, historyVars>>

(* Mutant of FirstCopy: a retry goes on after the copies already out. *)
CopyAfterLast(p) == delivered[next[p].id]

(* Process's loop over the copies starts at 0, on a retry as well. *)
FirstCopy(p) == 0

(* One turn of runClaimedJob's loop: the attempt is counted on the worker's *)
(* own copy, then Process renders and encodes.  Either fails, or panics,    *)
(* permanently.                                                             *)
BeginAttempt(p) ==
  /\ wpc[p] = "attempt"
  /\ next' = [next EXCEPT ![p].attempts = @ + 1]
  /\ calls' = [calls EXCEPT ![next[p].id] = @ + 1]
  /\ delivered' = [delivered EXCEPT ![next[p].id] = 0]
  /\ sent' = [sent EXCEPT ![p] = FirstCopy(p)]
  /\ \/ WorkerGoes(p, "dial") /\ outcome' = [outcome EXCEPT ![p] = "none"]
     \/ WorkerGoes(p, "save") /\ outcome' = [outcome EXCEPT ![p] = "permanent"]
  /\ UNCHANGED <<jobs, daemon, clientVars, cancelling, now, boundVars, abandoned>>

(* Send dials with the workers' shared context, once per copy. *)
Dial(p) ==
  /\ wpc[p] = "dial"
  /\ \/ /\ daemon # "draining"
        /\ WorkerGoes(p, "write")
        /\ UNCHANGED outcome
     \/ /\ WorkerGoes(p, "save")
        /\ outcome' = [outcome EXCEPT ![p] =
             IF daemon = "draining" THEN "canceled" ELSE "transient"]
  /\ UNCHANGED <<jobs, daemon, next, sent, clientVars, cancelling, now, boundVars,
                 historyVars>>

(* The copy just sent is the last of EffectiveCopies. *)
LastCopy(p) == sent[p] + 1 >= Copies[next[p].receipt]

(* The write loop of Send: it no longer consults the context. *)
Write(p) ==
  /\ wpc[p] = "write"
  /\ \/ /\ sent' = [sent EXCEPT ![p] = @ + 1]
        /\ delivered' = [delivered EXCEPT ![next[p].id] = @ + 1]
        /\ IF LastCopy(p)
             THEN WorkerGoes(p, "save") /\ outcome' = [outcome EXCEPT ![p] = "ok"]
             ELSE WorkerGoes(p, "dial") /\ UNCHANGED outcome
     \/ /\ WorkerGoes(p, "save")
        /\ outcome' = [outcome EXCEPT ![p] = "transient"]
        /\ UNCHANGED <<sent, delivered>>
  /\ UNCHANGED <<jobs, daemon, next, clientVars, cancelling, now, boundVars, calls,
                 abandoned>>

(* runClaimedJob's done. *)
Done(p) ==
  \/ outcome[p] \in {"ok", "permanent"}
  \/ next[p].attempts >= MaxAttempts

(* Mutant of AfterAttempt: attempts become durable at the end only. *)
AfterLastAttempt(p) ==
  IF outcome[p] = "ok" THEN [next[p] EXCEPT !.state = "done"]
  ELSE IF Done(p) THEN [next[p] EXCEPT !.state = "failed", !.lastError = outcome[p]]
  ELSE jobs[next[p].id]

(* Mutant of AfterAttempt: a failure is recorded without its state. *)
AfterAttemptUndecided(p) ==
  IF outcome[p] = "ok" THEN [next[p] EXCEPT !.state = "done"]
  ELSE IF Done(p) THEN [next[p] EXCEPT !.lastError = outcome[p]]
  ELSE next[p]

(* The record saved after the attempt: success leaves LastError alone. *)
AfterAttempt(p) ==
  IF outcome[p] = "ok" THEN [next[p] EXCEPT !.state = "done"]
  ELSE IF Done(p) THEN [next[p] EXCEPT !.state = "failed", !.lastError = outcome[p]]
  ELSE next[p]

(* The worker lets go of its Job and sleeps until its next poll. *)
Release(p) ==
  /\ WorkerGoes(p, "poll")
  /\ next' = [next EXCEPT ![p] = NoJob]

(* The locals of the Process call are gone. *)
EndOfCall(p) ==
  /\ outcome' = [outcome EXCEPT ![p] = "none"]
  /\ sent' = [sent EXCEPT ![p] = 0]

(* Every attempt is saved, over whatever the Store holds. *)
SaveOutcome(p) ==
  /\ wpc[p] = "save"
  /\ jobs' = [jobs EXCEPT ![next[p].id] = AfterAttempt(p)]
  /\ IF Done(p) THEN Release(p) ELSE WorkerGoes(p, "backoff") /\ UNCHANGED next
  /\ EndOfCall(p)
  /\ UNCHANGED <<daemon, clientVars, cancelling, now, boundVars, historyVars>>

(* That Save fails: runClaimedJob returns, and the Job stays as stored. *)
SaveFails(p) ==
  /\ SaveMayFail
  /\ wpc[p] = "save"
  /\ abandoned' = abandoned \cup {next[p].id}
  /\ Release(p)
  /\ EndOfCall(p)
  /\ UNCHANGED <<jobs, daemon, clientVars, cancelling, now, boundVars, calls, delivered>>

(* sleepCtx returns: another attempt, or the shutdown cut the wait short and *)
(* the Job is left running.                                                  *)
Backoff(p) ==
  /\ wpc[p] = "backoff"
  /\ IF daemon = "draining" THEN Release(p) ELSE WorkerGoes(p, "attempt") /\ UNCHANGED next
  /\ UNCHANGED <<jobs, daemon, outcome, sent, clientVars, cancelling, now, boundVars,
                 historyVars>>

WorkerStep(p) ==
  \/ WorkerCheck(p) \/ WorkerClaim(p) \/ WorkerIdle(p) \/ BeginAttempt(p)
  \/ Dial(p) \/ Write(p) \/ SaveOutcome(p) \/ SaveFails(p) \/ Backoff(p)

-----------------------------------------------------------------------------
(* Queue.Cancel: Get, then Save, with nothing held in between. *)

CancelGet(x) ==
  /\ daemon \in {"serving", "draining"} /\ cancelling[x] = NoJob
  /\ \E j \in InState("pending") :
       cancelling' = [cancelling EXCEPT ![x] = [jobs[j] EXCEPT !.state = "cancelled"]]
  /\ UNCHANGED <<jobs, daemon, workerVars, clientVars, now, boundVars, historyVars>>

CancelSave(x) ==
  /\ cancelling[x] # NoJob
  /\ \/ jobs' = [jobs EXCEPT ![cancelling[x].id] = cancelling[x]]
     \/ SaveMayFail /\ UNCHANGED jobs
  /\ cancelling' = [cancelling EXCEPT ![x] = NoJob]
  /\ UNCHANGED <<daemon, workerVars, clientVars, now, boundVars, historyVars>>

-----------------------------------------------------------------------------
(* The life of the daemon: run, shutdownOnSignal and what ends them early. *)

(* Reconcile's loop, one Job and one Save at a time, in ID order.  Nothing *)
(* else writes before the workers and the server start.                    *)
ReconcileJob ==
  /\ daemon = "reconciling"
  /\ \E j \in Lowest(InState("running")) :
       LET attempts == jobs[j].attempts + 1 IN
       jobs' = [jobs EXCEPT ![j] =
         [@ EXCEPT !.attempts = attempts, !.lastError = "interrupted",
                   !.state = IF attempts < MaxAttempts THEN "pending" ELSE "failed"]]
  /\ UNCHANGED <<daemon, workerVars, clientVars, cancelling, now, boundVars,
                 historyVars>>

(* Mutant of Reconciled: the workers do not wait. *)
ReconciledOrNot == TRUE

(* Reconcile has resolved every Job it found running. *)
Reconciled == InState("running") = {}

(* Reconcile is through: startWorker, then ListenAndServe. *)
StartWorkers ==
  /\ daemon = "reconciling" /\ Reconciled
  /\ daemon' = "serving"
  /\ wpc' = [p \in Printer |-> "poll"]
  /\ UNCHANGED <<jobs, next, outcome, sent, clientVars, cancelling, now, boundVars,
                 historyVars>>

(* The first SIGTERM or SIGINT: the workers' context is cancelled and the   *)
(* server stops accepting.                                                  *)
Signal ==
  /\ daemon = "serving" /\ restarts < MaxRestarts
  /\ daemon' = "draining"
  /\ restarts' = restarts + 1
  /\ UNCHANGED <<jobs, workerVars, clientVars, cancelling, now, requests, historyVars>>

(* The process is gone, and with it all it held in memory. *)
ProcessEnds ==
  /\ daemon' = "down"
  /\ wpc' = [p \in Printer |-> "off"]
  /\ next' = [p \in Printer |-> NoJob]
  /\ outcome' = [p \in Printer |-> "none"]
  /\ sent' = [p \in Printer |-> 0]
  /\ call' = [c \in Client |-> IF InFlight(c) THEN NoCall ELSE call[c]]
  /\ cancelling' = [x \in Canceller |-> NoJob]
  /\ abandoned' = {}
  /\ UNCHANGED <<jobs, reply, now, requests, calls, delivered>>

(* The drain completes: every worker has returned and every request under  *)
(* way has been answered.                                                  *)
Drained ==
  /\ daemon = "draining"
  /\ \A p \in Printer : wpc[p] = "stopped"
  /\ \A c \in Client : ~InFlight(c)
  /\ \A x \in Canceller : cancelling[x] = NoJob
  /\ ProcessEnds
  /\ UNCHANGED restarts

(* shutdownDeadline expires first: exit, whatever is still under way. *)
Deadline ==
  /\ daemon = "draining"
  /\ ProcessEnds
  /\ UNCHANGED restarts

(* A crash at any point.  A second signal and a ListenAndServe error end   *)
(* the process the same way.                                               *)
Crash ==
  /\ daemon # "down" /\ restarts < MaxRestarts
  /\ ProcessEnds
  /\ restarts' = restarts + 1

(* Reconcile returns a Store error: run exits before serving. *)
ReconcileFails ==
  /\ SaveMayFail
  /\ daemon = "reconciling" /\ ~Reconciled
  /\ ProcessEnds
  /\ UNCHANGED restarts

(* The process is started again.  memoryStore starts empty. *)
Restart ==
  /\ daemon = "down"
  /\ daemon' = "reconciling"
  /\ IF Store = "bbolt" THEN UNCHANGED <<jobs, calls, delivered>>
     ELSE /\ jobs' = [j \in JobId |-> NoJob]
          /\ calls' = [j \in JobId |-> 0]
          /\ delivered' = [j \in JobId |-> 0]
  /\ UNCHANGED <<workerVars, clientVars, cancelling, now, boundVars, abandoned>>

Tick ==
  /\ now < MaxTime
  /\ now' = now + 1
  /\ UNCHANGED <<jobs, daemon, workerVars, clientVars, cancelling, boundVars,
                 historyVars>>

-----------------------------------------------------------------------------
Init ==
  /\ jobs = [j \in JobId |-> NoJob]
  /\ daemon = "reconciling"
  /\ wpc = [p \in Printer |-> "off"]
  /\ next = [p \in Printer |-> NoJob]
  /\ outcome = [p \in Printer |-> "none"]
  /\ sent = [p \in Printer |-> 0]
  /\ call = [c \in Client |-> NoCall]
  /\ reply = [c \in Client |-> NoReply]
  /\ cancelling = [x \in Canceller |-> NoJob]
  /\ now = 0 /\ requests = 0 /\ restarts = 0
  /\ calls = [j \in JobId |-> 0]
  /\ delivered = [j \in JobId |-> 0]
  /\ abandoned = {}

ClientStep(c) == Enqueue(c) \/ EnqueueIdempotent(c) \/ RequestFails(c)

DaemonStep == ReconcileJob \/ StartWorkers \/ Drained \/ Deadline \/ Restart

Next ==
  \/ \E c \in Client : RequestArrive(c) \/ ClientStep(c)
  \/ \E p \in Printer : WorkerStep(p)
  \/ \E x \in Canceller : CancelGet(x) \/ CancelSave(x)
  \/ DaemonStep \/ Signal \/ Crash \/ ReconcileFails \/ Tick

Spec == Init /\ [][Next]_vars

(* The scheduling the code relies on: goroutines run, a dial and a write   *)
(* end (both are bounded by networkTimeout), timers fire (the shutdown     *)
(* deadline too), requests are handled to the end, and a supervisor        *)
(* restarts the process.  Nothing says that a dial or a write succeeds, or *)
(* that requests, signals or crashes ever come.                            *)
WorkerFair(p) == WF_vars(WorkerStep(p))
DaemonFair    == WF_vars(DaemonStep) /\ \A c \in Client : WF_vars(ClientStep(c))

-----------------------------------------------------------------------------
(* Properties. *)

(* Every variable has its type; a worker's Job is its own record. *)
TypeOK ==
  /\ jobs \in [JobId -> Job \cup {NoJob}]
  /\ daemon \in DaemonPhase
  /\ wpc \in [Printer -> WorkerPC]
  /\ next \in [Printer -> Job \cup {NoJob}]
  /\ outcome \in [Printer -> Outcome]
  /\ sent \in [Printer -> Nat]
  /\ call \in [Client -> PrintCall \cup {NoCall}]
  /\ reply \in [Client -> JobId \cup {NoReply}]
  /\ cancelling \in [Canceller -> Job \cup {NoJob}]
  /\ now \in Nat /\ requests \in Nat /\ restarts \in Nat
  /\ calls \in [JobId -> Nat] /\ delivered \in [JobId -> Nat]
  /\ abandoned \subseteq JobId

(* Worker p holds Job j between its claim and the end of runClaimedJob. *)
Holds(p, j) == next[p] # NoJob /\ next[p].id = j

(* The retry budget survives crashes, shutdowns and failed Saves: between a *)
(* client's request and the next same-key retry, Process is called at most  *)
(* queue.max_attempts times for a Job, however often the daemon dies.       *)
RetryBudget == \A j \in JobId : calls[j] <= MaxAttempts

(* The Process call that made a Job done put out every copy asked for, and   *)
(* not one more, by itself: the copies of calls that failed before it, on    *)
(* paper though they are, count for nothing.                                 *)
DoneMeansDelivered ==
  \A j \in InState("done") : delivered[j] = Copies[jobs[j].receipt]

(* While the daemon serves, no Job is running without a worker that runs    *)
(* it, except one whose worker could not save it: reconciliation left none  *)
(* behind, and a Job a worker gives up goes through the Store first.        *)
NoLimbo ==
  daemon = "serving" =>
    \A j \in InState("running") : (\E p \in Printer : Holds(p, j)) \/ j \in abandoned

(* No Job is processed by two workers, or for a printer that is not its own. *)
OneWorkerPerJob ==
  \A p \in Printer : next[p] # NoJob =>
    /\ next[p].printer = p
    /\ \A q \in Printer \ {p} : ~Holds(q, next[p].id)

(* Two Jobs carry the same idempotency key only if they were created more   *)
(* than IdempotencyKeyTTL apart, although each request reads the clock      *)
(* before its transaction and may be overtaken by later ones.               *)
KeySpacing ==
  \A j, k \in Stored :
    j # k /\ jobs[j].key \in Key /\ jobs[j].key = jobs[k].key =>
      \/ jobs[j].createdAt > jobs[k].createdAt + TTL
      \/ jobs[k].createdAt > jobs[j].createdAt + TTL

(* The Job ID a client was answered with stands for what it asked for: that *)
(* Job is stored, for its printer and receipt and under its key, whatever   *)
(* became of the daemon since.                                              *)
ReplyStands ==
  Store = "bbolt" =>
    \A c \in Client : reply[c] # NoReply =>
      /\ reply[c] \in Stored
      /\ jobs[reply[c]].printer = call[c].printer
      /\ jobs[reply[c]].receipt = call[c].receipt
      /\ jobs[reply[c]].key = call[c].key

(* Without a caller of Queue.Cancel, as in the daemon, and with the durable *)
(* Store, each Job lives the life JobLifecycle promises.                    *)
Lifecycle == INSTANCE JobLifecycle WITH
  status <- [j \in JobId |-> IF jobs[j] = NoJob THEN "absent" ELSE jobs[j].state],
  tries <- calls
ImplementsLifecycle == Lifecycle!Spec

(* Jobs that will not change unless a client asks. *)
Ended(j) == j \in Stored /\ jobs[j].state \in {"done", "failed", "cancelled"}
Waiting(j, P) == j \in InState("pending") /\ jobs[j].printer \in P

(* What makes those properties inductive. *)

(* Two records of one Job, written at different times. *)
Agree(a, b) ==
  /\ a.id = b.id /\ a.printer = b.printer /\ a.receipt = b.receipt
  /\ a.key = b.key /\ a.createdAt = b.createdAt

(* Nobody works or cancels while no process serves, and a worker has a copy *)
(* of a Job exactly while it works on it.                                   *)
Working == {"attempt", "dial", "write", "save", "backoff"}

Phases ==
  /\ \A p \in Printer : next[p] # NoJob <=> wpc[p] \in Working
  /\ daemon \in {"down", "reconciling"} =>
       /\ \A p \in Printer : wpc[p] = "off"
       /\ \A x \in Canceller : cancelling[x] = NoJob

(* The copies that workers and cancellers will save over the Store differ   *)
(* from what it holds in state, attempts and error only.                    *)
CopiesAgree ==
  /\ \A j \in Stored : jobs[j].id = j
  /\ \A p \in Printer : next[p] # NoJob =>
       /\ next[p].id \in Stored /\ Agree(next[p], jobs[next[p].id])
       /\ next[p].printer = p /\ next[p].state = "running"
       /\ jobs[next[p].id].state \in {"running", "cancelled"}
  /\ \A x \in Canceller : cancelling[x] # NoJob =>
       /\ cancelling[x].id \in Stored /\ Agree(cancelling[x], jobs[cancelling[x].id])
       /\ cancelling[x].state = "cancelled"

(* The attempts the Store knows of lag by at most the one under way, and    *)
(* there is budget left wherever a call may follow.                         *)
AttemptsDurable ==
  /\ \A j \in Stored :
       /\ jobs[j].state = "pending" =>
            calls[j] <= jobs[j].attempts /\ jobs[j].attempts < MaxAttempts
       /\ jobs[j].state = "running" =>
            calls[j] <= jobs[j].attempts + 1 /\ jobs[j].attempts < MaxAttempts
  /\ \A p \in Printer : next[p] # NoJob =>
       /\ calls[next[p].id] <= next[p].attempts /\ next[p].attempts <= MaxAttempts
       /\ wpc[p] \in {"attempt", "backoff"} =>
            /\ next[p].attempts < MaxAttempts
            /\ jobs[next[p].id].state = "running" =>
                 jobs[next[p].id].attempts = next[p].attempts

(* The copies a call counts are those it put on paper, it goes on only while *)
(* one is left, and it returns nil when all are out.                         *)
SentIsDelivered ==
  \A p \in Printer : next[p] # NoJob =>
    /\ wpc[p] \in {"dial", "write"} =>
         sent[p] = delivered[next[p].id] /\ sent[p] < Copies[next[p].receipt]
    /\ wpc[p] = "save" /\ outcome[p] = "ok" =>
         delivered[next[p].id] = Copies[next[p].receipt]

Inv == Phases /\ CopiesAgree /\ AttemptsDurable /\ SentIsDelivered

(* With the workers of P scheduled fairly, a pending Job of P is eventually *)
(* done, failed or cancelled, through retries, shutdowns, crashes and       *)
(* reconciliation.                                                          *)
JobsEnd(P) == \A j \in JobId : Waiting(j, P) ~> Ended(j)
=============================================================================
