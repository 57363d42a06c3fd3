----------------------------- MODULE MCJobQueue -----------------------------
(* Small instances of JobQueue for TLC, and the statements of the          *)
(* documentation that the code does not keep.                              *)
EXTENDS JobQueue, TLC

CONSTANTS p1, p2, r1, r2

(* Receipt r2 asks for two copies: a partial copy run is possible. *)
MCCopies == [r \in Receipt |-> IF r = r2 THEN 2 ELSE 1]

(* Or both for one, where a Job only matters for its key and its end. *)
SingleCopies == [r \in Receipt |-> 1]

(* Clients and cancellers are interchangeable. *)
ClientSymmetry == Permutations(Client) \cup Permutations(Canceller)

-----------------------------------------------------------------------------
(* Printer p2 may hang at any point: only p1's worker is known to run. *)
IsolatedSpec == Spec /\ DaemonFair /\ WorkerFair(p1)

(* A printer that hangs delays no other printer's Jobs (ADR-0016): the Jobs *)
(* of p1 end, through retries, shutdowns, crashes and reconciliation, with  *)
(* nothing assumed about p2's worker.                                       *)
HealthyJobsEnd == JobsEnd({p1})

-----------------------------------------------------------------------------
(* ADR-0020, lines 216-217: "A Failed Job never caused a physical print".  *)
(* It is why a same-key retry of a Failed Job may print again.  A copy put *)
(* out by the Job's last Process call is enough to refute it.              *)
FailedNeverPrinted == \A j \in InState("failed") : delivered[j] = 0

(* ADR-0018, lines 105-109: a Process call under way when the shutdown     *)
(* begins is not cancelled and runs to its natural end.  A call that has   *)
(* sent a copy was under way before its next dial was cancelled.           *)
ShutdownSparesProcess == \A p \in Printer : outcome[p] = "canceled" => sent[p] = 0

(* job_status.go, lines 69 and 77-78: only a failed Job's LastError is     *)
(* replaced, a Job that has not failed has none to report.                 *)
DoneReportsNoError == \A j \in InState("done") : jobs[j].lastError = "none"
=============================================================================
