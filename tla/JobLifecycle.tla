---------------------------- MODULE JobLifecycle ----------------------------
(***************************************************************************)
(* What the print queue promises about one Job, with the store, the        *)
(* workers, the retries and the restarts hidden: the states a Job moves    *)
(* through, and how many times its print may be tried.                     *)
(*                                                                         *)
(* The states are the closed set of queue.JobState (internal/queue/job.go) *)
(* with "absent" for an ID no Job was stored under.  A try is one call of  *)
(* Processor.Process.  JobQueue implements this specification.             *)
(***************************************************************************)
EXTENDS Naturals

CONSTANTS
  JobId,        (* the IDs a Job can be given *)
  MaxAttempts   (* queue.max_attempts         *)

VARIABLES
  status,       (* status[j]: the lifecycle state of Job j                 *)
  tries         (* tries[j]: calls of Process since Job j was last accepted *)
                (* or reactivated                                          *)

lifecycleVars == <<status, tries>>

JobState == {"pending", "running", "done", "failed", "cancelled"}

Init ==
  /\ status = [j \in JobId |-> "absent"]
  /\ tries = [j \in JobId |-> 0]

(* Job j goes from state s to state t; no other Job changes. *)
Move(j, s, t) ==
  /\ status[j] = s
  /\ status' = [status EXCEPT ![j] = t]

(* The request that creates j has been answered. *)
Accept(j) == Move(j, "absent", "pending") /\ UNCHANGED tries

(* The worker of j's printer takes j. *)
Claim(j) == Move(j, "pending", "running") /\ UNCHANGED tries

(* Process is called, for a running Job and inside the budget only. *)
Try(j) ==
  /\ status[j] = "running"
  /\ tries[j] < MaxAttempts
  /\ tries' = [tries EXCEPT ![j] = @ + 1]
  /\ UNCHANGED status

(* A try succeeded; there is no success without one. *)
Succeed(j) == tries[j] > 0 /\ Move(j, "running", "done") /\ UNCHANGED tries

Fail(j) == Move(j, "running", "failed") /\ UNCHANGED tries

(* A restart found j interrupted, with budget left. *)
Requeue(j) == Move(j, "running", "pending") /\ UNCHANGED tries

(* A client retries, under the same key, a print that failed. *)
Reactivate(j) ==
  /\ Move(j, "failed", "pending")
  /\ tries' = [tries EXCEPT ![j] = 0]

Cancel(j) == Move(j, "pending", "cancelled") /\ UNCHANGED tries

Next ==
  \E j \in JobId :
    \/ Accept(j) \/ Claim(j) \/ Try(j) \/ Succeed(j) \/ Fail(j)
    \/ Requeue(j) \/ Reactivate(j) \/ Cancel(j)

Spec == Init /\ [][Next]_lifecycleVars
=============================================================================
