---------------------------- MODULE SendContract ----------------------------
(***************************************************************************)
(* What printer.Printer promises the queue's workers of Send, and what     *)
(* JobQueue builds on with its Dial and Write: a call that returns no      *)
(* error has put all its bytes on the paper, one that fails may have put   *)
(* some there, and a cancelled context ends it before the first byte or    *)
(* not at all.                                                             *)
(***************************************************************************)
CONSTANT Name

VARIABLES
  call,       \* where the call of each printer's worker is
  paper,      \* what the call has put on the paper
  returned,   \* what the last call returned
  cancelled   \* the workers' context

vars == <<call, paper, returned, cancelled>>

Init ==
  /\ call = [p \in Name |-> "none"]
  /\ paper = [p \in Name |-> "nothing"]
  /\ returned = [p \in Name |-> "nothing"]
  /\ cancelled = FALSE

Begin(p) ==
  /\ call[p] = "none"
  /\ call' = [call EXCEPT ![p] = "dialing"]
  /\ paper' = [paper EXCEPT ![p] = "nothing"]
  /\ returned' = [returned EXCEPT ![p] = "nothing"]
  /\ UNCHANGED cancelled

Connect(p) ==
  /\ call[p] = "dialing"
  /\ ~cancelled
  /\ call' = [call EXCEPT ![p] = "writing"]
  /\ UNCHANGED <<paper, returned, cancelled>>

Put(p, amount) ==
  /\ call[p] = "writing"
  /\ amount # "nothing"
  /\ paper[p] # "all"
  /\ paper' = [paper EXCEPT ![p] = amount]
  /\ UNCHANGED <<call, returned, cancelled>>

Succeed(p) ==
  /\ call[p] = "writing"
  /\ paper[p] = "all"
  /\ call' = [call EXCEPT ![p] = "none"]
  /\ returned' = [returned EXCEPT ![p] = "ok"]
  /\ UNCHANGED <<paper, cancelled>>

\* A write may fail after the printer took what it was given.
Fail(p, amount) ==
  /\ call[p] # "none"
  /\ amount # paper[p] => call[p] = "writing" /\ paper[p] # "all" /\ amount # "nothing"
  /\ call' = [call EXCEPT ![p] = "none"]
  /\ paper' = [paper EXCEPT ![p] = amount]
  /\ returned' = [returned EXCEPT ![p] = "transient"]
  /\ UNCHANGED cancelled

Cancel == ~cancelled /\ cancelled' = TRUE /\ UNCHANGED <<call, paper, returned>>

Next ==
  \/ \E p \in Name : Begin(p) \/ Connect(p) \/ Succeed(p)
  \/ \E p \in Name, amount \in {"nothing", "part", "all"} : Put(p, amount) \/ Fail(p, amount)
  \/ Cancel

Spec == Init /\ [][Next]_vars

=============================================================================
