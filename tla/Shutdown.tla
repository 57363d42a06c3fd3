------------------------------ MODULE Shutdown ------------------------------
(***************************************************************************)
(* How the daemon starts, stops and exits (cmd/receiptd/shutdown.go and    *)
(* the worker loop of daemon.go): the goroutines of run, shutdownOnSignal  *)
(* and shutdown, the channels between them, the workers, and the HTTP      *)
(* server they stop.  JobQueue has the same life seen from the Store, with *)
(* this module's steps folded into Signal, Drained, Deadline and Crash.    *)
(*                                                                         *)
(* A select is one step that takes any case that is ready.  A goroutine    *)
(* that is slow to reach its select finds several ready, so each choice is *)
(* one the program can make.                                               *)
(***************************************************************************)
EXTENDS Naturals

CONSTANTS
  Printer,     (* configured printers: one worker each                      *)
  Conn,        (* connections that clients may hold                         *)
  MaxSignals   (* bound: SIGTERMs and SIGINTs in a behaviour                *)

ASSUME SignalAssumption == MaxSignals \in Nat

VARIABLES
  run,         (* where run is: its startup, its select, the drain's select *)
  sigCh,       (* signals in the channel's buffer of two                    *)
  signals,     (* signals sent to the process so far                        *)
  exit,        (* how the process ended                                     *)
  cancelled,   (* d.workerCancel was called                                 *)
  worker,      (* worker[p]: where runWorker is in its loop                 *)
  server,      (* the listener of ListenAndServe                            *)
  conn,        (* conn[c]: what the server has of connection c              *)
  ctx,         (* the context of the drain                                  *)
  stop,        (* d.shutdown: not begun, in its select, or what it returned *)
  closer       (* the goroutine that calls srv.Shutdown                     *)

vars == <<run, sigCh, signals, exit, cancelled, worker, server, conn, ctx, stop, closer>>

Alive == exit = "none"

-----------------------------------------------------------------------------
(* Signals. *)

(* Before signal.Notify the default action ends the process; after it, a    *)
(* signal that finds the buffer full is dropped.                            *)
SignalArrives ==
  /\ Alive /\ signals < MaxSignals
  /\ signals' = signals + 1
  /\ IF run \in {"reconcile", "notify"}
       THEN exit' = "killed" /\ UNCHANGED sigCh
       ELSE sigCh' = (IF sigCh < 2 THEN sigCh + 1 ELSE sigCh) /\ UNCHANGED exit
  /\ UNCHANGED <<run, cancelled, worker, server, conn, ctx, stop, closer>>

(* Mutant of Received: the first signal is left for the drain to see. *)
Peeked == sigCh

(* A receive takes its signal out of the buffer. *)
Received == sigCh - 1

-----------------------------------------------------------------------------
(* run *)

(* Reconcile returns, with an error or without. *)
ReconcileReturns ==
  /\ Alive /\ run = "reconcile"
  /\ \/ run' = "notify" /\ UNCHANGED exit
     \/ exit' = "1" /\ UNCHANGED run
  /\ UNCHANGED <<sigCh, signals, cancelled, worker, server, conn, ctx, stop, closer>>

Notify ==
  /\ Alive /\ run = "notify"
  /\ run' = "start"
  /\ UNCHANGED <<sigCh, signals, exit, cancelled, worker, server, conn, ctx, stop, closer>>

(* startWorker, then the goroutine of ListenAndServe. *)
Start ==
  /\ Alive /\ run = "start"
  /\ run' = "select"
  /\ worker' = [p \in Printer |-> "check"]
  /\ server' = "starting"
  /\ UNCHANGED <<sigCh, signals, exit, cancelled, conn, ctx, stop, closer>>

(* Mutant of DrainContext: the drain is not bounded. *)
UnboundedContext == "background"

(* context.WithTimeout(Background, deadline). *)
DrainContext == "live"

(* run's select: ListenAndServe failed, or a signal begins the drain. *)
RunSelect ==
  /\ Alive /\ run = "select"
  /\ \/ /\ server = "failed"
        /\ exit' = "1"
        /\ UNCHANGED <<run, sigCh, ctx, stop>>
     \/ /\ sigCh > 0
        /\ sigCh' = Received
        /\ run' = "drain"
        /\ ctx' = DrainContext
        /\ stop' = "begin"
        /\ UNCHANGED exit
  /\ UNCHANGED <<signals, cancelled, worker, server, conn, closer>>

(* The exit code for what d.shutdown returned. *)
ExitOf(result) == IF result = "drained" THEN "0" ELSE "1"

(* shutdownOnSignal's select: d.shutdown returned, or a second signal. *)
DrainSelect ==
  /\ Alive /\ run = "drain"
  /\ \/ /\ stop \in {"drained", "expired"}
        /\ exit' = ExitOf(stop)
        /\ UNCHANGED <<sigCh, ctx>>
     \/ /\ sigCh > 0
        /\ sigCh' = Received
        /\ ctx' = "cancelled"
        /\ exit' = "1"
  /\ UNCHANGED <<run, signals, cancelled, worker, server, conn, stop, closer>>

-----------------------------------------------------------------------------
(* d.shutdown and the goroutines it starts. *)

ShutdownBegins ==
  /\ Alive /\ stop = "begin"
  /\ cancelled' = TRUE
  /\ stop' = "select"
  /\ closer' = "begin"
  /\ UNCHANGED <<run, sigCh, signals, exit, worker, server, conn, ctx>>

(* srv.Shutdown closes the listener, which ends ListenAndServe with         *)
(* ErrServerClosed, also when it had not listened yet.                      *)
CloseListener ==
  /\ Alive /\ closer = "begin"
  /\ server' = "closed"
  /\ closer' = "polling"
  /\ UNCHANGED <<run, sigCh, signals, exit, cancelled, worker, conn, ctx, stop>>

(* It returns when no connection is in use, or when the context is done;    *)
(* its error is dropped.                                                    *)
CloserReturns ==
  /\ Alive /\ closer = "polling"
  /\ (\A c \in Conn : conn[c] = "none") \/ ctx = "done"
  /\ closer' = "returned"
  /\ UNCHANGED <<run, sigCh, signals, exit, cancelled, worker, server, conn, ctx, stop>>

(* Mutant of Drained: the workers are not waited for. *)
ServerDrained == closer = "returned"

(* The drained channel is closed: srv.Shutdown and d.workers.Wait returned. *)
Drained == closer = "returned" /\ \A p \in Printer : worker[p] = "returned"

ShutdownSelect ==
  /\ Alive /\ stop = "select"
  /\ \/ Drained /\ stop' = "drained"
     \/ ctx = "done" /\ stop' = "expired"
  /\ UNCHANGED <<run, sigCh, signals, exit, cancelled, worker, server, conn, ctx, closer>>

(* shutdownDeadline passes. *)
Deadline ==
  /\ Alive /\ ctx = "live"
  /\ ctx' = "done"
  /\ UNCHANGED <<run, sigCh, signals, exit, cancelled, worker, server, conn, stop, closer>>

-----------------------------------------------------------------------------
(* The workers: runWorker. *)

WorkerGoes(p, pc) ==
  /\ worker' = [worker EXCEPT ![p] = pc]
  /\ UNCHANGED <<run, sigCh, signals, exit, cancelled, server, conn, ctx, stop, closer>>

(* The select before every claim. *)
WorkerCheck(p) ==
  /\ Alive /\ worker[p] = "check"
  /\ WorkerGoes(p, IF cancelled THEN "returned" ELSE "busy")

(* ProcessNextForPrinter returns; then sleepUnlessDone. *)
WorkerReturns(p) == Alive /\ worker[p] = "busy" /\ WorkerGoes(p, "sleep")

WorkerWakes(p) == Alive /\ worker[p] = "sleep" /\ WorkerGoes(p, "check")

-----------------------------------------------------------------------------
(* The server and its connections. *)

(* Listening succeeds or fails, or accepting fails later. *)
ListenAndServe ==
  /\ Alive
  /\ \/ server = "starting" /\ server' = "listening"
     \/ server \in {"starting", "listening"} /\ server' = "failed"
  /\ UNCHANGED <<run, sigCh, signals, exit, cancelled, worker, conn, ctx, stop, closer>>

ConnGoes(c, state) ==
  /\ conn' = [conn EXCEPT ![c] = state]
  /\ UNCHANGED <<run, sigCh, signals, exit, cancelled, worker, server, ctx, stop, closer>>

Accept(c) == Alive /\ server = "listening" /\ conn[c] = "none" /\ ConnGoes(c, "new")

(* Its request is handled, also when the listener was closed since. *)
Handle(c) == Alive /\ conn[c] = "new" /\ ConnGoes(c, "active")

(* It is answered, or dropped without a request; an idle connection counts  *)
(* for nothing.                                                             *)
Finish(c) == Alive /\ conn[c] \in {"new", "active"} /\ ConnGoes(c, "none")

-----------------------------------------------------------------------------
Init ==
  /\ run = "reconcile"
  /\ sigCh = 0 /\ signals = 0
  /\ exit = "none"
  /\ cancelled = FALSE
  /\ worker = [p \in Printer |-> "off"]
  /\ server = "off"
  /\ conn = [c \in Conn |-> "none"]
  /\ ctx = "none"
  /\ stop = "off"
  /\ closer = "off"

RunStep == ReconcileReturns \/ Notify \/ Start \/ RunSelect \/ DrainSelect

StopStep == ShutdownBegins \/ CloseListener \/ CloserReturns \/ ShutdownSelect

WorkerStep(p) == WorkerCheck(p) \/ WorkerReturns(p) \/ WorkerWakes(p)

ConnStep(c) == Accept(c) \/ Handle(c) \/ Finish(c)

Next ==
  \/ SignalArrives \/ RunStep \/ StopStep \/ Deadline \/ ListenAndServe
  \/ \E p \in Printer : WorkerStep(p)
  \/ \E c \in Conn : ConnStep(c)

Spec == Init /\ [][Next]_vars

(* The goroutines of the shutdown run and its deadline fires.  A worker may *)
(* hang in ProcessNextForPrinter, a client may never finish its request.    *)
ShutdownFair == WF_vars(RunStep) /\ WF_vars(ShutdownBegins)
                /\ WF_vars(ShutdownSelect) /\ WF_vars(Deadline)

FairSpec == Spec /\ ShutdownFair

-----------------------------------------------------------------------------
(* Properties. *)

TypeOK ==
  /\ run \in {"reconcile", "notify", "start", "select", "drain"}
  /\ sigCh \in 0..2 /\ signals \in Nat
  /\ exit \in {"none", "0", "1", "killed"}
  /\ cancelled \in BOOLEAN
  /\ worker \in [Printer -> {"off", "check", "busy", "sleep", "returned"}]
  /\ server \in {"off", "starting", "listening", "failed", "closed"}
  /\ conn \in [Conn -> {"none", "new", "active"}]
  /\ ctx \in {"none", "live", "done", "cancelled"}
  /\ stop \in {"off", "begin", "select", "drained", "expired"}
  /\ closer \in {"off", "begin", "polling", "returned"}

(* Exit code 0 promises a clean drain: every worker has returned, so none   *)
(* is cut off in a Send (the copies that were left to send are cancelled),  *)
(* and no connection is in use.  The deadline can spoil the second half     *)
(* only: srv.Shutdown's error is dropped, so when the workers are done and  *)
(* d.shutdown finds both channels ready, it may still take the drained one. *)
CleanExit ==
  exit = "0" =>
    /\ \A p \in Printer : worker[p] = "returned"
    /\ (\A c \in Conn : conn[c] = "none") \/ ctx = "done"

(* Code 1 has a cause: reconciliation or the server failed, a second signal *)
(* came, or the deadline passed.  One signal and a drain in time are never  *)
(* reported as forced.                                                      *)
ForcedForCause ==
  exit = "1" /\ run = "drain" /\ signals < 2 => ctx = "done"

(* What makes those inductive: how far each goroutine can be, given the     *)
(* others, and what each has seen.                                          *)
Stages ==
  /\ run # "drain" => stop = "off" /\ ctx = "none"
  /\ stop \in {"off", "begin"} => closer = "off"
  /\ run = "drain" => ctx # "none"
  /\ ctx = "cancelled" => exit = "1"
  /\ closer \in {"polling", "returned"} => server = "closed"
  /\ exit = "0" => stop = "drained"

Seen ==
  /\ closer = "returned" => (\A c \in Conn : conn[c] = "none") \/ ctx \in {"done", "cancelled"}
  /\ stop = "drained" => Drained
  /\ stop = "expired" => ctx \in {"done", "cancelled"}
  /\ sigCh <= signals
  /\ run = "drain" /\ Alive => sigCh < signals

Inv == Stages /\ Seen

(* A signal ends the process, whatever hangs: a worker in a dial, a client  *)
(* that never finishes its request, a third signal that is dropped.         *)
SignalEnds == signals > 0 ~> ~Alive
=============================================================================
