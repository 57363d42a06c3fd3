--------------------------- MODULE ShutdownProofs ---------------------------
(* What holds of the daemon's shutdown for any number of printers,         *)
(* connections and signals.                                                *)
EXTENDS Shutdown, TLAPS

LEMMA InitialSafe == Init => TypeOK /\ Inv
<1>1. Init => TypeOK
  <2>1. Init => cancelled \in BOOLEAN
    BY Zenon DEF Init
  <2>2. Init => sigCh \in 0..2 /\ signals \in Nat
    BY DEF Init
  <2>. QED BY <2>1, <2>2, Zenon DEF Init, TypeOK
<1>2. Init => Inv
  BY DEF Init, Inv, Stages, Seen
<1>. QED BY <1>1, <1>2

(* No step leaves the types and the invariant. *)
LEMMA StepSafe == TypeOK /\ Inv /\ [Next]_vars => TypeOK' /\ Inv'
<1>. SUFFICES ASSUME TypeOK, Inv, [Next]_vars
              PROVE  TypeOK' /\ Inv'
  OBVIOUS
<1>. USE DEF TypeOK, Inv, Stages, Seen, Alive
<1>1. CASE SignalArrives
  BY <1>1 DEF SignalArrives, Drained
<1>2. CASE ReconcileReturns \/ Notify
  BY <1>2 DEF ReconcileReturns, Notify, Drained
<1>3. CASE Start
  BY <1>3 DEF Start, Drained
<1>4. CASE RunSelect
  BY <1>4 DEF RunSelect, Received, DrainContext, Drained
<1>5. CASE DrainSelect
  BY <1>5 DEF DrainSelect, Received, ExitOf, Drained
<1>6. CASE ShutdownBegins \/ CloseListener
  BY <1>6 DEF ShutdownBegins, CloseListener, Drained
<1>7. CASE CloserReturns \/ ShutdownSelect \/ Deadline
  BY <1>7 DEF CloserReturns, ShutdownSelect, Deadline, Drained
<1>8. CASE ListenAndServe
  BY <1>8 DEF ListenAndServe, Drained
<1>9. ASSUME NEW p \in Printer, WorkerStep(p)
      PROVE  TypeOK' /\ Inv'
  BY <1>9 DEF WorkerStep, WorkerCheck, WorkerReturns, WorkerWakes, WorkerGoes, Drained
<1>10. ASSUME NEW c \in Conn, ConnStep(c)
       PROVE  TypeOK' /\ Inv'
  BY <1>10 DEF ConnStep, Accept, Handle, Finish, ConnGoes, Drained
<1>11. CASE UNCHANGED vars
  BY <1>11 DEF vars, Drained
<1>. QED
  BY <1>1, <1>2, <1>3, <1>4, <1>5, <1>6, <1>7, <1>8, <1>9, <1>10, <1>11
  DEF Next, RunStep, StopStep

(* Every variable keeps its type, and each goroutine is only as far as the  *)
(* others let it be.                                                        *)
THEOREM SafeAlways == Spec => [](TypeOK /\ Inv)
BY InitialSafe, StepSafe, PTL DEF Spec

(* Every goroutine, listener and channel is in a state the code has. *)
THEOREM TypeCorrect == Spec => []TypeOK
BY SafeAlways, PTL

(* The stages of the shutdown follow one another in the code's order, and   *)
(* what each part of the daemon has seen of it is never ahead of it.        *)
THEOREM StagesKept == Spec => []Inv
BY SafeAlways, PTL

(* Exit code 0 is a clean drain, but for the connections the deadline cut.  *)
THEOREM CleanExits == Spec => []CleanExit
<1>1. TypeOK /\ Inv => CleanExit
  BY DEF TypeOK, Inv, Stages, Seen, Drained, CleanExit
<1>. QED BY <1>1, SafeAlways, PTL

(* A drain that one signal began and that ends in time is never reported as *)
(* forced: code 1 then means that the deadline passed.                      *)
THEOREM ForcedExits == Spec => []ForcedForCause
<1>1. Init => ForcedForCause
  BY DEF Init, ForcedForCause
<1>2. TypeOK /\ Inv /\ ForcedForCause /\ [Next]_vars => ForcedForCause'
  <2>. SUFFICES ASSUME TypeOK, Inv, ForcedForCause, [Next]_vars
                PROVE  ForcedForCause'
    OBVIOUS
  <2>. USE DEF TypeOK, Inv, Stages, Seen, Alive, ForcedForCause
  <2>1. CASE DrainSelect
    BY <2>1 DEF DrainSelect, Received, ExitOf
  <2>2. CASE RunSelect
    BY <2>2 DEF RunSelect
  <2>3. CASE SignalArrives \/ ReconcileReturns \/ Notify \/ Start \/ StopStep \/ Deadline
             \/ ListenAndServe
    BY <2>3 DEF SignalArrives, ReconcileReturns, Notify, Start, StopStep, Deadline,
                ListenAndServe, ShutdownBegins, CloseListener, CloserReturns,
                ShutdownSelect
  <2>4. CASE (\E p \in Printer : WorkerStep(p)) \/ (\E c \in Conn : ConnStep(c))
    BY <2>4 DEF WorkerStep, WorkerCheck, WorkerReturns, WorkerWakes, WorkerGoes,
                ConnStep, Accept, Handle, Finish, ConnGoes
  <2>5. CASE UNCHANGED vars
    BY <2>5 DEF vars
  <2>. QED BY <2>1, <2>2, <2>3, <2>4, <2>5 DEF Next, RunStep
<1>. QED BY <1>1, <1>2, SafeAlways, PTL DEF Spec
=============================================================================
