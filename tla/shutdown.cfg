\* Two workers and two connections, any of which may hang; up to three signals.
\* The process stops when it exits.
SPECIFICATION FairSpec
CONSTANTS
  Printer = {p1, p2}
  Conn = {c1, c2}
  MaxSignals = 3
INVARIANTS
  TypeOK
  CleanExit
  ForcedForCause
  Inv
PROPERTIES
  SignalEnds
CHECK_DEADLOCK FALSE
