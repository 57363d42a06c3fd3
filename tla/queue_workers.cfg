\* Two workers, a printer name without one, callers of Queue.Cancel, and the
\* in-memory store, which a restart empties.
SPECIFICATION Spec
CONSTANTS
  p1 = p1
  p2 = p2
  r1 = r1
  r2 = r2
  NoKey = NoKey
  NoJob = NoJob
  NoCall = NoCall
  NoReply = NoReply
  JobId = {1, 2}
  Printer = {p1, p2}
  Unconfigured = {p3}
  Receipt = {r1}
  Copies <- MCCopies
  Client = {c1}
  Canceller = {x1}
  Key = {k1}
  Store = "memory"
  SaveMayFail = FALSE
  MaxAttempts = 2
  TTL = 1
  MaxTime = 0
  MaxRequests = 2
  MaxRestarts = 1
INVARIANTS
  OneWorkerPerJob
  NoLimbo
  Inv
