\* ADR-0020: a Failed Job never caused a physical print.
SPECIFICATION Spec
CONSTANTS
  p1 = p1
  p2 = p2
  r1 = r1
  r2 = r2
  NoKey = NoKey
  NoJob = NoJob
  NoCall = NoCall
  NoReply = NoReply
  JobId = {1, 2}
  Printer = {p1}
  Unconfigured = {}
  Receipt = {r2}
  Copies <- MCCopies
  Client = {c1}
  Canceller = {}
  Key = {}
  Store = "bbolt"
  SaveMayFail = FALSE
  MaxAttempts = 2
  TTL = 1
  MaxTime = 0
  MaxRequests = 2
  MaxRestarts = 0
INVARIANTS
  FailedNeverPrinted
