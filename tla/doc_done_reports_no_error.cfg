\* job_status.go: only a failed Job reports a failure.
SPECIFICATION Spec
CONSTANTS
  p1 = p1
  p2 = p2
  r1 = r1
  r2 = r2
  NoKey = NoKey
  NoJob = NoJob
  NoCall = NoCall
  NoReply = NoReply
  JobId = {1, 2}
  Printer = {p1}
  Unconfigured = {}
  Receipt = {r1}
  Copies <- MCCopies
  Client = {c1}
  Canceller = {}
  Key = {}
  Store = "bbolt"
  SaveMayFail = FALSE
  MaxAttempts = 2
  TTL = 1
  MaxTime = 0
  MaxRequests = 2
  MaxRestarts = 1
INVARIANTS
  DoneReportsNoError
