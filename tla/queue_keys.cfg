\* Two clients share one key; the clock moves past the TTL between their reads
\* and their transactions; Jobs fail, end and are reactivated.
SPECIFICATION Spec
CONSTANTS
  p1 = p1
  p2 = p2
  r1 = r1
  r2 = r2
  NoKey = NoKey
  NoJob = NoJob
  NoCall = NoCall
  NoReply = NoReply
  JobId = {1, 2, 3}
  Printer = {p1}
  Unconfigured = {}
  Receipt = {r1, r2}
  Copies <- SingleCopies
  Client = {c1, c2}
  Canceller = {}
  Key = {k1}
  Store = "bbolt"
  SaveMayFail = FALSE
  MaxAttempts = 1
  TTL = 1
  MaxTime = 2
  MaxRequests = 3
  MaxRestarts = 0
INVARIANTS
  KeySpacing
  ReplyStands
SYMMETRY ClientSymmetry
