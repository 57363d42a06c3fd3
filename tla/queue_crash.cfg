\* Two Jobs on one printer; crashes, shutdowns and failing Saves at any point.
SPECIFICATION Spec
CONSTANTS
  p1 = p1
  p2 = p2
  r1 = r1
  r2 = r2
  NoKey = NoKey
  NoJob = NoJob
  NoCall = NoCall
  NoReply = NoReply
  JobId = {1, 2}
  Printer = {p1}
  Unconfigured = {}
  Receipt = {r1, r2}
  Copies <- MCCopies
  Client = {c1}
  Canceller = {}
  Key = {k1}
  Store = "bbolt"
  SaveMayFail = TRUE
  MaxAttempts = 2
  TTL = 1
  MaxTime = 0
  MaxRequests = 2
  MaxRestarts = 2
INVARIANTS
  TypeOK
  RetryBudget
  AttemptsDurable
  NoLimbo
  DoneMeansDelivered
  ReplyStands
PROPERTIES
  ImplementsLifecycle
