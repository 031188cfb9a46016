CONSTANTS
  j1 = j1
  j2 = j2
  r1 = r1
  r2 = r2
  NoJob = NoJob
  Jobs = {j1, j2}
  Workers = {w1, w2}
  Requests = {r1, r2}
  RequestOf <- MCRequestOf
  Priority <- MCPriority
  MaxAttempts = 2
  AttemptLimit = 2
  BroadcastJobs = {}
  Limit = 1
  Stalls = FALSE
  Faults = {}
  Killable = {}
  Callers = {c1, c2}
  Ops = {"enqueue", "cancel"}
  RetryExtra = 1
  Handlers = {}
  AckTypes = {}
SPECIFICATION SysSpec
SYMMETRY Symmetry
INVARIANTS
  QuiescentBooks
  QueuedJobHoldsQuota
CHECK_DEADLOCK FALSE
