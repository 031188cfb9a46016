CONSTANTS
  j1 = j1
  j2 = j2
  r1 = r1
  r2 = r2
  NoJob = NoJob
  Jobs = {j1}
  Workers = {w1, w2}
  Requests = {r1, r2}
  RequestOf <- MCRequestOf
  Priority <- MCPriority
  MaxAttempts = 1
  AttemptLimit = 2
  BroadcastJobs = {}
  Limit = 2
  Stalls = FALSE
  Faults = {}
  Killable = {}
  Callers = {c1}
  Ops = {"enqueue", "retry"}
  RetryExtra = 1
  Handlers = {}
  AckTypes = {}
SPECIFICATION SysFairSpec
PROPERTIES
  EveryJobSettles
CHECK_DEADLOCK FALSE
