CONSTANTS
  j1 = j1
  j2 = j2
  r1 = r1
  r2 = r2
  NoJob = NoJob
  Jobs = {j1}
  Workers = {w1}
  Requests = {r1, r2}
  RequestOf <- MCRequestOf
  Priority <- MCPriority
  MaxAttempts = 1
  AttemptLimit = 2
  BroadcastJobs = {j1}
  Limit = 2
  Stalls = FALSE
  Faults = {"create"}
  Killable = {}
  Callers = {c1, c2}
  Ops = {"enqueue", "cancel", "retry", "delete"}
  RetryExtra = 1
  Handlers = {h1, h2}
  AckTypes = {"DELIVERED", "READ"}
SPECIFICATION SysSpec
SYMMETRY Symmetry
INVARIANTS
  JobsStaySound
PROPERTIES
  DeliveryOnlyAdvances
  ImplementsLifecycle
CHECK_DEADLOCK FALSE
