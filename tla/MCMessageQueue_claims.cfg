CONSTANTS
  j1 = j1
  j2 = j2
  r1 = r1
  r2 = r2
  NoJob = NoJob
  Jobs = {j1}
  Workers = {w1, w2}
  Requests = {r1, r2}
  RequestOf <- MCRequestOf
  Priority <- MCPriority
  MaxAttempts = 2
  AttemptLimit = 2
  BroadcastJobs = {j1}
  Limit = 2
  Stalls = TRUE
  Faults = {"claim", "settle", "tx"}
  Killable = {w1, w2}
SPECIFICATION Spec
SYMMETRY WorkerSymmetry
INVARIANTS
  TypeOK
  NoStrandedQueued
  HistoryMatchesJob
  RecipientMatchesJob
  SendsBounded
  SentIsPaid
  FailureIsReported
PROPERTIES
  LiveClaimIsExclusive
CHECK_DEADLOCK FALSE
