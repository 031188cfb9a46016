---------------------------- MODULE MessageQueue ----------------------------
(***************************************************************************)
(* The durable message queue, worker side: src/lib/message-queue.ts and    *)
(* the loop of src/worker/message-worker.ts, with the quota settlement of  *)
(* usage.ts (UsageOps) that every outcome of a job goes through.           *)
(*                                                                         *)
(* A step is one database statement, one transaction or one external call, *)
(* so anything may happen between the statements of one handler: another   *)
(* worker claims the job, the lease runs out, the process dies.            *)
(*                                                                         *)
(* Time.  A lease is "live", "expired" (leaseExpiresAt < now) or "stale"   *)
(* (expired more than the 60 s grace of the dead-letter sweep).  A queued  *)
(* job is due or still backing off.  A member of Workers is one process    *)
(* incarnation: workerId has a fresh random suffix at every start, so a    *)
(* restart is another member and a dead one never comes back.              *)
(***************************************************************************)
EXTENDS UsageOps, FiniteSets

CONSTANTS
  Jobs,           \* message job ids
  Workers,        \* worker process incarnations
  Requests,       \* (operation, idempotency key) pairs
  RequestOf,      \* the request each job row is created for
  Priority,       \* job.priority
  MaxAttempts,    \* maxAttempts of a new job
  AttemptLimit,   \* bound on the attempts of a job, manual retries included
  BroadcastJobs,  \* jobs that a broadcast recipient is linked to
  Limit,          \* monthly message limit
  Stalls,         \* a working process may miss its heartbeats (event loop, database)
  Faults,         \* "claim", "settle", "tx": which database calls may throw
  Killable,       \* incarnations that may be killed
  NoJob           \* no job

ASSUME FinitenessAssumption == IsFiniteSet(Jobs) /\ IsFiniteSet(Workers)
ASSUME RequestAssumption == RequestOf \in [Jobs -> Requests]
ASSUME PriorityAssumption == Priority \in [Jobs -> Int]
ASSUME AttemptsAssumption ==
  MaxAttempts \in Nat \ {0} /\ AttemptLimit \in Nat /\ MaxAttempts <= AttemptLimit
ASSUME LimitAssumption == Limit \in Nat \cup {Unlimited}
ASSUME NoJobAssumption == NoJob \notin Jobs

VARIABLES
  jobs,      \* MessageJob rows
  log,       \* MessageJobAttempt rows: status of each attempt of each job
  rcpt,      \* status snapshot of the broadcast recipient linked to a job
  events,    \* MessageDeliveryEvent rows, <<job, type>>
  outbox,    \* keys of the WebhookOutboxEvent rows
  usage,     \* counter and ledger of MESSAGES_MONTHLY
  wkr,       \* per worker: its loop, with the job it snapshotted
  sweep,     \* per worker: the dead-letter sweep started with it
  drain,     \* per worker: the recovery that a clean stop runs
  inflight,  \* <<job, attempt>> of dispatches whose caller gave up waiting
  sends      \* history: how often WhatsApp was given the message

tables == <<jobs, log, rcpt, events, outbox, usage>>
vars == <<jobs, log, rcpt, events, outbox, usage, wkr, sweep, drain, inflight, sends>>

Statuses == {"none", "QUEUED", "PROCESSING", "SENT", "DELIVERED", "READ",
             "FAILED", "CANCELLED", "DELETED"}
SentStatuses == {"SENT", "DELIVERED", "READ"}

(* MESSAGES_MONTHLY within one billing period; UsageLedger has the rollover. *)
Month == "month"

(* quotaReservationKey: `message-job:...` and `message-retry:...`. *)
EnqueueKey(j) == <<"message-job", RequestOf[j], 0>>
RetryKey(j, n) == <<"message-retry", j, n>>
Attempts == 1..AttemptLimit
QuotaKeys == {EnqueueKey(j) : j \in Jobs} \cup {RetryKey(j, n) : j \in Jobs, n \in Attempts}
NoKey == <<"none", NoJob, 0>>

(* eventKey of the terminal failure of a job, and of an acknowledgement; the
   WhatsApp message id is a digest of the request. *)
FailedEvent(j) == <<"message-job", j, "FAILED">>
StatusEvent(j, type) == <<"message.status", RequestOf[j], type>>
EventKeys == {FailedEvent(j) : j \in Jobs}
             \cup {StatusEvent(j, t) : j \in Jobs, t \in {"SENT", "DELIVERED", "READ"}}

NoLock == <<NoJob, 0>>
Locks == (Workers \X Attempts) \cup {NoLock}

NoRow(j) ==
  [status |-> "none", attempts |-> 0, max |-> MaxAttempts, lock |-> NoLock,
   lease |-> "none", due |-> FALSE, key |-> EnqueueKey(j)]

NewRow(j) == [NoRow(j) EXCEPT !.status = "QUEUED", !.due = TRUE]

(* A worker that holds no job. *)
Loop(pc) == [pc |-> pc, job |-> NoJob, n |-> 0, max |-> 0, key |-> NoKey, retry |-> FALSE]

(* A batch of rows that a sweep or a recovery has read; `renewed` are those whose
   lease has been moved on since. *)
Reaper(pc) == [pc |-> pc, rows |-> {}, unreleased |-> {}, renewed |-> {}]
Snapshot(j) ==
  [job |-> j, n |-> jobs[j].attempts, lock |-> jobs[j].lock, key |-> jobs[j].key,
   spent |-> jobs[j].attempts >= jobs[j].max]

InitTables(present) ==
  /\ jobs = [j \in Jobs |-> IF j \in present THEN NewRow(j) ELSE NoRow(j)]
  /\ log = [j \in Jobs |-> [n \in Attempts |-> "none"]]
  /\ rcpt = [j \in Jobs |-> IF j \in present \cap BroadcastJobs THEN "ENQUEUED" ELSE "none"]
  /\ events = {}
  /\ outbox = {}
  /\ usage = [consumed |-> [p \in {Month} |-> 0],
              reserved |-> [p \in {Month} |-> Cardinality(present)],
              ledger |-> {[op |-> "RESERVE", key |-> EnqueueKey(j), amount |-> 1,
                           period |-> Month] : j \in present}]

InitWorkers ==
  /\ wkr = [w \in Workers |-> Loop("new")]
  /\ sweep = [w \in Workers |-> Reaper("off")]
  /\ drain = [w \in Workers |-> Reaper("off")]
  /\ inflight = {}
  /\ sends = [j \in Jobs |-> 0]

(* Every job has just been enqueued. *)
Init == InitTables(Jobs) /\ InitWorkers
-----------------------------------------------------------------------------
(* What the statements of the code test and write. *)

Token(w) == <<w, wkr[w].n>>

(* where: { id, status: "PROCESSING", lockedBy: claimToken } *)
Owns(w) ==
  /\ jobs[wkr[w].job].status = "PROCESSING"
  /\ jobs[wkr[w].job].lock = Token(w)

(* The sweeps after the lease of j has been set anew. *)
Renewed(j) ==
  [v \in Workers |-> IF \E s \in sweep[v].rows : s.job = j
                     THEN [sweep[v] EXCEPT !.renewed = @ \cup {j}] ELSE sweep[v]]

Unlocked(r) == [r EXCEPT !.lock = NoLock, !.lease = "none"]

FailedRow(r)   == [Unlocked(r) EXCEPT !.status = "FAILED"]
SentRow(r)     == [Unlocked(r) EXCEPT !.status = "SENT"]
RequeuedRow(r, due) == [Unlocked(r) EXCEPT !.status = "QUEUED", !.due = due]

Goto(w, pc) == wkr' = [wkr EXCEPT ![w].pc = pc]
BackToPolling(w) == wkr' = [wkr EXCEPT ![w] = Loop("idle")]
Failing(w, retryable) == wkr' = [wkr EXCEPT ![w].pc = "failing", ![w].retry = retryable]

(* pcs between the start and the end of a dispatch: the heartbeat timer runs. *)
Working == {"dispatching", "sent", "committing", "finishing", "failing", "releasing", "burying"}

(* A worker process that has ended, by a stop or killed. *)
Gone == {"stopped", "dead"}

(* Faulty variants of the next definitions, see below: the burial without the
   recipients, and without the webhook event. *)
BuryWithoutRecipient(js) ==
  /\ jobs' = [j \in Jobs |-> IF j \in js THEN FailedRow(jobs[j]) ELSE jobs[j]]
  /\ rcpt' = rcpt
  /\ events' = events \cup {<<j, "FAILED">> : j \in js}
  /\ outbox' = outbox \cup {FailedEvent(j) : j \in js}

BuryWithoutEvent(js) ==
  /\ jobs' = [j \in Jobs |-> IF j \in js THEN FailedRow(jobs[j]) ELSE jobs[j]]
  /\ rcpt' = [j \in Jobs |-> IF j \in js /\ rcpt[j] = "ENQUEUED" THEN "FAILED" ELSE rcpt[j]]
  /\ events' = events \cup {<<j, "FAILED">> : j \in js}
  /\ outbox' = outbox

(* The terminal failure of the jobs js in one transaction: rows, recipients
   not already delivered, FAILED delivery events and outbox events. *)
BuryJobs(js) ==
  /\ jobs' = [j \in Jobs |-> IF j \in js THEN FailedRow(jobs[j]) ELSE jobs[j]]
  /\ rcpt' = [j \in Jobs |-> IF j \in js /\ rcpt[j] = "ENQUEUED" THEN "FAILED" ELSE rcpt[j]]
  /\ events' = events \cup {<<j, "FAILED">> : j \in js}
  /\ outbox' = outbox \cup {FailedEvent(j) : j \in js}

(* createWebhookOutboxEvent inside the transaction violates the unique key. *)
DuplicateEvent(js) == \E j \in js : FailedEvent(j) \in outbox

(* Attempt rows of a batch that are still PROCESSING are closed as FAILED. *)
ClosedLog(rows) ==
  [j \in Jobs |-> [n \in Attempts |->
     IF log[j][n] = "PROCESSING" /\ \E s \in rows : s.job = j /\ s.n = n
     THEN "FAILED" ELSE log[j][n]]]
-----------------------------------------------------------------------------
(***************************************************************************)
(* Faulty variants of definitions below, each a plausible bug of the code. *)
(* They are not part of the specification: each one shows that a property  *)
(* would notice the bug.                                                   *)
(***************************************************************************)

(* The claim query without `attempts < maxAttempts`. *)
ClaimableForever(j) ==
  \/ jobs[j].status = "QUEUED" /\ jobs[j].due
  \/ jobs[j].status = "PROCESSING" /\ jobs[j].lease \in {"expired", "stale"}


(* A lease that is taken over does not count as an attempt. *)
ClaimUncounted(w, j) ==
  /\ wkr[w].pc = "idle"
  /\ ClaimableForever(j) /\ jobs[j].attempts < jobs[j].max
  /\ LET n == IF jobs[j].status = "QUEUED" THEN jobs[j].attempts + 1 ELSE jobs[j].attempts
     IN  /\ jobs' = [jobs EXCEPT ![j] = [@ EXCEPT !.status = "PROCESSING", !.lock = <<w, n>>,
                                                  !.lease = "live", !.attempts = n]]
         /\ wkr' = [wkr EXCEPT ![w] = [Loop("claimed") EXCEPT !.job = j, !.n = n]]
  /\ UNCHANGED <<log, rcpt, events, outbox, usage, sweep, drain, inflight, sends>>

(* Success recorded by a worker that has lost its claim. *)
CompleteUnclaimed(w) ==
  /\ wkr[w].pc = "finishing"
  /\ jobs' = [jobs EXCEPT ![wkr[w].job] = SentRow(@)]
  /\ rcpt' = [rcpt EXCEPT ![wkr[w].job] = IF @ \in {"ENQUEUED", "FAILED"} THEN "SENT" ELSE @]
  /\ log' = [log EXCEPT ![wkr[w].job][wkr[w].n] = "SUCCEEDED"]
  /\ events' = events \cup {<<wkr[w].job, "SENT">>}
  /\ BackToPolling(w)
  /\ UNCHANGED <<outbox, usage, sweep, drain, inflight, sends>>

(* Success recorded although the reservation could not be committed. *)
CompleteUnpaid(w) ==
  /\ wkr[w].pc = "committing"
  /\ usage' = IF CanSettle(usage, "COMMIT", wkr[w].key)
              THEN Settled(usage, "COMMIT", wkr[w].key) ELSE usage
  /\ Goto(w, "finishing")
  /\ UNCHANGED <<jobs, log, rcpt, events, outbox, sweep, drain, inflight, sends>>

(* The sweep buries what it has read although the lease was renewed since. *)
SweepBuryRenewed(w) ==
  /\ sweep[w].pc = "working" /\ sweep[w].unreleased = {}
  /\ BuryJobs({j \in {s.job : s \in sweep[w].rows} : jobs[j].status = "PROCESSING"})
  /\ log' = ClosedLog(sweep[w].rows)
  /\ sweep' = [sweep EXCEPT ![w] = Reaper("off")]
  /\ UNCHANGED <<usage, wkr, drain, inflight, sends>>

(* The recovery requeues exhausted jobs like the others. *)
DrainRequeueAll(w) ==
  /\ drain[w].pc = "closing"
  /\ LET js == {j \in Jobs : jobs[j].status = "PROCESSING" /\ jobs[j].lock[1] = w}
     IN  jobs' = [j \in Jobs |-> IF j \in js THEN RequeuedRow(jobs[j], TRUE) ELSE jobs[j]]
  /\ wkr' = [wkr EXCEPT ![w] = Loop("stopped")]
  /\ sweep' = [sweep EXCEPT ![w] = Reaper("off")]
  /\ drain' = [drain EXCEPT ![w] = Reaper("off")]
  /\ log' = ClosedLog(drain[w].rows)
  /\ UNCHANGED <<rcpt, events, outbox, usage, inflight, sends>>
-----------------------------------------------------------------------------
(***************************************************************************)
(* The worker loop.                                                        *)
(***************************************************************************)

(* start(): the loop begins, and the sweep is launched beside it. *)
Start(w) ==
  /\ wkr[w].pc = "new"
  /\ wkr' = [wkr EXCEPT ![w] = Loop("idle")]
  /\ sweep' = [sweep EXCEPT ![w] = Reaper("start")]
  /\ UNCHANGED <<jobs, log, rcpt, events, outbox, usage, drain, inflight, sends>>

Claimable(j) ==
  /\ \/ jobs[j].status = "QUEUED" /\ jobs[j].due
     \/ jobs[j].status = "PROCESSING" /\ jobs[j].lease \in {"expired", "stale"}
  /\ jobs[j].attempts < jobs[j].max

(* The UPDATE of claimNextMessageJob: one job of the highest priority. *)
Claim(w, j) ==
  /\ wkr[w].pc = "idle"
  /\ Claimable(j)
  /\ \A i \in Jobs : Claimable(i) => Priority[i] <= Priority[j]
  /\ LET n == jobs[j].attempts + 1
     IN  /\ jobs' = [jobs EXCEPT ![j] = [@ EXCEPT !.status = "PROCESSING", !.lock = <<w, n>>,
                                                  !.lease = "live", !.attempts = n]]
         /\ wkr' = [wkr EXCEPT ![w] = [Loop("claimed") EXCEPT !.job = j, !.n = n]]
  /\ sweep' = Renewed(j)
  /\ UNCHANGED <<log, rcpt, events, outbox, usage, drain, inflight, sends>>

(* The rest of claimNextMessageJob: read the row back by its claim token and
   open the attempt.  The worker works from this snapshot. *)
OpenAttempt(w) ==
  /\ wkr[w].pc = "claimed"
  /\ Owns(w)
  /\ LET j == wkr[w].job
     IN  /\ log' = [log EXCEPT ![j][wkr[w].n] = "PROCESSING"]
         /\ wkr' = [wkr EXCEPT ![w].pc = "dispatching",
                               ![w].max = jobs[j].max, ![w].key = jobs[j].key]
  /\ UNCHANGED <<jobs, rcpt, events, outbox, usage, sweep, drain, inflight, sends>>

(* The claim is gone, or the read or the upsert throws: the loop goes on, the
   row stays PROCESSING under this worker's token and nothing renews it. *)
ClaimFails(w) ==
  /\ wkr[w].pc = "claimed"
  /\ "claim" \in Faults \/ ~Owns(w)
  /\ BackToPolling(w)
  /\ UNCHANGED <<tables, sweep, drain, inflight, sends>>

(* dispatcher(job) returns: WhatsApp has the message. *)
DispatchSends(w) ==
  /\ wkr[w].pc = "dispatching"
  /\ Goto(w, "sent")
  /\ sends' = [sends EXCEPT ![wkr[w].job] = @ + 1]
  /\ UNCHANGED <<tables, sweep, drain, inflight>>

(* dispatcher(job) throws before anything was sent; classifyMessageDispatchError
   decides whether the error is worth a retry. *)
DispatchRefused(w, retryable) ==
  /\ wkr[w].pc = "dispatching"
  /\ Failing(w, retryable)
  /\ UNCHANGED <<tables, sweep, drain, inflight, sends>>

(* The call times out or loses its answer while the server goes on sending. *)
DispatchGivesUp(w) ==
  /\ wkr[w].pc = "dispatching"
  /\ Failing(w, TRUE)
  /\ inflight' = inflight \cup {<<wkr[w].job, wkr[w].n>>}
  /\ UNCHANGED <<tables, sweep, drain, sends>>

LateSend(d) ==
  /\ d \in inflight
  /\ inflight' = inflight \ {d}
  /\ \/ sends' = [sends EXCEPT ![d[1]] = @ + 1]
     \/ sends' = sends
  /\ UNCHANGED <<tables, wkr, sweep, drain>>
-----------------------------------------------------------------------------
(***************************************************************************)
(* completeMessageJob: check the claim, settle, then one transaction.      *)
(***************************************************************************)

CompleteCheck(w) ==
  /\ wkr[w].pc = "sent"
  /\ IF Owns(w) THEN Goto(w, "committing") ELSE BackToPolling(w)
  /\ UNCHANGED <<tables, sweep, drain, inflight, sends>>

(* settleMessageQuota(job, "COMMIT"); a throw goes to failMessageJob. *)
CompleteSettle(w) ==
  /\ wkr[w].pc = "committing"
  /\ IF CanSettle(usage, "COMMIT", wkr[w].key)
     THEN usage' = Settled(usage, "COMMIT", wkr[w].key) /\ Goto(w, "finishing")
     ELSE usage' = usage /\ Failing(w, TRUE)
  /\ UNCHANGED <<jobs, log, rcpt, events, outbox, sweep, drain, inflight, sends>>

CompleteFinish(w) ==
  /\ wkr[w].pc = "finishing"
  /\ LET j == wkr[w].job
     IN  IF Owns(w)
         THEN /\ jobs' = [jobs EXCEPT ![j] = SentRow(@)]
              /\ rcpt' = [rcpt EXCEPT ![j] = IF @ \in {"ENQUEUED", "FAILED"} THEN "SENT" ELSE @]
              /\ log' = [log EXCEPT ![j][wkr[w].n] = "SUCCEEDED"]
              /\ events' = events \cup {<<j, "SENT">>}
         ELSE UNCHANGED <<jobs, rcpt, log, events>>
  /\ BackToPolling(w)
  /\ UNCHANGED <<outbox, usage, sweep, drain, inflight, sends>>

(* A database error in the first read or in the transaction. *)
CompleteThrows(w) ==
  /\ "tx" \in Faults
  /\ wkr[w].pc \in {"sent", "finishing"}
  /\ Failing(w, TRUE)
  /\ UNCHANGED <<tables, sweep, drain, inflight, sends>>
-----------------------------------------------------------------------------
(***************************************************************************)
(* failMessageJob: check the claim, release the quota when the failure is  *)
(* final, then one transaction.  A throw leaves the job to its lease.      *)
(***************************************************************************)

ShouldRetry(w) == wkr[w].retry /\ wkr[w].n < wkr[w].max

FailCheck(w) ==
  /\ wkr[w].pc = "failing"
  /\ IF ~Owns(w) THEN BackToPolling(w)
     ELSE Goto(w, IF ShouldRetry(w) THEN "burying" ELSE "releasing")
  /\ UNCHANGED <<tables, sweep, drain, inflight, sends>>

FailSettle(w) ==
  /\ wkr[w].pc = "releasing"
  /\ IF CanSettle(usage, "RELEASE", wkr[w].key)
     THEN usage' = Settled(usage, "RELEASE", wkr[w].key) /\ Goto(w, "burying")
     ELSE usage' = usage /\ BackToPolling(w)
  /\ UNCHANGED <<jobs, log, rcpt, events, outbox, sweep, drain, inflight, sends>>

(* The transaction requeues the job behind its backoff, or buries it; the
   duplicate outbox event of an earlier failure aborts all of it. *)
FailFinish(w) ==
  /\ wkr[w].pc = "burying"
  /\ BackToPolling(w)
  /\ LET j == wkr[w].job
     IN  IF ~Owns(w) \/ (~ShouldRetry(w) /\ DuplicateEvent({j}))
         THEN UNCHANGED <<jobs, log, rcpt, events, outbox>>
         ELSE /\ log' = [log EXCEPT ![j][wkr[w].n] = "FAILED"]
              /\ IF ShouldRetry(w)
                 THEN /\ jobs' = [jobs EXCEPT ![j] = RequeuedRow(@, FALSE)]
                      /\ UNCHANGED <<rcpt, events, outbox>>
                 ELSE BuryJobs({j})
  /\ UNCHANGED <<usage, sweep, drain, inflight, sends>>

FailThrows(w) ==
  /\ "tx" \in Faults
  /\ wkr[w].pc \in {"failing", "burying"}
  /\ BackToPolling(w)
  /\ UNCHANGED <<tables, sweep, drain, inflight, sends>>

(* The settlement throws (account suspended, serialization failure three times
   over, lost connection), before or after its transaction took effect. *)
SettleThrows(w) ==
  /\ "settle" \in Faults
  /\ LET op == IF wkr[w].pc = "committing" THEN "COMMIT" ELSE "RELEASE"
     IN  \/ usage' = usage
         \/ CanSettle(usage, op, wkr[w].key) /\ usage' = Settled(usage, op, wkr[w].key)
  /\ \/ wkr[w].pc = "committing" /\ Failing(w, TRUE)
     \/ wkr[w].pc = "releasing" /\ BackToPolling(w)
  /\ UNCHANGED <<jobs, log, rcpt, events, outbox, sweep, drain, inflight, sends>>
-----------------------------------------------------------------------------
(***************************************************************************)
(* Leases, time, crashes.                                                  *)
(***************************************************************************)

(* heartbeatMessageJob: renews while the row is still under this token, also
   when the lease has run out meanwhile. *)
Heartbeat(w) ==
  /\ wkr[w].pc \in Working
  /\ Owns(w)
  /\ jobs[wkr[w].job].lease # "live"
  /\ jobs' = [jobs EXCEPT ![wkr[w].job].lease = "live"]
  /\ sweep' = Renewed(wkr[w].job)
  /\ UNCHANGED <<log, rcpt, events, outbox, usage, wkr, drain, inflight, sends>>

Attended(j) ==
  \E w \in Workers :
    wkr[w].pc \in Working \cup {"claimed"} /\ wkr[w].job = j /\ jobs[j].lock = Token(w)

(* Heartbeats come every third of a lease, so a lease runs out only when nobody
   works on the job, or when the worker is stalled. *)
LeaseRunsOut(j) ==
  /\ jobs[j].status = "PROCESSING"
  /\ Stalls \/ ~Attended(j)
  /\ \/ jobs[j].lease = "live" /\ jobs' = [jobs EXCEPT ![j].lease = "expired"]
     \/ jobs[j].lease = "expired" /\ jobs' = [jobs EXCEPT ![j].lease = "stale"]
  /\ UNCHANGED <<log, rcpt, events, outbox, usage, wkr, sweep, drain, inflight, sends>>

BecomesDue(j) ==
  /\ jobs[j].status = "QUEUED" /\ ~jobs[j].due
  /\ jobs' = [jobs EXCEPT ![j].due = TRUE]
  /\ UNCHANGED <<log, rcpt, events, outbox, usage, wkr, sweep, drain, inflight, sends>>

(* The process is killed; what it asked another process to send may still be
   sent.  The last worker of the model stays. *)
Crash(w) ==
  /\ w \in Killable /\ wkr[w].pc \notin {"new"} \cup Gone
  /\ \E v \in Workers \ {w} : wkr[v].pc \notin Gone
  /\ wkr' = [wkr EXCEPT ![w] = Loop("dead")]
  /\ sweep' = [sweep EXCEPT ![w] = Reaper("off")]
  /\ drain' = [drain EXCEPT ![w] = Reaper("off")]
  /\ \/ inflight' = inflight
     \/ wkr[w].pc = "dispatching" /\ inflight' = inflight \cup {<<wkr[w].job, wkr[w].n>>}
  /\ UNCHANGED <<tables, sends>>
-----------------------------------------------------------------------------
(***************************************************************************)
(* deadLetterExhaustedMessageJobs: read, release each, bury in one         *)
(* transaction.  It runs once per start, beside the loop.                  *)
(***************************************************************************)

SweepRead(w) ==
  /\ sweep[w].pc = "start"
  /\ LET rows == {Snapshot(j) : j \in {i \in Jobs :
                    /\ jobs[i].status = "PROCESSING" /\ jobs[i].lease = "stale"
                    /\ jobs[i].attempts >= jobs[i].max}}
     IN  sweep' = [sweep EXCEPT ![w] =
                     [pc |-> IF rows = {} THEN "off" ELSE "working",
                      rows |-> rows, unreleased |-> rows, renewed |-> {}]]
  /\ UNCHANGED <<tables, wkr, drain, inflight, sends>>

(* A release of a batch; its error is logged and the batch goes on. *)
BatchRelease(s) ==
  \/ usage' = IF CanSettle(usage, "RELEASE", s.key) THEN Settled(usage, "RELEASE", s.key)
              ELSE usage
  \/ "settle" \in Faults /\ usage' = usage

SweepRelease(w) ==
  /\ \E s \in sweep[w].unreleased :
       /\ BatchRelease(s)
       /\ sweep' = [sweep EXCEPT ![w].unreleased = @ \ {s}]
  /\ UNCHANGED <<jobs, log, rcpt, events, outbox, wkr, drain, inflight, sends>>

(* A row of the batch is buried if it is still PROCESSING and its lease ran out
   before the time of the read, so nobody has moved it on since; the attempts are
   closed in any case. *)
SweepBury(w) ==
  /\ sweep[w].pc = "working" /\ sweep[w].unreleased = {}
  /\ LET js == {j \in {s.job : s \in sweep[w].rows} \ sweep[w].renewed :
                  jobs[j].status = "PROCESSING"}
     IN  IF DuplicateEvent(js)
         THEN UNCHANGED <<jobs, log, rcpt, events, outbox>>
         ELSE BuryJobs(js) /\ log' = ClosedLog(sweep[w].rows)
  /\ sweep' = [sweep EXCEPT ![w] = Reaper("off")]
  /\ UNCHANGED <<usage, wkr, drain, inflight, sends>>
-----------------------------------------------------------------------------
(***************************************************************************)
(* stop() between two jobs, and recoverMessageJobsForWorker: the claims    *)
(* that earlier iterations left behind go back to the queue, or are buried *)
(* when they have no attempt left.                                         *)
(***************************************************************************)

ClaimsOf(w) == {j \in Jobs : jobs[j].status = "PROCESSING" /\ jobs[j].lock[1] = w}

Stop(w) ==
  /\ wkr[w].pc = "idle"
  /\ \E v \in Workers \ {w} : wkr[v].pc \notin Gone
  /\ LET rows == {Snapshot(j) : j \in ClaimsOf(w)}
     IN  IF rows = {}
         THEN /\ wkr' = [wkr EXCEPT ![w] = Loop("stopped")]
              /\ sweep' = [sweep EXCEPT ![w] = Reaper("off")]
              /\ drain' = drain
         ELSE /\ wkr' = [wkr EXCEPT ![w] = Loop("stopping")]
              /\ drain' = [drain EXCEPT ![w] =
                             [Reaper("closing") EXCEPT
                                !.rows = rows, !.unreleased = {s \in rows : s.spent}]]
              /\ sweep' = sweep
  /\ UNCHANGED <<tables, inflight, sends>>

Exit(w) ==
  /\ wkr' = [wkr EXCEPT ![w] = Loop("stopped")]
  /\ sweep' = [sweep EXCEPT ![w] = Reaper("off")]
  /\ drain' = [drain EXCEPT ![w] = Reaper("off")]

(* First transaction: close the attempts, requeue what has attempts left. *)
DrainRequeue(w) ==
  /\ drain[w].pc = "closing"
  /\ LET js == {s.job : s \in {t \in drain[w].rows : ~t.spent}} \cap ClaimsOf(w)
     IN  jobs' = [j \in Jobs |-> IF j \in js THEN RequeuedRow(jobs[j], TRUE) ELSE jobs[j]]
  /\ log' = ClosedLog(drain[w].rows)
  /\ IF drain[w].unreleased = {} THEN Exit(w)
     ELSE drain' = [drain EXCEPT ![w].pc = "working"] /\ UNCHANGED <<wkr, sweep>>
  /\ UNCHANGED <<rcpt, events, outbox, usage, inflight, sends>>

DrainRelease(w) ==
  /\ drain[w].pc = "working"
  /\ \E s \in drain[w].unreleased :
       /\ BatchRelease(s)
       /\ drain' = [drain EXCEPT ![w].unreleased = @ \ {s}]
  /\ UNCHANGED <<jobs, log, rcpt, events, outbox, wkr, sweep, inflight, sends>>

(* Second transaction: bury the exhausted ones. *)
DrainBury(w) ==
  /\ drain[w].pc = "working" /\ drain[w].unreleased = {}
  /\ LET js == {s.job : s \in {t \in drain[w].rows : t.spent}} \cap ClaimsOf(w)
     IN  IF DuplicateEvent(js) THEN UNCHANGED <<jobs, rcpt, events, outbox>> ELSE BuryJobs(js)
  /\ Exit(w)
  /\ UNCHANGED <<log, usage, inflight, sends>>
-----------------------------------------------------------------------------
Complete(w) == CompleteCheck(w) \/ CompleteSettle(w) \/ CompleteFinish(w)
FailJob(w)  == FailCheck(w) \/ FailSettle(w) \/ FailFinish(w)
Throws(w)   == CompleteThrows(w) \/ FailThrows(w) \/ SettleThrows(w)
Dispatch(w) == DispatchSends(w) \/ DispatchGivesUp(w) \/ \E b \in BOOLEAN : DispatchRefused(w, b)
Sweep(w)    == SweepRead(w) \/ SweepRelease(w) \/ SweepBury(w)
Drain(w)    == DrainRequeue(w) \/ DrainRelease(w) \/ DrainBury(w)

(* One pass of the loop body for the job in hand. *)
Work(w) == OpenAttempt(w) \/ ClaimFails(w) \/ Dispatch(w) \/ Complete(w) \/ FailJob(w)

WorkerNext ==
  \/ \E w \in Workers :
       \/ Start(w) \/ Work(w) \/ Throws(w) \/ Heartbeat(w)
       \/ Sweep(w) \/ Stop(w) \/ Drain(w) \/ Crash(w)
       \/ \E j \in Jobs : Claim(w, j)
  \/ \E j \in Jobs : LeaseRunsOut(j) \/ BecomesDue(j)
  \/ \E d \in inflight : LateSend(d)

Spec == Init /\ [][WorkerNext]_vars

(* Every process that runs goes on running, so each of its calls ends; a lease
   that nobody renews runs out and a backoff ends, because time passes; every
   incarnation is started some day, by pm2 or compose.  Nothing is assumed of
   what a dispatch answers, of stalls, of stops and of crashes. *)
WorkerFairness ==
  /\ \A w \in Workers :
       /\ WF_vars(Start(w))
       /\ WF_vars((\E j \in Jobs : Claim(w, j)) \/ Work(w))
       /\ WF_vars(Sweep(w))
       /\ WF_vars(Drain(w))
  /\ \A j \in Jobs :
       /\ WF_vars(~Attended(j) /\ LeaseRunsOut(j))
       /\ WF_vars(BecomesDue(j))

FairSpec == Spec /\ WorkerFairness
-----------------------------------------------------------------------------
(***************************************************************************)
(* Properties.                                                             *)
(***************************************************************************)

Row_ == [status : Statuses, attempts : 0..AttemptLimit, max : 0..AttemptLimit, lock : Locks,
         lease : {"none", "live", "expired", "stale"}, due : BOOLEAN, key : QuotaKeys]

SnapshotType == [job : Jobs, n : 0..AttemptLimit, lock : Locks, key : QuotaKeys, spent : BOOLEAN]

ReaperType == [pc : {"off", "start", "closing", "working"},
               rows : SUBSET SnapshotType, unreleased : SUBSET SnapshotType,
               renewed : SUBSET Jobs]

WorkerType ==
  [pc : {"new", "idle", "claimed", "stopping", "stopped", "dead"} \cup Working,
   job : Jobs \cup {NoJob}, n : 0..AttemptLimit, max : 0..AttemptLimit,
   key : QuotaKeys \cup {NoKey}, retry : BOOLEAN]

LedgerRow == [op : LedgerOps, key : QuotaKeys, amount : {1}, period : {Month}]

UsageType == [consumed : [{Month} -> Nat], reserved : [{Month} -> Nat],
              ledger : SUBSET LedgerRow]

TypeOK ==
  /\ jobs \in [Jobs -> Row_]
  /\ log \in [Jobs -> [Attempts -> {"none", "PROCESSING", "SUCCEEDED", "FAILED"}]]
  /\ rcpt \in [Jobs -> {"none", "ENQUEUED", "SENT", "DELIVERED", "READ", "FAILED"}]
  /\ events \subseteq Jobs \X {"SENT", "DELIVERED", "READ", "FAILED"}
  /\ outbox \subseteq EventKeys
  /\ usage \in UsageType
  /\ wkr \in [Workers -> WorkerType]
  /\ sweep \in [Workers -> ReaperType]
  /\ drain \in [Workers -> ReaperType]
  /\ inflight \subseteq Jobs \X Attempts
  /\ sends \in [Jobs -> Nat]

(* No job waits in a state that no code path leaves: a queued job always has
   an attempt left, because the claim query would never pick it up otherwise
   while its reservation stays held. *)
NoStrandedQueued ==
  \A j \in Jobs : jobs[j].status = "QUEUED" => jobs[j].attempts < jobs[j].max

(* The attempt history agrees with the job: a sent job has exactly one attempt
   that succeeded, the last one, and its SENT event; any other job has none.
   A worker that lost its claim must not write the outcome. *)
HistoryMatchesJob ==
  \A j \in Jobs :
    LET won == {n \in Attempts : log[j][n] = "SUCCEEDED"}
    IN  IF jobs[j].status \in SentStatuses
        THEN won = {jobs[j].attempts} /\ <<j, "SENT">> \in events
        ELSE jobs[j].status = "DELETED" \/ won = {}

(* The broadcast report agrees with the queue: a linked recipient shows SENT
   exactly when its job was sent, and FAILED whenever the job is. *)
RecipientMatchesJob ==
  \A j \in Jobs :
    (rcpt[j] # "none" /\ jobs[j].status # "DELETED") =>
      /\ (rcpt[j] \in SentStatuses) = (jobs[j].status \in SentStatuses)
      /\ jobs[j].status = "FAILED" => rcpt[j] = "FAILED"

(* A message is handed to WhatsApp at most once per attempt and never more than
   maxAttempts times, however often workers crash in the middle of it. *)
SendsBounded ==
  \A j \in Jobs :
    /\ sends[j] + Cardinality({d \in inflight : d[1] = j}) <= jobs[j].attempts
    /\ jobs[j].attempts <= jobs[j].max

(* What was sent was paid for: the reservation the job carries is committed
   before the job is marked sent, by whichever worker gets there. *)
SentIsPaid ==
  \A j \in Jobs :
    jobs[j].status \in SentStatuses => HasRow(usage, "COMMIT", jobs[j].key)

(* Every failure is reported: a failed job has its FAILED event and its
   message.status webhook event, written in the same transaction. *)
FailureIsReported ==
  \A j \in Jobs :
    jobs[j].status = "FAILED" => <<j, "FAILED">> \in events /\ FailedEvent(j) \in outbox

(* While a lease is live, the job leaves PROCESSING only through the worker
   that holds it: no other worker, sweep or recovery finishes, requeues or
   takes over a job somebody is working on. *)
LiveClaimIsExclusive ==
  [][\A j \in Jobs :
       (jobs[j].status = "PROCESSING" /\ jobs[j].lease = "live"
          /\ (jobs'[j].status # "PROCESSING" \/ jobs'[j].lock # jobs[j].lock))
         => LET holder == jobs[j].lock[1]
            IN  wkr'[holder] # wkr[holder] \/ drain'[holder] # drain[holder]]_vars

(* Every job in the queue is eventually sent, failed or cancelled. *)
Live(j) == jobs[j].status \in {"QUEUED", "PROCESSING"}

EveryJobSettles == \A j \in Jobs : Live(j) ~> ~Live(j)

(* Two ways lead to a job that stays where it is, both in its last attempt and with
   nobody on it: its holder was killed; or an earlier attempt, whose claim was taken
   over meanwhile, has sent the message and committed the reservation, so that the
   release before the burial throws, and the job stays PROCESSING under the token of a
   worker that goes on polling. *)
Killed(j) == wkr[jobs[j].lock[1]].pc = "dead"
AlreadyPaid(j) == HasRow(usage, "COMMIT", jobs[j].key)

Spent(j) ==
  /\ jobs[j].status = "PROCESSING" /\ jobs[j].attempts = jobs[j].max /\ ~Attended(j)
  /\ Killed(j) \/ AlreadyPaid(j)


(* The queue implements the abstract life of a message. *)
AbstractState(s) ==
  CASE s = "none" -> "absent"
    [] s = "QUEUED" -> "queued"
    [] s = "PROCESSING" -> "held"
    [] s \in SentStatuses -> "sent"
    [] s = "FAILED" -> "failed"
    [] s = "CANCELLED" -> "cancelled"
    [] s = "DELETED" -> "removed"

Winner(j) ==
  IF \E n \in Attempts : log[j][n] = "SUCCEEDED"
  THEN CHOOSE n \in Attempts : log[j][n] = "SUCCEEDED"
  ELSE 0

Lifecycle == INSTANCE JobLifecycle WITH
  state  <- [j \in Jobs |-> AbstractState(jobs[j].status)],
  turn   <- [j \in Jobs |-> jobs[j].attempts],
  winner <- [j \in Jobs |-> Winner(j)]

ImplementsLifecycle == Lifecycle!Spec
=============================================================================
