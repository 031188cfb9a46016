---------------------------- MODULE MessageSystem ----------------------------
(***************************************************************************)
(* The message queue with everything that works on it from outside:        *)
(* the API handlers of src/lib/message-job-service.ts (enqueue, cancel,    *)
(* retry, delete) and the acknowledgements that WhatsApp sends back        *)
(* (recordMessageDeliveryStatus, called from the store's messages.update   *)
(* handler).  It composes with MessageQueue by sharing its tables.         *)
(*                                                                         *)
(* A handler is a Caller that goes through its database calls one by one;  *)
(* two of them, or one and a worker, may interleave at any call.           *)
(***************************************************************************)
EXTENDS MessageQueue

CONSTANTS
  Callers,       \* API requests in progress at once
  Ops,           \* which API operations the clients use
  RetryExtra,    \* a manual retry allows this many more attempts (5)
  Handlers,      \* messages.update handlers running at once
  AckTypes       \* acknowledgements WhatsApp sends

ASSUME RetryExtraAssumption == RetryExtra \in Nat \ {0}
ASSUME AckTypesAssumption == AckTypes \subseteq {"SENT", "DELIVERED", "READ"}

VARIABLES
  api,   \* per caller: where its handler is, and what it has read
  ack    \* per handler: the acknowledgement it works on

sysVars == <<vars, api, ack>>

Ready == [pc |-> "ready", job |-> NoJob, req |-> NoJob, n |-> 0, max |-> 0, key |-> NoKey]
NoAck == [pc |-> "ready", job |-> NoJob, type |-> "SENT"]

(* Nothing has been submitted yet. *)
SysInit ==
  /\ InitTables({})
  /\ InitWorkers
  /\ api = [c \in Callers |-> Ready]
  /\ ack = [h \in Handlers |-> NoAck]

(* A row exists; (tenant, operation, idempotencyKey) is unique among rows. *)
Present(j) == jobs[j].status \notin {"none", "DELETED"}
HasJob(r) == \E j \in Jobs : Present(j) /\ RequestOf[j] = r

At(c, pc) == api[c].pc = pc
Step(c, pc) == api' = [api EXCEPT ![c].pc = pc]
Return(c) == api' = [api EXCEPT ![c] = Ready]

apiUnchanged == <<log, events, outbox, wkr, sweep, drain, inflight, sends, ack>>
-----------------------------------------------------------------------------
(* Faulty variants of definitions below, as in MessageQueue. *)

(* Any error of the transaction releases the reservation, also the unique key
   that another caller has taken with the same reservation. *)
EnqueueRacedReleases(c) ==
  /\ At(c, "creating") /\ HasJob(api[c].req)
  /\ Step(c, "releasing")
  /\ UNCHANGED <<jobs, rcpt, usage>> /\ UNCHANGED apiUnchanged

(* The cancellation forgets the reservation. *)
CancelKeepsQuota(c, j) ==
  /\ "cancel" \in Ops /\ At(c, "ready") /\ jobs[j].status = "QUEUED"
  /\ jobs' = [jobs EXCEPT ![j] = [Unlocked(@) EXCEPT !.status = "CANCELLED"]]
  /\ UNCHANGED <<rcpt, usage, api>> /\ UNCHANGED apiUnchanged

(* The retry requeues whatever the job has become. *)
RetryRequeueAnyway(c) ==
  /\ At(c, "retrying")
  /\ jobs' = [jobs EXCEPT ![api[c].job] =
                [RequeuedRow(@, TRUE) EXCEPT !.max = api[c].n + RetryExtra, !.key = api[c].key]]
  /\ Return(c)
  /\ UNCHANGED <<rcpt, usage>> /\ UNCHANGED apiUnchanged

(* The conditional update of an acknowledgement without its condition, or with
   jobs that are still being sent. *)
RecordableAgain(type) == SentStatuses
RecordableEarly(type) == {"PROCESSING", "SENT"}
-----------------------------------------------------------------------------
(***************************************************************************)
(* enqueueMessage: look the request up, reserve, create; on a lost race    *)
(* answer with the other caller's job, on any other error release.         *)
(***************************************************************************)

EnqueueLookup(c, r) ==
  /\ "enqueue" \in Ops /\ At(c, "ready")
  /\ ~HasJob(r)
  /\ \E j \in Jobs : RequestOf[j] = r /\ jobs[j].status = "none"
  /\ api' = [api EXCEPT ![c] = [Ready EXCEPT !.pc = "reserving", !.req = r,
                                             !.key = <<"message-job", r, 0>>]]
  /\ UNCHANGED <<vars, ack>>

(* reserveUsage; QuotaExceededError ends the request. *)
EnqueueReserve(c) ==
  /\ At(c, "reserving")
  /\ IF CanReserve(usage, Month, api[c].key, 1, Limit)
     THEN usage' = Reserved(usage, Month, api[c].key, 1) /\ Step(c, "creating")
     ELSE usage' = usage /\ Return(c)
  /\ UNCHANGED <<jobs, rcpt>> /\ UNCHANGED apiUnchanged

(* The job row and its idempotency record in one transaction. *)
EnqueueCreate(c, j) ==
  /\ At(c, "creating") /\ ~HasJob(api[c].req)
  /\ RequestOf[j] = api[c].req /\ jobs[j].status = "none"
  /\ jobs' = [jobs EXCEPT ![j] = NewRow(j)]
  /\ Return(c)
  /\ UNCHANGED <<rcpt, usage>> /\ UNCHANGED apiUnchanged

(* The unique key is taken: P2002, the handler looks for the other row. *)
EnqueueRaced(c) ==
  /\ At(c, "creating") /\ HasJob(api[c].req)
  /\ Step(c, "raced")
  /\ UNCHANGED <<jobs, rcpt, usage>> /\ UNCHANGED apiUnchanged

EnqueueAfterRace(c) ==
  /\ At(c, "raced")
  /\ IF HasJob(api[c].req) THEN Return(c) ELSE Step(c, "releasing")
  /\ UNCHANGED <<jobs, rcpt, usage>> /\ UNCHANGED apiUnchanged

(* The transaction fails for another reason: media no longer active, database. *)
EnqueueFails(c) ==
  /\ "create" \in Faults /\ At(c, "creating")
  /\ Step(c, "releasing")
  /\ UNCHANGED <<jobs, rcpt, usage>> /\ UNCHANGED apiUnchanged

(* releaseReservedUsage of the caller's key; its own error is swallowed where
   a handler releases after a failure. *)
ReleaseKey(c) ==
  /\ At(c, "releasing")
  /\ usage' = IF CanSettle(usage, "RELEASE", api[c].key)
              THEN Settled(usage, "RELEASE", api[c].key) ELSE usage
  /\ Return(c)
  /\ UNCHANGED <<jobs, rcpt>> /\ UNCHANGED apiUnchanged

(* finalizeRecipient of the broadcast worker, in a transaction after
   enqueueMessage has returned: the recipient is linked and says ENQUEUED,
   whatever has become of the job by then. *)
LinkRecipient(j) ==
  /\ j \in BroadcastJobs /\ Present(j) /\ rcpt[j] = "none"
  /\ rcpt' = [rcpt EXCEPT ![j] = "ENQUEUED"]
  /\ UNCHANGED <<jobs, usage, api>> /\ UNCHANGED apiUnchanged
-----------------------------------------------------------------------------
(***************************************************************************)
(* cancelMessageJob and deleteMessageJob.                                  *)
(***************************************************************************)

(* The conditional update QUEUED -> CANCELLED. *)
Cancel(c, j) ==
  /\ "cancel" \in Ops /\ At(c, "ready")
  /\ jobs[j].status = "QUEUED"
  /\ jobs' = [jobs EXCEPT ![j] = [Unlocked(@) EXCEPT !.status = "CANCELLED"]]
  /\ api' = [api EXCEPT ![c] = [Ready EXCEPT !.pc = "cancelled", !.job = j]]
  /\ UNCHANGED <<rcpt, usage>> /\ UNCHANGED apiUnchanged

(* findUniqueOrThrow, which a concurrent delete defeats. *)
CancelReread(c) ==
  /\ At(c, "cancelled")
  /\ IF Present(api[c].job)
     THEN api' = [api EXCEPT ![c].pc = "releasing", ![c].key = jobs[api[c].job].key]
     ELSE Return(c)
  /\ UNCHANGED <<jobs, rcpt, usage>> /\ UNCHANGED apiUnchanged

(* Only finished jobs; attempts, delivery events and the idempotency record go
   with the row, its outbox and ledger rows stay.  What remains here of the row is
   how many attempts were taken, for the properties to compare with. *)
Delete(c, j) ==
  /\ "delete" \in Ops /\ At(c, "ready")
  /\ jobs[j].status \in SentStatuses \cup {"FAILED", "CANCELLED"}
  /\ jobs' = [jobs EXCEPT ![j] = [NoRow(j) EXCEPT !.status = "DELETED",
                                   !.attempts = jobs[j].attempts, !.max = jobs[j].max]]
  /\ log' = [log EXCEPT ![j] = [n \in Attempts |-> "none"]]
  /\ events' = {e \in events : e[1] # j}
  /\ rcpt' = [rcpt EXCEPT ![j] = "none"]
  /\ UNCHANGED <<outbox, usage, wkr, sweep, drain, inflight, sends, api, ack>>
-----------------------------------------------------------------------------
(***************************************************************************)
(* retryMessageJob: read the failed job, reserve under a key of its own,   *)
(* requeue it conditionally; a caller that lost the race looks again.      *)
(***************************************************************************)

(* Bound: only as many manual retries as AttemptLimit leaves room for. *)
RetryRead(c, j) ==
  /\ "retry" \in Ops /\ At(c, "ready")
  /\ jobs[j].status = "FAILED"
  /\ jobs[j].attempts + RetryExtra <= AttemptLimit
  /\ api' = [api EXCEPT ![c] = [Ready EXCEPT
               !.pc = "retry-reserving", !.job = j, !.n = jobs[j].attempts,
               !.max = jobs[j].max, !.key = RetryKey(j, jobs[j].attempts)]]
  /\ UNCHANGED <<vars, ack>>

RetryReserve(c) ==
  /\ At(c, "retry-reserving")
  /\ IF CanReserve(usage, Month, api[c].key, 1, Limit)
     THEN usage' = Reserved(usage, Month, api[c].key, 1) /\ Step(c, "retrying")
     ELSE usage' = usage /\ Return(c)
  /\ UNCHANGED <<jobs, rcpt>> /\ UNCHANGED apiUnchanged

RetryRequeue(c) ==
  /\ At(c, "retrying")
  /\ jobs[api[c].job].status = "FAILED"
  /\ LET more == api[c].n + RetryExtra
         max  == IF api[c].max > more THEN api[c].max ELSE more
     IN  jobs' = [jobs EXCEPT ![api[c].job] =
                    [RequeuedRow(@, TRUE) EXCEPT !.max = max, !.key = api[c].key]]
  /\ Return(c)
  /\ UNCHANGED <<rcpt, usage>> /\ UNCHANGED apiUnchanged

RetryLost(c) ==
  /\ At(c, "retrying")
  /\ jobs[api[c].job].status # "FAILED"
  /\ Step(c, "retry-rereading")
  /\ UNCHANGED <<jobs, rcpt, usage>> /\ UNCHANGED apiUnchanged

(* Queued under the same key is the caller's own wish come true; queued under
   another key, or in any other state, the caller's key is released. *)
RetryReread(c) ==
  /\ At(c, "retry-rereading")
  /\ IF jobs[api[c].job].status = "QUEUED" /\ jobs[api[c].job].key = api[c].key
     THEN Return(c) ELSE Step(c, "releasing")
  /\ UNCHANGED <<jobs, rcpt, usage>> /\ UNCHANGED apiUnchanged
-----------------------------------------------------------------------------
(***************************************************************************)
(* Acknowledgements.  The handler reads the job, records the status in a   *)
(* transaction, then publishes the store's own message.status event, which *)
(* is dropped when its key exists.                                         *)
(***************************************************************************)

Progress(status) ==
  CASE status = "QUEUED" -> 0 [] status = "PROCESSING" -> 1 [] status = "SENT" -> 2
    [] status = "DELIVERED" -> 3 [] status = "READ" -> 4 [] OTHER -> -1

(* recordMessageDeliveryStatus goes on to its transaction. *)
Advances(status, type) ==
  /\ Progress(status) >= 0 /\ Progress(type) > Progress(status)
  /\ ~(type = "SENT" /\ status \in {"QUEUED", "PROCESSING"})

Recordable(type) ==
  CASE type = "SENT" -> {"QUEUED", "PROCESSING"}
    [] type = "DELIVERED" -> {"SENT"}
    [] type = "READ" -> {"SENT", "DELIVERED"}

(* WhatsApp acknowledges what it was given: in any order, any number of times,
   also before the worker has recorded its own success. *)
AckArrives(h, j, type) ==
  /\ ack[h].pc = "ready"
  /\ sends[j] > 0 /\ Present(j)
  /\ ack' = [ack EXCEPT ![h] =
               [pc |-> IF Advances(jobs[j].status, type) THEN "recording" ELSE "publishing",
                job |-> j, type |-> type]]
  /\ UNCHANGED <<vars, api>>

(* The duplicate outbox event aborts the transaction and ends the handler. *)
AckRecord(h) ==
  /\ ack[h].pc = "recording"
  /\ LET j == ack[h].job
         type == ack[h].type
     IN  IF jobs[j].status \notin Recordable(type)
         THEN UNCHANGED <<jobs, rcpt, events, outbox>> /\ ack' = [ack EXCEPT ![h].pc = "publishing"]
         ELSE IF StatusEvent(j, type) \in outbox
         THEN UNCHANGED <<jobs, rcpt, events, outbox>> /\ ack' = [ack EXCEPT ![h] = NoAck]
         ELSE /\ jobs' = [jobs EXCEPT ![j].status = type]
              /\ rcpt' = [rcpt EXCEPT ![j] =
                   IF @ \in (CASE type = "SENT" -> {"ENQUEUED"}
                               [] type = "DELIVERED" -> {"SENT"}
                               [] type = "READ" -> {"SENT", "DELIVERED"})
                   THEN type ELSE @]
              /\ events' = events \cup {<<j, type>>}
              /\ outbox' = outbox \cup {StatusEvent(j, type)}
              /\ ack' = [ack EXCEPT ![h].pc = "publishing"]
  /\ UNCHANGED <<log, usage, wkr, sweep, drain, inflight, sends, api>>

(* dispatchWebhook -> publishWebhookEvent. *)
AckPublish(h) ==
  /\ ack[h].pc = "publishing"
  /\ outbox' = outbox \cup {StatusEvent(ack[h].job, ack[h].type)}
  /\ ack' = [ack EXCEPT ![h] = NoAck]
  /\ UNCHANGED <<jobs, log, rcpt, events, usage, wkr, sweep, drain, inflight, sends, api>>

Acknowledge(h) ==
  \/ \E j \in Jobs, type \in AckTypes : AckArrives(h, j, type)
  \/ AckRecord(h) \/ AckPublish(h)
-----------------------------------------------------------------------------
(* The calls of a handler that has begun; Begin is the client's request. *)
Handle(c) ==
  \/ EnqueueReserve(c) \/ (\E j \in Jobs : EnqueueCreate(c, j))
  \/ EnqueueRaced(c) \/ EnqueueAfterRace(c) \/ EnqueueFails(c)
  \/ CancelReread(c)
  \/ RetryReserve(c) \/ RetryRequeue(c) \/ RetryLost(c) \/ RetryReread(c)
  \/ ReleaseKey(c)

Begin(c) ==
  \/ \E r \in Requests : EnqueueLookup(c, r)
  \/ \E j \in Jobs : Cancel(c, j) \/ Delete(c, j) \/ RetryRead(c, j)

SysNext ==
  \/ WorkerNext /\ UNCHANGED <<api, ack>>
  \/ \E c \in Callers : Begin(c) \/ Handle(c)
  \/ \E j \in Jobs : LinkRecipient(j)
  \/ \E h \in Handlers : Acknowledge(h)

SysSpec == SysInit /\ [][SysNext]_sysVars

(* A request that has begun runs to its end; what clients ask and what WhatsApp
   acknowledges is up to them. *)
SysFairSpec ==
  /\ SysSpec
  /\ WorkerFairness
  /\ \A c \in Callers : WF_sysVars(Handle(c))
  /\ \A h \in Handlers : WF_sysVars(AckRecord(h) \/ AckPublish(h))
-----------------------------------------------------------------------------
(***************************************************************************)
(* Properties.                                                             *)
(***************************************************************************)

SysTypeOK ==
  /\ TypeOK
  /\ api \in [Callers -> [pc : {"ready", "reserving", "creating", "raced", "releasing", "cancelled",
                                "retry-reserving", "retrying", "retry-rereading"},
                          job : Jobs \cup {NoJob}, req : Requests \cup {NoJob},
                          n : 0..AttemptLimit, max : 0..AttemptLimit,
                          key : QuotaKeys \cup {NoKey}]]
  /\ ack \in [Handlers -> [pc : {"ready", "recording", "publishing"}, job : Jobs \cup {NoJob},
                           type : {"SENT", "DELIVERED", "READ"}]]

(* Nobody is between two statements. *)
Quiescent ==
  /\ \A c \in Callers : At(c, "ready")
  /\ \A w \in Workers : /\ wkr[w].pc \in {"new", "idle"} \cup Gone
                        /\ sweep[w].pc # "working" /\ drain[w].pc = "off"
  /\ \A h \in Handlers : ack[h].pc = "ready"

(* The books balance whenever nobody is in the middle of something: quota is
   held exactly by the jobs that may still be sent, each by a reservation of
   its own, and every job that was sent has consumed its own. *)
QuiescentBooks ==
  Quiescent =>
    LET live == {j \in Jobs : Live(j)}
        sent == {j \in Jobs : jobs[j].status \in SentStatuses}
    IN  /\ {k \in QuotaKeys : OpenReservation(usage, k)} = {jobs[j].key : j \in live}
        /\ usage.reserved[Month] = Cardinality(live)
        /\ \A j \in sent : HasRow(usage, "COMMIT", jobs[j].key)
        /\ usage.consumed[Month] >= Cardinality(sent)

(* A job that waits in the queue holds an open reservation of its own key, so
   the message it is about to send can be paid for. *)
QueuedJobHoldsQuota ==
  \A j \in Jobs : jobs[j].status = "QUEUED" => OpenReservation(usage, jobs[j].key)

(* What the workers guarantee stands beside callers that submit, cancel, retry and
   delete, and acknowledgements in any order: a queued job has an attempt left, a sent
   one is paid for, and the record of its attempts agrees with what became of it. *)
JobsStaySound == SysTypeOK /\ NoStrandedQueued /\ SentIsPaid /\ HistoryMatchesJob

(* The delivery status of a sent message only advances, SENT, DELIVERED, READ,
   whatever order the acknowledgements and their handlers come in. *)
DeliveryOnlyAdvances ==
  [][\A j \in Jobs :
       jobs[j].status \in SentStatuses =>
         \/ jobs'[j].status = "DELETED"
         \/ Progress(jobs'[j].status) >= Progress(jobs[j].status)]_sysVars
=============================================================================
