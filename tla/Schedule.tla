------------------------------ MODULE Schedule ------------------------------
(***************************************************************************)
(* Scheduled messages: the occurrences a worker claims, queues and         *)
(* finalizes (src/lib/schedule-queue.ts, src/scheduler/schedule-worker.ts) *)
(* beside their creation, edit and cancellation                            *)
(* (src/lib/schedule-service.ts).                                          *)
(*                                                                         *)
(* An occurrence is <<version, run>>: every edit starts a new version, and *)
(* a recurring schedule goes on to its next run.  The row of the schedule  *)
(* is the lock; the row of the execution remembers what became of the      *)
(* occurrence.  A step is one statement or transaction.                    *)
(***************************************************************************)
EXTENDS WorkerLease

CONSTANTS
  Schedules,            \* ScheduledMessage rows of a tenant
  Plans,                \* bound: the kinds and missed-run policies that users choose
  ActiveLimit,          \* what SCHEDULED_MESSAGES allows
  MaxScheduleAttempts,  \* MAX_SCHEDULE_ATTEMPTS
  MaxVersion,           \* bound on the versions of a schedule
  MaxRun,               \* bound on the runs of a recurring schedule
  Outages               \* bound on the calls that throw, or that hang until the lease is over

ASSUME ScheduleAssumption ==
  /\ IsFiniteSet(Schedules) /\ ActiveLimit \in Nat
  /\ Plans \subseteq [kind : {"ONE_TIME", "RECURRING"}, policy : {"SEND_LATE", "SKIP", "CANCEL"}]
  /\ MaxScheduleAttempts \in Nat \ {0} /\ MaxVersion \in Nat \ {0} /\ MaxRun \in Nat \ {0}
  /\ Outages \in Nat

VARIABLES
  schedules,   \* ScheduledMessage rows; run stands for nextRunAt
  executions,  \* ScheduleExecution rows, by schedule and occurrence
  planned,     \* messages queued: <<schedule, occurrence>>
  scheduler,   \* per worker: its loop and what it snapshotted
  outages,     \* calls that have thrown or hung so far
  closed       \* history: the occurrences that were finalized, and as what

scheduleVars == <<schedules, executions, planned, scheduler, outages, closed>>

Occurrences == (1..MaxVersion) \X (1..MaxRun)
UnplannedSchedule == [kind |-> "ONE_TIME", policy |-> "SEND_LATE"]
NoSchedule == [status |-> "none", plan |-> UnplannedSchedule, version |-> 1, run |-> 1, due |-> FALSE,
               lock |-> Nobody, lease |-> "none"]
NoExecution == [status |-> "none", token |-> Nobody, attempt |-> 0]
SchedulerAt(pc) == [pc |-> pc, schedule |-> "no schedule", plan |-> UnplannedSchedule, occ |-> <<>>,
                    status |-> "CLAIMED", attempt |-> 0]

ScheduleInit ==
  /\ schedules = [s \in Schedules |-> NoSchedule]
  /\ executions = [s \in Schedules |-> [o \in Occurrences |-> NoExecution]]
  /\ planned = {}
  /\ scheduler = [w \in Workers |-> SchedulerAt("idle")]
  /\ outages = 0
  /\ closed = {}
-----------------------------------------------------------------------------
Busy(s) == schedules[s].lock # Nobody /\ schedules[s].lease = "live"
ActiveSchedules == {s \in Schedules : schedules[s].status = "ACTIVE"}

(* createSchedule: the limit is counted and the row created in one serializable
   transaction. *)
CreateSchedule(s, plan) ==
  /\ schedules[s].status = "none" /\ Cardinality(ActiveSchedules) < ActiveLimit
  /\ schedules' = [schedules EXCEPT ![s].status = "ACTIVE", ![s].plan = plan]
  /\ UNCHANGED <<executions, planned, scheduler, outages, closed>>

(* updateSchedule: refused while the lease is live.  The status is ACTIVE again and
   the time new; lockedBy and the lease of a stalled claim are left in place. *)
EditedSchedule(s, plan) ==
  [schedules[s] EXCEPT !.status = "ACTIVE", !.plan = plan, !.version = @ + 1, !.run = 1, !.due = FALSE]

UpdateSchedule(s, plan) ==
  /\ schedules[s].status \in {"ACTIVE", "FAILED"} /\ ~Busy(s) /\ schedules[s].version < MaxVersion
  /\ schedules' = [schedules EXCEPT ![s] = EditedSchedule(s, plan)]
  /\ UNCHANGED <<executions, planned, scheduler, outages, closed>>

CancelSchedule(s) ==
  /\ schedules[s].status = "ACTIVE" /\ ~Busy(s)
  /\ schedules' = [schedules EXCEPT ![s] = [Released(@) EXCEPT !.status = "CANCELLED"]]
  /\ UNCHANGED <<executions, planned, scheduler, outages, closed>>
-----------------------------------------------------------------------------
ScheduleOf(w) == schedules[scheduler[w].schedule]
ExecutionOf(w) == executions[scheduler[w].schedule][scheduler[w].occ]

(* where: { id, status: "ACTIVE", lockedBy: claimToken } *)
OwnsSchedule(w) == ScheduleOf(w).status = "ACTIVE" /\ ScheduleOf(w).lock = w
Outage == outages < Outages /\ outages' = outages + 1
SchedulerGoes(w, pc) == scheduler' = [scheduler EXCEPT ![w].pc = pc]
SchedulerRests(w) == scheduler' = [scheduler EXCEPT ![w] = SchedulerAt("idle")]

(* Faulty variant of ClaimableSchedule: only rows that nobody ever claimed. *)
ClaimableUnlocked(s) == schedules[s].status = "ACTIVE" /\ schedules[s].due /\ schedules[s].lock = Nobody

ClaimableSchedule(s) == schedules[s].status = "ACTIVE" /\ schedules[s].due /\ ~Busy(s)

(* claimNextDueSchedule: the claim and its read-back, *)
ClaimSchedule(w) ==
  /\ scheduler[w].pc = "idle"
  /\ \E s \in Schedules :
       /\ ClaimableSchedule(s)
       /\ schedules' = [schedules EXCEPT ![s] = Claimed(@, w)]
       /\ scheduler' = [scheduler EXCEPT ![w] =
            [SchedulerAt("claimed") EXCEPT !.schedule = s, !.plan = schedules[s].plan,
                                           !.occ = <<schedules[s].version, schedules[s].run>>]]
  /\ UNCHANGED <<executions, planned, outages, closed>>

(* the heartbeat and the look at the execution; a call that throws leaves the row
   locked until its lease is over, *)
LookUpExecution(w) ==
  LET row == ExecutionOf(w)
  IN /\ scheduler[w].pc = "claimed"
     /\ \/ /\ OwnsSchedule(w)
           /\ schedules' = [schedules EXCEPT ![scheduler[w].schedule].lease = "live"]
           /\ \/ row.status = "none" /\ SchedulerGoes(w, "creating")
              \/ row.status = "CLAIMED" /\ SchedulerGoes(w, "retaking")
              \/ /\ row.status \notin {"none", "CLAIMED"}
                 /\ scheduler' = [scheduler EXCEPT ![w].pc = "executing", ![w].status = row.status,
                                                   ![w].attempt = row.attempt]
           /\ UNCHANGED outages
        \/ ~OwnsSchedule(w) /\ SchedulerRests(w) /\ UNCHANGED <<schedules, outages>>
        \/ Outage /\ SchedulerRests(w) /\ UNCHANGED schedules
     /\ UNCHANGED <<executions, planned, closed>>

(* its creation, or a second look at it (P2002), *)
CreateExecution(w) ==
  LET row == IF ExecutionOf(w).status = "none"
             THEN [status |-> "CLAIMED", token |-> w, attempt |-> 1] ELSE ExecutionOf(w)
  IN /\ scheduler[w].pc = "creating"
     /\ executions' = [executions EXCEPT ![scheduler[w].schedule][scheduler[w].occ] = row]
     /\ scheduler' = [scheduler EXCEPT ![w].pc = "executing", ![w].status = row.status, ![w].attempt = row.attempt]
     /\ UNCHANGED <<schedules, planned, outages, closed>>

(* or its renewal for this claim, by its id alone: nothing says that it still is
   CLAIMED as read, and the row returned is what the worker goes by.  The counter
   saturates: only whether it has reached the maximum counts. *)
RetakeExecution(w) ==
  LET n == ExecutionOf(w).attempt
      row == [ExecutionOf(w) EXCEPT !.token = w, !.attempt = IF n < MaxScheduleAttempts THEN n + 1 ELSE n]
  IN /\ scheduler[w].pc = "retaking"
     /\ executions' = [executions EXCEPT ![scheduler[w].schedule][scheduler[w].occ] = row]
     /\ scheduler' = [scheduler EXCEPT ![w].pc = "executing", ![w].status = row.status, ![w].attempt = row.attempt]
     /\ UNCHANGED <<schedules, planned, outages, closed>>

Ends(s, status) == [schedules EXCEPT ![s] = [Released(@) EXCEPT !.status = status]]

(* updateMany of the execution under the claim's token. *)
ExecutionBecomes(w, status) ==
  executions' = IF ExecutionOf(w).token = w /\ (status = "SKIPPED" \/ ExecutionOf(w).status = "CLAIMED")
                THEN [executions EXCEPT ![scheduler[w].schedule][scheduler[w].occ].status = status]
                ELSE executions

(* executeClaimedSchedule, up to the message: the heartbeat must find the claim;
   then what became of the occurrence earlier decides, or the policy for one that
   is missed, or else the message is queued (or denied, or a call throws). *)
ExecuteSchedule(w) ==
  LET s == scheduler[w].schedule
  IN /\ scheduler[w].pc = "executing"
     /\ \/ ~OwnsSchedule(w) /\ SchedulerRests(w) /\ UNCHANGED <<schedules, executions>>
        \/ /\ OwnsSchedule(w) /\ scheduler[w].status \in {"ENQUEUED", "SKIPPED"}
           /\ SchedulerGoes(w, "finalizing")
           /\ schedules' = [schedules EXCEPT ![s].lease = "live"]
           /\ UNCHANGED executions
        \/ /\ OwnsSchedule(w) /\ scheduler[w].status = "FAILED"
           /\ schedules' = Ends(s, "FAILED") /\ SchedulerRests(w)
           /\ UNCHANGED executions
        \/ /\ OwnsSchedule(w) /\ scheduler[w].status = "CLAIMED"
           /\ \/ /\ scheduler[w].plan.policy = "CANCEL"
                 /\ schedules' = Ends(s, "CANCELLED")
                 /\ ExecutionBecomes(w, "SKIPPED") /\ SchedulerRests(w)
              \/ /\ scheduler[w].plan.policy = "SKIP"
                 /\ schedules' = [schedules EXCEPT ![s].lease = "live"]
                 /\ ExecutionBecomes(w, "SKIPPED")
                 /\ scheduler' = [scheduler EXCEPT ![w].pc = "finalizing", ![w].status = "SKIPPED"]
              \/ /\ \E pc \in {"queueing", "failing", "denied"} : SchedulerGoes(w, pc)
                 /\ schedules' = [schedules EXCEPT ![s].lease = "live"]
                 /\ UNCHANGED executions
     /\ UNCHANGED <<planned, outages, closed>>

(* Faulty variant of QueueOccurrence: the execution is recorded before the call. *)
QueueRecordedFirst(w) ==
  /\ scheduler[w].pc = "queueing"
  /\ ExecutionBecomes(w, "ENQUEUED")
  /\ \/ /\ planned' = planned \cup {<<scheduler[w].schedule, scheduler[w].occ>>}
        /\ SchedulerGoes(w, "recording")
     \/ SchedulerGoes(w, "failing") /\ UNCHANGED planned
  /\ UNCHANGED <<schedules, outages, closed>>

(* enqueueMessage under the id of the execution: queued once, however often it is
   called; its answer may be lost. *)
QueueOccurrence(w) ==
  /\ scheduler[w].pc = "queueing"
  /\ \/ /\ planned' = planned \cup {<<scheduler[w].schedule, scheduler[w].occ>>}
        /\ \E pc \in {"recording", "failing"} : SchedulerGoes(w, pc)
     \/ SchedulerGoes(w, "failing") /\ UNCHANGED planned
  /\ UNCHANGED <<schedules, executions, outages, closed>>

RecordExecution(w) ==
  /\ scheduler[w].pc = "recording"
  /\ ExecutionBecomes(w, "ENQUEUED")
  /\ scheduler' = [scheduler EXCEPT ![w].pc = "finalizing", ![w].status = "ENQUEUED"]
  /\ UNCHANGED <<schedules, planned, outages, closed>>

(* nextScheduleState of the snapshot. *)
FinalizedSchedule(w) ==
  LET s == scheduler[w].schedule  row == Released(schedules[s])
  IN IF scheduler[w].plan.kind = "ONE_TIME" THEN [row EXCEPT !.status = "COMPLETED"]
     ELSE [row EXCEPT !.run = IF @ < MaxRun THEN @ + 1 ELSE @, !.due = FALSE]

(* finalizeSchedule: under the claim, the schedule is completed or goes on to its
   next run, with the event in the same transaction. *)
FinalizeSchedule(w) ==
  /\ scheduler[w].pc = "finalizing"
  /\ \/ /\ OwnsSchedule(w)
        /\ schedules' = [schedules EXCEPT ![scheduler[w].schedule] = FinalizedSchedule(w)]
        /\ closed' = closed \cup {<<scheduler[w].schedule, scheduler[w].occ, scheduler[w].status>>}
        /\ SchedulerRests(w) /\ UNCHANGED outages
     \/ ~OwnsSchedule(w) /\ SchedulerRests(w) /\ UNCHANGED <<schedules, outages, closed>>
     \/ Outage /\ SchedulerGoes(w, "failing") /\ UNCHANGED <<schedules, closed>>
  /\ UNCHANGED <<executions, planned>>

(* failClaimedSchedule: without attempts left, or denied, execution and schedule
   are FAILED; else the lock and the lease are kept for the backoff.  When it
   throws, the lock stays, too. *)
FailSchedule(w) ==
  LET s == scheduler[w].schedule
      terminal == scheduler[w].pc = "denied" \/ scheduler[w].attempt >= MaxScheduleAttempts
  IN /\ scheduler[w].pc \in {"failing", "denied"}
     /\ \/ /\ terminal
           /\ ExecutionBecomes(w, "FAILED")
           /\ schedules' = IF OwnsSchedule(w) THEN Ends(s, "FAILED") ELSE schedules
           /\ UNCHANGED outages
        \/ /\ ~terminal
           /\ schedules' = IF OwnsSchedule(w) THEN [schedules EXCEPT ![s].lease = "live"] ELSE schedules
           /\ UNCHANGED <<executions, outages>>
        \/ Outage /\ UNCHANGED <<schedules, executions>>
     /\ SchedulerRests(w)
     /\ UNCHANGED <<planned, closed>>

HeartbeatSchedule(w) ==
  /\ scheduler[w].pc \notin {"idle"} \cup Gone
  /\ OwnsSchedule(w) /\ ScheduleOf(w).lease = "expired"
  /\ schedules' = [schedules EXCEPT ![scheduler[w].schedule].lease = "live"]
  /\ UNCHANGED <<executions, planned, scheduler, outages, closed>>

(* recoverSchedulesForWorker. *)
StopScheduler(w) ==
  /\ w \in Mortal /\ scheduler[w].pc = "idle"
  /\ schedules' = [s \in Schedules |->
       IF schedules[s].status = "ACTIVE" /\ schedules[s].lock = w THEN Released(schedules[s]) ELSE schedules[s]]
  /\ scheduler' = [scheduler EXCEPT ![w] = SchedulerAt("stopped")]
  /\ UNCHANGED <<executions, planned, outages, closed>>

KillScheduler(w) ==
  /\ w \in Mortal /\ scheduler[w].pc \notin Gone
  /\ scheduler' = [scheduler EXCEPT ![w] = SchedulerAt("dead")]
  /\ UNCHANGED <<schedules, executions, planned, outages, closed>>

(* Nobody works on s any more: its lease is not renewed. *)
AbandonedSchedule(s) == \A w \in Workers : scheduler[w].schedule = s => schedules[s].lock # w

(* The lease runs out after the backoff or a crash, or under a worker that hangs. *)
ScheduleLeaseExpires(s) ==
  /\ schedules[s].lease = "live"
  /\ \/ AbandonedSchedule(s) /\ UNCHANGED outages
     \/ ~AbandonedSchedule(s) /\ Outage
  /\ schedules' = [schedules EXCEPT ![s].lease = "expired"]
  /\ UNCHANGED <<executions, planned, scheduler, closed>>

RunClosed(s, o) == \E as \in {"ENQUEUED", "SKIPPED"} : <<s, o, as>> \in closed

(* The last run of the model is never due again once it is closed. *)
ScheduleFallsDue(s) ==
  /\ schedules[s].status = "ACTIVE" /\ ~schedules[s].due
  /\ ~RunClosed(s, <<schedules[s].version, schedules[s].run>>)
  /\ schedules' = [schedules EXCEPT ![s].due = TRUE]
  /\ UNCHANGED <<executions, planned, scheduler, outages, closed>>

SchedulerStep(w) ==
  \/ ClaimSchedule(w) \/ LookUpExecution(w) \/ CreateExecution(w) \/ RetakeExecution(w)
  \/ ExecuteSchedule(w) \/ QueueOccurrence(w) \/ RecordExecution(w) \/ FinalizeSchedule(w) \/ FailSchedule(w)

ScheduleNext ==
  \/ \E w \in Workers : SchedulerStep(w) \/ HeartbeatSchedule(w) \/ StopScheduler(w) \/ KillScheduler(w)
  \/ \E s \in Schedules : \/ CancelSchedule(s) \/ ScheduleLeaseExpires(s) \/ ScheduleFallsDue(s)
                          \/ \E plan \in Plans : CreateSchedule(s, plan) \/ UpdateSchedule(s, plan)

ScheduleTime == \E s \in Schedules : ScheduleLeaseExpires(s) /\ AbandonedSchedule(s)

(* A worker that is up goes on, and the lease of a schedule nobody works on runs out. *)
ScheduleFairness ==
  /\ \A w \in Workers : WF_scheduleVars(SchedulerStep(w))
  /\ WF_scheduleVars(ScheduleTime)

ScheduleSpec == ScheduleInit /\ [][ScheduleNext]_scheduleVars /\ ScheduleFairness
-----------------------------------------------------------------------------
ScheduleTypeOK ==
  /\ \A s \in Schedules :
       /\ schedules[s].status \in {"none", "ACTIVE", "COMPLETED", "FAILED", "CANCELLED"}
       /\ schedules[s].version \in 1..MaxVersion /\ schedules[s].run \in 1..MaxRun
       /\ (schedules[s].lock # Nobody) <=> (schedules[s].lease # "none")
       /\ \A o \in Occurrences : /\ executions[s][o].status \in {"none", "CLAIMED", "ENQUEUED", "SKIPPED", "FAILED"}
                                 /\ executions[s][o].attempt \in 0..MaxScheduleAttempts
  /\ planned \subseteq Schedules \X Occurrences

(* Nothing is closed that was not done: an execution is recorded as ENQUEUED, and
   an occurrence that was not skipped is finalized, only when its message is
   queued, whatever claims were lost, retaken or edited away in between.  (The
   execution row itself may be left CLAIMED: a stalled claim can retake it.) *)
ClosedRunsAreQueued ==
  \A s \in Schedules : \A o \in Occurrences :
    /\ executions[s][o].status = "ENQUEUED" => <<s, o>> \in planned
    /\ <<s, o, "ENQUEUED">> \in closed => <<s, o>> \in planned

(* A schedule that is due runs in the end, or is failed, cancelled or edited:
   no crash, lost claim or throwing call leaves it ACTIVE and due for ever. *)
DueSchedule(s) == schedules[s].status = "ACTIVE" /\ schedules[s].due
DueScheduleAdvances == \A s \in Schedules : DueSchedule(s) ~> ~DueSchedule(s)
=============================================================================
