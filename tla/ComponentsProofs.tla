-------------------------- MODULE ComponentsProofs --------------------------
(***************************************************************************)
(* Theorems about the scheduler, the auto-replies and a WhatsApp device,   *)
(* for any number of workers, schedules, runs, triggers, attempts,         *)
(* processes and instances; and about all the components of MCComponents   *)
(* together.                                                               *)
(*                                                                         *)
(* That a closed run was queued holds because its execution row outlives   *)
(* the claim of the worker that made it: LoopInv ties what a worker has    *)
(* done to the rows whoever holds the schedule by then.  That a reply      *)
(* matches its snapshot, whatever the rule has become, rests on what every *)
(* worker read of its trigger (Informed).  The last section follows the    *)
(* attempts of mails, events, deliveries and triggers: what a worker       *)
(* counted at its claim is what its row has counted, while it holds it.    *)
(***************************************************************************)
EXTENDS MCComponents, OutboxProofs

ScheduleStatuses == {"none", "ACTIVE", "COMPLETED", "FAILED", "CANCELLED"}
ExecutionStatuses == {"none", "CLAIMED", "ENQUEUED", "SKIPPED", "FAILED"}
KnownPlans == Plans \cup {UnplannedSchedule}
ScheduleRows ==
  {r \in [status : ScheduleStatuses, plan : KnownPlans, version : 1..MaxVersion, run : 1..MaxRun,
          due : BOOLEAN, lock : Workers \cup {Nobody}, lease : Leases] :
     (r.lock # Nobody) <=> (r.lease # "none")}
ExecutionRows == [status : ExecutionStatuses, token : Workers \cup {Nobody}, attempt : 0..MaxScheduleAttempts]

(* Where a worker has an occurrence in its hand. *)
AtSchedule ==
  {"claimed", "creating", "retaking", "executing", "queueing", "recording", "finalizing", "failing", "denied"}
SchedulerStates ==
  {m \in [pc : {"idle"} \cup AtSchedule \cup Gone, schedule : Schedules \cup {"no schedule"},
          plan : KnownPlans, occ : Occurrences \cup {<<>>}, status : ExecutionStatuses,
          attempt : 0..MaxScheduleAttempts] :
     m.pc \in AtSchedule => m.schedule \in Schedules /\ m.occ \in Occurrences}

RowsInv == schedules \in [Schedules -> ScheduleRows]

RunsInv ==
  /\ executions \in [Schedules -> [Occurrences -> ExecutionRows]]
  /\ planned \subseteq Schedules \X Occurrences
  /\ \A s \in Schedules : \A o \in Occurrences : executions[s][o].status = "ENQUEUED" => <<s, o>> \in planned

(* A worker that says its occurrence is ENQUEUED, or is about to, has queued it. *)
Truthful(m) == m.pc = "recording" \/ m.status = "ENQUEUED" => <<m.schedule, m.occ>> \in planned
LoopInv == scheduler \in [Workers -> SchedulerStates] /\ \A w \in Workers : Truthful(scheduler[w])

ClosedInv == \A s \in Schedules : \A o \in Occurrences : <<s, o, "ENQUEUED">> \in closed => <<s, o>> \in planned

ScheduleInv == RowsInv /\ RunsInv /\ LoopInv /\ ClosedInv

(* The lock and the lease of a row are written together. *)
LEMMA ReleasedSchedule ==
  ASSUME NEW r \in ScheduleRows, NEW q, q = Released(r)
  PROVE  q \in ScheduleRows
  BY DEF ScheduleRows, Released, Leases

(* A row that ends. *)
LEMMA EndedSchedule ==
  ASSUME NEW r \in ScheduleRows, NEW st \in ScheduleStatuses, NEW q, q = [Released(r) EXCEPT !.status = st]
  PROVE  q \in ScheduleRows
  BY DEF ScheduleRows, Released, Leases

(* A row that is claimed. *)
LEMMA ClaimedSchedule ==
  ASSUME NEW r \in ScheduleRows, NEW w \in Workers, NEW q, q = Claimed(r, w)
  PROVE  q \in ScheduleRows
  BY NobodyAssumption DEF ScheduleRows, Claimed, Leases

(* A lease that is renewed, or runs out. *)
LEMMA LeasedSchedule ==
  ASSUME NEW r \in ScheduleRows, r.lock # Nobody, NEW l \in {"live", "expired"}, NEW q, q = [r EXCEPT !.lease = l]
  PROVE  q \in ScheduleRows
  BY DEF ScheduleRows, Leases

(* A worker that owns its schedule has a schedule. *)
LEMMA OwnedSchedule ==
  ASSUME RowsInv, LoopInv, NEW w \in Workers, scheduler[w].pc \in AtSchedule
  PROVE  /\ scheduler[w].schedule \in Schedules /\ scheduler[w].occ \in Occurrences
         /\ ScheduleOf(w) \in ScheduleRows
         /\ OwnsSchedule(w) => ScheduleOf(w).lock = w /\ ScheduleOf(w).lock # Nobody
  BY NobodyAssumption DEF RowsInv, LoopInv, SchedulerStates, ScheduleOf, OwnsSchedule

(* Every statement writes rows of the table's shape. *)
LEMMA RowsStep == ASSUME RowsInv, LoopInv, [ScheduleNext]_scheduleVars PROVE RowsInv'
  <1>t. schedules \in [Schedules -> ScheduleRows] BY DEF RowsInv
  <1>u. CASE UNCHANGED schedules BY <1>u DEF RowsInv
  <1>1. ASSUME NEW s \in Schedules, NEW q \in ScheduleRows, schedules' = [schedules EXCEPT ![s] = q]
        PROVE  RowsInv'
    BY <1>t, <1>1 DEF RowsInv
  <1>2. ASSUME NEW s \in Schedules, schedules[s].lock # Nobody, NEW l \in {"live", "expired"},
               schedules' = [schedules EXCEPT ![s].lease = l]
        PROVE  RowsInv'
    <2> DEFINE q == [schedules[s] EXCEPT !.lease = l]
    <2>1. schedules' = [schedules EXCEPT ![s] = q] BY <1>2
    <2>2. q \in ScheduleRows BY <1>t, <1>2, LeasedSchedule
    <2> HIDE DEF q
    <2> QED BY <1>1, <2>1, <2>2
  <1>3. ASSUME NEW s \in Schedules, NEW st \in ScheduleStatuses, schedules' = Ends(s, st) PROVE RowsInv'
    <2> DEFINE q == [Released(schedules[s]) EXCEPT !.status = st]
    <2>1. schedules' = [schedules EXCEPT ![s] = q] BY <1>3 DEF Ends
    <2>2. q \in ScheduleRows BY <1>t, EndedSchedule
    <2> HIDE DEF q
    <2> QED BY <1>1, <2>1, <2>2
  <1>w. ASSUME NEW w \in Workers, scheduler[w].pc \in AtSchedule
        PROVE  /\ scheduler[w].schedule \in Schedules
               /\ OwnsSchedule(w) => schedules[scheduler[w].schedule].lock # Nobody
    BY <1>w, OwnedSchedule DEF ScheduleOf
  <1>4. ASSUME NEW s \in Schedules, NEW plan \in Plans, CreateSchedule(s, plan) PROVE RowsInv'
    <2> DEFINE q == [schedules[s] EXCEPT !.status = "ACTIVE", !.plan = plan]
    <2>1. schedules' = [schedules EXCEPT ![s] = q] BY <1>4, <1>t DEF CreateSchedule
    <2>2. q \in ScheduleRows BY <1>t DEF ScheduleRows, ScheduleStatuses, KnownPlans
    <2> HIDE DEF q
    <2> QED BY <1>1, <2>1, <2>2
  <1>5. ASSUME NEW s \in Schedules, NEW plan \in Plans, UpdateSchedule(s, plan) PROVE RowsInv'
    <2> DEFINE r == schedules[s]  n == r.version + 1
               q == [r EXCEPT !.status = "ACTIVE", !.plan = plan, !.version = n, !.run = 1, !.due = FALSE]
    <2>1. schedules' = [schedules EXCEPT ![s] = q] BY <1>5 DEF UpdateSchedule, EditedSchedule
    <2>2. r \in ScheduleRows BY <1>t
    <2>3. n \in 1..MaxVersion /\ 1 \in 1..MaxRun
      BY <2>2, <1>5, ScheduleAssumption DEF ScheduleRows, UpdateSchedule
    <2> HIDE DEF r, n
    <2>4. q \in ScheduleRows BY <2>2, <2>3 DEF ScheduleRows, ScheduleStatuses, KnownPlans
    <2> HIDE DEF q
    <2> QED BY <1>1, <2>1, <2>4
  <1>6. ASSUME NEW s \in Schedules, CancelSchedule(s) PROVE RowsInv'
    BY <1>3, <1>6 DEF CancelSchedule, Ends, ScheduleStatuses
  <1>7. ASSUME NEW w \in Workers, ClaimSchedule(w) PROVE RowsInv'
    <2>1. PICK s \in Schedules : schedules' = [schedules EXCEPT ![s] = Claimed(schedules[s], w)]
      BY <1>7 DEF ClaimSchedule
    <2>2. Claimed(schedules[s], w) \in ScheduleRows BY <1>t, ClaimedSchedule
    <2> QED BY <1>1, <2>1, <2>2
  <1>8. ASSUME NEW w \in Workers, LookUpExecution(w) PROVE RowsInv'
    BY <1>2, <1>8, <1>u, <1>w DEF LookUpExecution, AtSchedule
  <1>9. ASSUME NEW w \in Workers, ExecuteSchedule(w) PROVE RowsInv'
    BY <1>2, <1>3, <1>9, <1>u, <1>w DEF ExecuteSchedule, AtSchedule, ScheduleStatuses
  <1>10. ASSUME NEW w \in Workers, FinalizeSchedule(w) PROVE RowsInv'
    <2>1. CASE UNCHANGED schedules BY <1>u, <2>1
    <2>2. CASE schedules' # schedules
      <3> DEFINE s == scheduler[w].schedule  r == schedules[s]  q == FinalizedSchedule(w)
      <3>1. s \in Schedules BY <1>10, <1>w DEF FinalizeSchedule, AtSchedule
      <3>2. schedules' = [schedules EXCEPT ![s] = q] BY <1>10, <2>2 DEF FinalizeSchedule
      <3>3. Released(r) \in ScheduleRows BY <1>t, <3>1, ReleasedSchedule
      <3>4. q \in ScheduleRows
        <4> DEFINE p == Released(r)  n == IF p.run < MaxRun THEN p.run + 1 ELSE p.run
        <4>1. q = [p EXCEPT !.status = "COMPLETED"] \/ q = [p EXCEPT !.run = n, !.due = FALSE]
          BY DEF FinalizedSchedule
        <4>2. n \in 1..MaxRun BY <3>3, ScheduleAssumption DEF ScheduleRows
        <4> HIDE DEF p, n, q
        <4>3. p \in ScheduleRows BY <3>3 DEF p
        <4> QED BY <4>1, <4>2, <4>3 DEF ScheduleRows, ScheduleStatuses
      <3> HIDE DEF q, s
      <3> QED BY <1>1, <3>1, <3>2, <3>4
    <2> QED BY <2>1, <2>2
  <1>11. ASSUME NEW w \in Workers, FailSchedule(w) PROVE RowsInv'
    BY <1>2, <1>3, <1>11, <1>u, <1>w DEF FailSchedule, AtSchedule, ScheduleStatuses
  <1>12. ASSUME NEW w \in Workers, HeartbeatSchedule(w) PROVE RowsInv'
    <2>1. scheduler[w].pc \in AtSchedule
      BY <1>12 DEF HeartbeatSchedule, LoopInv, SchedulerStates
    <2> QED BY <1>2, <1>12, <1>w, <2>1 DEF HeartbeatSchedule
  <1>13. ASSUME NEW w \in Workers, StopScheduler(w) PROVE RowsInv'
    <2>1. \A s \in Schedules : Released(schedules[s]) \in ScheduleRows BY <1>t, ReleasedSchedule
    <2> QED BY <1>13, <1>t, <2>1 DEF StopScheduler, RowsInv
  <1>14. ASSUME NEW s \in Schedules, ScheduleLeaseExpires(s) PROVE RowsInv'
    <2>1. schedules[s].lock # Nobody BY <1>14, <1>t DEF ScheduleLeaseExpires, ScheduleRows
    <2> QED BY <1>2, <1>14, <2>1 DEF ScheduleLeaseExpires
  <1>15. ASSUME NEW s \in Schedules, ScheduleFallsDue(s) PROVE RowsInv'
    <2> DEFINE q == [schedules[s] EXCEPT !.due = TRUE]
    <2>1. schedules' = [schedules EXCEPT ![s] = q] BY <1>15 DEF ScheduleFallsDue
    <2>2. q \in ScheduleRows BY <1>t DEF ScheduleRows
    <2> HIDE DEF q
    <2> QED BY <1>1, <2>1, <2>2
  <1> QED
    BY <1>u, <1>4, <1>5, <1>6, <1>7, <1>8, <1>9, <1>10, <1>11, <1>12, <1>13, <1>14, <1>15
       DEF ScheduleNext, SchedulerStep, CreateExecution, RetakeExecution, QueueOccurrence, RecordExecution,
           KillScheduler, scheduleVars

(* An execution that a claim creates. *)
LEMMA NewExecution ==
  ASSUME NEW w \in Workers
  PROVE  [status |-> "CLAIMED", token |-> w, attempt |-> 1] \in ExecutionRows
  <1>1. 1 \in 0..MaxScheduleAttempts BY ScheduleAssumption
  <1> QED BY <1>1 DEF ExecutionRows, ExecutionStatuses

(* Messages that are queued stay so, and each is one of an occurrence. *)
LEMMA PlannedGrows ==
  ASSUME RowsInv, RunsInv, LoopInv, [ScheduleNext]_scheduleVars
  PROVE  planned \subseteq planned' /\ planned' \subseteq Schedules \X Occurrences
  <1>1. CASE UNCHANGED planned BY <1>1 DEF RunsInv
  <1>2. ASSUME NEW w \in Workers, QueueOccurrence(w) PROVE planned \subseteq planned' /\ planned' \subseteq Schedules \X Occurrences
    <2>1. scheduler[w].schedule \in Schedules /\ scheduler[w].occ \in Occurrences
      BY <1>2, OwnedSchedule DEF QueueOccurrence, AtSchedule
    <2> QED BY <1>1, <1>2, <2>1 DEF QueueOccurrence, RunsInv
  <1> QED
    BY <1>1, <1>2
       DEF ScheduleNext, SchedulerStep, ClaimSchedule, LookUpExecution, CreateExecution, RetakeExecution,
           ExecuteSchedule, RecordExecution, FinalizeSchedule, FailSchedule, HeartbeatSchedule, StopScheduler,
           KillScheduler, CancelSchedule, ScheduleLeaseExpires, ScheduleFallsDue, CreateSchedule, UpdateSchedule,
           scheduleVars

(* An execution is recorded as ENQUEUED only where its message is queued. *)
LEMMA RunsStep == ASSUME RowsInv, RunsInv, LoopInv, [ScheduleNext]_scheduleVars PROVE RunsInv'
  <1>t. executions \in [Schedules -> [Occurrences -> ExecutionRows]] BY DEF RunsInv
  <1>p. planned \subseteq planned' /\ planned' \subseteq Schedules \X Occurrences BY PlannedGrows
  <1>u. CASE UNCHANGED executions BY <1>u, <1>p DEF RunsInv
  <1>1. ASSUME NEW s \in Schedules, NEW o \in Occurrences, NEW q \in ExecutionRows,
               executions' = [executions EXCEPT ![s][o] = q],
               q.status = "ENQUEUED" => <<s, o>> \in planned
        PROVE  RunsInv'
    <2>1. \A x \in Schedules : \A y \in Occurrences :
            executions'[x][y] = IF x = s /\ y = o THEN q ELSE executions[x][y]
      BY <1>t, <1>1
    <2>2. executions' \in [Schedules -> [Occurrences -> ExecutionRows]] BY <1>t, <1>1
    <2> QED BY <1>p, <1>1, <2>1, <2>2 DEF RunsInv
  <1>w. ASSUME NEW w \in Workers, scheduler[w].pc \in AtSchedule
        PROVE  /\ scheduler[w].schedule \in Schedules /\ scheduler[w].occ \in Occurrences
               /\ ExecutionOf(w) \in ExecutionRows
               /\ ExecutionOf(w).status = "ENQUEUED" => <<scheduler[w].schedule, scheduler[w].occ>> \in planned
    BY <1>w, OwnedSchedule DEF RunsInv, ExecutionOf
  <1>2. ASSUME NEW w \in Workers, scheduler[w].pc \in AtSchedule, NEW st \in {"ENQUEUED", "SKIPPED", "FAILED"},
               ExecutionBecomes(w, st), st = "ENQUEUED" => scheduler[w].pc = "recording"
        PROVE  RunsInv'
    <2>1. CASE UNCHANGED executions BY <1>u, <2>1
    <2>2. CASE executions' # executions
      <3> DEFINE s == scheduler[w].schedule  o == scheduler[w].occ  q == [executions[s][o] EXCEPT !.status = st]
      <3>1. executions' = [executions EXCEPT ![s][o] = q] BY <1>2, <2>2 DEF ExecutionBecomes
      <3>2. q \in ExecutionRows /\ q.status = st BY <1>2, <1>w DEF ExecutionOf, ExecutionRows, ExecutionStatuses
      <3>3. st = "ENQUEUED" => <<s, o>> \in planned BY <1>2 DEF LoopInv, Truthful
      <3>4. s \in Schedules /\ o \in Occurrences BY <1>2, <1>w
      <3> HIDE DEF q, s, o
      <3> QED BY <1>1, <3>1, <3>2, <3>3, <3>4
    <2> QED BY <2>1, <2>2
  <1>3. ASSUME NEW w \in Workers, CreateExecution(w) PROVE RunsInv'
    <2> DEFINE s == scheduler[w].schedule  o == scheduler[w].occ
               q == IF ExecutionOf(w).status = "none"
                    THEN [status |-> "CLAIMED", token |-> w, attempt |-> 1] ELSE ExecutionOf(w)
    <2>1. executions' = [executions EXCEPT ![s][o] = q] /\ scheduler[w].pc \in AtSchedule
      BY <1>3 DEF CreateExecution, AtSchedule
    <2>2. q \in ExecutionRows BY <2>1, <1>w, NewExecution
    <2>3. q.status = "ENQUEUED" => <<s, o>> \in planned BY <2>1, <1>w
    <2>4. s \in Schedules /\ o \in Occurrences BY <2>1, <1>w
    <2> HIDE DEF q, s, o
    <2> QED BY <1>1, <2>1, <2>2, <2>3, <2>4
  <1>4. ASSUME NEW w \in Workers, RetakeExecution(w) PROVE RunsInv'
    <2> DEFINE s == scheduler[w].schedule  o == scheduler[w].occ  r == ExecutionOf(w)
               n == IF r.attempt < MaxScheduleAttempts THEN r.attempt + 1 ELSE r.attempt
               q == [r EXCEPT !.token = w, !.attempt = n]
    <2>1. executions' = [executions EXCEPT ![s][o] = q] /\ scheduler[w].pc \in AtSchedule
      BY <1>4 DEF RetakeExecution, AtSchedule
    <2>2. s \in Schedules /\ o \in Occurrences /\ r \in ExecutionRows
          /\ (r.status = "ENQUEUED" => <<s, o>> \in planned)
      BY <2>1, <1>w
    <2>3. n \in 0..MaxScheduleAttempts BY <2>2, ScheduleAssumption DEF ExecutionRows
    <2> HIDE DEF n, r, s, o
    <2>4. q \in ExecutionRows /\ q.status = r.status BY <2>2, <2>3 DEF ExecutionRows
    <2> HIDE DEF q
    <2> QED BY <1>1, <2>1, <2>2, <2>4
  <1>5. ASSUME NEW w \in Workers, ExecuteSchedule(w) PROVE RunsInv'
    BY <1>2, <1>5, <1>u DEF ExecuteSchedule, AtSchedule
  <1>6. ASSUME NEW w \in Workers, RecordExecution(w) PROVE RunsInv'
    BY <1>2, <1>6 DEF RecordExecution, AtSchedule
  <1>7. ASSUME NEW w \in Workers, FailSchedule(w) PROVE RunsInv'
    BY <1>2, <1>7, <1>u DEF FailSchedule, AtSchedule
  <1> QED
    BY <1>u, <1>3, <1>4, <1>5, <1>6, <1>7
       DEF ScheduleNext, SchedulerStep, ClaimSchedule, LookUpExecution, QueueOccurrence, FinalizeSchedule,
           HeartbeatSchedule, StopScheduler, KillScheduler, CancelSchedule, ScheduleLeaseExpires,
           ScheduleFallsDue, CreateSchedule, UpdateSchedule, scheduleVars

(* A worker takes over what the execution says of its occurrence, and says itself
   that it is ENQUEUED only when it has queued it. *)
LEMMA LoopStep == ASSUME RowsInv, RunsInv, LoopInv, [ScheduleNext]_scheduleVars PROVE LoopInv'
  <1>t. scheduler \in [Workers -> SchedulerStates] BY DEF LoopInv
  <1>p. planned \subseteq planned' BY PlannedGrows
  <1>u. CASE UNCHANGED scheduler BY <1>u, <1>p DEF LoopInv, Truthful
  <1>1. ASSUME NEW w \in Workers, NEW m \in SchedulerStates, scheduler' = [scheduler EXCEPT ![w] = m],
               m.pc = "recording" \/ m.status = "ENQUEUED" => <<m.schedule, m.occ>> \in planned'
        PROVE  LoopInv'
    <2>1. \A v \in Workers : scheduler'[v] = IF v = w THEN m ELSE scheduler[v] BY <1>t, <1>1
    <2>2. scheduler' \in [Workers -> SchedulerStates] BY <1>t, <1>1
    <2>3. \A v \in Workers : v # w => Truthful(scheduler[v]) BY DEF LoopInv
    <2> QED BY <1>p, <1>1, <2>1, <2>2, <2>3 DEF LoopInv, Truthful
  <1>2. ASSUME NEW w \in Workers, NEW pc \in {"idle"} \cup Gone, scheduler' = [scheduler EXCEPT ![w] = SchedulerAt(pc)]
        PROVE  LoopInv'
    <2> DEFINE m == SchedulerAt(pc)
    <2>0. 0 \in 0..MaxScheduleAttempts /\ pc \notin AtSchedule /\ pc # "recording"
      BY ScheduleAssumption DEF AtSchedule, Gone
    <2>1. m \in SchedulerStates /\ m.pc = pc /\ m.status = "CLAIMED"
      BY <2>0 DEF SchedulerAt, SchedulerStates, KnownPlans, ExecutionStatuses
    <2>2. scheduler' = [scheduler EXCEPT ![w] = m] BY <1>2
    <2> HIDE DEF m
    <2> QED BY <1>1, <2>0, <2>1, <2>2
  <1>r. \A w \in Workers : SchedulerRests(w) => LoopInv' BY <1>2 DEF SchedulerRests
  (* The worker goes on with its occurrence at pc, knowing that it is st. *)
  <1>3. ASSUME NEW w \in Workers, NEW pc \in AtSchedule, NEW st \in ExecutionStatuses, NEW n \in 0..MaxScheduleAttempts,
               scheduler[w].pc \in AtSchedule,
               scheduler' = [scheduler EXCEPT ![w] = [scheduler[w] EXCEPT !.pc = pc, !.status = st, !.attempt = n]],
               pc = "recording" \/ st = "ENQUEUED" => <<scheduler[w].schedule, scheduler[w].occ>> \in planned'
        PROVE  LoopInv'
    <2> DEFINE m == [scheduler[w] EXCEPT !.pc = pc, !.status = st, !.attempt = n]
    <2>1. /\ m \in SchedulerStates /\ m.pc = pc /\ m.status = st
          /\ m.schedule = scheduler[w].schedule /\ m.occ = scheduler[w].occ
      BY <1>t, <1>3 DEF SchedulerStates
    <2>2. scheduler' = [scheduler EXCEPT ![w] = m] BY <1>3
    <2> HIDE DEF m
    <2> QED BY <1>1, <1>3, <2>1, <2>2
  <1>4. ASSUME NEW w \in Workers, NEW pc \in AtSchedule, scheduler[w].pc \in AtSchedule, SchedulerGoes(w, pc),
               pc = "recording" => <<scheduler[w].schedule, scheduler[w].occ>> \in planned'
        PROVE  LoopInv'
    <2> DEFINE m == [scheduler[w] EXCEPT !.pc = pc]
    <2>1. /\ m \in SchedulerStates /\ m.pc = pc /\ m.status = scheduler[w].status
          /\ m.schedule = scheduler[w].schedule /\ m.occ = scheduler[w].occ
      BY <1>t, <1>4 DEF SchedulerStates
    <2>2. scheduler' = [scheduler EXCEPT ![w] = m] BY <1>4 DEF SchedulerGoes
    <2>3. scheduler[w].status = "ENQUEUED" => <<scheduler[w].schedule, scheduler[w].occ>> \in planned'
      BY <1>p DEF LoopInv, Truthful
    <2> HIDE DEF m
    <2> QED BY <1>1, <1>4, <2>1, <2>2, <2>3
  <1>w. ASSUME NEW w \in Workers, scheduler[w].pc \in AtSchedule
        PROVE  /\ scheduler[w].schedule \in Schedules /\ scheduler[w].occ \in Occurrences
               /\ ExecutionOf(w) \in ExecutionRows
               /\ ExecutionOf(w).status = "ENQUEUED" => <<scheduler[w].schedule, scheduler[w].occ>> \in planned'
    BY <1>w, <1>p, OwnedSchedule DEF RunsInv, ExecutionOf
  <1>5. ASSUME NEW w \in Workers, ClaimSchedule(w) PROVE LoopInv'
    <2>1. PICK s \in Schedules :
            scheduler' = [scheduler EXCEPT ![w] =
              [SchedulerAt("claimed") EXCEPT !.schedule = s, !.plan = schedules[s].plan,
                                             !.occ = <<schedules[s].version, schedules[s].run>>]]
      BY <1>5 DEF ClaimSchedule
    <2> DEFINE plan == schedules[s].plan  o == <<schedules[s].version, schedules[s].run>>  p == SchedulerAt("claimed")
               m == [p EXCEPT !.schedule = s, !.plan = plan, !.occ = o]
    <2>2. scheduler' = [scheduler EXCEPT ![w] = m] BY <2>1
    <2>3. plan \in KnownPlans /\ o \in Occurrences BY DEF RowsInv, ScheduleRows, Occurrences
    <2>4. p = [pc |-> "claimed", schedule |-> "no schedule", plan |-> UnplannedSchedule, occ |-> <<>>,
               status |-> "CLAIMED", attempt |-> 0]
      BY DEF SchedulerAt
    <2>5. 0 \in 0..MaxScheduleAttempts BY ScheduleAssumption
    <2> HIDE DEF plan, o, p
    <2>6. m \in SchedulerStates /\ m.pc = "claimed" /\ m.status = "CLAIMED"
      BY <2>3, <2>4, <2>5 DEF SchedulerStates, AtSchedule, ExecutionStatuses
    <2> HIDE DEF m
    <2> QED BY <1>1, <2>2, <2>6
  <1>6. ASSUME NEW w \in Workers, LookUpExecution(w) PROVE LoopInv'
    <2>1. scheduler[w].pc \in AtSchedule BY <1>6 DEF LookUpExecution, AtSchedule
    <2>2. CASE SchedulerRests(w) BY <1>r, <2>2
    <2>3. CASE SchedulerGoes(w, "creating") \/ SchedulerGoes(w, "retaking") BY <1>4, <2>1, <2>3 DEF AtSchedule
    <2>4. CASE scheduler' = [scheduler EXCEPT ![w].pc = "executing", ![w].status = ExecutionOf(w).status,
                                              ![w].attempt = ExecutionOf(w).attempt]
      <3> DEFINE st == ExecutionOf(w).status  n == ExecutionOf(w).attempt
      <3>1. scheduler' = [scheduler EXCEPT ![w] = [scheduler[w] EXCEPT !.pc = "executing", !.status = st, !.attempt = n]]
        BY <2>4, <1>t
      <3>2. st \in ExecutionStatuses /\ n \in 0..MaxScheduleAttempts
        BY <1>w, <2>1 DEF ExecutionRows
      <3>3. st = "ENQUEUED" => <<scheduler[w].schedule, scheduler[w].occ>> \in planned' BY <1>w, <2>1
      <3>4. "executing" \in AtSchedule BY DEF AtSchedule
      <3> HIDE DEF st, n
      <3> QED BY <1>3, <2>1, <3>1, <3>2, <3>3, <3>4
    <2> QED BY <1>6, <2>2, <2>3, <2>4 DEF LookUpExecution
  <1>7. ASSUME NEW w \in Workers, CreateExecution(w) PROVE LoopInv'
    <2> DEFINE q == IF ExecutionOf(w).status = "none"
                    THEN [status |-> "CLAIMED", token |-> w, attempt |-> 1] ELSE ExecutionOf(w)
               st == q.status  n == q.attempt
    <2>1. scheduler[w].pc \in AtSchedule BY <1>7 DEF CreateExecution, AtSchedule
    <2>2. scheduler' = [scheduler EXCEPT ![w] = [scheduler[w] EXCEPT !.pc = "executing", !.status = st, !.attempt = n]]
      BY <1>7, <1>t DEF CreateExecution
    <2>3. st \in ExecutionStatuses /\ n \in 0..MaxScheduleAttempts
      <3>1. q \in ExecutionRows BY <2>1, <1>w, NewExecution
      <3> HIDE DEF q
      <3> QED BY <3>1 DEF ExecutionRows
    <2>4. st = "ENQUEUED" => <<scheduler[w].schedule, scheduler[w].occ>> \in planned' BY <1>w, <2>1
    <2>5. "executing" \in AtSchedule BY DEF AtSchedule
    <2> HIDE DEF st, n
    <2> QED BY <1>3, <2>1, <2>2, <2>3, <2>4, <2>5
  <1>8. ASSUME NEW w \in Workers, RetakeExecution(w) PROVE LoopInv'
    <2> DEFINE r == ExecutionOf(w)
               k == IF r.attempt < MaxScheduleAttempts THEN r.attempt + 1 ELSE r.attempt
               q == [r EXCEPT !.token = w, !.attempt = k]
               st == q.status  n == q.attempt
    <2>1. scheduler[w].pc \in AtSchedule BY <1>8 DEF RetakeExecution, AtSchedule
    <2>2. scheduler' = [scheduler EXCEPT ![w] = [scheduler[w] EXCEPT !.pc = "executing", !.status = st, !.attempt = n]]
      <3>1. scheduler' = [scheduler EXCEPT ![w].pc = "executing", ![w].status = st, ![w].attempt = n]
        BY <1>8 DEF RetakeExecution
      <3> HIDE DEF st, n
      <3> QED BY <1>t, <3>1
    <2>3. r \in ExecutionRows /\ (r.status = "ENQUEUED" => <<scheduler[w].schedule, scheduler[w].occ>> \in planned')
      BY <1>w, <2>1
    <2>4. k \in 0..MaxScheduleAttempts BY <2>3, ScheduleAssumption DEF ExecutionRows
    <2> HIDE DEF k, r
    <2>5. st = r.status /\ st \in ExecutionStatuses /\ n \in 0..MaxScheduleAttempts
      BY <2>3, <2>4 DEF ExecutionRows
    <2>6. "executing" \in AtSchedule BY DEF AtSchedule
    <2> HIDE DEF st, n
    <2> QED BY <1>3, <2>1, <2>2, <2>3, <2>5, <2>6
  (* The worker has settled what becomes of its occurrence and finalizes. *)
  <1>9. ASSUME NEW w \in Workers, NEW st \in {"ENQUEUED", "SKIPPED"}, scheduler[w].pc \in AtSchedule,
               scheduler' = [scheduler EXCEPT ![w].pc = "finalizing", ![w].status = st],
               st = "ENQUEUED" => scheduler[w].pc = "recording"
        PROVE  LoopInv'
    <2> DEFINE m == [scheduler[w] EXCEPT !.pc = "finalizing", !.status = st]
    <2>1. /\ m \in SchedulerStates /\ m.pc = "finalizing" /\ m.status = st
          /\ m.schedule = scheduler[w].schedule /\ m.occ = scheduler[w].occ
      BY <1>t, <1>9 DEF SchedulerStates, AtSchedule, ExecutionStatuses
    <2>2. scheduler' = [scheduler EXCEPT ![w] = m] BY <1>9, <1>t
    <2>3. st = "ENQUEUED" => <<scheduler[w].schedule, scheduler[w].occ>> \in planned'
      BY <1>9, <1>p DEF LoopInv, Truthful
    <2> HIDE DEF m
    <2> QED BY <1>1, <2>1, <2>2, <2>3
  <1>10. ASSUME NEW w \in Workers, ExecuteSchedule(w) PROVE LoopInv'
    <2>1. scheduler[w].pc = "executing" BY <1>10 DEF ExecuteSchedule
    <2>2. CASE SchedulerRests(w) BY <1>r, <2>2
    <2>3. ASSUME NEW pc \in {"finalizing", "queueing", "failing", "denied"}, SchedulerGoes(w, pc) PROVE LoopInv'
      BY <1>4, <2>1, <2>3 DEF AtSchedule
    <2>4. CASE scheduler' = [scheduler EXCEPT ![w].pc = "finalizing", ![w].status = "SKIPPED"]
      BY <1>9, <2>1, <2>4 DEF AtSchedule
    <2> QED BY <1>10, <2>2, <2>3, <2>4 DEF ExecuteSchedule
  <1>11. ASSUME NEW w \in Workers, QueueOccurrence(w) PROVE LoopInv'
    <2>1. scheduler[w].pc \in AtSchedule BY <1>11 DEF QueueOccurrence, AtSchedule
    <2>2. CASE SchedulerGoes(w, "failing") BY <1>4, <2>1, <2>2 DEF AtSchedule
    <2>3. CASE SchedulerGoes(w, "recording") /\ planned' = planned \cup {<<scheduler[w].schedule, scheduler[w].occ>>}
      BY <1>4, <2>1, <2>3 DEF AtSchedule
    <2> QED BY <1>11, <2>2, <2>3 DEF QueueOccurrence
  <1>12. ASSUME NEW w \in Workers, RecordExecution(w) PROVE LoopInv'
    BY <1>9, <1>12 DEF RecordExecution, AtSchedule
  <1>13. ASSUME NEW w \in Workers, FinalizeSchedule(w) PROVE LoopInv'
    <2>1. scheduler[w].pc \in AtSchedule BY <1>13 DEF FinalizeSchedule, AtSchedule
    <2>2. CASE SchedulerGoes(w, "failing") BY <1>4, <2>1, <2>2 DEF AtSchedule
    <2> QED BY <1>13, <1>r, <2>2 DEF FinalizeSchedule
  <1>14. ASSUME NEW w \in Workers, FailSchedule(w) PROVE LoopInv' BY <1>14, <1>r DEF FailSchedule
  <1>15. ASSUME NEW w \in Workers, StopScheduler(w) \/ KillScheduler(w) PROVE LoopInv'
    BY <1>15, <1>2 DEF StopScheduler, KillScheduler, Gone
  <1> QED
    BY <1>u, <1>5, <1>6, <1>7, <1>8, <1>10, <1>11, <1>12, <1>13, <1>14, <1>15
       DEF ScheduleNext, SchedulerStep, HeartbeatSchedule, CancelSchedule, ScheduleLeaseExpires,
           ScheduleFallsDue, CreateSchedule, UpdateSchedule, scheduleVars

(* An occurrence is closed as what its worker says of it. *)
LEMMA ClosedStep == ASSUME ScheduleInv, [ScheduleNext]_scheduleVars PROVE ClosedInv'
  <1>p. planned \subseteq planned' BY PlannedGrows DEF ScheduleInv
  <1>1. CASE UNCHANGED closed BY <1>1, <1>p DEF ScheduleInv, ClosedInv
  <1>2. ASSUME NEW w \in Workers, FinalizeSchedule(w) PROVE ClosedInv'
    <2>1. scheduler[w].status = "ENQUEUED" => <<scheduler[w].schedule, scheduler[w].occ>> \in planned
      BY DEF ScheduleInv, LoopInv, Truthful
    <2>2. closed' \subseteq closed \cup {<<scheduler[w].schedule, scheduler[w].occ, scheduler[w].status>>}
      BY <1>2 DEF FinalizeSchedule
    <2> QED BY <1>p, <2>1, <2>2 DEF ScheduleInv, ClosedInv
  <1> QED
    BY <1>1, <1>2
       DEF ScheduleNext, SchedulerStep, ClaimSchedule, LookUpExecution, CreateExecution, RetakeExecution,
           ExecuteSchedule, QueueOccurrence, RecordExecution, FailSchedule, HeartbeatSchedule, StopScheduler,
           KillScheduler, CancelSchedule, ScheduleLeaseExpires, ScheduleFallsDue, CreateSchedule, UpdateSchedule,
           scheduleVars

(* At the start there is nothing to be true to. *)
LEMMA ScheduleStarts == ScheduleInit => ScheduleInv
  <1> SUFFICES ASSUME ScheduleInit PROVE ScheduleInv OBVIOUS
  <1>0. 0 \in 0..MaxScheduleAttempts /\ 1 \in 1..MaxVersion /\ 1 \in 1..MaxRun BY ScheduleAssumption
  <1>1. NoSchedule \in ScheduleRows
    BY <1>0 DEF NoSchedule, ScheduleRows, ScheduleStatuses, KnownPlans, Leases
  <1>2. NoExecution \in ExecutionRows /\ NoExecution.status = "none"
    BY <1>0 DEF NoExecution, ExecutionRows, ExecutionStatuses
  <1>3. SchedulerAt("idle") \in SchedulerStates /\ SchedulerAt("idle").pc = "idle" /\ SchedulerAt("idle").status = "CLAIMED"
    BY <1>0 DEF SchedulerAt, SchedulerStates, AtSchedule, KnownPlans, ExecutionStatuses
  <1>4. RowsInv BY <1>1 DEF RowsInv, ScheduleInit
  <1>5. RunsInv BY <1>2 DEF RunsInv, ScheduleInit
  <1>6. LoopInv BY <1>3 DEF LoopInv, Truthful, ScheduleInit
  <1>7. ClosedInv BY DEF ClosedInv, ScheduleInit
  <1> QED BY <1>4, <1>5, <1>6, <1>7 DEF ScheduleInv

(* Nothing is recorded or closed as ENQUEUED whose message was not queued. *)
THEOREM ClosedOccurrencesAreQueued == ScheduleSpec => []ClosedRunsAreQueued
  <1>1. ScheduleInit => ScheduleInv BY ScheduleStarts
  <1>2. ScheduleInv /\ [ScheduleNext]_scheduleVars => ScheduleInv'
    BY RowsStep, RunsStep, LoopStep, ClosedStep DEF ScheduleInv
  <1>3. ScheduleInv => ClosedRunsAreQueued
    BY DEF ScheduleInv, RunsInv, ClosedInv, ClosedRunsAreQueued
  <1> QED BY <1>1, <1>2, <1>3, PTL DEF ScheduleSpec

(* The rows are of their table's type. *)
LEMMA SchedulesTyped == ScheduleInv => ScheduleTypeOK
  <1> SUFFICES ASSUME ScheduleInv PROVE ScheduleTypeOK OBVIOUS
  <1>1. /\ schedules \in [Schedules -> ScheduleRows] /\ planned \subseteq Schedules \X Occurrences
        /\ executions \in [Schedules -> [Occurrences -> ExecutionRows]]
    BY DEF ScheduleInv, RowsInv, RunsInv
  <1> QED BY <1>1 DEF ScheduleTypeOK, ScheduleRows, ScheduleStatuses, ExecutionRows, ExecutionStatuses

(* In every reachable state. *)
THEOREM ScheduleTypeCorrect == ScheduleSpec => []ScheduleTypeOK
  <1>1. ScheduleInit => ScheduleInv BY ScheduleStarts
  <1>2. ScheduleInv /\ [ScheduleNext]_scheduleVars => ScheduleInv'
    BY RowsStep, RunsStep, LoopStep, ClosedStep DEF ScheduleInv
  <1> QED BY <1>1, <1>2, SchedulesTyped, PTL DEF ScheduleSpec
-----------------------------------------------------------------------------
TriggerStatuses == {"none", "PENDING", "PROCESSING"} \cup FinishedTrigger
TriggerRows ==
  {r \in [status : TriggerStatuses, attempts : 0..MaxTriggerAttempts, due : BOOLEAN,
          lock : Workers \cup {Nobody}, lease : Leases, version : 0..RuleEdits] :
     (r.lock # Nobody) <=> (r.status = "PROCESSING")}

(* Where a worker has a trigger in its hand. *)
AtTrigger ==
  {"selecting", "snapshotting", "checking", "enqueueing", "recording", "failing", "refused", "unpaid"}
ReplierStates ==
  {m \in [pc : {"idle", "claiming"} \cup AtTrigger \cup Gone, trigger : Triggers \cup {"no trigger"},
          n : 0..MaxTriggerAttempts, version : 0..RuleEdits] :
     m.pc \in AtTrigger => m.trigger \in Triggers}

ReplyTypes ==
  /\ triggers \in [Triggers -> TriggerRows]
  /\ rule \in [version : 1..RuleEdits, enabled : BOOLEAN]
  /\ cooldown \in [count : 0..ReplyLimit, cooling : BOOLEAN, within : BOOLEAN, pauses : 0..Pauses]
  /\ replies \in [Triggers -> 0..RuleEdits]
  /\ replier \in [Workers -> ReplierStates]
  /\ counted \subseteq Triggers

(* What a worker knows of its trigger: while it selects, nobody has snapshotted; from
   then on the snapshot is the version it goes on with. *)
Informed(w) ==
  LET m == replier[w] IN
  /\ m.pc \in {"selecting", "snapshotting"} /\ OwnsTrigger(w) => TriggerOf(w).version = 0
  /\ m.pc = "snapshotting" => m.version # 0
  /\ m.pc \in {"checking", "enqueueing", "recording"} => m.version # 0 /\ TriggerOf(w).version = m.version
  /\ m.pc = "recording" => replies[m.trigger] # 0

(* Who was let through has a snapshot, so nobody is counted twice. *)
CountInv ==
  /\ \A t \in counted : triggers[t].version # 0
  /\ IF cooldown.within THEN Cardinality(counted) = cooldown.count ELSE counted = {}

ReplyInv == ReplyTypes /\ (\A w \in Workers : Informed(w)) /\ ReplyMatchesSnapshot /\ CountInv

Holds(r, w) == r.status = "PROCESSING" /\ r.lock = w

(* The rows that the statements write for a row r. *)
TriggerTaken(r, w) == [Claimed(r, w) EXCEPT !.status = "PROCESSING", !.attempts = @ + 1]
TriggerDeferred(r, b) == [Finished(r, "PENDING") EXCEPT !.due = b]

(* A row that is ended or set back keeps its version. *)
LEMMA FinishedRow ==
  ASSUME NEW r \in TriggerRows, NEW st \in TriggerStatuses \ {"PROCESSING"}, NEW q, q = Finished(r, st)
  PROVE  q \in TriggerRows /\ q.status = st /\ q.version = r.version
  BY DEF TriggerRows, Finished, Released, Leases

(* So does one that is to be taken again. *)
LEMMA DeferredRow ==
  ASSUME NEW r \in TriggerRows, NEW b \in BOOLEAN, NEW q, q = TriggerDeferred(r, b)
  PROVE  q \in TriggerRows /\ q.status = "PENDING" /\ q.version = r.version
  BY DEF TriggerRows, TriggerDeferred, Finished, Released, Leases, TriggerStatuses

(* So does a claimed one. *)
LEMMA ClaimedRow ==
  ASSUME NEW r \in TriggerRows, NEW w \in Workers, r.attempts < MaxTriggerAttempts, NEW q, q = TriggerTaken(r, w)
  PROVE  q \in TriggerRows /\ q.status = "PROCESSING" /\ q.lock = w /\ q.version = r.version
  <1> DEFINE n == r.attempts + 1
  <1>1. n \in 0..MaxTriggerAttempts BY TriggerAssumption DEF TriggerRows
  <1>2. r.attempts = Claimed(r, w).attempts BY DEF Claimed, TriggerRows
  <1>3. q = [Claimed(r, w) EXCEPT !.status = "PROCESSING", !.attempts = n] BY <1>2 DEF TriggerTaken
  <1> HIDE DEF n
  <1> QED BY <1>1, <1>3, NobodyAssumption DEF TriggerRows, Claimed, Leases, TriggerStatuses

(* A lease that is renewed, or runs out. *)
LEMMA LeasedRow ==
  ASSUME NEW r \in TriggerRows, NEW l \in Leases, NEW q, q = [r EXCEPT !.lease = l]
  PROVE  q \in TriggerRows /\ q.status = r.status /\ q.lock = r.lock /\ q.version = r.version
  BY DEF TriggerRows, Leases

(* A statement takes a row from r to q: the version stays, and nobody comes to hold the
   row, or finishes it as ENQUEUED, unawares. *)
KeepsTrigger(r, q) ==
  /\ q \in TriggerRows /\ q.version = r.version
  /\ q.status = "PROCESSING" => r.status = "PROCESSING" /\ q.lock = r.lock
  /\ q.status = "ENQUEUED" => r.status = "ENQUEUED"

(* The step of a worker, or of time, on the rows. *)
TriggersKept == \A t \in Triggers : KeepsTrigger(triggers[t], triggers'[t])

(* Writing one row. *)
LEMMA OneRowKept ==
  ASSUME ReplyTypes, NEW t, NEW q, triggers' = [triggers EXCEPT ![t] = q],
         t \in Triggers => KeepsTrigger(triggers[t], q)
  PROVE  TriggersKept /\ triggers' \in [Triggers -> TriggerRows]
  <1>1. \A x \in Triggers : triggers[x] \in TriggerRows BY DEF ReplyTypes
  <1>2. \A x \in Triggers : triggers'[x] = IF x = t THEN q ELSE triggers[x] BY DEF ReplyTypes
  <1>3. triggers' = [x \in Triggers |-> triggers'[x]] BY DEF ReplyTypes
  <1>4. TriggersKept BY <1>1, <1>2 DEF TriggersKept, KeepsTrigger
  <1> QED BY <1>3, <1>4 DEF TriggersKept, KeepsTrigger

(* What a worker writes under its claim, if it still has it. *)
LEMMA WrittenRow ==
  ASSUME ReplyTypes, NEW w \in Workers, NEW q, Write(w, q),
         OwnsTrigger(w) /\ replier[w].trigger \in Triggers => KeepsTrigger(TriggerOf(w), q)
  PROVE  TriggersKept /\ triggers' \in [Triggers -> TriggerRows]
  <1>1. CASE ~OwnsTrigger(w)
    <2>1. triggers' = triggers BY <1>1 DEF Write
    <2> QED BY <2>1 DEF ReplyTypes, TriggersKept, KeepsTrigger
  <1>2. CASE OwnsTrigger(w) BY <1>2, OneRowKept DEF Write, TriggerOf
  <1> QED BY <1>1, <1>2

(* What happens to the rows between the steps of v does not touch what v knows. *)
LEMMA StaysInformed ==
  ASSUME ReplyInv, NEW v \in Workers, replier'[v] = replier[v],
         \A t \in Triggers : /\ Holds(triggers'[t], v) => Holds(triggers[t], v)
                             /\ triggers[t].version # 0 \/ Holds(triggers'[t], v) =>
                                  triggers'[t].version = triggers[t].version
                             /\ replies[t] # 0 => replies'[t] # 0
  PROVE  Informed(v)'
  <1>1. Informed(v) /\ replier[v] \in ReplierStates BY DEF ReplyInv, ReplyTypes
  <1>2. replier[v].pc \in AtTrigger => replier[v].trigger \in Triggers BY <1>1 DEF ReplierStates
  <1> DEFINE t == replier[v].trigger
  <1>3. ASSUME replier[v].pc \in AtTrigger
        PROVE  /\ Holds(triggers'[t], v) => Holds(triggers[t], v)
               /\ triggers[t].version # 0 \/ Holds(triggers'[t], v) => triggers'[t].version = triggers[t].version
               /\ replies[t] # 0 => replies'[t] # 0
    BY <1>2, <1>3
  <1> QED BY <1>1, <1>3 DEF Informed, OwnsTrigger, TriggerOf, Holds, AtTrigger

(* A worker w goes to a state m that fits what stands in the rows. *)
Fits(w, m) ==
  /\ m \in ReplierStates /\ m.pc # "selecting"
  /\ m.pc = "snapshotting" => m.version # 0 /\ replier[w].pc = "selecting" /\ m.trigger = replier[w].trigger
  /\ m.pc \in {"checking", "enqueueing", "recording"} => m.version # 0 /\ triggers[m.trigger].version = m.version
  /\ m.pc = "recording" => replies'[m.trigger] # 0

(* A worker that goes on to m, and fits there, leaves every worker informed. *)
LEMMA GoesOnInformed ==
  ASSUME ReplyInv, TriggersKept, NEW w \in Workers, NEW m, Fits(w, m), replier' = [replier EXCEPT ![w] = m],
         \A t \in Triggers : replies[t] # 0 => replies'[t] # 0
  PROVE  replier' \in [Workers -> ReplierStates] /\ \A v \in Workers : Informed(v)'
  <1>t. replier \in [Workers -> ReplierStates] BY DEF ReplyInv, ReplyTypes
  <1>1. \A v \in Workers : replier'[v] = IF v = w THEN m ELSE replier[v] BY <1>t
  <1>2. replier' \in [Workers -> ReplierStates] BY <1>t DEF Fits
  <1>3. ASSUME NEW v \in Workers, v # w PROVE Informed(v)'
    <2>1. replier'[v] = replier[v] BY <1>1, <1>3
    <2> QED BY <2>1, StaysInformed DEF TriggersKept, KeepsTrigger, Holds
  <1>4. Informed(w)'
    <2>1. replier'[w] = m BY <1>1
    <2>2. m.pc \in AtTrigger => m.trigger \in Triggers BY DEF Fits, ReplierStates
    <2>3. m.pc \in AtTrigger => KeepsTrigger(triggers[m.trigger], triggers'[m.trigger]) BY <2>2 DEF TriggersKept
    <2>4. Informed(w) BY DEF ReplyInv
    <2> QED BY <2>1, <2>3, <2>4 DEF Informed, Fits, OwnsTrigger, TriggerOf, KeepsTrigger, AtTrigger
  <1> QED BY <1>2, <1>3, <1>4

(* While no version changes and nobody is ENQUEUED, the replies go on to match. *)
LEMMA StillMatches ==
  ASSUME ReplyInv, TriggersKept, UNCHANGED replies
  PROVE  ReplyMatchesSnapshot'
  BY DEF ReplyInv, ReplyMatchesSnapshot, TriggersKept, KeepsTrigger

(* A step that keeps the counted rows keeps the count. *)
LEMMA StillCounted ==
  ASSUME ReplyInv, TriggersKept, UNCHANGED <<cooldown, counted>>
  PROVE  CountInv'
  BY DEF ReplyInv, ReplyTypes, CountInv, TriggersKept, KeepsTrigger

(* A step that keeps the rows, and brings at most a worker further. *)
LEMMA QuietStep ==
  ASSUME ReplyInv, TriggersKept, triggers' \in [Triggers -> TriggerRows],
         UNCHANGED <<rule, cooldown, replies, counted>>,
         \/ replier' = replier
         \/ \E w \in Workers : \E m : Fits(w, m) /\ replier' = [replier EXCEPT ![w] = m]
  PROVE  ReplyInv'
  <1>1. replier' \in [Workers -> ReplierStates] /\ \A v \in Workers : Informed(v)'
    <2>1. CASE replier' = replier
      <3>1. \A v \in Workers : Informed(v)'
        BY <2>1, StaysInformed DEF TriggersKept, KeepsTrigger, Holds
      <3> QED BY <2>1, <3>1 DEF ReplyInv, ReplyTypes
    <2>2. CASE \E w \in Workers : \E m : Fits(w, m) /\ replier' = [replier EXCEPT ![w] = m]
      BY <2>2, GoesOnInformed
    <2> QED BY <2>1, <2>2
  <1> QED BY <1>1, StillMatches, StillCounted DEF ReplyInv, ReplyTypes

(* The states a worker goes to without further ado: the loop, and its failures. *)
LEMMA LoopStateFits ==
  ASSUME NEW w \in Workers, NEW pc \in {"idle", "claiming"} \cup Gone PROVE Fits(w, ReplierAt(pc))
  <1>1. 0 \in 0..MaxTriggerAttempts /\ 0 \in 0..RuleEdits /\ pc \notin AtTrigger
    BY TriggerAssumption DEF AtTrigger, Gone
  <1> DEFINE m == ReplierAt(pc)
  <1>2. m \in ReplierStates /\ m.pc = pc BY <1>1 DEF ReplierAt, ReplierStates
  <1> HIDE DEF m
  <1>3. Fits(w, m) BY <1>1, <1>2 DEF Fits, AtTrigger
  <1> QED BY <1>3 DEF m

(* A worker that goes to its error path still fits the trigger in its hand. *)
LEMMA FailureFits ==
  ASSUME ReplyInv, NEW w \in Workers, replier[w].pc \in AtTrigger, NEW pc \in {"failing", "refused", "unpaid"},
         NEW m, m = [replier[w] EXCEPT !.pc = pc]
  PROVE  Fits(w, m)
  <1>1. m \in ReplierStates /\ m.pc = pc
    BY DEF ReplyInv, ReplyTypes, ReplierStates, AtTrigger
  <1> QED BY <1>1 DEF Fits

(* Workers and time, one case per action. *)
LEMMA ReplyStep == ASSUME ReplyInv, [ReplyNext]_replyVars PROVE ReplyInv'
  <1>t. triggers \in [Triggers -> TriggerRows] /\ replier \in [Workers -> ReplierStates] BY DEF ReplyInv, ReplyTypes
  <1>u. UNCHANGED triggers => TriggersKept /\ triggers' \in [Triggers -> TriggerRows]
    BY <1>t DEF TriggersKept, KeepsTrigger
  <1>m. \A w \in Workers : replier[w].pc \in AtTrigger => replier[w].trigger \in Triggers /\ TriggerOf(w) \in TriggerRows
    BY <1>t DEF ReplierStates, TriggerOf
  <1>r. ASSUME NEW w \in Workers, NEW pc \in {"idle", "claiming"} \cup Gone,
               replier' = [replier EXCEPT ![w] = ReplierAt(pc)], TriggersKept, triggers' \in [Triggers -> TriggerRows],
               UNCHANGED <<rule, cooldown, replies, counted>>
        PROVE  ReplyInv'
    BY <1>r, LoopStateFits, QuietStep
  <1>f. ASSUME NEW w \in Workers, NEW pc \in {"failing", "refused", "unpaid"}, replier[w].pc \in AtTrigger,
               replier' = [replier EXCEPT ![w].pc = pc], UNCHANGED <<triggers, rule, cooldown, replies, counted>>
        PROVE  ReplyInv'
    <2> DEFINE m == [replier[w] EXCEPT !.pc = pc]
    <2>1. replier' = [replier EXCEPT ![w] = m] BY <1>f
    <2>2. Fits(w, m) BY <1>f, FailureFits
    <2> HIDE DEF m
    <2> QED BY <1>f, <1>u, <2>1, <2>2, QuietStep
  <1>1. ASSUME NEW t \in Triggers, IngestMessage(t) PROVE ReplyInv'
    <2> DEFINE q == [triggers[t] EXCEPT !.status = "PENDING"]
    <2>1. triggers' = [triggers EXCEPT ![t] = q] BY <1>1 DEF IngestMessage
    <2>2. KeepsTrigger(triggers[t], q)
      BY <1>1, <1>t DEF IngestMessage, KeepsTrigger, TriggerRows, TriggerStatuses
    <2> HIDE DEF q
    <2>3. TriggersKept /\ triggers' \in [Triggers -> TriggerRows] BY <2>1, <2>2, OneRowKept DEF ReplyInv
    <2> QED BY <1>1, <2>3, QuietStep DEF IngestMessage
  <1>2. ASSUME NEW b \in BOOLEAN, EditRule(b) PROVE ReplyInv'
    <2>1. rule' \in [version : 1..RuleEdits, enabled : BOOLEAN]
      BY <1>2, TriggerAssumption DEF EditRule, ReplyInv, ReplyTypes
    <2>2. TriggersKept /\ triggers' \in [Triggers -> TriggerRows] BY <1>2, <1>u DEF EditRule
    <2>3. \A v \in Workers : Informed(v)'
      BY <1>2, <2>2, StaysInformed DEF EditRule, TriggersKept, KeepsTrigger, Holds
    <2> QED BY <1>2, <2>1, <2>2, <2>3, StillMatches, StillCounted DEF EditRule, ReplyInv, ReplyTypes
  <1>3. ASSUME NEW within \in BOOLEAN, TimePasses(within) PROVE ReplyInv'
    <2> DEFINE n == cooldown.pauses + 1
    <2>0. cooldown \in [count : 0..ReplyLimit, cooling : BOOLEAN, within : BOOLEAN, pauses : 0..Pauses]
      BY DEF ReplyInv, ReplyTypes
    <2>1. cooldown' = [cooldown EXCEPT !.cooling = FALSE, !.within = within, !.pauses = n] BY <1>3 DEF TimePasses
    <2>2. n \in 0..Pauses BY <1>3, <2>0, TriggerAssumption DEF TimePasses
    <2> HIDE DEF n
    <2>3. /\ cooldown' \in [count : 0..ReplyLimit, cooling : BOOLEAN, within : BOOLEAN, pauses : 0..Pauses]
          /\ cooldown'.within = within /\ cooldown'.count = cooldown.count
      BY <2>0, <2>1, <2>2
    <2>4. TriggersKept /\ triggers' \in [Triggers -> TriggerRows] BY <1>3, <1>u DEF TimePasses
    <2>5. \A v \in Workers : Informed(v)'
      BY <1>3, <2>4, StaysInformed DEF TimePasses, TriggersKept, KeepsTrigger, Holds
    <2>6. CountInv'
      <3>1. counted' = IF within THEN counted ELSE {} BY <1>3 DEF TimePasses
      <3>2. within => cooldown.within BY <1>3 DEF TimePasses
      <3> QED BY <1>3, <2>3, <3>1, <3>2 DEF ReplyInv, CountInv, TimePasses
    <2>7. counted' \subseteq Triggers BY <1>3 DEF TimePasses, ReplyInv, ReplyTypes
    <2> QED BY <1>3, <2>3, <2>4, <2>5, <2>6, <2>7, StillMatches DEF TimePasses, ReplyInv, ReplyTypes
  <1>4. ASSUME NEW w \in Workers, BuryTriggers(w) PROVE ReplyInv'
    <2>1. \A t \in Triggers : KeepsTrigger(triggers[t], Finished(triggers[t], "FAILED"))
      BY <1>t, FinishedRow DEF KeepsTrigger, TriggerStatuses, FinishedTrigger
    <2>2. \A t \in Triggers : triggers'[t] \in {triggers[t], Finished(triggers[t], "FAILED")}
      BY <1>4 DEF BuryTriggers
    <2>3. TriggersKept
      BY <1>t, <2>1, <2>2 DEF TriggersKept, KeepsTrigger
    <2>4. triggers' = [t \in Triggers |-> triggers'[t]] BY <1>4 DEF BuryTriggers
    <2>5. triggers' \in [Triggers -> TriggerRows] BY <2>3, <2>4 DEF TriggersKept, KeepsTrigger
    <2> QED BY <1>4, <1>r, <2>3, <2>5 DEF BuryTriggers
  <1>5. ASSUME NEW w \in Workers, ClaimTrigger(w) PROVE ReplyInv'
    <2>1. CASE replier' = [replier EXCEPT ![w] = ReplierAt("idle")] /\ UNCHANGED triggers
      BY <1>5, <1>r, <1>u, <2>1 DEF ClaimTrigger
    <2>2. ASSUME NEW t \in Triggers, ClaimableTrigger(t), triggers' = [triggers EXCEPT ![t] = TriggerTaken(triggers[t], w)],
                 replier' = [replier EXCEPT ![w] =
                   [pc |-> Resume(t), trigger |-> t, n |-> triggers[t].attempts + 1, version |-> triggers[t].version]]
          PROVE  ReplyInv'
      <3> DEFINE q == TriggerTaken(triggers[t], w)
                 m == [pc |-> Resume(t), trigger |-> t, n |-> triggers[t].attempts + 1, version |-> triggers[t].version]
      <3>1. triggers[t] \in TriggerRows /\ triggers[t].attempts < MaxTriggerAttempts
        BY <1>t, <2>2 DEF ClaimableTrigger
      <3>2. triggers' = [triggers EXCEPT ![t] = q] /\ replier' = [replier EXCEPT ![w] = m] BY <2>2
      <3>3. q \in TriggerRows /\ q.status = "PROCESSING" /\ q.lock = w /\ q.version = triggers[t].version
        BY <3>1, ClaimedRow
      <3>4. /\ m \in ReplierStates /\ m.trigger = t /\ m.version = triggers[t].version
            /\ IF m.version = 0 THEN m.pc = "selecting" ELSE m.pc = "checking"
        <4>1. triggers[t].attempts + 1 \in 0..MaxTriggerAttempts /\ triggers[t].version \in 0..RuleEdits
          BY <3>1, TriggerAssumption DEF TriggerRows
        <4> QED BY <4>1 DEF ReplierStates, Resume, AtTrigger
      <3> HIDE DEF q, m
      <3>5. \A x \in Triggers : triggers'[x] = IF x = t THEN q ELSE triggers[x] BY <1>t, <3>2
      <3>6. \A v \in Workers : replier'[v] = IF v = w THEN m ELSE replier[v] BY <1>t, <3>2
      <3>7. triggers' \in [Triggers -> TriggerRows] /\ replier' \in [Workers -> ReplierStates]
        BY <1>t, <3>2, <3>3, <3>4
      <3>8. UNCHANGED <<rule, cooldown, replies, counted>> BY <1>5 DEF ClaimTrigger
      <3>9. ASSUME NEW v \in Workers PROVE Informed(v)'
        <4>1. CASE v # w
          <5>1. \A x \in Triggers : /\ Holds(triggers'[x], v) => Holds(triggers[x], v)
                                    /\ triggers'[x].version = triggers[x].version
            BY <3>3, <3>5, <4>1 DEF Holds
          <5> QED BY <3>6, <3>8, <4>1, <5>1, StaysInformed
        <4>2. CASE v = w
          <5>1. replier'[v] = m /\ triggers'[m.trigger] = q BY <3>4, <3>5, <3>6, <4>2
          <5> QED BY <3>3, <3>4, <5>1 DEF Informed, TriggerOf
        <4> QED BY <4>1, <4>2
      <3>10. \A x \in Triggers : /\ triggers'[x].version = triggers[x].version
                                 /\ triggers'[x].status = "ENQUEUED" => triggers[x].status = "ENQUEUED"
        BY <3>3, <3>5
      <3>11. ReplyMatchesSnapshot' BY <3>8, <3>10 DEF ReplyInv, ReplyMatchesSnapshot
      <3>12. CountInv' BY <3>8, <3>10 DEF ReplyInv, ReplyTypes, CountInv
      <3> QED BY <3>7, <3>8, <3>9, <3>11, <3>12 DEF ReplyInv, ReplyTypes
    <2> QED BY <1>5, <2>1, <2>2 DEF ClaimTrigger, TriggerTaken
  <1>6. ASSUME NEW w \in Workers, SelectRule(w) PROVE ReplyInv'
    <2>0. replier[w].pc \in AtTrigger /\ replier[w].pc = "selecting" BY <1>6 DEF SelectRule, AtTrigger
    <2>1. CASE Write(w, Finished(TriggerOf(w), "SKIPPED")) /\ replier' = [replier EXCEPT ![w] = ReplierAt("idle")]
      <3> DEFINE q == Finished(TriggerOf(w), "SKIPPED")
      <3>1. KeepsTrigger(TriggerOf(w), q)
        BY <1>m, <2>0, FinishedRow DEF KeepsTrigger, TriggerStatuses, FinishedTrigger
      <3>2. Write(w, q) BY <2>1
      <3> HIDE DEF q
      <3>3. TriggersKept /\ triggers' \in [Triggers -> TriggerRows] BY <3>1, <3>2, WrittenRow DEF ReplyInv
      <3> QED BY <1>6, <1>r, <2>1, <3>3 DEF SelectRule
    <2>2. CASE replier' = [replier EXCEPT ![w].pc = "snapshotting", ![w].version = rule.version] /\ UNCHANGED triggers
      <3> DEFINE m == [replier[w] EXCEPT !.pc = "snapshotting", !.version = rule.version]
      <3>1. replier' = [replier EXCEPT ![w] = m] BY <2>2, <1>t
      <3>2. replier[w] \in ReplierStates /\ rule.version \in 0..RuleEdits /\ rule.version # 0
        BY <1>t DEF ReplyInv, ReplyTypes
      <3>3. m \in ReplierStates /\ m.pc = "snapshotting" /\ m.version # 0 /\ m.trigger = replier[w].trigger
        BY <2>0, <3>2 DEF ReplierStates, AtTrigger
      <3> HIDE DEF m
      <3>4. Fits(w, m) BY <2>0, <3>3 DEF Fits
      <3> QED BY <1>6, <1>u, <2>2, <3>1, <3>4, QuietStep DEF SelectRule
    <2>3. CASE replier' = [replier EXCEPT ![w].pc = "failing"] /\ UNCHANGED triggers
      BY <1>6, <1>f, <2>0, <2>3 DEF SelectRule
    <2> QED BY <1>6, <2>1, <2>2, <2>3 DEF SelectRule
  <1>7. ASSUME NEW w \in Workers, SnapshotRule(w) PROVE ReplyInv'
    <2>0. replier[w].pc \in AtTrigger /\ replier[w].pc = "snapshotting" BY <1>7 DEF SnapshotRule, AtTrigger
    <2>1. CASE Write(w, Finished(TriggerOf(w), "SKIPPED")) /\ replier' = [replier EXCEPT ![w] = ReplierAt("idle")]
               /\ UNCHANGED <<cooldown, counted>>
      <3> DEFINE q == Finished(TriggerOf(w), "SKIPPED")
      <3>1. KeepsTrigger(TriggerOf(w), q)
        BY <1>m, <2>0, FinishedRow DEF KeepsTrigger, TriggerStatuses, FinishedTrigger
      <3>2. Write(w, q) BY <2>1
      <3> HIDE DEF q
      <3>3. TriggersKept /\ triggers' \in [Triggers -> TriggerRows] BY <3>1, <3>2, WrittenRow DEF ReplyInv
      <3> QED BY <1>7, <1>r, <2>1, <3>3 DEF SnapshotRule
    <2>2. CASE replier' = [replier EXCEPT ![w].pc = "failing"] /\ UNCHANGED <<triggers, cooldown, counted>>
      BY <1>7, <1>f, <2>0, <2>2 DEF SnapshotRule
    <2>3. CASE OwnsTrigger(w) /\ ThrottleAllows /\ LetThrough(w)
      <3> DEFINE t == replier[w].trigger  k == replier[w].version  q == [triggers[t] EXCEPT !.version = k]
                 m == [replier[w] EXCEPT !.pc = "checking"]  n == RepliesSoFar + 1
      <3>1. /\ t \in Triggers /\ triggers[t] \in TriggerRows /\ triggers[t].version = 0 /\ Holds(triggers[t], w)
            /\ replier[w] \in ReplierStates /\ k # 0
        BY <1>m, <1>t, <2>0, <2>3 DEF ReplyInv, Informed, OwnsTrigger, Holds, TriggerOf
      <3>2. /\ triggers' = [triggers EXCEPT ![t] = q] /\ replier' = [replier EXCEPT ![w] = m]
            /\ counted' = counted \cup {t}
            /\ cooldown' = [cooldown EXCEPT !.count = n, !.cooling = TRUE, !.within = TRUE]
        BY <2>3 DEF LetThrough
      <3>3. q \in TriggerRows /\ q.version = k /\ q.status = triggers[t].status /\ q.lock = triggers[t].lock
        BY <3>1 DEF TriggerRows, ReplierStates
      <3>4. m \in ReplierStates /\ m.pc = "checking" /\ m.trigger = t /\ m.version = k
        BY <2>0, <3>1 DEF ReplierStates, AtTrigger
      <3>5. replies[t] = 0 BY <3>1 DEF ReplyInv, ReplyMatchesSnapshot
      <3>6. t \notin counted /\ IsFiniteSet(counted)
        <4>1. counted \subseteq Triggers BY DEF ReplyInv, ReplyTypes
        <4>2. IsFiniteSet(counted) BY <4>1, FS_Subset, TriggerAssumption
        <4> QED BY <3>1, <4>2 DEF ReplyInv, CountInv
      <3>7. Cardinality(counted) = RepliesSoFar /\ RepliesSoFar \in 0..ReplyLimit /\ RepliesSoFar < ReplyLimit
        <4>1. cooldown.count \in 0..ReplyLimit BY DEF ReplyInv, ReplyTypes
        <4>2. Cardinality(counted) = RepliesSoFar
          BY FS_EmptySet DEF ReplyInv, CountInv, RepliesSoFar
        <4> QED BY <2>3, <4>1, <4>2, TriggerAssumption DEF ThrottleAllows, RepliesSoFar
      <3>8. n \in 0..ReplyLimit BY <3>7, TriggerAssumption
      <3>9. UNCHANGED <<rule, replies>> BY <1>7 DEF SnapshotRule
      <3> HIDE DEF q, m, n, t, k
      <3>10. \A x \in Triggers : triggers'[x] = IF x = t THEN q ELSE triggers[x] BY <1>t, <3>2
      <3>11. \A v \in Workers : replier'[v] = IF v = w THEN m ELSE replier[v] BY <1>t, <3>2
      <3>12. triggers' \in [Triggers -> TriggerRows] /\ replier' \in [Workers -> ReplierStates]
        BY <1>t, <3>2, <3>3, <3>4
      <3>13. ASSUME NEW v \in Workers PROVE Informed(v)'
        <4>1. CASE v # w
          <5>1. \A x \in Triggers : /\ Holds(triggers'[x], v) => Holds(triggers[x], v)
                                    /\ triggers[x].version # 0 \/ Holds(triggers'[x], v) =>
                                         triggers'[x].version = triggers[x].version
            BY <3>1, <3>3, <3>10, <4>1 DEF Holds
          <5> QED BY <3>9, <3>11, <4>1, <5>1, StaysInformed
        <4>2. CASE v = w
          <5>1. replier'[v] = m /\ triggers'[m.trigger] = q BY <3>1, <3>4, <3>10, <3>11, <4>2
          <5> QED BY <3>1, <3>3, <3>4, <5>1 DEF Informed, TriggerOf
        <4> QED BY <4>1, <4>2
      <3>14. ReplyMatchesSnapshot'
        BY <3>1, <3>3, <3>5, <3>9, <3>10 DEF ReplyInv, ReplyMatchesSnapshot
      <3>15. cooldown' \in [count : 0..ReplyLimit, cooling : BOOLEAN, within : BOOLEAN, pauses : 0..Pauses]
             /\ cooldown'.within /\ cooldown'.count = n
        BY <3>2, <3>8 DEF ReplyInv, ReplyTypes
      <3>16. Cardinality(counted') = n
        <4>1. Cardinality(counted \cup {t}) = Cardinality(counted) + 1 BY <3>6, FS_AddElement
        <4> QED BY <3>2, <3>7, <4>1 DEF n
      <3>17. CountInv'
        <4>1. \A x \in counted' : triggers'[x].version # 0
          BY <3>1, <3>2, <3>3, <3>10 DEF ReplyInv, ReplyTypes, CountInv
        <4> QED BY <3>15, <3>16, <4>1 DEF CountInv
      <3>18. counted' \subseteq Triggers BY <3>1, <3>2 DEF ReplyInv, ReplyTypes
      <3> QED BY <3>9, <3>12, <3>13, <3>14, <3>15, <3>17, <3>18 DEF ReplyInv, ReplyTypes
    <2> QED BY <1>7, <2>1, <2>2, <2>3 DEF SnapshotRule
  <1>8. ASSUME NEW w \in Workers, CheckTrigger(w) PROVE ReplyInv'
    <2>0. replier[w].pc = "checking" /\ replier[w].pc \in AtTrigger BY <1>8 DEF CheckTrigger, AtTrigger
    <2>1. CASE OwnsTrigger(w)
      <3> DEFINE t == replier[w].trigger  q == [TriggerOf(w) EXCEPT !.lease = "live"]
                 m == [replier[w] EXCEPT !.pc = "enqueueing"]
      <3>1. triggers' = [triggers EXCEPT ![t] = q] /\ replier' = [replier EXCEPT ![w] = m]
        BY <1>8, <2>1 DEF CheckTrigger, TriggerOf
      <3>2. KeepsTrigger(TriggerOf(w), q) BY <1>m, <2>0, LeasedRow DEF KeepsTrigger, Leases
      <3>3. /\ m \in ReplierStates /\ m.pc = "enqueueing" /\ m.version = replier[w].version
            /\ m.trigger = replier[w].trigger
        BY <1>t, <2>0 DEF ReplierStates, AtTrigger
      <3>4. replier[w].version # 0 /\ TriggerOf(w).version = replier[w].version
        BY <2>0 DEF ReplyInv, Informed
      <3> HIDE DEF q, m
      <3>5. TriggersKept /\ triggers' \in [Triggers -> TriggerRows]
        BY <3>1, <3>2, OneRowKept DEF ReplyInv, TriggerOf
      <3>6. Fits(w, m) BY <3>3, <3>4 DEF Fits, TriggerOf
      <3> QED BY <1>8, <3>1, <3>5, <3>6, QuietStep DEF CheckTrigger
    <2>2. CASE ~OwnsTrigger(w) BY <1>8, <1>r, <1>u, <2>2 DEF CheckTrigger
    <2> QED BY <2>1, <2>2
  <1>9. ASSUME NEW w \in Workers, EnqueueReply(w) PROVE ReplyInv'
    <2>0. replier[w].pc = "enqueueing" /\ replier[w].pc \in AtTrigger BY <1>9 DEF EnqueueReply, AtTrigger
    <2>1. CASE \E pc \in {"failing", "refused", "unpaid"} : replier' = [replier EXCEPT ![w].pc = pc] /\ UNCHANGED replies
      BY <1>9, <1>f, <2>0, <2>1 DEF EnqueueReply
    <2>2. ASSUME NEW pc \in {"recording", "failing"}, replier' = [replier EXCEPT ![w].pc = pc],
                 replies' = [replies EXCEPT ![replier[w].trigger] = IF @ = 0 THEN replier[w].version ELSE @]
          PROVE  ReplyInv'
      <3> DEFINE t == replier[w].trigger  k == replier[w].version  m == [replier[w] EXCEPT !.pc = pc]
      <3>1. t \in Triggers /\ k # 0 /\ k \in 0..RuleEdits /\ triggers[t].version = k
        BY <1>m, <1>t, <2>0 DEF ReplyInv, Informed, TriggerOf, ReplierStates
      <3>2. replier' = [replier EXCEPT ![w] = m] BY <2>2
      <3>3. m \in ReplierStates /\ m.pc = pc /\ m.trigger = t /\ m.version = k
        BY <1>t, <2>0 DEF ReplierStates, AtTrigger
      <3> HIDE DEF m
      <3>4. UNCHANGED <<triggers, rule, cooldown, counted>> BY <1>9 DEF EnqueueReply
      <3>5. \A x \in Triggers : replies'[x] = IF x = t /\ replies[x] = 0 THEN k ELSE replies[x]
        BY <2>2 DEF ReplyInv, ReplyTypes
      <3>6. replies' \in [Triggers -> 0..RuleEdits] BY <2>2, <3>1 DEF ReplyInv, ReplyTypes
      <3>7. TriggersKept /\ triggers' \in [Triggers -> TriggerRows] BY <1>u, <3>4
      <3>8. Fits(w, m) BY <3>1, <3>3, <3>5 DEF Fits
      <3>9. replier' \in [Workers -> ReplierStates] /\ \A v \in Workers : Informed(v)'
        BY <3>1, <3>2, <3>5, <3>7, <3>8, GoesOnInformed
      <3>10. ReplyMatchesSnapshot' BY <3>1, <3>4, <3>5 DEF ReplyInv, ReplyMatchesSnapshot
      <3> QED BY <3>4, <3>6, <3>7, <3>9, <3>10, StillCounted DEF ReplyInv, ReplyTypes
    <2> QED BY <1>9, <2>1, <2>2 DEF EnqueueReply
  <1>10. ASSUME NEW w \in Workers, RecordReply(w) PROVE ReplyInv'
    <2>0. replier[w].pc = "recording" /\ replier[w].pc \in AtTrigger BY <1>10 DEF RecordReply, AtTrigger
    <2>1. CASE replier' = [replier EXCEPT ![w].pc = "failing"] /\ UNCHANGED triggers
      BY <1>10, <1>f, <2>0, <2>1 DEF RecordReply
    <2>2. CASE Write(w, Finished(TriggerOf(w), "ENQUEUED")) /\ replier' = [replier EXCEPT ![w] = ReplierAt("idle")]
      <3>1. CASE ~OwnsTrigger(w) BY <1>10, <1>r, <1>u, <2>2, <3>1 DEF RecordReply, Write
      <3>2. CASE OwnsTrigger(w)
        <4> DEFINE t == replier[w].trigger  q == Finished(triggers[t], "ENQUEUED")  m == ReplierAt("idle")
        <4>1. t \in Triggers /\ triggers[t] \in TriggerRows /\ replies[t] # 0
          BY <1>m, <2>0 DEF ReplyInv, Informed, TriggerOf
        <4>2. triggers' = [triggers EXCEPT ![t] = q] /\ replier' = [replier EXCEPT ![w] = m]
          BY <2>2, <3>2 DEF Write, TriggerOf
        <4>3. q \in TriggerRows /\ q.status = "ENQUEUED" /\ q.version = triggers[t].version
          BY <4>1, FinishedRow DEF TriggerStatuses, FinishedTrigger
        <4>4. m \in ReplierStates /\ m.pc = "idle"
          <5>1. Fits(w, m) BY LoopStateFits
          <5> QED BY <5>1 DEF Fits, ReplierAt
        <4>5. UNCHANGED <<rule, cooldown, replies, counted>> BY <1>10 DEF RecordReply
        <4> HIDE DEF q, m, t
        <4>6. \A x \in Triggers : triggers'[x] = IF x = t THEN q ELSE triggers[x] BY <1>t, <4>2
        <4>7. \A v \in Workers : replier'[v] = IF v = w THEN m ELSE replier[v] BY <1>t, <4>2
        <4>8. triggers' \in [Triggers -> TriggerRows] /\ replier' \in [Workers -> ReplierStates]
          BY <1>t, <4>2, <4>3, <4>4
        <4>9. \A x \in Triggers : triggers'[x].version = triggers[x].version BY <4>3, <4>6
        <4>10. ASSUME NEW v \in Workers PROVE Informed(v)'
          <5>1. CASE v # w
            <6>1. \A x \in Triggers : Holds(triggers'[x], v) => Holds(triggers[x], v) BY <4>3, <4>6 DEF Holds
            <6> QED BY <4>5, <4>7, <4>9, <5>1, <6>1, StaysInformed
          <5>2. CASE v = w BY <4>4, <4>7, <5>2 DEF Informed
          <5> QED BY <5>1, <5>2
        <4>11. ReplyMatchesSnapshot' BY <4>1, <4>5, <4>6, <4>9 DEF ReplyInv, ReplyMatchesSnapshot
        <4>12. CountInv' BY <4>5, <4>9 DEF ReplyInv, ReplyTypes, CountInv
        <4> QED BY <4>5, <4>8, <4>10, <4>11, <4>12 DEF ReplyInv, ReplyTypes
      <3> QED BY <3>1, <3>2
    <2> QED BY <1>10, <2>1, <2>2 DEF RecordReply
  <1>11. ASSUME NEW w \in Workers, FailTrigger(w) PROVE ReplyInv'
    <2>0. replier[w].pc \in AtTrigger BY <1>11 DEF FailTrigger, AtTrigger
    <2>1. TriggersKept /\ triggers' \in [Triggers -> TriggerRows]
      <3>1. CASE UNCHANGED triggers BY <1>u, <3>1
      <3>2. ASSUME NEW st \in {"SKIPPED", "FAILED"}, Write(w, Finished(TriggerOf(w), st))
            PROVE  TriggersKept /\ triggers' \in [Triggers -> TriggerRows]
        <4> DEFINE q == Finished(TriggerOf(w), st)
        <4>1. KeepsTrigger(TriggerOf(w), q)
          BY <1>m, <2>0, FinishedRow DEF KeepsTrigger, TriggerStatuses, FinishedTrigger
        <4>2. Write(w, q) BY <3>2
        <4> HIDE DEF q
        <4> QED BY <4>1, <4>2, WrittenRow DEF ReplyInv
      <3>3. CASE Write(w, TriggerDeferred(TriggerOf(w), FALSE))
        <4> DEFINE q == TriggerDeferred(TriggerOf(w), FALSE)
        <4>1. KeepsTrigger(TriggerOf(w), q) BY <1>m, <2>0, DeferredRow DEF KeepsTrigger
        <4>2. Write(w, q) BY <3>3
        <4> HIDE DEF q
        <4> QED BY <4>1, <4>2, WrittenRow DEF ReplyInv
      <3> QED BY <1>11, <3>1, <3>2, <3>3 DEF FailTrigger, TriggerDeferred
    <2> QED BY <1>11, <1>r, <2>1 DEF FailTrigger
  <1>12. ASSUME NEW w \in Workers, HeartbeatTrigger(w) PROVE ReplyInv'
    <2>0. replier[w].pc \in AtTrigger BY <1>12, <1>t DEF HeartbeatTrigger, ReplierStates
    <2> DEFINE t == replier[w].trigger  q == [TriggerOf(w) EXCEPT !.lease = "live"]
    <2>1. triggers' = [triggers EXCEPT ![t] = q] BY <1>12 DEF HeartbeatTrigger, TriggerOf
    <2>2. KeepsTrigger(TriggerOf(w), q) BY <1>m, <2>0, LeasedRow DEF KeepsTrigger, Leases
    <2> HIDE DEF q
    <2>3. TriggersKept /\ triggers' \in [Triggers -> TriggerRows] BY <2>1, <2>2, OneRowKept DEF ReplyInv, TriggerOf
    <2> QED BY <1>12, <2>3, QuietStep DEF HeartbeatTrigger
  <1>13. ASSUME NEW w \in Workers, StopReplier(w) PROVE ReplyInv'
    <2>1. \A t \in Triggers : KeepsTrigger(triggers[t], TriggerDeferred(triggers[t], TRUE))
      BY <1>t, DeferredRow DEF KeepsTrigger
    <2>2. \A t \in Triggers : triggers'[t] \in {triggers[t], TriggerDeferred(triggers[t], TRUE)}
      BY <1>13 DEF StopReplier, TriggerDeferred
    <2>3. TriggersKept
      BY <1>t, <2>1, <2>2 DEF TriggersKept, KeepsTrigger
    <2>4. triggers' = [t \in Triggers |-> triggers'[t]] BY <1>13 DEF StopReplier
    <2>5. triggers' \in [Triggers -> TriggerRows] BY <2>3, <2>4 DEF TriggersKept, KeepsTrigger
    <2> QED BY <1>13, <1>r, <2>3, <2>5 DEF StopReplier, Gone
  <1>14. ASSUME NEW w \in Workers, KillReplier(w) PROVE ReplyInv'
    BY <1>14, <1>r, <1>u DEF KillReplier, Gone
  <1>15. ASSUME NEW t \in Triggers, TriggerLeaseExpires(t) PROVE ReplyInv'
    <2> DEFINE q == [triggers[t] EXCEPT !.lease = "expired"]
    <2>1. triggers' = [triggers EXCEPT ![t] = q] BY <1>15 DEF TriggerLeaseExpires
    <2>2. KeepsTrigger(triggers[t], q) BY <1>t, LeasedRow DEF KeepsTrigger, Leases
    <2> HIDE DEF q
    <2>3. TriggersKept /\ triggers' \in [Triggers -> TriggerRows] BY <2>1, <2>2, OneRowKept DEF ReplyInv
    <2> QED BY <1>15, <2>3, QuietStep DEF TriggerLeaseExpires
  <1>16. ASSUME NEW t \in Triggers, TriggerFallsDue(t) PROVE ReplyInv'
    <2> DEFINE q == [triggers[t] EXCEPT !.due = TRUE]
    <2>1. triggers' = [triggers EXCEPT ![t] = q] BY <1>16 DEF TriggerFallsDue
    <2>2. KeepsTrigger(triggers[t], q) BY <1>t DEF KeepsTrigger, TriggerRows
    <2> HIDE DEF q
    <2>3. TriggersKept /\ triggers' \in [Triggers -> TriggerRows] BY <2>1, <2>2, OneRowKept DEF ReplyInv
    <2> QED BY <1>16, <2>3, QuietStep DEF TriggerFallsDue
  <1>17. CASE UNCHANGED replyVars BY <1>17, <1>u, QuietStep DEF replyVars
  <1> QED
    BY <1>1, <1>2, <1>3, <1>4, <1>5, <1>6, <1>7, <1>8, <1>9, <1>10, <1>11, <1>12, <1>13, <1>14, <1>15, <1>16, <1>17
       DEF ReplyNext, ReplierStep

(* At the start nothing is known. *)
LEMMA ReplyStarts == ReplyInit => ReplyInv
  <1> SUFFICES ASSUME ReplyInit PROVE ReplyInv OBVIOUS
  <1>0. /\ 0 \in 0..MaxTriggerAttempts /\ 0 \in 0..RuleEdits /\ 1 \in 1..RuleEdits /\ 0 \in 0..ReplyLimit
        /\ 0 \in 0..Pauses
    BY TriggerAssumption
  <1>1. NoTrigger \in TriggerRows /\ NoTrigger.status = "none" /\ NoTrigger.version = 0
    BY <1>0 DEF NoTrigger, TriggerRows, TriggerStatuses, Leases
  <1>2. ReplierAt("idle") \in ReplierStates /\ ReplierAt("idle").pc = "idle"
    BY <1>0 DEF ReplierAt, ReplierStates, AtTrigger
  <1>3. triggers \in [Triggers -> TriggerRows] /\ replier \in [Workers -> ReplierStates]
    BY <1>1, <1>2 DEF ReplyInit
  <1>4. ReplyTypes BY <1>0, <1>3 DEF ReplyTypes, ReplyInit
  <1>5. \A w \in Workers : Informed(w) BY <1>2 DEF Informed, ReplyInit
  <1>6. ReplyMatchesSnapshot BY <1>1 DEF ReplyMatchesSnapshot, ReplyInit
  <1>7. CountInv BY DEF CountInv, ReplyInit
  <1> QED BY <1>4, <1>5, <1>6, <1>7 DEF ReplyInv

(* A message is answered with the version its row has snapshotted. *)
THEOREM RepliesMatchSnapshots == ReplySpec => []ReplyMatchesSnapshot
  <1>1. ReplyInv => ReplyMatchesSnapshot BY DEF ReplyInv
  <1> QED BY <1>1, ReplyStarts, ReplyStep, PTL DEF ReplySpec

(* The throttle counts each message let through once, up to its limit. *)
THEOREM ThrottleHolds == ReplySpec => []ThrottleCountsReplies
  <1>1. ReplyInv => ThrottleCountsReplies
    BY TriggerAssumption DEF ReplyInv, ReplyTypes, CountInv, ThrottleCountsReplies
  <1> QED BY <1>1, ReplyStarts, ReplyStep, PTL DEF ReplySpec

(* The rows are of their table's type. *)
LEMMA RepliesTyped == ReplyInv => ReplyTypeOK
  BY DEF ReplyInv, ReplyTypes, ReplyTypeOK, TriggerRows, TriggerStatuses

(* In every reachable state. *)
THEOREM ReplyTypeCorrect == ReplySpec => []ReplyTypeOK
  BY RepliesTyped, ReplyStarts, ReplyStep, PTL DEF ReplySpec
-----------------------------------------------------------------------------
(* Where the tasks of a process, and its handlers, may be. *)
TaskPlaces == {"rest", "read", "load", "idle row", "lock", "mark", "init", "failed",
               "unlock", "unlock failed", "stop", "stopped", "leave"}
TaskStates == [pc : TaskPlaces, instance : Instances \cup {NoInstance}]
DeviceStatuses == {"STOPPED", "CONNECTING", "PAIRING", "CONNECTED", "RECONNECTING", "FAILED", "LOGGED_OUT"}
HandlerSteps ==
  [process : Processes, instance : Instances,
   what : {"PAIRING", "CONNECTED", "RECONNECTING", "SILENT", "STOPPED", "LOGGED_OUT", "FAILED",
           "unlock", "timer", "init", "again"}]
DeviceRows == [status : DeviceStatuses, credentials : BOOLEAN]
DeviceLocks == [holder : Processes \cup {NoProcess}, lease : {"none", "live", "expired"}]
Managers == [up : {"down", "loading", "up", "gone"}, kept : Instances \cup {NoInstance}, leased : BOOLEAN]

(* A handler that outlives its instance still names a process and an instance that were. *)
DeviceInv ==
  /\ device \in DeviceRows
  /\ runtime \in DeviceLocks /\ ((runtime.holder = NoProcess) <=> (runtime.lease = "none"))
  /\ manager \in [Processes -> Managers]
  /\ task \in [Processes -> [Tasks -> TaskStates]]
  /\ handlers \subseteq HandlerSteps

(* Its parts, after a step. *)
LockKept == runtime' \in DeviceLocks /\ ((runtime'.holder = NoProcess) <=> (runtime'.lease = "none"))
ManagersKept == manager' \in [Processes -> Managers]
TasksKept == task' \in [Processes -> [Tasks -> TaskStates]]
HandlersKept == handlers' \subseteq HandlerSteps

(* No process has the device, no task has begun. *)
LEMMA DeviceStarts == DeviceInit => DeviceInv
  <1> SUFFICES ASSUME DeviceInit PROVE DeviceInv OBVIOUS
  <1>1. Resting \in TaskStates BY DEF Resting, TaskStates, TaskPlaces
  <1>2. device \in DeviceRows
    <2>1. [status |-> "STOPPED", credentials |-> FALSE] \in DeviceRows BY DEF DeviceRows, DeviceStatuses
    <2>2. [status |-> "CONNECTED", credentials |-> TRUE] \in DeviceRows BY DEF DeviceRows, DeviceStatuses
    <2> QED BY <2>1, <2>2 DEF DeviceInit
  <1>3. runtime \in DeviceLocks /\ runtime.holder = NoProcess /\ runtime.lease = "none"
    BY DEF DeviceInit, NoLock, DeviceLocks
  <1>4. manager \in [Processes -> Managers]
    <2>1. [up |-> "down", kept |-> NoInstance, leased |-> FALSE] \in Managers BY DEF Managers
    <2> QED BY <2>1 DEF DeviceInit
  <1> QED BY <1>1, <1>2, <1>3, <1>4 DEF DeviceInit, DeviceInv

(* The lock is taken, given up, or left to run out; a task goes on or rests. *)
LEMMA DeviceParts ==
  ASSUME DeviceInv, NEW p \in Processes
  PROVE  /\ \A s \in DeviceStatuses : Status(s) => device' \in DeviceRows
         /\ UNCHANGED runtime => LockKept
         /\ Locks(p) => LockKept
         /\ runtime' = Unlocked(p) => LockKept
         /\ \A i \in Instances \cup {NoInstance} : Forgets(p, i) => ManagersKept
         /\ \A t \in Tasks : \A pc \in TaskPlaces : TaskGoes(p, t, pc) => TasksKept
         /\ \A t \in Tasks : TaskRests(p, t) => TasksKept
  <1>1. \A s \in DeviceStatuses : Status(s) => device' \in DeviceRows BY DEF DeviceInv, Status, DeviceRows
  <1>2. UNCHANGED runtime => LockKept BY DEF DeviceInv, LockKept
  <1>3. Locks(p) => LockKept BY DevicesAssumption DEF Locks, LockKept, DeviceLocks
  <1>4. runtime' = Unlocked(p) => LockKept
    BY DEF DeviceInv, LockKept, Unlocked, NoLock, DeviceLocks
  <1>5. \A i \in Instances \cup {NoInstance} : Forgets(p, i) => ManagersKept
    <2> SUFFICES ASSUME NEW i \in Instances \cup {NoInstance}, Forgets(p, i) PROVE ManagersKept OBVIOUS
    <2> DEFINE m == [manager EXCEPT ![p].kept = i]
    <2>1. m \in [Processes -> Managers] BY DEF DeviceInv, Managers
    <2>2. manager' = [m EXCEPT ![p].leased = FALSE] BY DEF Forgets
    <2> HIDE DEF m
    <2> QED BY <2>1, <2>2 DEF ManagersKept, Managers
  <1>6. \A t \in Tasks : \A pc \in TaskPlaces : TaskGoes(p, t, pc) => TasksKept
    <2> SUFFICES ASSUME NEW t \in Tasks, NEW pc \in TaskPlaces, TaskGoes(p, t, pc) PROVE TasksKept OBVIOUS
    <2>1. task[p][t] \in TaskStates BY DEF DeviceInv
    <2>2. [task[p][t] EXCEPT !.pc = pc] \in TaskStates BY <2>1 DEF TaskStates
    <2>3. task' = [task EXCEPT ![p][t] = [task[p][t] EXCEPT !.pc = pc]] BY DEF TaskGoes
    <2> QED BY <2>2, <2>3 DEF DeviceInv, TasksKept
  <1>7. Resting \in TaskStates BY DEF Resting, TaskStates, TaskPlaces
  <1>8. \A t \in Tasks : TaskRests(p, t) => TasksKept
    BY <1>7 DEF DeviceInv, TaskRests, TasksKept
  <1> QED BY <1>1, <1>2, <1>3, <1>4, <1>5, <1>6, <1>8

(* What a step of a device leaves well formed. *)
DeviceKept == device' \in DeviceRows /\ LockKept /\ ManagersKept /\ TasksKept /\ HandlersKept

(* Steps of the three tasks of a process. *)
LEMMA TasksKeepTypes ==
  ASSUME DeviceInv, NEW p \in Processes, NEW t \in Tasks,
         TaskStep(p, t) \/ StartFails(p, t) \/ LoadStep(p) \/ CallStep(p) \/ BootDevices(p) \/ Reconcile(p)
         \/ CallStart(p) \/ RenewLock(p) \/ FailureUnwritten(p)
  PROVE  DeviceKept
  <1>t. {"load", "call", "heartbeat"} = Tasks /\ {"STOPPED", "CONNECTING", "FAILED"} \subseteq DeviceStatuses
        /\ TaskPlaces = {"rest", "read", "load", "idle row", "lock", "mark", "init", "failed",
               "unlock", "unlock failed", "stop", "stopped", "leave"}
    BY DEF Tasks, DeviceStatuses, TaskPlaces
  <1>k. manager[p] \in Managers /\ manager[p].kept \in Instances \cup {NoInstance} /\ device.status \in DeviceStatuses
    BY DEF DeviceInv, Managers, DeviceRows
  <1>s. /\ UNCHANGED device => device' \in DeviceRows
        /\ UNCHANGED manager => ManagersKept
        /\ UNCHANGED task => TasksKept
        /\ UNCHANGED handlers => HandlersKept
    BY DEF DeviceInv, ManagersKept, TasksKept, HandlersKept
  <1>p. /\ \A s \in DeviceStatuses : Status(s) => device' \in DeviceRows
        /\ UNCHANGED runtime => LockKept
        /\ Locks(p) => LockKept
        /\ runtime' = Unlocked(p) => LockKept
        /\ \A i \in Instances \cup {NoInstance} : Forgets(p, i) => ManagersKept
        /\ \A u \in Tasks : \A pc \in TaskPlaces : TaskGoes(p, u, pc) => TasksKept
        /\ \A u \in Tasks : TaskRests(p, u) => TasksKept
    BY DeviceParts
  <1>m. \A f \in {"up", "loading"} : manager' = [manager EXCEPT ![p].up = f] => ManagersKept
    BY DEF DeviceInv, ManagersKept, Managers
  <1>n. \A i \in Instances \cup {NoInstance} : manager' = [manager EXCEPT ![p].kept = i] => ManagersKept
    BY DEF DeviceInv, ManagersKept, Managers
  <1>1. ASSUME LockDevice(p, t) PROVE DeviceKept
    <2>1. CASE ~LockFree(p) /\ TaskRests(p, t) /\ UNCHANGED <<runtime, manager, instance>>
      BY <1>1, <2>1, <1>s, <1>p DEF LockDevice, DeviceKept
    <2>2. ASSUME Locks(p), NEW i \in Instances,
                 manager' = [manager EXCEPT ![p].kept = i, ![p].leased = TRUE],
                 task' = [task EXCEPT ![p][t] =
                  [pc |-> IF task[p][t].pc = "load" THEN "init" ELSE "mark", instance |-> i]]
          PROVE  DeviceKept
      <3> DEFINE m == [manager EXCEPT ![p].kept = i]
      <3>1. m \in [Processes -> Managers] BY DEF DeviceInv, Managers
      <3>2. manager' = [m EXCEPT ![p].leased = TRUE] BY <2>2
      <3> HIDE DEF m
      <3>3. ManagersKept BY <3>1, <3>2 DEF ManagersKept, Managers
      <3> DEFINE x == [pc |-> IF task[p][t].pc = "load" THEN "init" ELSE "mark", instance |-> i]
      <3>4. x \in TaskStates BY <1>t DEF TaskStates
      <3> HIDE DEF x
      <3>5. task' = [task EXCEPT ![p][t] = x] BY <2>2 DEF x
      <3>6. TasksKept BY <3>4, <3>5 DEF DeviceInv, TasksKept
      <3> QED BY <1>1, <2>2, <3>3, <3>6, <1>s, <1>p DEF LockDevice, DeviceKept
    <2> QED BY <1>1, <2>1, <2>2 DEF LockDevice
  <1>2. CASE MarkConnecting(p, t) BY <1>2, <1>s, <1>p, <1>t DEF MarkConnecting, DeviceKept
  <1>3. CASE InitDevice(p, t) BY <1>3, <1>s, <1>p, <1>t DEF InitDevice, DeviceKept
  <1>4. CASE WriteFailed(p, t) BY <1>4, <1>s, <1>p, <1>t, <1>n DEF WriteFailed, DeviceKept
  <1>5. CASE UnlockDevice(p, t)
    <2>1. TasksKept BY <1>5, <1>p, <1>t DEF UnlockDevice
    <2> QED BY <1>5, <2>1, <1>s, <1>p DEF UnlockDevice, DeviceKept
  <1>6. CASE StartFails(p, t)
    <2>1. TasksKept
      <3>1. (IF manager[p].leased THEN "unlock failed" ELSE "failed") \in TaskPlaces BY <1>t
      <3> QED BY <3>1, <1>6, <1>p DEF StartFails
    <2>2. ManagersKept BY <1>6, <1>p, <1>k DEF StartFails
    <2> QED BY <1>6, <2>1, <2>2, <1>s, <1>p DEF StartFails, DeviceKept
  <1>7. CASE LoadStep(p)
    <2>1. CASE ReadDevice(p)
      <3>1. \E pc \in TaskPlaces : TaskGoes(p, "load", pc) BY <2>1, <1>t DEF ReadDevice
      <3> QED BY <2>1, <3>1, <1>s, <1>p, <1>t DEF ReadDevice, DeviceKept
    <2>2. CASE IdleDevice(p) BY <2>2, <1>s, <1>p, <1>t DEF IdleDevice, DeviceKept
    <2>3. CASE ServeDevices(p) BY <2>3, <1>s, <1>p, <1>m DEF ServeDevices, DeviceKept
    <2> QED BY <1>7, <2>1, <2>2, <2>3 DEF LoadStep
  <1>8. CASE CallStep(p)
    <2>1. CASE StopInMap(p) BY <2>1, <1>s, <1>p, <1>t, <1>n DEF StopInMap, DeviceKept
    <2>p. (IF manager[p].leased THEN "unlock" ELSE "rest") \in TaskPlaces BY <1>t
    <2>2. CASE StopInDatabase(p) BY <2>2, <2>p, <1>s, <1>p, <1>t, <1>k DEF StopInDatabase, DeviceKept
    <2>3. CASE LeaveDevice(p) BY <2>3, <2>p, <1>s, <1>p, <1>t DEF LeaveDevice, DeviceKept
    <2> QED BY <1>8, <2>1, <2>2, <2>3 DEF CallStep
  <1>9. CASE BootDevices(p)
    <2>1. \E s \in DeviceStatuses : Status(s) BY <1>9, <1>t, <1>k DEF BootDevices
    <2> QED BY <1>9, <2>1, <1>s, <1>p, <1>t, <1>m DEF BootDevices, DeviceKept
  <1>10. CASE Reconcile(p) BY <1>10, <1>s, <1>p, <1>t DEF Reconcile, DeviceKept
  <1>11. CASE CallStart(p) BY <1>11, <1>s, <1>p, <1>t DEF CallStart, DeviceKept
  <1>12. CASE RenewLock(p) BY <1>12, <1>s, <1>p DEF RenewLock, DeviceKept
  <1>13. CASE FailureUnwritten(p) BY <1>13, <1>s, <1>p, <1>t DEF FailureUnwritten, DeviceKept
  <1> QED BY <1>1, <1>2, <1>3, <1>4, <1>5, <1>6, <1>7, <1>8, <1>9, <1>10, <1>11, <1>12, <1>13 DEF TaskStep

(* Steps that end an instance, or a process. *)
LEMMA EndsKeepTypes ==
  ASSUME DeviceInv, NEW p \in Processes,
         CallStop(p) \/ CallLogout(p) \/ LoseLock(p) \/ KillProcess(p) \/ ShutDownProcess(p)
  PROVE  DeviceKept
  <1>k. manager[p].kept \in Instances \cup {NoInstance} BY DEF DeviceInv, Managers
  <1>t. {"call", "heartbeat"} \subseteq Tasks /\ {"STOPPED", "LOGGED_OUT"} \subseteq DeviceStatuses
        /\ {"failed", "stop", "stopped", "leave"} \subseteq TaskPlaces
    BY DEF Tasks, DeviceStatuses, TaskPlaces
  <1>s. /\ UNCHANGED device => device' \in DeviceRows
        /\ UNCHANGED manager => ManagersKept
        /\ UNCHANGED handlers => HandlersKept
    BY DEF DeviceInv, ManagersKept, HandlersKept
  <1>p. /\ \A s \in DeviceStatuses : Status(s) => device' \in DeviceRows
        /\ UNCHANGED runtime => LockKept
        /\ runtime' = Unlocked(p) => LockKept
        /\ \A i \in Instances \cup {NoInstance} : Forgets(p, i) => ManagersKept
        /\ \A u \in Tasks : \A pc \in TaskPlaces : TaskGoes(p, u, pc) => TasksKept
    BY DeviceParts
  <1>d. \A i \in Instances : ShutDown(p, i) => HandlersKept
    BY DEF ShutDown, HandlersKept, Step, HandlerSteps, DeviceInv
  <1>e. ProcessEnds(p) => ManagersKept /\ TasksKept /\ HandlersKept
    <2> SUFFICES ASSUME ProcessEnds(p) PROVE ManagersKept /\ TasksKept /\ HandlersKept OBVIOUS
    <2>1. [up |-> "gone", kept |-> NoInstance, leased |-> FALSE] \in Managers BY DEF Managers
    <2>2. ManagersKept BY <2>1 DEF ProcessEnds, DeviceInv, ManagersKept
    <2>3. [u \in Tasks |-> Resting] \in [Tasks -> TaskStates] BY DEF Resting, TaskStates, TaskPlaces
    <2>4. TasksKept BY <2>3 DEF ProcessEnds, DeviceInv, TasksKept
    <2>5. HandlersKept BY DEF ProcessEnds, DeviceInv, HandlersKept
    <2> QED BY <2>2, <2>4, <2>5
  <1>1. CASE CallStop(p)
    <2>1. HandlersKept BY <1>1, <1>s, <1>d, <1>k DEF CallStop
    <2>2. TasksKept BY <1>1, <1>p, <1>t DEF CallStop
    <2> QED BY <1>1, <2>1, <2>2, <1>s, <1>p DEF CallStop, DeviceKept
  <1>2. CASE CallLogout(p)
    <2>1. HandlersKept
      BY <1>2, <1>s, <1>k DEF CallLogout, HandlersKept, Step, HandlerSteps, DeviceInv
    <2>2. [status |-> "LOGGED_OUT", credentials |-> FALSE] \in DeviceRows BY DEF DeviceRows, DeviceStatuses
    <2>3. device' \in DeviceRows BY <1>2, <2>2, <1>s DEF CallLogout
    <2> QED BY <1>2, <2>1, <2>3, <1>s, <1>p, <1>t DEF CallLogout, DeviceKept
  <1>3. CASE LoseLock(p)
    <2>1. HandlersKept BY <1>3, <1>s, <1>d, <1>k DEF LoseLock
    <2> QED BY <1>3, <2>1, <1>s, <1>p, <1>t DEF LoseLock, DeviceKept
  <1>4. CASE KillProcess(p) BY <1>4, <1>e, <1>s, <1>p DEF KillProcess, DeviceKept
  <1>5. CASE ShutDownProcess(p)
    <2>1. device' \in DeviceRows BY <1>5, <1>s, <1>p, <1>t DEF ShutDownProcess
    <2>2. LockKept BY <1>5, <1>p DEF ShutDownProcess
    <2> QED BY <1>5, <2>1, <2>2, <1>e DEF ShutDownProcess, DeviceKept
  <1> QED BY <1>1, <1>2, <1>3, <1>4, <1>5

(* Events of a socket, the handlers they start, and the lock that runs out. *)
LEMMA HandlersKeepTypes ==
  ASSUME DeviceInv,
         \/ \E p \in Processes, i \in Instances :
              \/ ShowCode(p, i) \/ ScanCode(p, i) \/ SocketOpens(p, i)
              \/ SocketCloses(p, i) \/ DeviceUnlinked(p, i) \/ SocketSilent(p, i)
         \/ \E h \in handlers : HandlerStep(h)
         \/ LockExpires
  PROVE  DeviceKept
  <1>s. /\ UNCHANGED device => device' \in DeviceRows
        /\ UNCHANGED runtime => LockKept
        /\ UNCHANGED manager => ManagersKept
        /\ UNCHANGED task => TasksKept
        /\ UNCHANGED handlers => HandlersKept
    BY DEF DeviceInv, LockKept, ManagersKept, TasksKept, HandlersKept
  <1>1. ASSUME NEW p \in Processes, NEW i \in Instances,
               \/ ShowCode(p, i) \/ ScanCode(p, i) \/ SocketOpens(p, i)
               \/ SocketCloses(p, i) \/ DeviceUnlinked(p, i) \/ SocketSilent(p, i)
        PROVE  DeviceKept
    <2>1. \A what \in {"PAIRING", "CONNECTED", "RECONNECTING", "STOPPED", "LOGGED_OUT", "SILENT"} :
            handlers' = handlers \cup {Step(p, i, what)} => HandlersKept
      BY DEF Step, HandlerSteps, HandlersKept, DeviceInv
    <2>2. CASE ShowCode(p, i) BY <2>2, <2>1, <1>s DEF ShowCode, DeviceKept
    <2>3. CASE ScanCode(p, i)
      <3>1. device' \in DeviceRows BY <2>3 DEF ScanCode, DeviceInv, DeviceRows
      <3> QED BY <2>3, <3>1, <1>s DEF ScanCode, DeviceKept
    <2>4. CASE SocketOpens(p, i) BY <2>4, <2>1, <1>s DEF SocketOpens, DeviceKept
    <2>5. CASE SocketCloses(p, i)
      <3>1. HandlersKept BY <2>5, <2>1 DEF SocketCloses
      <3> QED BY <2>5, <3>1, <1>s DEF SocketCloses, DeviceKept
    <2>6. CASE DeviceUnlinked(p, i) BY <2>6, <2>1, <1>s DEF DeviceUnlinked, DeviceKept
    <2>7. CASE SocketSilent(p, i) BY <2>7, <2>1, <1>s DEF SocketSilent, DeviceKept
    <2> QED BY <1>1, <2>2, <2>3, <2>4, <2>5, <2>6, <2>7
  <1>2. ASSUME NEW h \in handlers, HandlerStep(h) PROVE DeviceKept
    <2>h. h \in HandlerSteps /\ h.process \in Processes BY DEF DeviceInv, HandlerSteps
    <2>w. \A what \in {"timer", "again", "unlock", "init", "FAILED"} : [h EXCEPT !.what = what] \in HandlerSteps
      BY <2>h DEF HandlerSteps
    <2>p. /\ runtime' = Unlocked(h.process) => LockKept
          /\ Forgets(h.process, NoInstance) => ManagersKept
      BY <2>h, DeviceParts
    <2>e. \A more \in SUBSET HandlerSteps : handlers' = (handlers \ {h}) \cup more => HandlersKept
      BY DEF DeviceInv, HandlersKept
    <2>1. CASE HandlerWrites(h)
      <3>1. Following(h) \in SUBSET HandlerSteps BY <2>w DEF Following
      <3>2. HandlersKept BY <2>1, <2>e, <3>1 DEF HandlerWrites
      <3>3. ManagersKept BY <2>1, <2>p, <1>s DEF HandlerWrites
      <3> DEFINE st == IF h.what = "SILENT" THEN "RECONNECTING" ELSE h.what
                 cr == device.credentials /\ h.what # "LOGGED_OUT"
      <3>4. st \in DeviceStatuses BY <2>1 DEF HandlerWrites, DeviceStatuses
      <3>5. cr \in BOOLEAN OBVIOUS
      <3>6. device' = [status |-> st, credentials |-> cr] BY <2>1 DEF HandlerWrites
      <3> HIDE DEF st, cr
      <3>7. device' \in DeviceRows BY <3>4, <3>5, <3>6 DEF DeviceRows
      <3> QED BY <2>1, <3>2, <3>3, <3>7, <1>s DEF HandlerWrites, DeviceKept
    <2>2. CASE HandlerUnlocks(h)
      <3>1. HandlersKept BY <2>2 DEF HandlerUnlocks, DeviceInv, HandlersKept
      <3> QED BY <2>2, <3>1, <2>p, <1>s DEF HandlerUnlocks, DeviceKept
    <2>3. CASE TimerFires(h)
      <3>1. HandlersKept
        <4> DEFINE more == IF instance[h.process][h.instance].stopped THEN {} ELSE {[h EXCEPT !.what = "init"]}
        <4>1. more \in SUBSET HandlerSteps BY <2>w
        <4>2. handlers' = (handlers \ {h}) \cup more BY <2>3 DEF TimerFires
        <4> HIDE DEF more
        <4> QED BY <4>1, <4>2, <2>e
      <3> QED BY <2>3, <3>1, <1>s DEF TimerFires, DeviceKept
    <2>4. CASE HandlerInits(h)
      <3>1. HandlersKept
        <4>1. CASE handlers' = handlers \ {h} BY <4>1 DEF DeviceInv, HandlersKept
        <4> DEFINE more == IF h.what = "again" THEN {[h EXCEPT !.what = "FAILED"]} ELSE {}
        <4>2. more \in SUBSET HandlerSteps BY <2>w
        <4>3. handlers' = handlers \ {h} \/ handlers' = (handlers \ {h}) \cup more BY <2>4 DEF HandlerInits
        <4> HIDE DEF more
        <4> QED BY <4>1, <4>2, <4>3, <2>e
      <3> QED BY <2>4, <3>1, <1>s DEF HandlerInits, DeviceKept
    <2> QED BY <1>2, <2>1, <2>2, <2>3, <2>4 DEF HandlerStep
  <1>3. CASE LockExpires
    <2>1. runtime' = [runtime EXCEPT !.lease = "expired"] /\ runtime.lease = "live" BY <1>3 DEF LockExpires
    <2>2. LockKept BY <2>1 DEF LockKept, DeviceInv, DeviceLocks
    <2> QED BY <1>3, <2>2, <1>s DEF LockExpires, DeviceKept
  <1> QED BY <1>1, <1>2, <1>3

(* Whatever a device, its sockets and its processes do, their state stays well formed. *)
LEMMA DeviceStep == ASSUME DeviceInv, [DeviceNext]_deviceVars PROVE DeviceInv'
  <1>k. DeviceKept => DeviceInv' BY DEF DeviceKept, LockKept, ManagersKept, TasksKept, HandlersKept, DeviceInv
  <1>u. CASE UNCHANGED deviceVars
    BY <1>u, <1>k DEF deviceVars, DeviceKept, LockKept, ManagersKept, TasksKept, HandlersKept, DeviceInv
  <1>1. ASSUME NEW p \in Processes,
               \/ BootDevices(p) \/ LoadStep(p) \/ Reconcile(p) \/ RenewLock(p) \/ LoseLock(p) \/ FailureUnwritten(p)
               \/ CallStart(p) \/ CallStop(p) \/ CallLogout(p) \/ CallStep(p)
               \/ KillProcess(p) \/ ShutDownProcess(p)
        PROVE  DeviceKept
    <2>1. "load" \in Tasks BY DEF Tasks
    <2> QED BY <1>1, <2>1, TasksKeepTypes, EndsKeepTypes
  <1>2. ASSUME NEW p \in Processes, NEW t \in Tasks, TaskStep(p, t) \/ StartFails(p, t) PROVE DeviceKept
    BY <1>2, TasksKeepTypes
  <1>3. ASSUME \/ \E p \in Processes, i \in Instances :
                    \/ ShowCode(p, i) \/ ScanCode(p, i) \/ SocketOpens(p, i)
                    \/ SocketCloses(p, i) \/ DeviceUnlinked(p, i) \/ SocketSilent(p, i)
               \/ \E h \in handlers : HandlerStep(h)
               \/ LockExpires
        PROVE  DeviceKept
    BY <1>3, HandlersKeepTypes
  <1> QED BY <1>u, <1>k, <1>1, <1>2, <1>3 DEF DeviceNext

(* The device and its lock are of their types, and a lock has a lease while it is held. *)
LEMMA DeviceTyped == DeviceInv => DeviceTypeOK
  BY DEF DeviceInv, DeviceTypeOK, DeviceRows, DeviceStatuses, DeviceLocks, Managers

(* In every reachable state. *)
THEOREM DeviceTypeCorrect == DeviceSpec => []DeviceTypeOK
  BY DeviceTyped, DeviceStarts, DeviceStep, PTL DEF DeviceSpec
-----------------------------------------------------------------------------
(* What every component promises, at once. *)
ComponentsInv ==
  EmailInv /\ PaymentInv /\ DeliveryInv /\ FanOutInv /\ ReplyInv /\ ScheduleInv /\ DeviceInv

(* A step of one component leaves the others where they are. *)
LEMMA ComponentsStep == ASSUME ComponentsInv, [ComponentsNext]_componentVars PROVE ComponentsInv'
  <1>i. EmailInv /\ PaymentInv /\ DeliveryInv /\ FanOutInv /\ ReplyInv /\ ScheduleInv /\ DeviceInv
    BY DEF ComponentsInv
  <1>1. /\ [MailedPaymentsNext]_<<paymentVars, emailVars>> /\ [WebhookNext]_webhookVars
        /\ [ReplyNext]_replyVars /\ [ScheduleNext]_scheduleVars /\ [DeviceNext]_deviceVars
    <2>1. CASE TakeEmails BY <2>1 DEF TakeEmails, MailedPaymentsNext
    <2>2. CASE TakePayments BY <2>2 DEF TakePayments, MailedPaymentsNext
    <2>3. CASE TakeWebhooks BY <2>3 DEF TakeWebhooks
    <2>4. CASE TakeReplies BY <2>4 DEF TakeReplies
    <2>5. CASE TakeSchedules BY <2>5 DEF TakeSchedules
    <2>6. CASE TakeDevices BY <2>6 DEF TakeDevices
    <2>7. CASE UNCHANGED componentVars BY <2>7 DEF componentVars
    <2> QED BY <2>1, <2>2, <2>3, <2>4, <2>5, <2>6, <2>7 DEF ComponentsNext
  <1>2. PaymentInv' /\ EmailInv' BY <1>i, <1>1, MailedPaymentsStep
  <1>3. DeliveryInv' BY <1>i, <1>1, DeliveryStep
  <1>4. FanOutInv' BY <1>i, <1>1, FanOutStep
  <1>5. ReplyInv' BY <1>i, <1>1, ReplyStep
  <1>6. ScheduleInv' BY <1>i, <1>1, RowsStep, RunsStep, LoopStep, ClosedStep DEF ScheduleInv
  <1>7. DeviceInv' BY <1>i, <1>1, DeviceStep
  <1> QED BY <1>2, <1>3, <1>4, <1>5, <1>6, <1>7 DEF ComponentsInv

(* Whichever component a behaviour is of, all of them begin as they should. *)
LEMMA ComponentsStart == ComponentsInit => ComponentsInv
  <1> SUFFICES ASSUME ComponentsInit PROVE ComponentsInv OBVIOUS
  <1> DEFINE queued == IF component = "emails" THEN Emails \ Mails ELSE {}
  <1>1. queued \cap Mails = {} OBVIOUS
  <1>2. EmailInit(queued) /\ PaymentInit BY DEF ComponentsInit
  <1> HIDE DEF queued
  <1>3. EmailInv /\ PaymentInv BY <1>1, <1>2, EmailStarts, PaymentStarts
  <1> QED BY <1>3, WebhookStarts, ReplyStarts, ScheduleStarts, DeviceStarts DEF ComponentsInit, ComponentsInv

(* Every row of every component is of its table's type. *)
THEOREM ComponentsTypeCorrect == ComponentsSpec => []ComponentsTypeOK
  <1>1. ComponentsInv => ComponentsTypeOK
    <2> SUFFICES ASSUME ComponentsInv PROVE ComponentsTypeOK OBVIOUS
    <2> USE DEF ComponentsInv
    <2>1. EmailTypeOK BY EmailsTyped
    <2>2. PaymentTypeOK BY DEF PaymentInv, PaymentTypes, PaymentTypeOK
    <2>3. WebhookTypeOK BY WebhooksTyped
    <2>4. ReplyTypeOK BY RepliesTyped
    <2>5. ScheduleTypeOK BY SchedulesTyped
    <2>6. DeviceTypeOK BY DeviceTyped
    <2> QED BY <2>1, <2>2, <2>3, <2>4, <2>5, <2>6 DEF ComponentsTypeOK
  <1> QED BY <1>1, ComponentsStart, ComponentsStep, PTL DEF ComponentsSpec
-----------------------------------------------------------------------------
(* A row is stranded only by the stop of a worker: whoever fails with a row it still
   holds knows the attempt that the row is at, and sets it back only with one left. *)
Lasts(r, q) == q.status = r.status /\ q.attempts = r.attempts /\ q.lock = r.lock

(* A worker that still holds its mail made the last attempt of it. *)
MailClaims ==
  \A w \in Workers : mailer[w].pc \in AtMail /\ OwnsEmail(w) => mailer[w].n = emails[mailer[w].email].attempts
MailsWait == \A e \in Emails : StrandedEmail(e) => Stopped(mailer)

(* A mail is worked on under the claim it was, or under one of this step; it waits as it
   did, with an attempt left, or because a worker has stopped. *)
MailTry(e) ==
  /\ emails'[e].status = "PROCESSING" =>
       \/ Lasts(emails[e], emails'[e])
       \/ \E w \in Workers : emails'[e].lock = w /\ mailer'[w].email = e /\ mailer'[w].n = emails'[e].attempts
  /\ emails'[e].status = "PENDING" =>
       Lasts(emails[e], emails'[e]) \/ emails'[e].attempts # MaxEmailAttempts \/ Stopped(mailer)'

(* What has stopped does not start again. *)
LEMMA StoppedMailersStay ==
  ASSUME EmailInv, [EmailNext]_emailVars, Stopped(mailer) PROVE Stopped(mailer)'
  <1>1. PICK v \in Workers : mailer[v].pc = "stopped" BY DEF Stopped
  <1>t. mailer \in [Workers -> MailerStates] BY DEF EmailInv, EmailTypes
  <1>2. mailer'[v] = mailer[v]
    <2>1. ASSUME NEW w \in Workers,
                 EmailWorkerStep(w) \/ HeartbeatEmail(w) \/ StopEmailWorker(w) \/ KillEmailWorker(w)
          PROVE  mailer'[v] = mailer[v]
      <3>1. CASE EmailWorkerStep(w) BY <1>1, <1>t, <3>1
        DEF EmailWorkerStep, BuryExhaustedEmails, ClaimNextEmail, DeliverEmail, FinishEmail, FailClaimedEmail
      <3>2. CASE HeartbeatEmail(w) \/ StopEmailWorker(w) \/ KillEmailWorker(w) BY <1>1, <1>t, <3>2
        DEF HeartbeatEmail, StopEmailWorker, KillEmailWorker, Gone
      <3> QED BY <2>1, <3>1, <3>2
    <2> QED BY <2>1 DEF EmailNext, EmailLeaseExpires, EmailFallsDue, emailVars
  <1> QED BY <1>1, <1>2 DEF Stopped

(* Every step of the workers is such a try. *)
LEMMA MailTries ==
  ASSUME EmailInv, MailClaims, [EmailNext]_emailVars, NEW e \in Emails PROVE MailTry(e)
  <1> DEFINE r == emails[e]
             t == emails'[e]
  <1>t. emails \in [Emails -> EmailRows] /\ mailer \in [Workers -> MailerStates] BY DEF EmailInv, EmailTypes
  <1>r. r \in EmailRows BY <1>t
  <1>1. ASSUME Lasts(r, t) PROVE MailTry(e) BY <1>1 DEF MailTry
  <1>2. ASSUME t.status \notin {"PROCESSING", "PENDING"} PROVE MailTry(e) BY <1>2 DEF MailTry
  <1>3. ASSUME NEW l, t = r \/ t = [r EXCEPT !.lease = l] \/ t = [r EXCEPT !.due = TRUE] PROVE MailTry(e)
    <2> HIDE DEF r, t
    <2>1. Lasts(r, t) BY <1>r, <1>3 DEF Lasts, EmailRows
    <2> QED BY <1>1, <2>1
  <1>4. ASSUME NEW st \in {"SENT", "DEAD_LETTER"}, t = EmailReleased(r, st) PROVE MailTry(e)
    <2> HIDE DEF r, t
    <2>1. t.status = st BY <1>r, <1>4, ReleasedEmail DEF EmailStatuses
    <2> QED BY <1>2, <2>1
  <1>5. ASSUME NEW w \in Workers, BuryExhaustedEmails(w) PROVE MailTry(e)
    <2>1. t = r \/ t = EmailReleased(r, "DEAD_LETTER") BY <1>5 DEF BuryExhaustedEmails, EmailReleased
    <2> QED BY <1>3, <1>4, <2>1
  <1>6. ASSUME NEW w \in Workers, ClaimNextEmail(w) PROVE MailTry(e)
    <2>1. CASE t = r BY <1>3, <2>1
    <2>2. CASE t # r
      <3>1. PICK x \in Emails :
              /\ ClaimableEmail(x) /\ emails' = [emails EXCEPT ![x] = EmailTaken(emails[x], w)]
              /\ mailer' = [mailer EXCEPT ![w] = [pc |-> "delivering", email |-> x, n |-> emails[x].attempts + 1]]
        BY <1>6, <2>2 DEF ClaimNextEmail, EmailTaken
      <3>2. x = e /\ t = EmailTaken(r, w) BY <1>t, <2>2, <3>1
      <3>3. r.attempts < MaxEmailAttempts BY <3>1, <3>2 DEF ClaimableEmail
      <3>4. mailer'[w].email = e /\ mailer'[w].n = r.attempts + 1 BY <1>t, <3>1, <3>2
      <3> HIDE DEF r, t
      <3>5. t.status = "PROCESSING" /\ t.attempts = r.attempts + 1 BY <1>r, <3>2, <3>3, ClaimedEmail
      <3>6. t.lock = w BY <1>r, <3>2 DEF EmailTaken, Claimed, EmailRows
      <3> QED BY <3>4, <3>5, <3>6 DEF MailTry, r, t
    <2> QED BY <2>1, <2>2
  <1>7. ASSUME NEW w \in Workers, FinishEmail(w) PROVE MailTry(e)
    <2>1. t = r \/ t = EmailReleased(r, "SENT") BY <1>t, <1>7 DEF FinishEmail, EmailReleased
    <2> QED BY <1>3, <1>4, <2>1
  <1>8. ASSUME NEW w \in Workers, FailClaimedEmail(w) PROVE MailTry(e)
    <2>1. \/ t = r \/ t = EmailReleased(r, "DEAD_LETTER")
          \/ /\ OwnsEmail(w) /\ mailer[w].pc = "failing" /\ mailer[w].email = e /\ mailer[w].n < MaxEmailAttempts
             /\ t = EmailDeferred(r, FALSE)
      <3>1. mailer[w].n \in Nat /\ MaxEmailAttempts \in Nat BY <1>t, EmailAssumption DEF MailerStates
      <3>2. CASE t # r
        <4>1. /\ OwnsEmail(w) /\ mailer[w].pc = "failing" /\ mailer[w].email = e
              /\ t = IF mailer[w].n >= MaxEmailAttempts THEN EmailReleased(r, "DEAD_LETTER")
                     ELSE EmailDeferred(r, FALSE)
          BY <1>t, <1>8, <3>2 DEF FailClaimedEmail, EmailReleased, EmailDeferred
        <4>2. mailer[w].n >= MaxEmailAttempts \/ mailer[w].n < MaxEmailAttempts BY <3>1
        <4> HIDE DEF r, t
        <4> QED BY <4>1, <4>2
      <3> QED BY <3>2
    <2>2. CASE /\ OwnsEmail(w) /\ mailer[w].pc = "failing" /\ mailer[w].email = e /\ mailer[w].n < MaxEmailAttempts
               /\ t = EmailDeferred(r, FALSE)
      <3>1. r.attempts < MaxEmailAttempts BY <2>2 DEF MailClaims, AtMail
      <3> HIDE DEF r, t
      <3>2. t.status = "PENDING" /\ t.attempts = r.attempts BY <1>r, <2>2, DeferredEmail
      <3>3. t.attempts # MaxEmailAttempts BY <1>r, <3>1, <3>2, EmailAssumption DEF EmailRows
      <3> QED BY <3>2, <3>3 DEF MailTry, t
    <2> QED BY <1>3, <1>4, <2>1, <2>2
  <1>9. ASSUME NEW w \in Workers, StopEmailWorker(w) PROVE MailTry(e)
    <2>1. mailer'[w] = MailerAt("stopped") BY <1>t, <1>9 DEF StopEmailWorker
    <2>2. Stopped(mailer)' BY <2>1 DEF Stopped, MailerAt
    <2>3. t = r \/ t = EmailDeferred(r, TRUE) BY <1>9 DEF StopEmailWorker, EmailDeferred
    <2>4. CASE t = EmailDeferred(r, TRUE)
      <3> HIDE DEF r, t
      <3>1. t.status = "PENDING" BY <1>r, <2>4, DeferredEmail
      <3> QED BY <2>2, <3>1 DEF MailTry, t
    <2> QED BY <1>3, <2>3, <2>4
  <1>10. ASSUME NEW w \in Workers, HeartbeatEmail(w) PROVE MailTry(e)
    <2>1. t = r \/ t = [r EXCEPT !.lease = "live"] BY <1>t, <1>10 DEF HeartbeatEmail
    <2> QED BY <1>3, <2>1
  <1>11. ASSUME NEW x \in Emails, EmailLeaseExpires(x) \/ EmailFallsDue(x) PROVE MailTry(e)
    <2>1. t = r \/ t = [r EXCEPT !.lease = "expired"] \/ t = [r EXCEPT !.due = TRUE]
      BY <1>t, <1>11 DEF EmailLeaseExpires, EmailFallsDue
    <2> QED BY <1>3, <2>1
  <1>12. CASE UNCHANGED emails BY <1>3, <1>12
  <1> HIDE DEF r, t
  <1> QED BY <1>5, <1>6, <1>7, <1>8, <1>9, <1>10, <1>11, <1>12
          DEF EmailNext, EmailWorkerStep, DeliverEmail, KillEmailWorker, emailVars

(* Mails that the workers move wait only with an attempt left, or after a stop. *)
LEMMA WorkersKeepMailsWaiting ==
  ASSUME EmailInv, MailClaims, MailsWait, [EmailNext]_emailVars PROVE MailClaims' /\ MailsWait'
  <1>1. ASSUME NEW w \in Workers, mailer'[w].pc \in AtMail, OwnsEmail(w)'
        PROVE  mailer'[w].n = emails'[mailer'[w].email].attempts
    <2> DEFINE e == mailer'[w].email
    <2>t. mailer \in [Workers -> MailerStates] BY DEF EmailInv, EmailTypes
    <2>1. mailer' \in [Workers -> MailerStates] BY EmailStep DEF EmailInv, EmailTypes
    <2>2. e \in Emails BY <1>1, <2>1 DEF MailerStates
    <2>3. MailTry(e) BY <2>2, MailTries
    <2>4. emails'[e].status = "PROCESSING" /\ emails'[e].lock = w BY <1>1 DEF OwnsEmail
    <2>5. \/ mailer[w].pc \in AtMail /\ mailer[w].email = e /\ mailer[w].n = mailer'[w].n
          \/ mailer'[w].n = emails'[e].attempts
      <3>1. MailerStep(w) BY EmailStepShape
      <3>2. mailer[w] \in MailerStates BY <2>t
      <3>3. mailer'[w] \notin {MailerAt(pc) : pc \in {"idle", "claiming"} \cup Gone}
        BY <1>1 DEF MailerAt, AtMail, Gone
      <3>4. mailer'[w] # [mailer[w] EXCEPT !.pc = "claiming"] BY <1>1, <3>2 DEF AtMail, MailerStates
      <3> DEFINE m == mailer[w]
                 k == mailer'[w]
      <3>5. CASE k = m BY <1>1, <3>5
      <3>6. CASE \E x \in Emails : /\ k = [pc |-> "delivering", email |-> x, n |-> emails[x].attempts + 1]
                                   /\ emails'[x].attempts = emails[x].attempts + 1
        BY <3>6
      <3>7. CASE m.pc \in AtMail /\ \E pc : k = [m EXCEPT !.pc = pc]
        <4> HIDE DEF m, k
        <4>1. m \in MailerStates BY <3>2 DEF m
        <4>2. k.email = m.email /\ k.n = m.n BY <3>7, <4>1 DEF MailerStates
        <4> QED BY <3>7, <4>2 DEF m, k
      <3>8. CASE m.pc \in {"delivering", "accepted"}
                 /\ (k = [m EXCEPT !.pc = "failing"] \/ k = [m EXCEPT !.pc = "accepted"])
        BY <3>7, <3>8 DEF AtMail
      <3> QED BY <3>1, <3>3, <3>4, <3>5, <3>6, <3>8 DEF MailerStep
    <2>6. CASE mailer[w].pc \in AtMail /\ mailer[w].email = e /\ mailer[w].n = mailer'[w].n
      <3>1. CASE Lasts(emails[e], emails'[e])
        <4>1. OwnsEmail(w) BY <2>4, <2>6, <3>1 DEF OwnsEmail, Lasts
        <4> QED BY <2>6, <3>1, <4>1 DEF MailClaims, Lasts
      <3>2. CASE \E v \in Workers : emails'[e].lock = v /\ mailer'[v].email = e /\ mailer'[v].n = emails'[e].attempts
        BY <2>4, <3>2
      <3> QED BY <2>3, <2>4, <3>1, <3>2 DEF MailTry
    <2> QED BY <2>5, <2>6
  <1>2. ASSUME NEW e \in Emails, StrandedEmail(e)' PROVE Stopped(mailer)'
    <2>1. MailTry(e) BY MailTries
    <2>2. CASE Lasts(emails[e], emails'[e])
      BY <1>2, <2>2, StoppedMailersStay DEF Lasts, StrandedEmail, MailsWait
    <2> QED BY <1>2, <2>1, <2>2 DEF MailTry, StrandedEmail
  <1> QED BY <1>1, <1>2 DEF MailClaims, MailsWait

(* So do the mails that a payment queues: they have all attempts left. *)
LEMMA PaymentsKeepMailsWaiting ==
  ASSUME EmailInv, MailClaims, MailsWait, PaymentNext PROVE MailClaims' /\ MailsWait'
  <1>1. UNCHANGED <<mailer, smtp>> BY PaymentsQueueMails
  <1>2. emails' = emails \/ \E keys : emails' = WithEmails(keys) BY PaymentsQueueMails
  <1>3. PendingEmail.status = "PENDING" /\ PendingEmail.attempts = 0 BY DEF PendingEmail, NoEmailRow
  <1>4. \A e \in Emails : emails'[e] = emails[e] \/ emails'[e] = PendingEmail BY <1>2 DEF WithEmails
  <1>5. \A w \in Workers : mailer[w].pc \in AtMail => mailer[w].email \in Emails
    BY DEF EmailInv, EmailTypes, MailerStates
  <1>6. MailClaims' BY <1>1, <1>3, <1>4, <1>5 DEF MailClaims, OwnsEmail
  <1>7. MailsWait' BY <1>1, <1>3, <1>4, EmailAssumption DEF MailsWait, StrandedEmail, Stopped
  <1> QED BY <1>6, <1>7

(* The same of the auto-replies. *)
TriggerClaims == \A w \in Workers : replier[w].pc \in AtTrigger /\ OwnsTrigger(w) => replier[w].n = TriggerOf(w).attempts
TriggersWait == \A t \in Triggers : StrandedTrigger(t) => Stopped(replier)

TriggerTry(t) ==
  /\ triggers'[t].status = "PROCESSING" =>
       \/ Lasts(triggers[t], triggers'[t])
       \/ \E w \in Workers : /\ triggers'[t].lock = w
                             /\ replier'[w].trigger = t /\ replier'[w].n = triggers'[t].attempts
  /\ triggers'[t].status = "PENDING" =>
       Lasts(triggers[t], triggers'[t]) \/ triggers'[t].attempts < MaxTriggerAttempts \/ Stopped(replier)'

(* A worker goes on with its trigger, takes one it claims, or has none. *)
ReplierMove(w) ==
  \/ replier'[w].pc \notin AtTrigger
  \/ /\ replier[w].pc \in AtTrigger
     /\ replier'[w].trigger = replier[w].trigger /\ replier'[w].n = replier[w].n
  \/ replier'[w].n = triggers'[replier'[w].trigger].attempts

(* Every step moves one worker at most, and never one that has stopped. *)
LEMMA ReplierMoves ==
  ASSUME ReplyInv, [ReplyNext]_replyVars, NEW v \in Workers
  PROVE  ReplierMove(v) /\ (replier[v].pc = "stopped" => replier'[v] = replier[v])
  <1>t. triggers \in [Triggers -> TriggerRows] /\ replier \in [Workers -> ReplierStates] BY DEF ReplyInv, ReplyTypes
  <1>v. replier[v] \in ReplierStates BY <1>t
  <1> DEFINE Goal == ReplierMove(v) /\ (replier[v].pc = "stopped" => replier'[v] = replier[v])
  <1>1. ASSUME replier'[v] = replier[v] PROVE Goal BY <1>1 DEF ReplierMove
  <1>2. ASSUME NEW w \in Workers, NEW pc \in {"idle", "claiming"} \cup Gone, replier[w].pc # "stopped",
               replier' = [replier EXCEPT ![w] = ReplierAt(pc)]
        PROVE  Goal
    <2>1. CASE v = w
      <3>1. replier'[v] = ReplierAt(pc) BY <1>t, <1>2, <2>1
      <3>2. ReplierAt(pc).pc = pc /\ pc \notin AtTrigger BY DEF ReplierAt, AtTrigger, Gone
      <3> QED BY <1>2, <2>1, <3>1, <3>2 DEF ReplierMove
    <2>2. CASE v # w
      <3>1. replier'[v] = replier[v] BY <1>t, <1>2, <2>2
      <3> QED BY <1>1, <3>1
    <2> QED BY <2>1, <2>2
  <1>3. ASSUME NEW w \in Workers, NEW pc, replier[w].pc \in AtTrigger, replier' = [replier EXCEPT ![w].pc = pc]
        PROVE  Goal
    <2>1. CASE v = w
      <3> DEFINE m == replier[v]
                 k == replier'[v]
      <3>1. k = [m EXCEPT !.pc = pc] /\ m.pc \in AtTrigger BY <1>t, <1>3, <2>1
      <3>2. m \in ReplierStates BY <1>v
      <3> HIDE DEF m, k
      <3>3. k.trigger = m.trigger /\ k.n = m.n /\ m.pc # "stopped" BY <3>1, <3>2 DEF ReplierStates, AtTrigger
      <3> QED BY <3>1, <3>3 DEF ReplierMove, m, k
    <2>2. CASE v # w
      <3>1. replier'[v] = replier[v] BY <1>t, <1>3, <2>2
      <3> QED BY <1>1, <3>1
    <2> QED BY <2>1, <2>2
  <1> HIDE DEF Goal
  <1>4. ASSUME NEW w \in Workers, BuryTriggers(w) PROVE Goal
    BY <1>2, <1>4 DEF BuryTriggers
  <1>5. ASSUME NEW w \in Workers, ClaimTrigger(w) PROVE Goal
    <2>1. CASE replier' = [replier EXCEPT ![w] = ReplierAt("idle")] BY <1>2, <1>5, <2>1 DEF ClaimTrigger
    <2>2. CASE replier' # [replier EXCEPT ![w] = ReplierAt("idle")]
      <3>1. PICK t \in Triggers :
              /\ ClaimableTrigger(t) /\ triggers' = [triggers EXCEPT ![t] = TriggerTaken(triggers[t], w)]
              /\ replier' = [replier EXCEPT ![w] =
                   [pc |-> Resume(t), trigger |-> t, n |-> triggers[t].attempts + 1, version |-> triggers[t].version]]
        BY <1>5, <2>2 DEF ClaimTrigger, TriggerTaken
      <3>2. CASE v = w
        <4>1. replier'[v].trigger = t /\ replier'[v].n = triggers[t].attempts + 1 BY <1>t, <3>1, <3>2
        <4>2. triggers'[t] = TriggerTaken(triggers[t], w) /\ triggers[t] \in TriggerRows BY <1>t, <3>1
        <4> DEFINE r == triggers[t]
                   q == triggers'[t]
        <4> HIDE DEF r, q
        <4>3. q.attempts = r.attempts + 1
          <5>1. r \in TriggerRows /\ q = TriggerTaken(r, w) BY <4>2 DEF r, q
          <5> QED BY <5>1 DEF TriggerTaken, Claimed, TriggerRows
        <4>4. replier[w].pc # "stopped" BY <1>5 DEF ClaimTrigger
        <4>5. replier'[v].n = triggers'[replier'[v].trigger].attempts BY <4>1, <4>3 DEF r, q
        <4> QED BY <3>2, <4>4, <4>5 DEF ReplierMove, Goal
      <3>3. CASE v # w
        <4>1. replier'[v] = replier[v] BY <1>t, <3>1, <3>3
        <4> QED BY <1>1, <4>1
      <3> QED BY <3>2, <3>3
    <2> QED BY <2>1, <2>2
  <1>6. ASSUME NEW w \in Workers, SelectRule(w) PROVE Goal
    <2>p. replier[w].pc \in AtTrigger /\ replier[w].pc # "stopped" BY <1>6 DEF SelectRule, AtTrigger
    <2>1. CASE replier' = [replier EXCEPT ![w] = ReplierAt("idle")] BY <1>2, <2>p, <2>1
    <2>2. CASE replier' = [replier EXCEPT ![w].pc = "failing"] BY <1>3, <2>p, <2>2
    <2>3. CASE replier' = [replier EXCEPT ![w].pc = "snapshotting", ![w].version = rule.version]
      <3>1. CASE v = w
        <4>1. replier'[v].trigger = replier[v].trigger /\ replier'[v].n = replier[v].n
          BY <1>t, <2>3, <3>1 DEF ReplierStates
        <4> QED BY <2>p, <3>1, <4>1 DEF ReplierMove, Goal
      <3>2. CASE v # w
        <4>1. replier'[v] = replier[v] BY <1>t, <2>3, <3>2
        <4> QED BY <1>1, <4>1
      <3> QED BY <3>1, <3>2
    <2> QED BY <1>6, <2>1, <2>2, <2>3 DEF SelectRule
  <1>7. ASSUME NEW w \in Workers, \/ SnapshotRule(w) \/ CheckTrigger(w) \/ EnqueueReply(w)
                                  \/ RecordReply(w) \/ FailTrigger(w)
        PROVE  Goal
    <2>p. replier[w].pc \in AtTrigger /\ replier[w].pc # "stopped"
      BY <1>7 DEF SnapshotRule, CheckTrigger, EnqueueReply, RecordReply, FailTrigger, AtTrigger
    <2>1. \/ replier' = [replier EXCEPT ![w] = ReplierAt("idle")]
          \/ \E pc : replier' = [replier EXCEPT ![w].pc = pc]
      BY <1>7 DEF SnapshotRule, LetThrough, CheckTrigger, EnqueueReply, RecordReply, FailTrigger
    <2> QED BY <1>2, <1>3, <2>p, <2>1
  <1>8. ASSUME NEW w \in Workers, StopReplier(w) \/ KillReplier(w) PROVE Goal
    <2>1. /\ replier[w].pc # "stopped"
          /\ \E pc \in Gone : replier' = [replier EXCEPT ![w] = ReplierAt(pc)]
      BY <1>8 DEF StopReplier, KillReplier, Gone
    <2> QED BY <1>2, <2>1
  <1>9. ASSUME UNCHANGED replier PROVE Goal BY <1>1, <1>9
  <1>10. ASSUME NEW w \in Workers, ReplierStep(w) PROVE Goal BY <1>4, <1>5, <1>6, <1>7, <1>10 DEF ReplierStep
  <1>11. \/ \E w \in Workers : ReplierStep(w) \/ StopReplier(w) \/ KillReplier(w)
         \/ UNCHANGED replier
    BY DEF ReplyNext, HeartbeatTrigger, IngestMessage, TriggerLeaseExpires, TriggerFallsDue, EditRule, TimePasses,
           replyVars
  <1>12. Goal BY <1>8, <1>9, <1>10, <1>11
  <1> QED BY <1>12 DEF Goal

(* Every step is such a try. *)
LEMMA TriggerTries ==
  ASSUME ReplyInv, TriggerClaims, \A t \in Triggers : triggers[t].status = "none" => triggers[t].attempts = 0,
         [ReplyNext]_replyVars, NEW t \in Triggers
  PROVE  TriggerTry(t) /\ (triggers'[t].status = "none" => triggers'[t].attempts = 0)
  <1> DEFINE r == triggers[t]
             q == triggers'[t]
             Goal == TriggerTry(t) /\ (triggers'[t].status = "none" => triggers'[t].attempts = 0)
  <1>t. triggers \in [Triggers -> TriggerRows] /\ replier \in [Workers -> ReplierStates] BY DEF ReplyInv, ReplyTypes
  <1>r. r \in TriggerRows BY <1>t
  <1>0. MaxTriggerAttempts \in Nat \ {0} BY TriggerAssumption
  <1>1. ASSUME Lasts(r, q) PROVE Goal BY <1>1 DEF TriggerTry, Lasts
  <1>2. ASSUME NEW st \in FinishedTrigger, q = Finished(r, st) PROVE Goal
    <2> HIDE DEF r, q
    <2>1. q.status = st BY <1>r, <1>2 DEF Finished, Released, TriggerRows
    <2> QED BY <2>1 DEF TriggerTry, FinishedTrigger, q
  <1>3. ASSUME NEW x, \/ q = r \/ q = [r EXCEPT !.lease = x] \/ q = [r EXCEPT !.due = TRUE]
                      \/ q = [r EXCEPT !.version = x]
        PROVE  Goal
    <2> HIDE DEF r, q
    <2>1. Lasts(r, q) BY <1>r, <1>3 DEF Lasts, TriggerRows
    <2> QED BY <1>1, <2>1 DEF r, q
  <1>4. ASSUME NEW x \in Triggers, IngestMessage(x) PROVE Goal
    <2>1. q = r \/ (r.status = "none" /\ q = [r EXCEPT !.status = "PENDING"]) BY <1>t, <1>4 DEF IngestMessage
    <2>2. CASE r.status = "none" /\ q = [r EXCEPT !.status = "PENDING"]
      <3>1. r.attempts = 0 BY <2>2
      <3> HIDE DEF r, q
      <3>2. q.status = "PENDING" /\ q.attempts = 0 BY <1>r, <2>2, <3>1 DEF TriggerRows
      <3> QED BY <1>0, <3>2 DEF TriggerTry, q
    <2> QED BY <1>3, <2>1, <2>2
  <1>5. ASSUME NEW w \in Workers, BuryTriggers(w) PROVE Goal
    <2>1. q = r \/ q = Finished(r, "FAILED") BY <1>5 DEF BuryTriggers
    <2> QED BY <1>2, <1>3, <2>1 DEF FinishedTrigger
  <1>6. ASSUME NEW w \in Workers, ClaimTrigger(w) PROVE Goal
    <2>1. CASE q = r BY <1>3, <2>1
    <2>2. CASE q # r
      <3>1. PICK x \in Triggers :
              /\ triggers' = [triggers EXCEPT ![x] = TriggerTaken(triggers[x], w)]
              /\ replier' = [replier EXCEPT ![w] =
                   [pc |-> Resume(x), trigger |-> x, n |-> triggers[x].attempts + 1, version |-> triggers[x].version]]
        BY <1>6, <2>2 DEF ClaimTrigger, TriggerTaken
      <3>2. x = t /\ q = TriggerTaken(r, w) BY <1>t, <2>2, <3>1
      <3>3. replier'[w].trigger = t /\ replier'[w].n = r.attempts + 1 BY <1>t, <3>1, <3>2
      <3> HIDE DEF r, q
      <3>4. q.status = "PROCESSING" /\ q.attempts = r.attempts + 1 /\ q.lock = w
        BY <1>r, <3>2 DEF TriggerTaken, Claimed, TriggerRows
      <3> QED BY <3>3, <3>4 DEF TriggerTry, r, q
    <2> QED BY <2>1, <2>2
  <1>7. ASSUME NEW w \in Workers, SelectRule(w) \/ RecordReply(w) PROVE Goal
    <2>1. \E st \in FinishedTrigger : q = r \/ q = Finished(r, st)
      BY <1>t, <1>7 DEF SelectRule, RecordReply, Write, TriggerOf, FinishedTrigger
    <2> QED BY <1>2, <1>3, <2>1
  <1>8. ASSUME NEW w \in Workers, SnapshotRule(w) PROVE Goal
    <2>1. CASE LetThrough(w)
      <3>1. q = r \/ q = [r EXCEPT !.version = replier[w].version] BY <1>t, <2>1 DEF LetThrough
      <3> QED BY <1>3, <3>1
    <2>2. CASE Write(w, Finished(TriggerOf(w), "SKIPPED"))
      <3>1. q = r \/ q = Finished(r, "SKIPPED") BY <1>t, <2>2 DEF Write, TriggerOf
      <3> QED BY <1>2, <1>3, <3>1 DEF FinishedTrigger
    <2>3. CASE UNCHANGED triggers BY <1>3, <2>3
    <2> QED BY <1>8, <2>1, <2>2, <2>3 DEF SnapshotRule
  <1>9. ASSUME NEW w \in Workers, CheckTrigger(w) \/ HeartbeatTrigger(w) PROVE Goal
    <2>1. q = r \/ q = [r EXCEPT !.lease = "live"] BY <1>t, <1>9 DEF CheckTrigger, HeartbeatTrigger
    <2> QED BY <1>3, <2>1
  <1>10. ASSUME NEW w \in Workers, FailTrigger(w) PROVE Goal
    <2>1. \/ \E st \in FinishedTrigger : q = r \/ q = Finished(r, st)
          \/ /\ OwnsTrigger(w) /\ replier[w].pc \in AtTrigger /\ replier[w].trigger = t
             /\ replier[w].n < MaxTriggerAttempts /\ q = TriggerDeferred(r, FALSE)
      <3>1. replier[w].n \in Nat /\ replier[w].pc \in AtTrigger
        <4>1. replier[w].pc \in AtTrigger BY <1>10 DEF FailTrigger, AtTrigger
        <4>2. replier[w].n \in 0..MaxTriggerAttempts BY <1>t DEF ReplierStates
        <4> QED BY <1>0, <4>1, <4>2
      <3>2. \/ triggers' = triggers
            \/ Write(w, Finished(TriggerOf(w), "SKIPPED")) \/ Write(w, Finished(TriggerOf(w), "FAILED"))
            \/ ~(replier[w].n >= MaxTriggerAttempts) /\ Write(w, TriggerDeferred(TriggerOf(w), FALSE))
        BY <1>10 DEF FailTrigger, TriggerDeferred
      <3>3. CASE Write(w, Finished(TriggerOf(w), "SKIPPED")) \/ Write(w, Finished(TriggerOf(w), "FAILED"))
        BY <1>t, <3>3 DEF Write, TriggerOf, FinishedTrigger
      <3>4. CASE ~(replier[w].n >= MaxTriggerAttempts) /\ Write(w, TriggerDeferred(TriggerOf(w), FALSE))
        <4>1. replier[w].n < MaxTriggerAttempts BY <1>0, <3>1, <3>4
        <4>2. q = r \/ (OwnsTrigger(w) /\ replier[w].trigger = t /\ q = TriggerDeferred(r, FALSE))
          BY <1>t, <3>4 DEF Write, TriggerOf
        <4> QED BY <3>1, <4>1, <4>2 DEF FinishedTrigger
      <3> QED BY <3>2, <3>3, <3>4 DEF FinishedTrigger
    <2>2. CASE /\ OwnsTrigger(w) /\ replier[w].pc \in AtTrigger /\ replier[w].trigger = t
               /\ replier[w].n < MaxTriggerAttempts /\ q = TriggerDeferred(r, FALSE)
      <3>1. r.attempts < MaxTriggerAttempts BY <2>2 DEF TriggerClaims, TriggerOf
      <3> HIDE DEF r, q
      <3>2. q.status = "PENDING" /\ q.attempts = r.attempts
        BY <1>r, <2>2 DEF TriggerDeferred, Finished, Released, TriggerRows
      <3> QED BY <3>1, <3>2 DEF TriggerTry, r, q
    <2> QED BY <1>2, <1>3, <2>1, <2>2
  <1>11. ASSUME NEW w \in Workers, StopReplier(w) PROVE Goal
    <2>1. replier'[w] = ReplierAt("stopped") BY <1>t, <1>11 DEF StopReplier
    <2>2. Stopped(replier)'
      <3>0. ReplierAt("stopped").pc = "stopped" BY DEF ReplierAt
      <3>1. replier'[w].pc = "stopped" BY <2>1, <3>0
      <3> QED BY <3>1 DEF Stopped
    <2>3. q = r \/ q = TriggerDeferred(r, TRUE) BY <1>11 DEF StopReplier, TriggerDeferred
    <2>4. CASE q = TriggerDeferred(r, TRUE)
      <3> HIDE DEF r, q
      <3>1. q.status = "PENDING" BY <1>r, <2>4, DeferredRow
      <3> QED BY <2>2, <3>1 DEF TriggerTry, q
    <2> QED BY <1>3, <2>3, <2>4
  <1>12. ASSUME NEW x \in Triggers, TriggerLeaseExpires(x) \/ TriggerFallsDue(x) PROVE Goal
    <2>1. q = r \/ q = [r EXCEPT !.lease = "expired"] \/ q = [r EXCEPT !.due = TRUE]
      BY <1>t, <1>12 DEF TriggerLeaseExpires, TriggerFallsDue
    <2> QED BY <1>3, <2>1
  <1>13. ASSUME UNCHANGED triggers PROVE Goal BY <1>3, <1>13
  <1> HIDE DEF Goal, r, q
  <1>14. ASSUME NEW w \in Workers, ReplierStep(w) PROVE Goal
    BY <1>5, <1>6, <1>7, <1>8, <1>9, <1>10, <1>13, <1>14 DEF ReplierStep, EnqueueReply
  <1>15. \/ \E w \in Workers : ReplierStep(w) \/ HeartbeatTrigger(w) \/ StopReplier(w)
         \/ \E x \in Triggers : IngestMessage(x) \/ TriggerLeaseExpires(x) \/ TriggerFallsDue(x)
         \/ UNCHANGED triggers
    BY DEF ReplyNext, KillReplier, EditRule, TimePasses, replyVars
  <1>16. Goal BY <1>4, <1>9, <1>11, <1>12, <1>13, <1>14, <1>15
  <1> QED BY <1>16 DEF Goal

(* Messages wait for their reply only with an attempt left, or after a stop. *)
TriggersWaitInv ==
  /\ TriggerClaims /\ TriggersWait
  /\ \A t \in Triggers : triggers[t].status = "none" => triggers[t].attempts = 0

(* Every step keeps it so. *)
LEMMA TriggersKeepWaiting ==
  ASSUME ReplyInv, TriggersWaitInv, [ReplyNext]_replyVars PROVE TriggersWaitInv'
  <1>i. TriggerClaims /\ TriggersWait BY DEF TriggersWaitInv
  <1>0. \A t \in Triggers : TriggerTry(t) /\ (triggers'[t].status = "none" => triggers'[t].attempts = 0)
    BY TriggerTries DEF TriggersWaitInv
  <1>1. ASSUME NEW w \in Workers, replier'[w].pc \in AtTrigger, OwnsTrigger(w)'
        PROVE  replier'[w].n = TriggerOf(w)'.attempts
    <2> DEFINE t == replier'[w].trigger
    <2>1. replier' \in [Workers -> ReplierStates] BY ReplyStep DEF ReplyInv, ReplyTypes
    <2>2. t \in Triggers BY <1>1, <2>1 DEF ReplierStates
    <2>3. triggers'[t].status = "PROCESSING" /\ triggers'[t].lock = w BY <1>1 DEF OwnsTrigger, TriggerOf
    <2>4. CASE /\ replier[w].pc \in AtTrigger /\ replier[w].trigger = t /\ replier[w].n = replier'[w].n
               /\ Lasts(triggers[t], triggers'[t])
      <3>1. OwnsTrigger(w) BY <2>3, <2>4 DEF OwnsTrigger, TriggerOf, Lasts
      <3> QED BY <1>i, <2>4, <3>1 DEF TriggerClaims, TriggerOf, Lasts
    <2>5. CASE replier'[w].n = triggers'[t].attempts BY <2>5 DEF TriggerOf
    <2> QED BY <1>0, <1>1, <2>2, <2>3, <2>4, <2>5, ReplierMoves DEF ReplierMove, TriggerTry
  <1>2. ASSUME NEW t \in Triggers, StrandedTrigger(t)' PROVE Stopped(replier)'
    <2>1. CASE Lasts(triggers[t], triggers'[t])
      <3>1. Stopped(replier) BY <1>i, <1>2, <2>1 DEF Lasts, StrandedTrigger, TriggersWait
      <3> QED BY <3>1, ReplierMoves DEF Stopped
    <2>2. triggers'[t].attempts \in Nat BY ReplyStep DEF ReplyInv, ReplyTypes, TriggerRows
    <2> QED BY <1>0, <1>2, <2>1, <2>2, TriggerAssumption DEF TriggerTry, StrandedTrigger
  <1> QED BY <1>0, <1>1, <1>2 DEF TriggersWaitInv, TriggerClaims, TriggersWait

(* The same of the webhooks, once for the events and once for their deliveries. *)
EventClaims == \A w \in Workers : sender[w].pc \in AtEvent /\ OwnsEvent(w) => sender[w].n = EventOf(w).attempts
WebhooksWait ==
  /\ \A e \in Events : StrandedEvent(e) => Stopped(sender)
  /\ \A d \in Deliveries : StrandedDelivery(d) => Stopped(sender)

EventTry(e) ==
  /\ outbox'[e].status = "PROCESSING" =>
       \/ Lasts(outbox[e], outbox'[e])
       \/ \E w \in Workers : outbox'[e].lock = w /\ sender'[w].row = e /\ sender'[w].n = outbox'[e].attempts
  /\ outbox'[e].status = "PENDING" =>
       Lasts(outbox[e], outbox'[e]) \/ outbox'[e].attempts < MaxOutboxAttempts \/ Stopped(sender)'

(* A worker goes on with its event, takes one it claims, or has none. *)
EventSenderMove(w) ==
  \/ sender'[w].pc \notin AtEvent
  \/ sender[w].pc \in AtEvent /\ sender'[w].row = sender[w].row /\ sender'[w].n = sender[w].n
  \/ sender'[w].n = outbox'[sender'[w].row].attempts

(* Every step moves one worker at most, and never one that has stopped. *)
LEMMA EventSenderMoves ==
  ASSUME WebhookTypes, [WebhookNext]_webhookVars, NEW v \in Workers
  PROVE  EventSenderMove(v) /\ (sender[v].pc = "stopped" => sender'[v] = sender[v])
  <1>t. outbox \in [Events -> EventRows] /\ sender \in [Workers -> SenderStates] BY DEF WebhookTypes
  <1>v. sender[v] \in SenderStates BY <1>t
  <1> DEFINE Goal == EventSenderMove(v) /\ (sender[v].pc = "stopped" => sender'[v] = sender[v])
  <1>1. ASSUME sender'[v] = sender[v] PROVE Goal BY <1>1 DEF EventSenderMove
  <1>2. ASSUME NEW w \in Workers, NEW s, sender[w].pc # "stopped", sender' = [sender EXCEPT ![w] = s],
               \/ s.pc \notin AtEvent
               \/ sender[w].pc \in AtEvent /\ s.row = sender[w].row /\ s.n = sender[w].n
               \/ s.n = outbox'[s.row].attempts
        PROVE  Goal
    <2>1. CASE v = w
      <3>1. sender'[v] = s BY <1>t, <1>2, <2>1
      <3> QED BY <1>2, <2>1, <3>1 DEF EventSenderMove
    <2>2. CASE v # w
      <3>1. sender'[v] = sender[v] BY <1>t, <1>2, <2>2
      <3> QED BY <1>1, <3>1
    <2> QED BY <2>1, <2>2
  <1> HIDE DEF Goal
  <1>3. ASSUME NEW w \in Workers, NEW pc \in {"polling", "claiming event", "sweeping", "closing", "claiming"} \cup Gone,
               sender[w].pc # "stopped", sender' = [sender EXCEPT ![w] = SenderAt(pc)]
        PROVE  Goal
    <2>1. SenderAt(pc).pc \notin AtEvent BY DEF SenderAt, AtEvent, Gone
    <2> QED BY <1>2, <1>3, <2>1
  <1>4. ASSUME NEW w \in Workers, NEW pc, sender[w].pc \in AtEvent \cup AtDelivery,
               sender[w].pc \in AtEvent \/ pc \notin AtEvent, sender' = [sender EXCEPT ![w].pc = pc]
        PROVE  Goal
    <2> DEFINE m == sender[w]
               s == [m EXCEPT !.pc = pc]
    <2>1. sender' = [sender EXCEPT ![w] = s] BY <1>4
    <2>2. m \in SenderStates /\ m.pc # "stopped" BY <1>t, <1>4 DEF AtEvent, AtDelivery
    <2>3. s.pc = pc /\ s.row = m.row /\ s.n = m.n BY <2>2 DEF SenderStates
    <2> HIDE DEF s
    <2> QED BY <1>2, <1>4, <2>1, <2>2, <2>3
  <1>5. ASSUME NEW w \in Workers, ClaimEvent(w) PROVE Goal
    <2>p. sender[w].pc # "stopped" BY <1>5 DEF ClaimEvent
    <2>1. CASE sender' = [sender EXCEPT ![w] = SenderAt("sweeping")] BY <1>3, <2>p, <2>1
    <2>2. CASE sender' # [sender EXCEPT ![w] = SenderAt("sweeping")]
      <3>1. PICK e \in Events :
              /\ outbox' = [outbox EXCEPT ![e] = TakenRow(outbox[e], w)]
              /\ sender' = [sender EXCEPT ![w] =
                   [SenderAt("reading targets") EXCEPT !.row = e, !.n = outbox[e].attempts + 1]]
        BY <1>5, <2>2 DEF ClaimEvent, TakenRow
      <3> DEFINE s == [SenderAt("reading targets") EXCEPT !.row = e, !.n = outbox[e].attempts + 1]
                 r == outbox[e]
                 q == outbox'[e]
      <3>2. s.row = e /\ s.n = r.attempts + 1 BY DEF SenderAt
      <3>3. q = TakenRow(r, w) /\ r \in EventRows BY <1>t, <3>1
      <3>4. sender' = [sender EXCEPT ![w] = s] BY <3>1
      <3> HIDE DEF s, r, q
      <3>5. q.attempts = r.attempts + 1 BY <3>3 DEF TakenRow, Claimed, EventRows
      <3>6. s.n = outbox'[s.row].attempts BY <3>2, <3>5 DEF q
      <3> QED BY <1>2, <2>p, <3>4, <3>6
    <2> QED BY <2>1, <2>2
  <1>6. ASSUME NEW w \in Workers, ReadTargets(w) PROVE Goal
    <2>p. sender[w].pc = "reading targets" /\ sender[w].pc \in AtEvent BY <1>6 DEF ReadTargets, AtEvent
    <2>1. CASE sender' = [sender EXCEPT ![w] = SenderAt("sweeping")] BY <1>3, <2>p, <2>1
    <2>2. CASE sender' = [sender EXCEPT ![w].pc = "event failed"] BY <1>4, <2>p, <2>2
    <2>3. CASE sender' = [sender EXCEPT ![w].pc = "fanning out",
                            ![w].targets = {x \in Endpoints : endpoints[x].state = "active"}]
      <3> DEFINE m == sender[w]
                 xs == {x \in Endpoints : endpoints[x].state = "active"}
                 s == [m EXCEPT !.pc = "fanning out", !.targets = xs]
      <3>1. sender' = [sender EXCEPT ![w] = s] BY <2>3
      <3>2. m \in SenderStates BY <1>t
      <3> HIDE DEF xs
      <3>3. s.row = m.row /\ s.n = m.n BY <3>2 DEF SenderStates
      <3> HIDE DEF s
      <3> QED BY <1>2, <2>p, <3>1, <3>3
    <2> QED BY <1>6, <2>1, <2>2, <2>3 DEF ReadTargets
  <1>7. ASSUME NEW w \in Workers, FanOut(w) \/ FailEvent(w) PROVE Goal
    <2>p. sender[w].pc \in AtEvent /\ sender[w].pc # "stopped" BY <1>7 DEF FanOut, FailEvent, AtEvent
    <2>1. \/ sender' = [sender EXCEPT ![w] = SenderAt("sweeping")]
          \/ sender' = [sender EXCEPT ![w] = SenderAt("polling")]
          \/ sender' = [sender EXCEPT ![w].pc = "event failed"]
      BY <1>7 DEF FanOut, FailEvent
    <2> QED BY <1>3, <1>4, <2>p, <2>1
  <1>8. ASSUME NEW w \in Workers, BuryEvents(w) \/ BuryDeliveries(w) \/ CloseOrphanedAttempts(w) PROVE Goal
    BY <1>3, <1>8 DEF BuryEvents, BuryDeliveries, CloseOrphanedAttempts
  <1>9. ASSUME NEW w \in Workers, ClaimDelivery(w) PROVE Goal
    <2>p. sender[w].pc # "stopped" BY <1>9 DEF ClaimDelivery
    <2>1. \/ sender' = [sender EXCEPT ![w] = SenderAt("polling")]
          \/ \E d \in Deliveries : sender' = [sender EXCEPT ![w] =
               [SenderAt("checking") EXCEPT !.row = d, !.n = deliveries[d].attempts + 1,
                                            !.active = (endpoints[d[2]].state = "active")]]
      <3> DEFINE claimable == {d \in Deliveries :
                                Claimable(deliveries[d], {"PENDING", "RETRYING"}, MaxDeliveryAttempts)}
      <3>1. \A d \in claimable : d \in Deliveries OBVIOUS
      <3>2. \/ sender' = [sender EXCEPT ![w] = SenderAt("polling")]
            \/ \E d \in claimable : sender' = [sender EXCEPT ![w] =
                 [SenderAt("checking") EXCEPT !.row = d, !.n = deliveries[d].attempts + 1,
                                              !.active = (endpoints[d[2]].state = "active")]]
        BY <1>9, Zenon DEF ClaimDelivery
      <3> HIDE DEF claimable
      <3> QED BY <3>1, <3>2, Zenon
    <2>2. ASSUME NEW d, NEW n, NEW a,
                 sender' = [sender EXCEPT ![w] = [SenderAt("checking") EXCEPT !.row = d, !.n = n, !.active = a]]
          PROVE  Goal
      <3> DEFINE s == [SenderAt("checking") EXCEPT !.row = d, !.n = n, !.active = a]
      <3>1. s = HasDelivery(d, n, a) BY TakesDelivery
      <3>2. s.pc = "checking" BY <3>1 DEF HasDelivery
      <3>3. sender' = [sender EXCEPT ![w] = s] BY <2>2
      <3> HIDE DEF s
      <3> QED BY <1>2, <2>p, <3>2, <3>3 DEF AtEvent
    <2>3. CASE sender' = [sender EXCEPT ![w] = SenderAt("polling")] BY <1>3, <2>p, <2>3
    <2>4. ASSUME NEW d \in Deliveries,
                 sender' = [sender EXCEPT ![w] =
                   [SenderAt("checking") EXCEPT !.row = d, !.n = deliveries[d].attempts + 1,
                                                !.active = (endpoints[d[2]].state = "active")]]
          PROVE  Goal
      BY <2>2, <2>4
    <2> QED BY <2>1, <2>3, <2>4
  <1>10. ASSUME NEW w \in Workers,
                CheckOwned(w) \/ OpenAttempt(w) \/ CancelDisabled(w) \/ Post(w) \/ Complete(w) \/ FailDelivery(w)
         PROVE  Goal
    <2>p. sender[w].pc \in AtDelivery /\ sender[w].pc # "stopped"
      BY <1>10 DEF CheckOwned, OpenAttempt, CancelDisabled, Post, Complete, FailDelivery, AtDelivery
    <2>1. \/ sender' = [sender EXCEPT ![w] = SenderAt("polling")]
          \/ \E pc \in AtDelivery : sender' = [sender EXCEPT ![w].pc = pc]
      <3>1. CASE CheckOwned(w) BY <3>1 DEF CheckOwned, AtDelivery
      <3>2. CASE OpenAttempt(w) BY <3>2 DEF OpenAttempt, AtDelivery
      <3>3. CASE CancelDisabled(w) \/ Post(w) BY <3>3 DEF CancelDisabled, Post, AtDelivery
      <3>4. CASE Complete(w) \/ FailDelivery(w) BY <3>4 DEF Complete, FailDelivery, AtDelivery
      <3> QED BY <1>10, <3>1, <3>2, <3>3, <3>4
    <2>2. \A pc \in AtDelivery : pc \notin AtEvent BY DEF AtDelivery, AtEvent
    <2> QED BY <1>3, <1>4, <2>p, <2>1, <2>2
  <1>11. ASSUME NEW w \in Workers, StopSender(w) \/ KillSender(w) PROVE Goal
    <2>1. sender[w].pc # "stopped" /\ \E pc \in Gone : sender' = [sender EXCEPT ![w] = SenderAt(pc)]
      BY <1>11 DEF StopSender, KillSender, Gone
    <2> QED BY <1>3, <2>1
  <1>12. ASSUME UNCHANGED sender PROVE Goal BY <1>1, <1>12
  <1>13. ASSUME NEW w \in Workers, SenderStep(w) PROVE Goal
    BY <1>5, <1>6, <1>7, <1>8, <1>9, <1>10, <1>13 DEF SenderStep
  <1>14. \/ \E w \in Workers : SenderStep(w) \/ StopSender(w) \/ KillSender(w)
         \/ UNCHANGED sender
    BY DEF WebhookNext, HeartbeatWebhook, PublishEvent, EventLeaseExpires, QueueTest, Replay, ChangeEndpoint,
           DeliveryLeaseExpires, WebhookFallsDue, webhookVars
  <1>15. Goal BY <1>11, <1>12, <1>13, <1>14
  <1> QED BY <1>15 DEF Goal

(* Every step is such a try of every event. *)
LEMMA EventTries ==
  ASSUME FanOutInv, EventClaims, [WebhookNext]_webhookVars, NEW e \in Events PROVE EventTry(e)
  <1> DEFINE r == outbox[e]
             q == outbox'[e]
  <1>t. outbox \in [Events -> EventRows] /\ sender \in [Workers -> SenderStates] BY DEF FanOutInv, WebhookTypes
  <1>r. r \in EventRows BY <1>t
  <1>0. MaxOutboxAttempts \in Nat \ {0} BY WebhookAssumption
  <1>1. ASSUME Lasts(r, q) PROVE EventTry(e) BY <1>1 DEF EventTry
  <1>2. ASSUME q.status \notin {"PROCESSING", "PENDING"} PROVE EventTry(e) BY <1>2 DEF EventTry
  <1>3. ASSUME NEW l, q = r \/ q = [r EXCEPT !.lease = l] \/ q = [r EXCEPT !.due = TRUE] PROVE EventTry(e)
    <2> HIDE DEF r, q
    <2>1. Lasts(r, q) BY <1>r, <1>3 DEF Lasts, EventRows
    <2> QED BY <1>1, <2>1
  <1>4. ASSUME NEW st \in {"DISPATCHED", "DEAD_LETTER"},
               \/ q = WithStatus(r, st) \/ q = [WithStatus(r, st) EXCEPT !.skipped = TRUE]
               \/ q = [r EXCEPT !.status = st]
        PROVE  EventTry(e)
    <2> HIDE DEF r, q
    <2>1. q.status = st BY <1>r, <1>4 DEF WithStatus, Released, EventRows
    <2> QED BY <1>2, <2>1
  <1>5. ASSUME NEW x \in Events, PublishEvent(x) PROVE EventTry(e)
    <2>1. q = r \/ (r.status = "none" /\ q = [r EXCEPT !.status = "PENDING"]) BY <1>t, <1>5 DEF PublishEvent
    <2>2. CASE r.status = "none" /\ q = [r EXCEPT !.status = "PENDING"]
      <3>1. r.attempts = 0 BY <2>2 DEF FanOutInv
      <3> HIDE DEF r, q
      <3>2. q.status = "PENDING" /\ q.attempts = 0 BY <1>r, <2>2, <3>1 DEF EventRows
      <3> QED BY <1>0, <3>2 DEF EventTry, q
    <2> QED BY <1>3, <2>1, <2>2
  <1>6. ASSUME NEW x \in Events, NEW y \in Endpoints, QueueTest(x, y) PROVE EventTry(e)
    <2>1. q = r \/ q = [r EXCEPT !.status = "DISPATCHED"] BY <1>t, <1>6 DEF QueueTest
    <2> QED BY <1>3, <1>4, <2>1
  <1>7. ASSUME NEW w \in Workers, BuryEvents(w) PROVE EventTry(e)
    <2>1. q = r \/ q = WithStatus(r, "DEAD_LETTER") BY <1>7 DEF BuryEvents, Buried, WithStatus
    <2> QED BY <1>3, <1>4, <2>1
  <1>8. ASSUME NEW w \in Workers, ClaimEvent(w) PROVE EventTry(e)
    <2>1. CASE q = r BY <1>3, <2>1
    <2>2. CASE q # r
      <3>1. PICK x \in Events :
              /\ outbox' = [outbox EXCEPT ![x] = TakenRow(outbox[x], w)]
              /\ sender' = [sender EXCEPT ![w] =
                   [SenderAt("reading targets") EXCEPT !.row = x, !.n = outbox[x].attempts + 1]]
        BY <1>8, <2>2 DEF ClaimEvent, TakenRow
      <3>2. x = e /\ q = TakenRow(r, w) BY <1>t, <2>2, <3>1
      <3>3. sender'[w].row = e /\ sender'[w].n = r.attempts + 1
        <4> DEFINE s == [SenderAt("reading targets") EXCEPT !.row = x, !.n = outbox[x].attempts + 1]
        <4>1. s.row = e /\ s.n = r.attempts + 1 BY <3>2 DEF SenderAt
        <4> HIDE DEF s
        <4>2. sender'[w] = s BY <1>t, <3>1 DEF s
        <4> QED BY <4>1, <4>2
      <3> HIDE DEF r, q
      <3>4. q.status = "PROCESSING" /\ q.attempts = r.attempts + 1 /\ q.lock = w
        BY <1>r, <3>2 DEF TakenRow, Claimed, EventRows
      <3> QED BY <3>3, <3>4 DEF EventTry, r, q
    <2> QED BY <2>1, <2>2
  <1>9. ASSUME NEW w \in Workers, ReadTargets(w) \/ FanOut(w) PROVE EventTry(e)
    <2>1. q = r \/ q = WithStatus(r, "DISPATCHED") \/ q = [Released(r) EXCEPT !.status = "DISPATCHED", !.skipped = TRUE]
      BY <1>t, <1>9 DEF ReadTargets, FanOut, WithStatus
    <2>2. CASE q = [Released(r) EXCEPT !.status = "DISPATCHED", !.skipped = TRUE]
      <3> HIDE DEF r, q
      <3>1. q.status = "DISPATCHED" BY <1>r, <2>2 DEF Released, EventRows
      <3> QED BY <1>2, <3>1
    <2> QED BY <1>3, <1>4, <2>1, <2>2
  <1>10. ASSUME NEW w \in Workers, FailEvent(w) PROVE EventTry(e)
    <2>1. \/ q = r \/ q = WithStatus(r, "DEAD_LETTER")
          \/ /\ OwnsEvent(w) /\ sender[w].pc \in AtEvent /\ sender[w].row = e /\ sender[w].n < MaxOutboxAttempts
             /\ q = SetBack(r, "PENDING", FALSE)
      <3>1. sender[w].n \in Nat /\ sender[w].pc \in AtEvent
        BY <1>t, <1>10 DEF SenderStates, FailEvent, AtEvent
      <3>2. CASE q # r
        <4>1. /\ OwnsEvent(w) /\ sender[w].row = e
              /\ q = IF sender[w].n >= MaxOutboxAttempts THEN WithStatus(r, "DEAD_LETTER")
                     ELSE SetBack(r, "PENDING", FALSE)
          BY <1>t, <1>10, <3>2 DEF FailEvent, Buried, WithStatus, SetBack
        <4>2. sender[w].n >= MaxOutboxAttempts \/ sender[w].n < MaxOutboxAttempts BY <1>0, <3>1
        <4> HIDE DEF r, q
        <4> QED BY <3>1, <4>1, <4>2
      <3> QED BY <3>2
    <2>2. CASE /\ OwnsEvent(w) /\ sender[w].pc \in AtEvent /\ sender[w].row = e /\ sender[w].n < MaxOutboxAttempts
               /\ q = SetBack(r, "PENDING", FALSE)
      <3>1. r.attempts < MaxOutboxAttempts BY <2>2 DEF EventClaims, EventOf
      <3> HIDE DEF r, q
      <3>2. q.status = "PENDING" /\ q.attempts = r.attempts BY <1>r, <2>2 DEF SetBack, Released, EventRows
      <3> QED BY <3>1, <3>2 DEF EventTry, q
    <2> QED BY <1>3, <1>4, <2>1, <2>2
  <1>11. ASSUME NEW w \in Workers, StopSender(w) PROVE EventTry(e)
    <2>1. sender'[w] = SenderAt("stopped") BY <1>t, <1>11 DEF StopSender
    <2>2. Stopped(sender)' BY <2>1 DEF Stopped, SenderAt
    <2>3. q = r \/ q = SetBack(r, "PENDING", TRUE) BY <1>11 DEF StopSender, SetBack
    <2>4. CASE q = SetBack(r, "PENDING", TRUE)
      <3> HIDE DEF r, q
      <3>1. q.status = "PENDING" BY <1>r, <2>4 DEF SetBack, Released, EventRows
      <3> QED BY <2>2, <3>1 DEF EventTry, q
    <2> QED BY <1>3, <2>3, <2>4
  <1>12. ASSUME NEW w \in Workers, HeartbeatWebhook(w) PROVE EventTry(e)
    <2>1. q = r \/ q = [r EXCEPT !.lease = "live"] BY <1>t, <1>12 DEF HeartbeatWebhook
    <2> QED BY <1>3, <2>1
  <1>13. ASSUME (\E x \in Events : EventLeaseExpires(x)) \/ WebhookFallsDue PROVE EventTry(e)
    <2>1. q = r \/ q = [r EXCEPT !.lease = "expired"] \/ q = [r EXCEPT !.due = TRUE]
      BY <1>t, <1>13 DEF EventLeaseExpires, WebhookFallsDue
    <2> QED BY <1>3, <2>1
  <1>14. ASSUME UNCHANGED outbox PROVE EventTry(e) BY <1>3, <1>14
  <1> HIDE DEF r, q
  <1>15. ASSUME NEW w \in Workers,
                \/ BuryDeliveries(w) \/ CloseOrphanedAttempts(w) \/ ClaimDelivery(w)
                \/ CheckOwned(w) \/ OpenAttempt(w) \/ CancelDisabled(w) \/ Post(w) \/ Complete(w) \/ FailDelivery(w)
                \/ KillSender(w)
         PROVE  UNCHANGED outbox
    BY <1>15 DEF BuryDeliveries, CloseOrphanedAttempts, ClaimDelivery, CheckOwned, OpenAttempt, CancelDisabled, Post,
           Complete, FailDelivery, KillSender
  <1>16. ASSUME NEW w \in Workers, SenderStep(w) PROVE EventTry(e)
    BY <1>7, <1>8, <1>9, <1>10, <1>14, <1>15, <1>16 DEF SenderStep
  <1> QED BY <1>5, <1>6, <1>11, <1>12, <1>13, <1>14, <1>15, <1>16
          DEF WebhookNext, Replay, ChangeEndpoint, DeliveryLeaseExpires, webhookVars

(* A delivery is set back with an attempt left, or by a stop. *)
LEMMA DeliveryTries ==
  ASSUME DeliveryInv, [WebhookNext]_webhookVars, NEW d \in Deliveries,
         deliveries'[d].status = "RETRYING"
  PROVE  \/ deliveries[d].status = "RETRYING" /\ deliveries'[d].attempts = deliveries[d].attempts
         \/ deliveries'[d].attempts < MaxDeliveryAttempts \/ Stopped(sender)'
  <1> DEFINE r == deliveries[d]
             q == deliveries'[d]
             Goal == \/ r.status = "RETRYING" /\ q.attempts = r.attempts
                     \/ q.attempts < MaxDeliveryAttempts \/ Stopped(sender)'
  <1>t. deliveries \in [Deliveries -> DeliveryRows] /\ sender \in [Workers -> SenderStates]
    BY DEF DeliveryInv, WebhookTypes
  <1>r. r \in DeliveryRows BY <1>t
  <1>w. WebhookTypes /\ Existing /\ Claims BY DEF DeliveryInv
  <1>m. DeliveryMove(d) BY <1>w, DeliveryMoves
  <1>1. CASE r.status = "PROCESSING" /\ q.attempts = r.attempts /\ q.lock = Nobody
    <2>1. ASSUME NEW w \in Workers, StopSender(w) PROVE Goal
      <3>1. sender'[w] = SenderAt("stopped") BY <1>t, <2>1 DEF StopSender
      <3> QED BY <3>1 DEF Stopped, SenderAt
    <2>2. ASSUME NEW w \in Workers, FailDelivery(w) PROVE Goal
      <3>0. sender[w].pc = "failing" BY <2>2 DEF FailDelivery
      <3>1. sender[w].row \in Deliveries /\ sender[w].n \in Nat /\ MaxDeliveryAttempts \in Nat
        BY <1>t, <3>0, WebhookAssumption DEF SenderStates, AtDelivery
      <3>2. q # r BY <1>1
      <3>3. OwnsDelivery(w) /\ sender[w].row = d /\ (sender[w].n < MaxDeliveryAttempts \/ q = Buried(r))
        BY <1>t, <2>2, <3>1, <3>2 DEF FailDelivery
      <3>4. CASE q = Buried(r)
        <4> HIDE DEF r, q
        <4>1. q.status = "DEAD_LETTER" BY <1>r, <3>4 DEF Buried, Released, DeliveryRows
        <4> QED BY <4>1 DEF q
      <3>5. CASE sender[w].n < MaxDeliveryAttempts
        <4>1. Has(w, d) /\ r.lock = w BY <3>0, <3>3 DEF Has, AtDelivery, OwnsDelivery, DeliveryOf
        <4>2. sender[w].n = r.attempts BY <1>1, <1>w, <4>1 DEF Claims
        <4> QED BY <1>1, <3>5, <4>2
      <3> QED BY <3>3, <3>4, <3>5
    <2>3. ASSUME NEW w \in Workers, \/ BuryDeliveries(w) \/ ClaimDelivery(w) \/ CancelDisabled(w) \/ Complete(w)
                                    \/ HeartbeatWebhook(w)
          PROVE  q = r \/ q.status # "RETRYING"
      <3>1. \/ q = r \/ q = WithStatus(r, "DEAD_LETTER") \/ q = TakenRow(r, w) \/ q = WithStatus(r, "CANCELLED")
            \/ q = WithStatus(r, "SUCCEEDED") \/ q = [r EXCEPT !.lease = "live"]
        BY <1>t, <2>3 DEF BuryDeliveries, ClaimDelivery, CancelDisabled, Complete, HeartbeatWebhook, Buried,
               WithStatus, TakenRow
      <3>2. r.status # "RETRYING" BY <1>1
      <3> HIDE DEF r, q
      <3> QED BY <1>r, <3>1, <3>2 DEF WithStatus, TakenRow, Released, Claimed, DeliveryRows
    <2>4. ASSUME (\E x \in Deliveries : DeliveryLeaseExpires(x)) \/ WebhookFallsDue PROVE q.status = r.status
      <3>1. q = r \/ q = [r EXCEPT !.lease = "expired"] \/ q = [r EXCEPT !.due = TRUE]
        BY <1>t, <2>4 DEF DeliveryLeaseExpires, WebhookFallsDue
      <3> HIDE DEF r, q
      <3> QED BY <1>r, <3>1 DEF DeliveryRows
    <2>5. ASSUME q.status = "PENDING" \/ q.status = "none" \/ q = r PROVE FALSE BY <1>1, <2>5
    <2>6. PendingDelivery.status = "PENDING" /\ NoDelivery.status = "none" BY FirstRows
    <2>7. ASSUME NEW e \in Events, NEW x \in Endpoints, QueueTest(e, x) \/ Replay(e, x) PROVE FALSE
      <3>1. q = r \/ q = PendingDelivery BY <1>t, <2>7 DEF QueueTest, Replay
      <3> QED BY <2>5, <2>6, <3>1
    <2>8. ASSUME NEW x \in Endpoints, NEW st, ChangeEndpoint(x, st) PROVE FALSE
      <3>1. q = r \/ q = NoDelivery BY <2>8 DEF ChangeEndpoint
      <3> QED BY <2>5, <2>6, <3>1
    <2>9. ASSUME NEW w \in Workers, FanOut(w) PROVE FALSE
      <3>1. q = r \/ q = PendingDelivery BY <2>9 DEF FanOut, FannedOut
      <3> QED BY <2>5, <2>6, <3>1
    <2>10. deliveries' # deliveries BY <1>1
    <2> HIDE DEF r, q, Goal
    <2>11. ASSUME NEW w \in Workers, SenderStep(w) PROVE Goal
      <3>1. \/ BuryDeliveries(w) \/ ClaimDelivery(w) \/ CancelDisabled(w) \/ Complete(w) \/ FailDelivery(w) \/ FanOut(w)
        BY <2>10, <2>11 DEF SenderStep, BuryEvents, ClaimEvent, ReadTargets, FailEvent, CloseOrphanedAttempts,
               CheckOwned, OpenAttempt, Post
      <3> QED BY <2>2, <2>3, <2>5, <2>9, <3>1 DEF q
    <2> QED BY <1>1, <2>1, <2>2, <2>3, <2>4, <2>5, <2>7, <2>8, <2>10, <2>11
            DEF WebhookNext, KillSender, PublishEvent, EventLeaseExpires, webhookVars, Goal, q
  <1>2. ASSUME NEW w \in Workers, Taking(w, d) PROVE FALSE BY <1>2, <1>w, Takings
  <1> QED BY <1>1, <1>2, <1>m, FirstRows DEF DeliveryMove, Goes, Succeeds

(* Events and deliveries wait only with an attempt left, or after a stop. *)
LEMMA WebhooksKeepWaiting ==
  ASSUME DeliveryInv, FanOutInv, EventClaims, WebhooksWait, [WebhookNext]_webhookVars
  PROVE  EventClaims' /\ WebhooksWait'
  <1>w. WebhookTypes /\ WebhookTypes' BY DeliveryStep DEF DeliveryInv
  <1>s. Stopped(sender) => Stopped(sender)' BY <1>w, EventSenderMoves DEF Stopped
  <1>0. \A e \in Events : EventTry(e) BY EventTries
  <1>1. ASSUME NEW w \in Workers, sender'[w].pc \in AtEvent, OwnsEvent(w)'
        PROVE  sender'[w].n = EventOf(w)'.attempts
    <2> DEFINE e == sender'[w].row
    <2>1. sender' \in [Workers -> SenderStates] BY <1>w DEF WebhookTypes
    <2>2. e \in Events BY <1>1, <2>1 DEF SenderStates
    <2>3. outbox'[e].status = "PROCESSING" /\ outbox'[e].lock = w BY <1>1 DEF OwnsEvent, EventOf
    <2>4. CASE /\ sender[w].pc \in AtEvent /\ sender[w].row = e /\ sender[w].n = sender'[w].n
               /\ Lasts(outbox[e], outbox'[e])
      <3>1. OwnsEvent(w) BY <2>3, <2>4 DEF OwnsEvent, EventOf, Lasts
      <3> QED BY <2>4, <3>1 DEF EventClaims, EventOf, Lasts
    <2>5. CASE sender'[w].n = outbox'[e].attempts BY <2>5 DEF EventOf
    <2> QED BY <1>0, <1>1, <1>w, <2>2, <2>3, <2>4, <2>5, EventSenderMoves DEF EventSenderMove, EventTry
  <1>2. ASSUME NEW e \in Events, StrandedEvent(e)' PROVE Stopped(sender)'
    <2>1. CASE Lasts(outbox[e], outbox'[e])
      BY <1>2, <1>s, <2>1 DEF Lasts, StrandedEvent, WebhooksWait
    <2>2. outbox'[e].attempts \in Nat BY <1>w DEF WebhookTypes, EventRows
    <2> QED BY <1>0, <1>2, <2>1, <2>2, WebhookAssumption DEF EventTry, StrandedEvent
  <1>3. ASSUME NEW d \in Deliveries, StrandedDelivery(d)' PROVE Stopped(sender)'
    <2>1. CASE deliveries[d].status = "RETRYING" /\ deliveries'[d].attempts = deliveries[d].attempts
      BY <1>3, <1>s, <2>1 DEF StrandedDelivery, WebhooksWait
    <2>2. deliveries'[d].attempts \in Nat BY <1>w DEF WebhookTypes, DeliveryRows
    <2> QED BY <1>3, <2>1, <2>2, DeliveryTries, WebhookAssumption DEF StrandedDelivery
  <1> QED BY <1>1, <1>2, <1>3 DEF EventClaims, WebhooksWait

(* What no worker strands, in all the outboxes at once. *)
WaitingInv ==
  /\ ComponentsInv
  /\ MailClaims /\ MailsWait /\ TriggersWaitInv /\ EventClaims /\ WebhooksWait

(* A stopped worker, and it alone, sets back a row that nothing will take up again:
   whoever fails in its last attempt buries the row, since the attempt it took down at
   its claim is the one the row is at as long as it holds it. *)
THEOREM StopsStrandRows == ComponentsSpec => []OnlyStopsStrand
  <1>1. ComponentsInit => WaitingInv
    <2> SUFFICES ASSUME ComponentsInit PROVE WaitingInv OBVIOUS
    <2>1. ComponentsInv BY ComponentsStart
    <2>2. MailClaims /\ MailsWait
      <3>1. PendingEmail.attempts = 0 /\ NoEmailRow.attempts = 0 BY DEF PendingEmail, NoEmailRow
      <3> QED BY <3>1, EmailAssumption
              DEF ComponentsInit, EmailInit, MailClaims, MailsWait, MailerAt, AtMail, StrandedEmail
    <2>3. TriggersWaitInv
      BY DEF ComponentsInit, ReplyInit, ReplierAt, NoTrigger, TriggersWaitInv, TriggerClaims, TriggersWait, AtTrigger,
             StrandedTrigger
    <2>4. EventClaims /\ WebhooksWait
      BY DEF ComponentsInit, WebhookInit, SenderAt, NoEvent, NoDelivery, EventClaims, WebhooksWait, AtEvent,
             StrandedEvent, StrandedDelivery
    <2> QED BY <2>1, <2>2, <2>3, <2>4 DEF WaitingInv
  <1>2. WaitingInv /\ [ComponentsNext]_componentVars => WaitingInv'
    <2> SUFFICES ASSUME WaitingInv, [ComponentsNext]_componentVars PROVE WaitingInv' OBVIOUS
    <2>i. /\ EmailInv /\ DeliveryInv /\ FanOutInv /\ ReplyInv
          /\ MailClaims /\ MailsWait /\ TriggersWaitInv /\ EventClaims /\ WebhooksWait
      BY DEF WaitingInv, ComponentsInv
    <2>0. ComponentsInv' BY ComponentsStep DEF WaitingInv
    <2>1. /\ PaymentNext \/ [EmailNext]_emailVars
          /\ [WebhookNext]_webhookVars /\ [ReplyNext]_replyVars
      <3>1. CASE TakeEmails BY <3>1 DEF TakeEmails
      <3>2. CASE TakePayments BY <3>2 DEF TakePayments
      <3>3. CASE TakeWebhooks BY <3>3 DEF TakeWebhooks
      <3>4. CASE TakeReplies BY <3>4 DEF TakeReplies
      <3>5. CASE TakeSchedules BY <3>5 DEF TakeSchedules
      <3>6. CASE TakeDevices BY <3>6 DEF TakeDevices
      <3>7. CASE UNCHANGED componentVars BY <3>7 DEF componentVars
      <3> QED BY <3>1, <3>2, <3>3, <3>4, <3>5, <3>6, <3>7 DEF ComponentsNext
    <2>2. MailClaims' /\ MailsWait' BY <2>i, <2>1, WorkersKeepMailsWaiting, PaymentsKeepMailsWaiting
    <2>3. TriggersWaitInv' BY <2>i, <2>1, TriggersKeepWaiting
    <2>4. EventClaims' /\ WebhooksWait' BY <2>i, <2>1, WebhooksKeepWaiting
    <2> QED BY <2>0, <2>2, <2>3, <2>4 DEF WaitingInv
  <1>3. WaitingInv => OnlyStopsStrand
    BY DEF WaitingInv, MailsWait, TriggersWaitInv, TriggersWait, WebhooksWait, OnlyStopsStrand, Stranded
  <1> QED BY <1>1, <1>2, <1>3, PTL DEF ComponentsSpec
=============================================================================
