------------------------- MODULE MessageQueueProofs -------------------------
(***************************************************************************)
(* Theorems about the message queue, for every number of jobs, workers,    *)
(* attempts, priorities and faults: first about its workers alone, then,   *)
(* from "The queue with its API" on, about the workers beside callers and  *)
(* acknowledgements, and at last about the quota that its jobs hold.       *)
(*                                                                         *)
(* IInv is inductive.  None of the properties is inductive by itself: that *)
(* only the owner of a claim ends it needs the lock to count the attempt   *)
(* (ClaimInv) and the worker's notes to agree with the row (HandInv); that *)
(* a batch acts on what it has read needs what can have changed since      *)
(* (DrainInv, SweepInv).  JobStep, WorkerStep, DrainStep and SweepStep say *)
(* once what any action does to one row, worker or batch, and the cases of *)
(* the invariant are argued from them.  StepKinds does the same for the    *)
(* outcome of a job, and is what the refinement rests on.  SystemKinds     *)
(* adds what a handler does to a job.                                      *)
(***************************************************************************)
EXTENDS MessageSystem, FiniteSetTheorems, TLAPS

(* Every worker that has a job in hand. *)
Holding == Working \cup {"claimed"}

(* A row that is being processed is locked by the attempt it counts. *)
ClaimInv ==
  \A j \in Jobs :
    jobs[j].status = "PROCESSING" => \E w \in Workers : jobs[j].lock = <<w, jobs[j].attempts>>

(* What a worker took down at its claim is still true of the row while it owns
   it; it comes to the last transaction only with its reservation committed. *)
HandInv ==
  \A w \in Workers :
    /\ wkr[w].pc \in Holding => wkr[w].job \in Jobs /\ wkr[w].n \in Attempts
    /\ (wkr[w].pc \in Working /\ Owns(w)) =>
          wkr[w].max = jobs[wkr[w].job].max /\ wkr[w].key = jobs[wkr[w].job].key
    /\ wkr[w].pc = "finishing" => HasRow(usage, "COMMIT", wkr[w].key)

(* A recovery runs in a worker that has stopped claiming, so what it read as not
   spent and still finds under its own token has attempts left. *)
DrainInv ==
  \A w \in Workers :
    /\ drain[w].pc = "off" => drain[w].rows = {}
    /\ drain[w].pc # "off" => wkr[w].pc = "stopping"
    /\ \A s \in drain[w].rows :
         (~s.spent /\ s.job \in ClaimsOf(w)) => jobs[s.job].attempts < jobs[s.job].max

(* A row of a sweep that nobody has moved on is not under a live lease. *)
SweepInv ==
  \A w \in Workers : \A s \in sweep[w].rows :
    (s.job \notin sweep[w].renewed /\ jobs[s.job].status = "PROCESSING")
      => jobs[s.job].lease # "live"

(* Attempts are counted within their bound. *)
AttemptsInv == \A j \in Jobs : jobs[j].attempts <= jobs[j].max

IInv == /\ TypeOK /\ ClaimInv /\ HandInv /\ DrainInv /\ SweepInv /\ AttemptsInv
        /\ NoStrandedQueued

Settlements == {"COMMIT", "RELEASE"}
-----------------------------------------------------------------------------
(* A row that is looked up and found is a row of that operation and key. *)
LEMMA RowIsFound ==
  ASSUME NEW u, NEW op, NEW k, HasRow(u, op, k)
  PROVE  Row(u, op, k) \in u.ledger /\ Row(u, op, k).op = op /\ Row(u, op, k).key = k
  BY DEF HasRow, Row

(* A settlement keeps the type of the tables and loses no row. *)
LEMMA SettledType ==
  ASSUME NEW u \in UsageType, NEW op \in Settlements, NEW k, CanSettle(u, op, k)
  PROVE  /\ Settled(u, op, k) \in UsageType
         /\ u.ledger \subseteq Settled(u, op, k).ledger
         /\ HasRow(Settled(u, op, k), op, k)
  <1>1. CASE HasRow(u, op, k) BY <1>1 DEF Settled
  <1>2. CASE ~HasRow(u, op, k)
    <2> DEFINE r == Row(u, "RESERVE", k)
    <2>1. HasRow(u, "RESERVE", k) /\ u.reserved[r.period] >= r.amount
      BY <1>2 DEF CanSettle
    <2>2. r \in LedgerRow /\ r.key = k BY <2>1, RowIsFound DEF UsageType
    <2>3. r.period = Month /\ r.amount = 1 /\ k \in QuotaKeys BY <2>2 DEF LedgerRow
    <2> DEFINE c == IF op = "COMMIT" THEN r.amount ELSE 0
    <2>4. c \in Nat BY <2>3
    <2>5. [u.reserved EXCEPT ![r.period] = @ - r.amount] \in [{Month} -> Nat]
      BY <2>1, <2>3 DEF UsageType
    <2>6. [u.consumed EXCEPT ![r.period] = @ + c] \in [{Month} -> Nat]
      BY <2>3, <2>4 DEF UsageType
    <2>7. AddRow(u, op, k, r.amount, r.period) \in SUBSET LedgerRow
      BY <2>3 DEF AddRow, UsageType, LedgerRow, LedgerOps, Settlements
    <2> HIDE DEF r, c
    <2>8. Settled(u, op, k) = [u EXCEPT !.reserved[r.period] = @ - r.amount,
                                        !.consumed[r.period] = @ + c,
                                        !.ledger = AddRow(u, op, k, r.amount, r.period)]
      BY <1>2 DEF Settled, r, c
    <2>9. /\ Settled(u, op, k) \in UsageType
          /\ Settled(u, op, k).ledger = AddRow(u, op, k, r.amount, r.period)
      BY <2>5, <2>6, <2>7, <2>8 DEF UsageType
    <2>10. [op |-> op, key |-> k, amount |-> r.amount, period |-> r.period]
             \in AddRow(u, op, k, r.amount, r.period)
      BY DEF AddRow
    <2>11. HasRow(Settled(u, op, k), op, k) BY <2>9, <2>10 DEF HasRow
    <2>12. u.ledger \subseteq Settled(u, op, k).ledger BY <2>9 DEF AddRow
    <2> QED BY <2>9, <2>11, <2>12
  <1> QED BY <1>1, <1>2

(* x is the row r without its claim. *)
ClaimDropped(x, r) ==
  /\ x.max = r.max /\ x.key = r.key /\ x.attempts = r.attempts
  /\ x.lock = NoLock /\ x.lease = "none"

(* The row of a failed job: typed, and without its claim. *)
LEMMA FailedRowType ==
  ASSUME NEW r \in Row_
  PROVE  FailedRow(r) \in Row_ /\ ClaimDropped(FailedRow(r), r) /\ FailedRow(r).status = "FAILED"
  BY DEF Row_, FailedRow, Unlocked, Statuses, Locks, ClaimDropped

(* The row of a sent job. *)
LEMMA SentRowType ==
  ASSUME NEW r \in Row_
  PROVE  SentRow(r) \in Row_ /\ ClaimDropped(SentRow(r), r) /\ SentRow(r).status = "SENT"
  BY DEF Row_, SentRow, Unlocked, Statuses, Locks, ClaimDropped

(* The row of a job that goes back to the queue. *)
LEMMA RequeuedRowType ==
  ASSUME NEW r \in Row_, NEW due \in BOOLEAN
  PROVE  /\ RequeuedRow(r, due) \in Row_ /\ ClaimDropped(RequeuedRow(r, due), r)
         /\ RequeuedRow(r, due).status = "QUEUED"
  BY DEF Row_, RequeuedRow, Unlocked, Statuses, Locks, ClaimDropped

(* The burial of jobs that are being processed. *)
LEMMA BuryTypes ==
  ASSUME TypeOK, NEW js \in SUBSET Jobs, BuryJobs(js)
  PROVE  /\ jobs' \in [Jobs -> Row_]
         /\ rcpt' \in [Jobs -> {"none", "ENQUEUED", "SENT", "DELIVERED", "READ", "FAILED"}]
         /\ events' \subseteq Jobs \X {"SENT", "DELIVERED", "READ", "FAILED"}
         /\ outbox' \subseteq EventKeys
  <1>1. jobs' \in [Jobs -> Row_] BY FailedRowType DEF BuryJobs, TypeOK
  <1>2. rcpt' \in [Jobs -> {"none", "ENQUEUED", "SENT", "DELIVERED", "READ", "FAILED"}]
    BY DEF BuryJobs, TypeOK
  <1>3. events' \subseteq Jobs \X {"SENT", "DELIVERED", "READ", "FAILED"}
    BY DEF BuryJobs, TypeOK
  <1>4. outbox' \subseteq EventKeys BY DEF BuryJobs, TypeOK, EventKeys
  <1> QED BY <1>1, <1>2, <1>3, <1>4

(* Closing the attempts of a batch keeps the attempts that succeeded. *)
LEMMA ClosedLogType ==
  ASSUME TypeOK, NEW rows
  PROVE  /\ ClosedLog(rows) \in [Jobs -> [Attempts -> {"none", "PROCESSING", "SUCCEEDED", "FAILED"}]]
         /\ \A j \in Jobs, n \in Attempts :
              (ClosedLog(rows)[j][n] = "SUCCEEDED") = (log[j][n] = "SUCCEEDED")
  BY DEF ClosedLog, TypeOK

(* What a sweep or a recovery reads of a job is typed. *)
LEMMA SnapshotTypes ==
  ASSUME TypeOK, NEW j \in Jobs
  PROVE  Snapshot(j) \in SnapshotType
  BY AttemptsAssumption DEF TypeOK, Row_, Snapshot, SnapshotType

(* Attempt numbers are within the bound. *)
LEMMA AttemptsInRange == Attempts \subseteq 0..AttemptLimit /\ 0 \in 0..AttemptLimit
  BY AttemptsAssumption DEF Attempts

WorkerPcs == {"new", "idle", "claimed", "stopping", "stopped", "dead"} \cup Working

(* The places that the loop, the sweep and the recovery go to are typed. *)
LEMMA LoopTypes ==
  ASSUME TypeOK, NEW w \in Workers
  PROVE  /\ \A pc \in WorkerPcs :
              /\ [wkr EXCEPT ![w] = Loop(pc)] \in [Workers -> WorkerType]
              /\ Goto(w, pc) => wkr' \in [Workers -> WorkerType]
         /\ BackToPolling(w) => wkr' \in [Workers -> WorkerType]
         /\ \A b \in BOOLEAN : Failing(w, b) => wkr' \in [Workers -> WorkerType]
         /\ \A pc \in {"off", "start"} :
              /\ [sweep EXCEPT ![w] = Reaper(pc)] \in [Workers -> ReaperType]
              /\ [drain EXCEPT ![w] = Reaper(pc)] \in [Workers -> ReaperType]
  <1>1. \A pc \in WorkerPcs : Loop(pc) \in WorkerType
    BY AttemptsInRange DEF Loop, WorkerType, WorkerPcs
  <1>2. \A pc \in {"off", "start"} : Reaper(pc) \in ReaperType BY DEF Reaper, ReaperType
  <1>3. \A pc \in WorkerPcs : [wkr EXCEPT ![w].pc = pc] \in [Workers -> WorkerType]
    BY DEF TypeOK, WorkerType, WorkerPcs
  <1>4. \A b \in BOOLEAN :
          [wkr EXCEPT ![w].pc = "failing", ![w].retry = b] \in [Workers -> WorkerType]
    <2>1. \A v \in WorkerType : \A b \in BOOLEAN :
            [v EXCEPT !.pc = "failing", !.retry = b] \in WorkerType
      BY DEF WorkerType, Working
    <2>2. wkr[w] \in WorkerType BY DEF TypeOK
    <2>3. ASSUME NEW b \in BOOLEAN
          PROVE  [wkr EXCEPT ![w].pc = "failing", ![w].retry = b] \in [Workers -> WorkerType]
      <3>1. [wkr EXCEPT ![w].pc = "failing", ![w].retry = b]
              = [wkr EXCEPT ![w] = [wkr[w] EXCEPT !.pc = "failing", !.retry = b]]
        BY <2>2 DEF TypeOK
      <3> QED BY <2>1, <2>2, <3>1 DEF TypeOK
    <2> QED BY <2>3
  <1>5. \A pc \in WorkerPcs : [wkr EXCEPT ![w] = Loop(pc)] \in [Workers -> WorkerType]
    BY <1>1 DEF TypeOK
  <1>6. \A pc \in {"off", "start"} :
          /\ [sweep EXCEPT ![w] = Reaper(pc)] \in [Workers -> ReaperType]
          /\ [drain EXCEPT ![w] = Reaper(pc)] \in [Workers -> ReaperType]
    BY <1>2 DEF TypeOK
  <1> QED BY <1>3, <1>4, <1>5, <1>6 DEF Goto, BackToPolling, Failing, WorkerPcs

(* The row that a claim writes. *)
ClaimedRow(w, j) ==
  [jobs[j] EXCEPT !.status = "PROCESSING", !.lock = <<w, jobs[j].attempts + 1>>,
                  !.lease = "live", !.attempts = jobs[j].attempts + 1]

(* The row that a claim writes is typed, and still within its maximum. *)
LEMMA ClaimedRowType ==
  ASSUME TypeOK, NEW w \in Workers, NEW j \in Jobs, Claimable(j)
  PROVE  /\ ClaimedRow(w, j) \in Row_ /\ jobs[j].attempts + 1 \in Attempts
         /\ jobs[j].attempts + 1 <= jobs[j].max
  <1>1. /\ jobs[j] \in Row_ /\ jobs[j].attempts \in 0..AttemptLimit
        /\ jobs[j].max \in 0..AttemptLimit /\ jobs[j].attempts < jobs[j].max
    BY DEF TypeOK, Row_, Claimable
  <1>2. /\ jobs[j].attempts + 1 \in Attempts /\ jobs[j].attempts + 1 <= jobs[j].max
        /\ jobs[j].attempts + 1 \in 0..AttemptLimit
    BY <1>1, AttemptsAssumption DEF Attempts
  <1>3. <<w, jobs[j].attempts + 1>> \in Locks BY <1>2 DEF Locks
  <1> QED BY <1>1, <1>2, <1>3 DEF ClaimedRow, Row_, Statuses

(* The sweeps stay typed when a lease is set anew. *)
LEMMA RenewedType ==
  ASSUME TypeOK, NEW j \in Jobs
  PROVE  Renewed(j) \in [Workers -> ReaperType]
  <1>1. \A r \in ReaperType : [r EXCEPT !.renewed = @ \cup {j}] \in ReaperType
    BY DEF ReaperType
  <1> QED BY <1>1 DEF Renewed, TypeOK

(* The steps of the worker loop and of its handlers keep the types. *)
LEMMA LoopTypeStep ==
  ASSUME IInv, NEW w \in Workers,
         Start(w) \/ Work(w) \/ Throws(w) \/ Heartbeat(w) \/ \E j \in Jobs : Claim(w, j)
  PROVE  TypeOK'
  <1>t. TypeOK BY DEF IInv
  <1>j. wkr[w].pc \in Holding => wkr[w].job \in Jobs /\ wkr[w].n \in Attempts
    BY DEF IInv, HandInv
  <1>h. Working \subseteq Holding /\ "claimed" \in Holding /\ Working \subseteq WorkerPcs
    BY DEF Holding, WorkerPcs
  <1>b. BackToPolling(w) => wkr' \in [Workers -> WorkerType] BY <1>t, LoopTypes
  <1>g. \A pc \in Working : Goto(w, pc) => wkr' \in [Workers -> WorkerType]
    BY <1>t, <1>h, LoopTypes
  <1>f. \A b \in BOOLEAN : Failing(w, b) => wkr' \in [Workers -> WorkerType]
    BY <1>t, LoopTypes
  <1>u. usage \in UsageType BY <1>t DEF TypeOK
  <1>1. CASE Start(w)
    <2>1. /\ wkr' \in [Workers -> WorkerType] /\ sweep' \in [Workers -> ReaperType]
      BY <1>t, <1>1, LoopTypes DEF Start, WorkerPcs
    <2> QED BY <1>1, <1>t, <2>1 DEF Start, TypeOK
  <1>2. ASSUME NEW j \in Jobs, Claim(w, j) PROVE TypeOK'
    <2>1. jobs' = [jobs EXCEPT ![j] = ClaimedRow(w, j)] BY <1>2 DEF Claim, ClaimedRow
    <2>2. jobs' \in [Jobs -> Row_]
      <3>1. ClaimedRow(w, j) \in Row_ BY <1>t, <1>2, ClaimedRowType DEF Claim
      <3> QED BY <1>t, <2>1, <3>1 DEF TypeOK
    <2>3. [Loop("claimed") EXCEPT !.job = j, !.n = jobs[j].attempts + 1] \in WorkerType
      BY <1>t, <1>2, ClaimedRowType, AttemptsInRange DEF Claim, Loop, WorkerType
    <2>4. wkr' \in [Workers -> WorkerType] BY <1>t, <1>2, <2>3 DEF Claim, TypeOK
    <2>5. sweep' \in [Workers -> ReaperType] BY <1>t, <1>2, RenewedType DEF Claim
    <2> QED BY <1>2, <1>t, <2>2, <2>4, <2>5 DEF Claim, TypeOK
  <1>3. CASE OpenAttempt(w)
    <2>1. wkr[w].job \in Jobs /\ wkr[w].n \in Attempts BY <1>3, <1>j, <1>h DEF OpenAttempt
    <2>2. jobs[wkr[w].job].max \in 0..AttemptLimit /\ jobs[wkr[w].job].key \in QuotaKeys
      BY <1>t, <2>1 DEF TypeOK, Row_
    <2>3. wkr' \in [Workers -> WorkerType]
      <3> DEFINE v == [wkr[w] EXCEPT !.pc = "dispatching", !.max = jobs[wkr[w].job].max,
                                     !.key = jobs[wkr[w].job].key]
      <3>1. wkr[w] \in WorkerType BY <1>t DEF TypeOK
      <3>2. v \in WorkerType BY <2>2, <3>1 DEF WorkerType, Working
      <3>3. wkr' = [wkr EXCEPT ![w] = v] BY <1>t, <1>3 DEF OpenAttempt, TypeOK
      <3> HIDE DEF v
      <3> QED BY <1>t, <3>2, <3>3 DEF TypeOK
    <2>4. log' \in [Jobs -> [Attempts -> {"none", "PROCESSING", "SUCCEEDED", "FAILED"}]]
      BY <1>t, <1>3, <2>1 DEF OpenAttempt, TypeOK
    <2> QED BY <1>3, <1>t, <2>3, <2>4 DEF OpenAttempt, TypeOK
  <1>4. CASE ClaimFails(w) BY <1>4, <1>t, <1>b DEF ClaimFails, TypeOK, tables
  <1>5. CASE DispatchSends(w)
    <2>1. wkr[w].job \in Jobs BY <1>5, <1>j, <1>h DEF DispatchSends, Working
    <2>2. sends' \in [Jobs -> Nat] BY <1>t, <1>5, <2>1 DEF DispatchSends, TypeOK
    <2> QED BY <1>5, <1>t, <1>g, <2>2 DEF DispatchSends, TypeOK, tables, Working
  <1>6. ASSUME NEW b \in BOOLEAN, DispatchRefused(w, b) PROVE TypeOK'
    BY <1>6, <1>t, <1>f DEF DispatchRefused, TypeOK, tables
  <1>7. CASE DispatchGivesUp(w)
    <2>1. <<wkr[w].job, wkr[w].n>> \in Jobs \X Attempts
      BY <1>7, <1>j, <1>h DEF DispatchGivesUp, Working
    <2>2. inflight' \subseteq Jobs \X Attempts BY <1>t, <1>7, <2>1 DEF DispatchGivesUp, TypeOK
    <2> QED BY <1>7, <1>t, <1>f, <2>2 DEF DispatchGivesUp, TypeOK, tables
  <1>8. CASE CompleteCheck(w)
    BY <1>8, <1>t, <1>b, <1>g DEF CompleteCheck, TypeOK, tables, Working
  <1>9. CASE CompleteSettle(w)
    <2>1. usage' \in UsageType BY <1>9, <1>u, SettledType DEF CompleteSettle, Settlements
    <2>2. wkr' \in [Workers -> WorkerType] BY <1>9, <1>f, <1>g DEF CompleteSettle, Working
    <2> QED BY <1>9, <1>t, <2>1, <2>2 DEF CompleteSettle, TypeOK
  <1>10. CASE CompleteFinish(w)
    <2>1. wkr[w].job \in Jobs /\ wkr[w].n \in Attempts
      BY <1>10, <1>j, <1>h DEF CompleteFinish, Working
    <2>2. jobs' \in [Jobs -> Row_]
      <3>1. jobs[wkr[w].job] \in Row_ BY <1>t, <2>1 DEF TypeOK
      <3>2. SentRow(jobs[wkr[w].job]) \in Row_ BY <3>1, SentRowType
      <3> QED BY <1>t, <1>10, <3>2 DEF CompleteFinish, TypeOK
    <2>3. rcpt' \in [Jobs -> {"none", "ENQUEUED", "SENT", "DELIVERED", "READ", "FAILED"}]
      <3>1. CASE rcpt' = rcpt BY <1>t, <3>1 DEF TypeOK
      <3>2. CASE rcpt' = [rcpt EXCEPT ![wkr[w].job] =
                            IF @ \in {"ENQUEUED", "FAILED"} THEN "SENT" ELSE @]
        BY <1>t, <2>1, <3>2 DEF TypeOK
      <3> QED BY <1>10, <3>1, <3>2 DEF CompleteFinish
    <2>4. log' \in [Jobs -> [Attempts -> {"none", "PROCESSING", "SUCCEEDED", "FAILED"}]]
      <3>1. CASE log' = log BY <1>t, <3>1 DEF TypeOK
      <3>2. CASE log' = [log EXCEPT ![wkr[w].job][wkr[w].n] = "SUCCEEDED"]
        BY <1>t, <2>1, <3>2 DEF TypeOK
      <3> QED BY <1>10, <3>1, <3>2 DEF CompleteFinish
    <2>5. events' \subseteq Jobs \X {"SENT", "DELIVERED", "READ", "FAILED"}
      BY <1>t, <1>10, <2>1 DEF CompleteFinish, TypeOK
    <2>6. wkr' \in [Workers -> WorkerType] BY <1>10, <1>b DEF CompleteFinish
    <2> QED BY <1>10, <1>t, <2>2, <2>3, <2>4, <2>5, <2>6 DEF CompleteFinish, TypeOK
  <1>11. CASE CompleteThrows(w) BY <1>11, <1>t, <1>f DEF CompleteThrows, TypeOK, tables
  <1>12. CASE FailCheck(w)
    BY <1>12, <1>t, <1>b, <1>g DEF FailCheck, TypeOK, tables, Working
  <1>13. CASE FailSettle(w)
    <2>1. usage' \in UsageType BY <1>13, <1>u, SettledType DEF FailSettle, Settlements
    <2>2. wkr' \in [Workers -> WorkerType] BY <1>13, <1>b, <1>g DEF FailSettle, Working
    <2> QED BY <1>13, <1>t, <2>1, <2>2 DEF FailSettle, TypeOK
  <1>14. CASE FailFinish(w)
    <2> DEFINE j == wkr[w].job
    <2>1. j \in Jobs /\ wkr[w].n \in Attempts BY <1>14, <1>j, <1>h DEF FailFinish, Working
    <2>2. wkr' \in [Workers -> WorkerType] BY <1>14, <1>b DEF FailFinish
    <2>3. CASE UNCHANGED <<jobs, log, rcpt, events, outbox>>
      BY <1>14, <1>t, <2>2, <2>3 DEF FailFinish, TypeOK
    <2>4. CASE log' = [log EXCEPT ![j][wkr[w].n] = "FAILED"]
      <3>1. log' \in [Jobs -> [Attempts -> {"none", "PROCESSING", "SUCCEEDED", "FAILED"}]]
        BY <1>t, <2>1, <2>4 DEF TypeOK
      <3>2. CASE jobs' = [jobs EXCEPT ![j] = RequeuedRow(@, FALSE)]
                 /\ UNCHANGED <<rcpt, events, outbox>>
        <4>1. jobs' \in [Jobs -> Row_] BY <1>t, <2>1, <3>2, RequeuedRowType DEF TypeOK
        <4> QED BY <1>14, <1>t, <2>2, <3>1, <3>2, <4>1 DEF FailFinish, TypeOK
      <3>3. CASE BuryJobs({j})
        BY <1>14, <1>t, <2>1, <2>2, <3>1, <3>3, BuryTypes DEF FailFinish, TypeOK
      <3>4. CASE UNCHANGED <<jobs, rcpt, events, outbox>>
        BY <1>14, <1>t, <2>2, <3>1, <3>4 DEF FailFinish, TypeOK
      <3> QED BY <1>14, <2>3, <3>2, <3>3 DEF FailFinish
    <2> QED BY <1>14, <2>3, <2>4 DEF FailFinish
  <1>15. CASE FailThrows(w) BY <1>15, <1>t, <1>b DEF FailThrows, TypeOK, tables
  <1>16. CASE SettleThrows(w)
    <2>1. usage' \in UsageType BY <1>16, <1>u, SettledType DEF SettleThrows, Settlements
    <2>2. wkr' \in [Workers -> WorkerType] BY <1>16, <1>b, <1>f DEF SettleThrows
    <2> QED BY <1>16, <1>t, <2>1, <2>2 DEF SettleThrows, TypeOK
  <1>17. CASE Heartbeat(w)
    <2>1. wkr[w].job \in Jobs BY <1>17, <1>j, <1>h DEF Heartbeat
    <2>2. jobs' \in [Jobs -> Row_]
      <3>1. \A r \in Row_ : [r EXCEPT !.lease = "live"] \in Row_ BY DEF Row_
      <3> QED BY <1>t, <1>17, <2>1, <3>1 DEF Heartbeat, TypeOK
    <2>3. sweep' \in [Workers -> ReaperType] BY <1>t, <1>17, <2>1, RenewedType DEF Heartbeat
    <2> QED BY <1>17, <1>t, <2>2, <2>3 DEF Heartbeat, TypeOK
  <1> QED BY <1>1, <1>2, <1>3, <1>4, <1>5, <1>6, <1>7, <1>8, <1>9, <1>10, <1>11, <1>12,
             <1>13, <1>14, <1>15, <1>16, <1>17
          DEF Work, Dispatch, Complete, FailJob, Throws

(* A release of a batch keeps the counters and the ledger typed. *)
LEMMA BatchReleaseType ==
  ASSUME TypeOK, NEW s, BatchRelease(s)
  PROVE  usage' \in UsageType /\ usage.ledger \subseteq usage'.ledger
  BY SettledType DEF BatchRelease, TypeOK, Settlements

(* A batch stays typed when one of its rows has been released. *)
LEMMA UnreleasedType ==
  ASSUME TypeOK, NEW w \in Workers, NEW s
  PROVE  /\ [sweep EXCEPT ![w].unreleased = @ \ {s}] \in [Workers -> ReaperType]
         /\ [drain EXCEPT ![w].unreleased = @ \ {s}] \in [Workers -> ReaperType]
         /\ [drain EXCEPT ![w].pc = "working"] \in [Workers -> ReaperType]
  <1>1. \A r \in ReaperType : /\ [r EXCEPT !.unreleased = @ \ {s}] \in ReaperType
                              /\ [r EXCEPT !.pc = "working"] \in ReaperType
    BY DEF ReaperType
  <1> QED BY <1>1 DEF TypeOK

(* The rows of a batch are about jobs. *)
LEMMA RowsAreJobs ==
  ASSUME TypeOK, NEW w \in Workers
  PROVE  /\ sweep[w] \in ReaperType /\ drain[w] \in ReaperType
         /\ \A s \in sweep[w].rows \cup drain[w].rows : s \in SnapshotType /\ s.job \in Jobs
  <1>1. sweep[w] \in ReaperType /\ drain[w] \in ReaperType BY DEF TypeOK
  <1>2. sweep[w].rows \subseteq SnapshotType /\ drain[w].rows \subseteq SnapshotType
    BY <1>1 DEF ReaperType
  <1> QED BY <1>1, <1>2 DEF SnapshotType

(* A worker that exits leaves typed loops behind. *)
LEMMA ExitTypes ==
  ASSUME TypeOK, NEW w \in Workers, Exit(w)
  PROVE  /\ wkr' \in [Workers -> WorkerType]
         /\ sweep' \in [Workers -> ReaperType] /\ drain' \in [Workers -> ReaperType]
  BY LoopTypes DEF Exit, WorkerPcs

(* The steps of sweeps and recoveries, stops and kills keep the types. *)
LEMMA ReaperTypeStep ==
  ASSUME IInv, NEW w \in Workers, Sweep(w) \/ Stop(w) \/ Drain(w) \/ Crash(w)
  PROVE  TypeOK'
  <1>t. TypeOK BY DEF IInv
  <1>r. \A s \in sweep[w].rows \cup drain[w].rows : s.job \in Jobs
    BY <1>t, RowsAreJobs
  <1>e. Exit(w) => /\ wkr' \in [Workers -> WorkerType]
                   /\ sweep' \in [Workers -> ReaperType] /\ drain' \in [Workers -> ReaperType]
    BY <1>t, ExitTypes
  <1>1. CASE SweepRead(w)
    <2> DEFINE rows == {Snapshot(j) : j \in {i \in Jobs :
                    /\ jobs[i].status = "PROCESSING" /\ jobs[i].lease = "stale"
                    /\ jobs[i].attempts >= jobs[i].max}}
    <2>1. rows \subseteq SnapshotType BY <1>t, SnapshotTypes
    <2>2. sweep' = [sweep EXCEPT ![w] =
                     [pc |-> IF rows = {} THEN "off" ELSE "working",
                      rows |-> rows, unreleased |-> rows, renewed |-> {}]]
      BY <1>1 DEF SweepRead
    <2> HIDE DEF rows
    <2>3. [pc |-> IF rows = {} THEN "off" ELSE "working",
           rows |-> rows, unreleased |-> rows, renewed |-> {}] \in ReaperType
      BY <2>1 DEF ReaperType
    <2>4. sweep' \in [Workers -> ReaperType] BY <1>t, <2>2, <2>3 DEF TypeOK
    <2> QED BY <1>1, <1>t, <2>4 DEF SweepRead, TypeOK, tables
  <1>2. CASE SweepRelease(w)
    <2>1. usage' \in UsageType /\ sweep' \in [Workers -> ReaperType]
      <3>1. PICK s \in sweep[w].unreleased :
              BatchRelease(s) /\ sweep' = [sweep EXCEPT ![w].unreleased = @ \ {s}]
        BY <1>2 DEF SweepRelease
      <3>2. usage' \in UsageType BY <1>t, <3>1, BatchReleaseType
      <3>3. sweep' \in [Workers -> ReaperType] BY <1>t, <3>1, UnreleasedType
      <3> QED BY <3>2, <3>3
    <2> QED BY <1>2, <1>t, <2>1 DEF SweepRelease, TypeOK
  <1>3. CASE SweepBury(w)
    <2> DEFINE js == {j \in {s.job : s \in sweep[w].rows} \ sweep[w].renewed :
                        jobs[j].status = "PROCESSING"}
    <2>1. js \subseteq Jobs BY <1>r
    <2>2. sweep' \in [Workers -> ReaperType] BY <1>t, <1>3, LoopTypes DEF SweepBury
    <2>3. \/ UNCHANGED <<jobs, log, rcpt, events, outbox>>
          \/ BuryJobs(js) /\ log' = ClosedLog(sweep[w].rows)
      BY <1>3 DEF SweepBury
    <2> HIDE DEF js
    <2>4. CASE UNCHANGED <<jobs, log, rcpt, events, outbox>>
      BY <1>3, <1>t, <2>2, <2>4 DEF SweepBury, TypeOK
    <2>5. CASE BuryJobs(js) /\ log' = ClosedLog(sweep[w].rows)
      BY <1>3, <1>t, <2>1, <2>2, <2>5, BuryTypes, ClosedLogType DEF SweepBury, TypeOK
    <2> QED BY <2>3, <2>4, <2>5
  <1>4. CASE Stop(w)
    <2> DEFINE rows == {Snapshot(j) : j \in ClaimsOf(w)}
               r == [Reaper("closing") EXCEPT !.rows = rows,
                                              !.unreleased = {s \in rows : s.spent}]
    <2>1. rows \subseteq SnapshotType BY <1>t, SnapshotTypes DEF ClaimsOf
    <2>2. \/ /\ wkr' = [wkr EXCEPT ![w] = Loop("stopped")]
             /\ sweep' = [sweep EXCEPT ![w] = Reaper("off")] /\ drain' = drain
          \/ /\ wkr' = [wkr EXCEPT ![w] = Loop("stopping")]
             /\ drain' = [drain EXCEPT ![w] = r] /\ sweep' = sweep
      BY <1>4 DEF Stop
    <2> HIDE DEF rows
    <2>3. r \in ReaperType BY <2>1 DEF ReaperType, Reaper
    <2> HIDE DEF r
    <2>4. /\ wkr' \in [Workers -> WorkerType]
          /\ sweep' \in [Workers -> ReaperType] /\ drain' \in [Workers -> ReaperType]
      BY <1>t, <2>2, <2>3, LoopTypes DEF TypeOK, WorkerPcs
    <2> QED BY <1>4, <1>t, <2>4 DEF Stop, TypeOK, tables
  <1>5. CASE DrainRequeue(w)
    <2> DEFINE js == {s.job : s \in {t \in drain[w].rows : ~t.spent}} \cap ClaimsOf(w)
    <2>1. jobs' = [j \in Jobs |-> IF j \in js THEN RequeuedRow(jobs[j], TRUE) ELSE jobs[j]]
      BY <1>5 DEF DrainRequeue
    <2> HIDE DEF js
    <2>2. jobs' \in [Jobs -> Row_] BY <1>t, <2>1, RequeuedRowType DEF TypeOK
    <2>3. log' \in [Jobs -> [Attempts -> {"none", "PROCESSING", "SUCCEEDED", "FAILED"}]]
      BY <1>5, <1>t, ClosedLogType DEF DrainRequeue
    <2>4. /\ wkr' \in [Workers -> WorkerType]
          /\ sweep' \in [Workers -> ReaperType] /\ drain' \in [Workers -> ReaperType]
      BY <1>5, <1>t, <1>e, UnreleasedType DEF DrainRequeue, TypeOK
    <2> QED BY <1>5, <1>t, <2>2, <2>3, <2>4 DEF DrainRequeue, TypeOK
  <1>6. CASE DrainRelease(w)
    <2>1. usage' \in UsageType /\ drain' \in [Workers -> ReaperType]
      <3>1. PICK s \in drain[w].unreleased :
              BatchRelease(s) /\ drain' = [drain EXCEPT ![w].unreleased = @ \ {s}]
        BY <1>6 DEF DrainRelease
      <3>2. usage' \in UsageType BY <1>t, <3>1, BatchReleaseType
      <3>3. drain' \in [Workers -> ReaperType] BY <1>t, <3>1, UnreleasedType
      <3> QED BY <3>2, <3>3
    <2> QED BY <1>6, <1>t, <2>1 DEF DrainRelease, TypeOK
  <1>7. CASE DrainBury(w)
    <2> DEFINE js == {s.job : s \in {t \in drain[w].rows : t.spent}} \cap ClaimsOf(w)
    <2>1. js \subseteq Jobs BY DEF ClaimsOf
    <2>2. \/ UNCHANGED <<jobs, rcpt, events, outbox>>
          \/ BuryJobs(js)
      BY <1>7 DEF DrainBury
    <2>3. Exit(w) /\ UNCHANGED <<log, usage, inflight, sends>> BY <1>7 DEF DrainBury
    <2> HIDE DEF js
    <2>4. CASE UNCHANGED <<jobs, rcpt, events, outbox>>
      BY <1>t, <1>e, <2>3, <2>4 DEF TypeOK
    <2>5. CASE BuryJobs(js) BY <1>t, <1>e, <2>1, <2>3, <2>5, BuryTypes DEF TypeOK
    <2> QED BY <2>2, <2>4, <2>5
  <1>8. CASE Crash(w)
    <2>1. wkr[w].pc = "dispatching" => <<wkr[w].job, wkr[w].n>> \in Jobs \X Attempts
      BY DEF IInv, HandInv, Holding, Working
    <2>2. inflight' \subseteq Jobs \X Attempts BY <1>8, <1>t, <2>1 DEF Crash, TypeOK
    <2>3. /\ wkr' = [wkr EXCEPT ![w] = Loop("dead")] /\ sweep' = [sweep EXCEPT ![w] = Reaper("off")]
          /\ drain' = [drain EXCEPT ![w] = Reaper("off")]
      BY <1>8 DEF Crash
    <2>4. /\ wkr' \in [Workers -> WorkerType]
          /\ sweep' \in [Workers -> ReaperType] /\ drain' \in [Workers -> ReaperType]
      BY <1>t, <2>3, LoopTypes DEF WorkerPcs
    <2> QED BY <1>8, <1>t, <2>2, <2>4 DEF Crash, TypeOK, tables
  <1> QED BY <1>1, <1>2, <1>3, <1>4, <1>5, <1>6, <1>7, <1>8 DEF Sweep, Drain

(* Time and late sends keep the types. *)
LEMMA TimeTypeStep ==
  ASSUME TypeOK,
         \/ \E j \in Jobs : LeaseRunsOut(j) \/ BecomesDue(j)
         \/ \E d \in inflight : LateSend(d)
         \/ UNCHANGED vars
  PROVE  TypeOK'
  <1>0. \A r \in Row_ : /\ [r EXCEPT !.lease = "expired"] \in Row_
                        /\ [r EXCEPT !.lease = "stale"] \in Row_
                        /\ [r EXCEPT !.due = TRUE] \in Row_
    BY DEF Row_
  <1>1. ASSUME NEW j \in Jobs, LeaseRunsOut(j) PROVE TypeOK'
    <2>1. \/ jobs' = [jobs EXCEPT ![j].lease = "expired"]
          \/ jobs' = [jobs EXCEPT ![j].lease = "stale"]
      BY <1>1 DEF LeaseRunsOut
    <2>2. jobs' \in [Jobs -> Row_]
      <3>1. CASE jobs' = [jobs EXCEPT ![j].lease = "expired"] BY <1>0, <3>1 DEF TypeOK
      <3>2. CASE jobs' = [jobs EXCEPT ![j].lease = "stale"] BY <1>0, <3>2 DEF TypeOK
      <3> QED BY <2>1, <3>1, <3>2
    <2> QED BY <1>1, <2>2 DEF LeaseRunsOut, TypeOK
  <1>2. ASSUME NEW j \in Jobs, BecomesDue(j) PROVE TypeOK'
    <2>1. jobs' \in [Jobs -> Row_] BY <1>0, <1>2 DEF BecomesDue, TypeOK
    <2> QED BY <1>2, <2>1 DEF BecomesDue, TypeOK
  <1>3. ASSUME NEW d \in inflight, LateSend(d) PROVE TypeOK'
    <2>1. d[1] \in Jobs BY DEF TypeOK
    <2>2. sends' \in [Jobs -> Nat] BY <1>3, <2>1 DEF LateSend, TypeOK
    <2> QED BY <1>3, <2>2 DEF LateSend, TypeOK, tables
  <1>4. CASE UNCHANGED vars BY <1>4 DEF vars, TypeOK
  <1> QED BY <1>1, <1>2, <1>3, <1>4

(* Every step keeps the types. *)
LEMMA TypeStep == ASSUME IInv, [WorkerNext]_vars PROVE TypeOK'
  BY LoopTypeStep, ReaperTypeStep, TimeTypeStep DEF WorkerNext, IInv
-----------------------------------------------------------------------------
(* What a step may do to one row: leave its claim alone, end the claim, or be
   the claim of a worker. *)
Kept(j) ==
  /\ jobs'[j].status = jobs[j].status /\ jobs'[j].lock = jobs[j].lock
  /\ jobs'[j].attempts = jobs[j].attempts

Ended(j) ==
  /\ jobs[j].status = "PROCESSING" /\ jobs'[j].status \in {"QUEUED", "SENT", "FAILED"}
  /\ jobs'[j].lock = NoLock /\ jobs'[j].lease = "none"
  /\ jobs'[j].attempts = jobs[j].attempts
  /\ jobs'[j].status = "QUEUED" => jobs[j].attempts < jobs[j].max

Fixed(j) == jobs'[j].max = jobs[j].max /\ jobs'[j].key = jobs[j].key

(* What a burial does to one job. *)
LEMMA BuryStep ==
  ASSUME TypeOK, NEW js \in SUBSET Jobs, \A i \in js : jobs[i].status = "PROCESSING",
         BuryJobs(js), NEW j \in Jobs
  PROVE  Fixed(j) /\ (Kept(j) \/ Ended(j))
  <1>1. jobs[j] \in Row_ BY DEF TypeOK
  <1>2. jobs'[j] = IF j \in js THEN FailedRow(jobs[j]) ELSE jobs[j] BY DEF BuryJobs
  <1> QED BY <1>1, <1>2, FailedRowType DEF Fixed, Kept, Ended, ClaimDropped

(* A worker that owns its job has the numbers of the row. *)
LEMMA OwnerKnows ==
  ASSUME IInv, NEW w \in Workers, wkr[w].pc \in Holding, Owns(w)
  PROVE  /\ wkr[w].job \in Jobs /\ wkr[w].n \in Attempts
         /\ jobs[wkr[w].job].status = "PROCESSING"
         /\ jobs[wkr[w].job].attempts = wkr[w].n
         /\ wkr[w].pc \in Working => wkr[w].max = jobs[wkr[w].job].max
  <1>1. wkr[w].job \in Jobs /\ wkr[w].n \in Attempts BY DEF IInv, HandInv
  <1>2. PICK v \in Workers : jobs[wkr[w].job].lock = <<v, jobs[wkr[w].job].attempts>>
    BY <1>1 DEF IInv, ClaimInv, Owns
  <1> QED BY <1>1, <1>2 DEF Owns, Token, IInv, HandInv

(* What any step does to one job: the key and the maximum are fixed, and the row
   is kept, ended or claimed. *)
LEMMA JobStep ==
  ASSUME IInv, [WorkerNext]_vars, NEW j \in Jobs
  PROVE  Fixed(j) /\ (Kept(j) \/ Ended(j) \/ \E w \in Workers : Claim(w, j))
  <1> DEFINE Goal == Fixed(j) /\ (Kept(j) \/ Ended(j) \/ \E w \in Workers : Claim(w, j))
  <1>t. TypeOK BY DEF IInv
  <1>j. jobs[j] \in Row_ BY <1>t DEF TypeOK
  <1>0. CASE jobs' = jobs BY <1>0 DEF Fixed, Kept
  <1>1. ASSUME NEW w \in Workers, NEW i \in Jobs, Claim(w, i) PROVE Goal
    <2>1. jobs' = [jobs EXCEPT ![i] = ClaimedRow(w, i)] BY <1>1 DEF Claim, ClaimedRow
    <2>2. CASE i = j
      <3>1. jobs'[j] = ClaimedRow(w, j) BY <1>t, <2>1, <2>2 DEF TypeOK
      <3>2. Fixed(j) BY <1>j, <3>1 DEF Fixed, ClaimedRow, Row_
      <3> QED BY <1>1, <2>2, <3>2
    <2>3. CASE i # j BY <1>t, <2>1, <2>3 DEF TypeOK, Fixed, Kept
    <2> QED BY <2>2, <2>3
  <1>2. ASSUME NEW w \in Workers, CompleteFinish(w) PROVE Goal
    <2>1. CASE jobs' = jobs BY <1>0, <2>1
    <2>2. CASE Owns(w) /\ jobs' = [jobs EXCEPT ![wkr[w].job] = SentRow(@)]
      <3>1. wkr[w].job \in Jobs /\ jobs[wkr[w].job].status = "PROCESSING"
        BY <1>2, <2>2, OwnerKnows DEF CompleteFinish, Holding, Working
      <3>2. CASE wkr[w].job = j
        <4>1. jobs'[j] = SentRow(jobs[j]) BY <1>t, <2>2, <3>2 DEF TypeOK
        <4> QED BY <1>j, <3>1, <3>2, <4>1, SentRowType DEF Fixed, Ended, ClaimDropped
      <3>3. CASE wkr[w].job # j BY <1>t, <2>2, <3>3 DEF TypeOK, Fixed, Kept
      <3> QED BY <3>2, <3>3
    <2> QED BY <1>2, <2>1, <2>2 DEF CompleteFinish
  <1>3. ASSUME NEW w \in Workers, FailFinish(w) PROVE Goal
    <2>1. CASE jobs' = jobs BY <1>0, <2>1
    <2>2. CASE Owns(w) /\ ShouldRetry(w)
               /\ jobs' = [jobs EXCEPT ![wkr[w].job] = RequeuedRow(@, FALSE)]
      <3>1. /\ wkr[w].job \in Jobs /\ jobs[wkr[w].job].status = "PROCESSING"
            /\ jobs[wkr[w].job].attempts < jobs[wkr[w].job].max
        BY <1>3, <2>2, OwnerKnows DEF FailFinish, Holding, Working, ShouldRetry
      <3>2. CASE wkr[w].job = j
        <4>1. jobs'[j] = RequeuedRow(jobs[j], FALSE) BY <1>t, <2>2, <3>2 DEF TypeOK
        <4>2. jobs'[j].status = "QUEUED" /\ ClaimDropped(jobs'[j], jobs[j])
          BY <1>j, <4>1, RequeuedRowType
        <4> QED BY <3>1, <3>2, <4>2 DEF Fixed, Ended, ClaimDropped
      <3>3. CASE wkr[w].job # j BY <1>t, <2>2, <3>3 DEF TypeOK, Fixed, Kept
      <3> QED BY <3>2, <3>3
    <2>3. CASE Owns(w) /\ BuryJobs({wkr[w].job})
      <3>1. wkr[w].job \in Jobs /\ jobs[wkr[w].job].status = "PROCESSING"
        BY <1>3, <2>3, OwnerKnows DEF FailFinish, Holding, Working
      <3> QED BY <1>t, <2>3, <3>1, BuryStep
    <2> QED BY <1>3, <2>1, <2>2, <2>3 DEF FailFinish
  <1>4. ASSUME NEW w \in Workers, Heartbeat(w) PROVE Goal
    BY <1>4, <1>t DEF Heartbeat, TypeOK, Row_, Fixed, Kept
  <1>5. ASSUME NEW i \in Jobs, LeaseRunsOut(i) PROVE Goal
    <2>1. \/ jobs' = [jobs EXCEPT ![i].lease = "expired"]
          \/ jobs' = [jobs EXCEPT ![i].lease = "stale"]
      BY <1>5 DEF LeaseRunsOut
    <2>2. CASE jobs' = [jobs EXCEPT ![i].lease = "expired"]
      BY <2>2, <1>t DEF TypeOK, Row_, Fixed, Kept
    <2>3. CASE jobs' = [jobs EXCEPT ![i].lease = "stale"]
      BY <2>3, <1>t DEF TypeOK, Row_, Fixed, Kept
    <2> QED BY <2>1, <2>2, <2>3
  <1>6. ASSUME NEW i \in Jobs, BecomesDue(i) PROVE Goal
    BY <1>6, <1>t DEF BecomesDue, TypeOK, Row_, Fixed, Kept
  <1>7. ASSUME NEW w \in Workers, SweepBury(w) PROVE Goal
    <2> DEFINE js == {i \in {s.job : s \in sweep[w].rows} \ sweep[w].renewed :
                        jobs[i].status = "PROCESSING"}
    <2>1. js \in SUBSET Jobs BY <1>t, RowsAreJobs
    <2>2. jobs' = jobs \/ BuryJobs(js) BY <1>7 DEF SweepBury
    <2>3. \A i \in js : jobs[i].status = "PROCESSING" OBVIOUS
    <2> HIDE DEF js
    <2> QED BY <1>t, <1>0, <2>1, <2>2, <2>3, BuryStep
  <1>8. ASSUME NEW w \in Workers, DrainRequeue(w) PROVE Goal
    <2> DEFINE js == {s.job : s \in {t \in drain[w].rows : ~t.spent}} \cap ClaimsOf(w)
    <2>1. \A i \in js : jobs[i].status = "PROCESSING" /\ jobs[i].attempts < jobs[i].max
      BY DEF IInv, DrainInv, ClaimsOf
    <2>2. jobs'[j] = IF j \in js THEN RequeuedRow(jobs[j], TRUE) ELSE jobs[j]
      BY <1>8 DEF DrainRequeue
    <2> HIDE DEF js
    <2>3. CASE j \in js
      <3>1. jobs'[j].status = "QUEUED" /\ ClaimDropped(jobs'[j], jobs[j])
        BY <1>j, <2>2, <2>3, RequeuedRowType
      <3> QED BY <2>1, <2>3, <3>1 DEF Fixed, Ended, ClaimDropped
    <2>4. CASE j \notin js BY <2>2, <2>4 DEF Fixed, Kept
    <2> QED BY <2>3, <2>4
  <1>9. ASSUME NEW w \in Workers, DrainBury(w) PROVE Goal
    <2> DEFINE js == {s.job : s \in {t \in drain[w].rows : t.spent}} \cap ClaimsOf(w)
    <2>1. js \in SUBSET Jobs /\ \A i \in js : jobs[i].status = "PROCESSING"
      BY DEF ClaimsOf
    <2>2. jobs' = jobs \/ BuryJobs(js) BY <1>9 DEF DrainBury
    <2> HIDE DEF js
    <2> QED BY <1>t, <1>0, <2>1, <2>2, BuryStep
  <1>10. ASSUME NEW w \in Workers,
                \/ Start(w) \/ OpenAttempt(w) \/ ClaimFails(w) \/ Dispatch(w)
                \/ CompleteCheck(w) \/ CompleteSettle(w) \/ FailCheck(w) \/ FailSettle(w)
                \/ Throws(w) \/ SweepRead(w) \/ SweepRelease(w) \/ Stop(w)
                \/ DrainRelease(w) \/ Crash(w)
         PROVE  jobs' = jobs
    BY <1>10 DEF Start, OpenAttempt, ClaimFails, Dispatch, DispatchSends, DispatchGivesUp,
       DispatchRefused, CompleteCheck, CompleteSettle, FailCheck, FailSettle, Throws,
       CompleteThrows, FailThrows, SettleThrows, SweepRead, SweepRelease, Stop,
       DrainRelease, Crash, tables
  <1>11. ASSUME NEW d \in inflight, LateSend(d) PROVE jobs' = jobs
    BY <1>11 DEF LateSend, tables
  <1>12. CASE UNCHANGED vars BY <1>0, <1>12 DEF vars
  <1> QED BY <1>0, <1>1, <1>2, <1>3, <1>4, <1>5, <1>6, <1>7, <1>8, <1>9, <1>10, <1>11, <1>12
          DEF WorkerNext, Work, Complete, FailJob, Sweep, Drain

(* The rows of the ledger are never removed. *)
LEMMA LedgerGrows ==
  ASSUME TypeOK, [WorkerNext]_vars
  PROVE  usage.ledger \subseteq usage'.ledger
  <1>u. usage \in UsageType BY DEF TypeOK
  <1>1. ASSUME NEW w \in Workers, CompleteSettle(w) PROVE usage.ledger \subseteq usage'.ledger
    BY <1>1, <1>u, SettledType DEF CompleteSettle, Settlements
  <1>2. ASSUME NEW w \in Workers, FailSettle(w) PROVE usage.ledger \subseteq usage'.ledger
    BY <1>2, <1>u, SettledType DEF FailSettle, Settlements
  <1>3. ASSUME NEW w \in Workers, SettleThrows(w) PROVE usage.ledger \subseteq usage'.ledger
    BY <1>3, <1>u, SettledType DEF SettleThrows, Settlements
  <1>4. ASSUME NEW w \in Workers, SweepRelease(w) \/ DrainRelease(w)
        PROVE  usage.ledger \subseteq usage'.ledger
    BY <1>4, BatchReleaseType DEF SweepRelease, DrainRelease
  <1>5. CASE usage' = usage BY <1>5
  <1>6. ASSUME NEW w \in Workers,
               \/ Start(w) \/ OpenAttempt(w) \/ ClaimFails(w) \/ Dispatch(w)
               \/ CompleteCheck(w) \/ CompleteFinish(w) \/ FailCheck(w) \/ FailFinish(w)
               \/ CompleteThrows(w) \/ FailThrows(w) \/ SweepRead(w) \/ SweepBury(w) \/ Stop(w)
               \/ DrainRequeue(w) \/ DrainBury(w) \/ Crash(w) \/ Heartbeat(w)
               \/ \E j \in Jobs : Claim(w, j)
        PROVE  usage' = usage
    BY <1>6 DEF Start, OpenAttempt, ClaimFails, Dispatch, DispatchSends, DispatchGivesUp,
       DispatchRefused, CompleteCheck, CompleteFinish, FailCheck, FailFinish,
       CompleteThrows, FailThrows, SweepRead, SweepBury, Stop, DrainRequeue, DrainBury,
       Crash, Heartbeat, Claim, tables
  <1>7. CASE \/ \E j \in Jobs : LeaseRunsOut(j) \/ BecomesDue(j)
             \/ \E d \in inflight : LateSend(d)
             \/ UNCHANGED vars
    BY <1>7 DEF LeaseRunsOut, BecomesDue, LateSend, vars, tables
  <1> QED BY <1>1, <1>2, <1>3, <1>4, <1>5, <1>6, <1>7
          DEF WorkerNext, Work, Complete, FailJob, Throws, Sweep, Drain

(* What a step may do to one worker: leave it without a job, claim, open the
   attempt, or go on with the job in hand. *)
GoesOn(v) ==
  /\ \/ wkr'[v].pc = wkr[v].pc
     \/ wkr[v].pc \in Working /\ wkr'[v].pc \in Working \ {"dispatching"}
  /\ wkr'[v].job = wkr[v].job /\ wkr'[v].n = wkr[v].n
  /\ wkr'[v].max = wkr[v].max /\ wkr'[v].key = wkr[v].key
  /\ wkr'[v].pc = "finishing" =>
       wkr[v].pc = "finishing" \/ HasRow(usage', "COMMIT", wkr[v].key)

(* What any step does to one worker. *)
LEMMA WorkerStep ==
  ASSUME IInv, [WorkerNext]_vars, NEW v \in Workers
  PROVE  \/ wkr'[v].pc \notin Holding
         \/ \E j \in Jobs : Claim(v, j)
         \/ OpenAttempt(v)
         \/ GoesOn(v)
  <1>t. TypeOK BY DEF IInv
  <1>v. wkr \in [Workers -> WorkerType] /\ wkr[v] \in WorkerType BY <1>t DEF TypeOK
  <1>s. wkr' = wkr => GoesOn(v) BY DEF GoesOn
  <1>l. \A pc : Loop(pc).pc = pc BY DEF Loop
  <1>h. {"new", "idle", "stopping", "stopped", "dead"} \cap Holding = {} BY DEF Holding, Working
  <1>o. ASSUME NEW w \in Workers, NEW x, wkr' = [wkr EXCEPT ![w] = x], w # v
        PROVE  GoesOn(v)
    BY <1>v, <1>o DEF GoesOn
  <1>b. ASSUME NEW w \in Workers,
               \E pc \in {"new", "idle", "stopping", "stopped", "dead"} : wkr' = [wkr EXCEPT ![w] = Loop(pc)]
        PROVE  wkr'[v].pc \notin Holding \/ GoesOn(v)
    BY <1>b, <1>v, <1>l, <1>h, <1>o
  <1>g. ASSUME NEW w \in Workers, NEW pc \in Working \ {"dispatching"},
               Goto(w, pc), wkr[w].pc \in Working,
               pc = "finishing" => HasRow(usage', "COMMIT", wkr[w].key)
        PROVE  GoesOn(v)
    BY <1>g, <1>v DEF Goto, GoesOn, WorkerType
  <1>f. ASSUME NEW w \in Workers, NEW b \in BOOLEAN, Failing(w, b), wkr[w].pc \in Working
        PROVE  GoesOn(v)
    BY <1>f, <1>v DEF Failing, GoesOn, WorkerType, Working
  <1> DEFINE Goal == \/ wkr'[v].pc \notin Holding
                     \/ \E j \in Jobs : Claim(v, j)
                     \/ OpenAttempt(v)
                     \/ GoesOn(v)
  <1>1. ASSUME NEW w \in Workers, NEW j \in Jobs, Claim(w, j) PROVE Goal
    <2>1. w # v => GoesOn(v) BY <1>1, <1>o DEF Claim
    <2> QED BY <1>1, <2>1
  <1>2. ASSUME NEW w \in Workers, OpenAttempt(w) PROVE Goal
    <2>1. CASE w # v BY <1>2, <1>v, <2>1 DEF OpenAttempt, GoesOn
    <2> QED BY <1>2, <2>1
  <1>3. ASSUME NEW w \in Workers,
               Start(w) \/ ClaimFails(w) \/ CompleteFinish(w) \/ FailFinish(w) \/ FailThrows(w)
        PROVE  Goal
    BY <1>3, <1>b DEF Start, ClaimFails, CompleteFinish, FailFinish, FailThrows, BackToPolling
  <1>4. ASSUME NEW w \in Workers, Dispatch(w) \/ CompleteThrows(w) PROVE Goal
    BY <1>4, <1>f, <1>g DEF Dispatch, DispatchSends, DispatchGivesUp, DispatchRefused,
       CompleteThrows, Working
  <1>5. ASSUME NEW w \in Workers, CompleteCheck(w) \/ FailCheck(w) PROVE Goal
    BY <1>5, <1>b, <1>g DEF CompleteCheck, FailCheck, BackToPolling, Working
  <1>6. ASSUME NEW w \in Workers, CompleteSettle(w) PROVE Goal
    <2>1. CASE Failing(w, TRUE) BY <1>6, <1>f, <2>1 DEF CompleteSettle, Working
    <2>2. CASE /\ CanSettle(usage, "COMMIT", wkr[w].key)
               /\ usage' = Settled(usage, "COMMIT", wkr[w].key) /\ Goto(w, "finishing")
      <3>1. HasRow(usage', "COMMIT", wkr[w].key)
        BY <1>t, <2>2, SettledType DEF TypeOK, Settlements
      <3> QED BY <1>6, <1>g, <2>2, <3>1 DEF CompleteSettle, Working
    <2> QED BY <1>6, <2>1, <2>2 DEF CompleteSettle
  <1>7. ASSUME NEW w \in Workers, FailSettle(w) \/ SettleThrows(w) PROVE Goal
    BY <1>7, <1>b, <1>g, <1>f DEF FailSettle, SettleThrows, BackToPolling, Working
  <1>8. ASSUME NEW w \in Workers, Stop(w) \/ DrainRequeue(w) \/ DrainBury(w) \/ Crash(w)
        PROVE  Goal
    BY <1>8, <1>b, <1>s DEF Stop, DrainRequeue, DrainBury, Crash, Exit
  <1>9. ASSUME NEW w \in Workers, Sweep(w) \/ DrainRelease(w) \/ Heartbeat(w) PROVE Goal
    BY <1>9, <1>s DEF Sweep, SweepRead, SweepRelease, SweepBury, DrainRelease, Heartbeat
  <1>10. CASE \/ \E j \in Jobs : LeaseRunsOut(j) \/ BecomesDue(j)
              \/ \E d \in inflight : LateSend(d)
              \/ UNCHANGED vars
    BY <1>10, <1>s DEF LeaseRunsOut, BecomesDue, LateSend, vars
  <1> QED BY <1>1, <1>2, <1>3, <1>4, <1>5, <1>6, <1>7, <1>8, <1>9, <1>10
          DEF WorkerNext, Work, Complete, FailJob, Throws, Drain

(* What a step may do to the batch of a recovery, and of a sweep. *)
LEMMA DrainStep ==
  ASSUME IInv, [WorkerNext]_vars, NEW v \in Workers
  PROVE  \/ drain'[v].pc = "off" /\ drain'[v].rows = {}
         \/ Stop(v)
         \/ /\ drain'[v].rows = drain[v].rows
            /\ (drain[v].pc = "off") = (drain'[v].pc = "off")
            /\ wkr[v].pc = "stopping" => wkr'[v] = wkr[v]
  <1> DEFINE Goal == \/ drain'[v].pc = "off" /\ drain'[v].rows = {}
                     \/ Stop(v)
                     \/ /\ drain'[v].rows = drain[v].rows
                        /\ (drain[v].pc = "off") = (drain'[v].pc = "off")
                        /\ wkr[v].pc = "stopping" => wkr'[v] = wkr[v]
  <1>d. /\ drain \in [Workers -> ReaperType] /\ drain[v] \in ReaperType
        /\ wkr \in [Workers -> WorkerType]
    BY DEF IInv, TypeOK
  <1>k. ASSUME NEW w \in Workers, NEW x, drain' = drain, wkr' = [wkr EXCEPT ![w] = x],
               wkr[w].pc # "stopping"
        PROVE  Goal
    BY <1>k, <1>d
  <1>e. ASSUME NEW w \in Workers, NEW pc, wkr' = [wkr EXCEPT ![w] = Loop(pc)], pc # "stopping",
               drain' = [drain EXCEPT ![w] = Reaper("off")]
        PROVE  Goal
    BY <1>e, <1>d DEF Reaper
  <1>s. drain' = drain /\ wkr' = wkr => Goal OBVIOUS
  <1>1. ASSUME NEW w \in Workers,
               \/ Start(w) \/ ClaimFails(w) \/ Dispatch(w) \/ Complete(w) \/ FailJob(w)
               \/ Throws(w) \/ \E j \in Jobs : Claim(w, j)
        PROVE  drain' = drain /\ wkr[w].pc # "stopping"
    BY <1>1 DEF Start, ClaimFails, Dispatch, DispatchSends, DispatchGivesUp, DispatchRefused,
       Complete, CompleteCheck, CompleteSettle, CompleteFinish, FailJob, FailCheck, FailSettle,
       FailFinish, Throws, CompleteThrows, FailThrows, SettleThrows, Claim
  <1>2. ASSUME NEW w \in Workers,
               \/ Start(w) \/ ClaimFails(w) \/ Dispatch(w) \/ Complete(w) \/ FailJob(w)
               \/ Throws(w) \/ \E j \in Jobs : Claim(w, j)
        PROVE  Goal
    <2>1. \A x \in Workers \ {w} : wkr'[x] = wkr[x]
      BY <1>2, <1>d DEF Start, ClaimFails, Dispatch, DispatchSends, DispatchGivesUp,
         DispatchRefused, Complete, CompleteCheck, CompleteSettle, CompleteFinish, FailJob,
         FailCheck, FailSettle, FailFinish, Throws, CompleteThrows, FailThrows, SettleThrows,
         Claim, BackToPolling, Goto, Failing
    <2> QED BY <1>1, <1>2, <2>1
  <1>3. ASSUME NEW w \in Workers, OpenAttempt(w) PROVE Goal
    BY <1>3, <1>d DEF OpenAttempt
  <1>4. ASSUME NEW w \in Workers, Stop(w) PROVE Goal BY <1>4, <1>d DEF Stop
  <1>5. ASSUME NEW w \in Workers, DrainRequeue(w) PROVE Goal
    <2>1. CASE Exit(w) BY <1>e, <2>1 DEF Exit
    <2>2. CASE drain' = [drain EXCEPT ![w].pc = "working"] /\ UNCHANGED <<wkr, sweep>>
      BY <1>5, <1>d, <2>2 DEF DrainRequeue, ReaperType
    <2> QED BY <1>5, <2>1, <2>2 DEF DrainRequeue
  <1>6. ASSUME NEW w \in Workers, DrainRelease(w) PROVE Goal
    <2>1. PICK s \in drain[w].unreleased : drain' = [drain EXCEPT ![w].unreleased = @ \ {s}]
      BY <1>6 DEF DrainRelease
    <2> QED BY <1>6, <1>d, <2>1 DEF DrainRelease, ReaperType
  <1>7. ASSUME NEW w \in Workers, DrainBury(w) \/ Crash(w) PROVE Goal
    BY <1>7, <1>e DEF DrainBury, Crash, Exit
  <1>8. ASSUME NEW w \in Workers, Sweep(w) \/ Heartbeat(w) PROVE Goal
    BY <1>8, <1>s DEF Sweep, SweepRead, SweepRelease, SweepBury, Heartbeat
  <1>9. CASE \/ \E j \in Jobs : LeaseRunsOut(j) \/ BecomesDue(j)
             \/ \E d \in inflight : LateSend(d)
             \/ UNCHANGED vars
    BY <1>9, <1>s DEF LeaseRunsOut, BecomesDue, LateSend, vars
  <1> QED BY <1>2, <1>3, <1>4, <1>5, <1>6, <1>7, <1>8, <1>9 DEF WorkerNext, Work, Drain

(* What any step does to the batch of a sweep. *)
LEMMA SweepStep ==
  ASSUME IInv, [WorkerNext]_vars, NEW v \in Workers
  PROVE  \/ sweep'[v].rows = {}
         \/ SweepRead(v)
         \/ /\ sweep'[v].rows = sweep[v].rows
            /\ \A j \in Jobs :
                 (jobs'[j].lease = "live" /\ \E s \in sweep[v].rows : s.job = j) =>
                   jobs[j].lease = "live" \/ j \in sweep'[v].renewed
            /\ sweep[v].renewed \subseteq sweep'[v].renewed
  <1> DEFINE Old == /\ sweep'[v].rows = sweep[v].rows
                    /\ sweep[v].renewed \subseteq sweep'[v].renewed
             Calm == \A j \in Jobs : jobs'[j].lease = "live" => jobs[j].lease = "live"
             Goal == \/ sweep'[v].rows = {}
                     \/ SweepRead(v)
                     \/ Old /\ \A j \in Jobs :
                          (jobs'[j].lease = "live" /\ \E s \in sweep[v].rows : s.job = j) =>
                            jobs[j].lease = "live" \/ j \in sweep'[v].renewed
  <1>d. /\ sweep \in [Workers -> ReaperType] /\ sweep[v] \in ReaperType
        /\ jobs \in [Jobs -> Row_]
    BY DEF IInv, TypeOK
  <1>c. (Old \/ sweep'[v].rows = {}) /\ Calm => Goal OBVIOUS
  <1>s. sweep' = sweep /\ Calm => Goal OBVIOUS
  <1>j. jobs' = jobs => Calm OBVIOUS
  <1>o. \A w \in Workers : sweep' = [sweep EXCEPT ![w] = Reaper("off")]
                           => Old \/ sweep'[v].rows = {}
    BY <1>d DEF Reaper
  <1>b. ASSUME NEW js \in SUBSET Jobs, BuryJobs(js) PROVE Calm
    BY <1>b, <1>d, FailedRowType DEF BuryJobs, ClaimDropped
  <1>1. ASSUME NEW w \in Workers, NEW i \in Jobs, NEW r, sweep' = Renewed(i),
               jobs' = [jobs EXCEPT ![i] = r]
        PROVE  Goal
    <2>1. sweep'[v].rows = sweep[v].rows /\ sweep[v].renewed \subseteq sweep'[v].renewed
      BY <1>1, <1>d DEF Renewed, ReaperType
    <2>2. (\E s \in sweep[v].rows : s.job = i) => i \in sweep'[v].renewed
      BY <1>1, <1>d DEF Renewed, ReaperType
    <2> QED BY <1>1, <1>d, <2>1, <2>2
  <1>2. ASSUME NEW w \in Workers, \/ Heartbeat(w) \/ \E j \in Jobs : Claim(w, j) PROVE Goal
    <2>1. ASSUME NEW j \in Jobs, Claim(w, j) PROVE Goal
      <3>1. jobs' = [jobs EXCEPT ![j] = ClaimedRow(w, j)] /\ sweep' = Renewed(j)
        BY <2>1 DEF Claim, ClaimedRow
      <3> QED BY <1>1, <3>1
    <2>2. CASE Heartbeat(w)
      <3>1. wkr[w].job \in Jobs BY <2>2 DEF Heartbeat, IInv, HandInv, Holding
      <3>2. /\ jobs' = [jobs EXCEPT ![wkr[w].job] = [jobs[wkr[w].job] EXCEPT !.lease = "live"]]
            /\ sweep' = Renewed(wkr[w].job)
        BY <2>2, <3>1, <1>d DEF Heartbeat
      <3> QED BY <1>1, <3>1, <3>2
    <2> QED BY <1>2, <2>1, <2>2
  <1>3. ASSUME NEW w \in Workers, SweepBury(w) PROVE Goal
    <2> DEFINE js == {j \in {s.job : s \in sweep[w].rows} \ sweep[w].renewed :
                        jobs[j].status = "PROCESSING"}
    <2>1. js \in SUBSET Jobs BY RowsAreJobs DEF IInv
    <2>2. jobs' = jobs \/ BuryJobs(js) BY <1>3 DEF SweepBury
    <2> HIDE DEF js
    <2>3. Calm BY <1>b, <1>j, <2>1, <2>2
    <2>4. sweep' = [sweep EXCEPT ![w] = Reaper("off")] BY <1>3 DEF SweepBury
    <2> QED BY <1>c, <1>o, <2>3, <2>4
  <1>4. ASSUME NEW w \in Workers, DrainRequeue(w) PROVE Goal
    <2>1. Calm BY <1>4, <1>d, RequeuedRowType DEF DrainRequeue, ClaimDropped
    <2>2. sweep' = sweep \/ sweep' = [sweep EXCEPT ![w] = Reaper("off")]
      BY <1>4 DEF DrainRequeue, Exit
    <2> QED BY <1>c, <1>o, <1>s, <2>1, <2>2
  <1>5. ASSUME NEW w \in Workers, DrainBury(w) PROVE Goal
    <2> DEFINE js == {s.job : s \in {t \in drain[w].rows : t.spent}} \cap ClaimsOf(w)
    <2>1. js \in SUBSET Jobs BY DEF ClaimsOf
    <2>2. jobs' = jobs \/ BuryJobs(js) BY <1>5 DEF DrainBury
    <2> HIDE DEF js
    <2>3. Calm BY <1>b, <1>j, <2>1, <2>2
    <2>4. sweep' = [sweep EXCEPT ![w] = Reaper("off")] BY <1>5 DEF DrainBury, Exit
    <2> QED BY <1>c, <1>o, <2>3, <2>4
  <1>6. ASSUME NEW w \in Workers, Stop(w) \/ Crash(w) PROVE Goal
    BY <1>6, <1>c, <1>j, <1>o, <1>s DEF Stop, Crash, tables
  <1>7. ASSUME NEW w \in Workers, Start(w) PROVE Goal
    BY <1>7, <1>c, <1>j, <1>d DEF Start, Reaper
  <1>8. ASSUME NEW w \in Workers, SweepRead(w) PROVE Goal
    <2>1. CASE w = v BY <1>8, <2>1
    <2>2. CASE w # v BY <1>8, <1>d, <1>c, <1>j, <2>2 DEF SweepRead, tables
    <2> QED BY <2>1, <2>2
  <1>9. ASSUME NEW w \in Workers, SweepRelease(w) PROVE Goal
    <2>1. PICK s \in sweep[w].unreleased : sweep' = [sweep EXCEPT ![w].unreleased = @ \ {s}]
      BY <1>9 DEF SweepRelease
    <2>2. Old BY <1>d, <2>1 DEF ReaperType
    <2> QED BY <1>9, <1>c, <1>j, <2>2 DEF SweepRelease
  <1>10. ASSUME NEW w \in Workers, CompleteFinish(w) PROVE Goal
    <2>1. CASE jobs' = jobs BY <1>10, <1>s, <1>j, <2>1 DEF CompleteFinish
    <2>2. CASE jobs' = [jobs EXCEPT ![wkr[w].job] = SentRow(@)]
      <3>1. Calm BY <1>d, <2>2, SentRowType DEF ClaimDropped
      <3> QED BY <1>10, <1>s, <3>1 DEF CompleteFinish
    <2> QED BY <1>10, <2>1, <2>2 DEF CompleteFinish
  <1>11. ASSUME NEW w \in Workers, FailFinish(w) PROVE Goal
    <2>1. wkr[w].job \in Jobs BY <1>11 DEF FailFinish, IInv, HandInv, Holding, Working
    <2>2. CASE jobs' = jobs BY <1>11, <1>s, <1>j, <2>2 DEF FailFinish
    <2>3. CASE jobs' = [jobs EXCEPT ![wkr[w].job] = RequeuedRow(@, FALSE)]
      <3>1. Calm BY <1>d, <2>3, RequeuedRowType DEF ClaimDropped
      <3> QED BY <1>11, <1>s, <3>1 DEF FailFinish
    <2>4. CASE BuryJobs({wkr[w].job})
      BY <1>11, <1>b, <1>s, <2>1, <2>4 DEF FailFinish
    <2> QED BY <1>11, <2>2, <2>3, <2>4 DEF FailFinish
  <1>12. ASSUME NEW w \in Workers,
                \/ OpenAttempt(w) \/ ClaimFails(w) \/ Dispatch(w)
                \/ CompleteCheck(w) \/ CompleteSettle(w) \/ FailCheck(w) \/ FailSettle(w)
                \/ Throws(w) \/ DrainRelease(w)
         PROVE  Goal
    BY <1>12, <1>s, <1>j DEF OpenAttempt, ClaimFails, Dispatch, DispatchSends, DispatchGivesUp,
       DispatchRefused, CompleteCheck, CompleteSettle, FailCheck, FailSettle, Throws,
       CompleteThrows, FailThrows, SettleThrows, DrainRelease, tables
  <1>13. ASSUME NEW i \in Jobs, LeaseRunsOut(i) \/ BecomesDue(i) PROVE Goal
    <2>1. \/ jobs' = [jobs EXCEPT ![i].lease = "expired"]
          \/ jobs' = [jobs EXCEPT ![i].lease = "stale"]
          \/ jobs' = [jobs EXCEPT ![i].due = TRUE]
      BY <1>13 DEF LeaseRunsOut, BecomesDue
    <2>2. CASE jobs' = [jobs EXCEPT ![i].lease = "expired"]
      BY <1>13, <1>s, <1>d, <2>2 DEF LeaseRunsOut, BecomesDue, Row_
    <2>3. CASE jobs' = [jobs EXCEPT ![i].lease = "stale"]
      BY <1>13, <1>s, <1>d, <2>3 DEF LeaseRunsOut, BecomesDue, Row_
    <2>4. CASE jobs' = [jobs EXCEPT ![i].due = TRUE]
      BY <1>13, <1>s, <1>d, <2>4 DEF LeaseRunsOut, BecomesDue, Row_
    <2> QED BY <2>1, <2>2, <2>3, <2>4
  <1>14. CASE (\E d \in inflight : LateSend(d)) \/ UNCHANGED vars
    BY <1>14, <1>s, <1>j DEF LateSend, vars, tables
  <1> QED BY <1>2, <1>3, <1>4, <1>5, <1>6, <1>7, <1>8, <1>9, <1>10, <1>11, <1>12, <1>13, <1>14
          DEF WorkerNext, Work, Complete, FailJob, Sweep, Drain
-----------------------------------------------------------------------------
(* What a claim writes, in the row and in the worker. *)
LEMMA ClaimStep ==
  ASSUME IInv, NEW w \in Workers, NEW j \in Jobs, Claim(w, j)
  PROVE  /\ jobs'[j] = ClaimedRow(w, j)
         /\ wkr'[w] = [Loop("claimed") EXCEPT !.job = j, !.n = jobs[j].attempts + 1]
         /\ jobs'[j].status = "PROCESSING" /\ jobs'[j].max = jobs[j].max
         /\ jobs'[j].attempts = jobs[j].attempts + 1
         /\ jobs'[j].lock = <<w, jobs[j].attempts + 1>>
         /\ jobs[j].attempts + 1 \in Attempts /\ jobs[j].attempts + 1 <= jobs[j].max
         /\ wkr[w].pc = "idle" /\ sweep' = Renewed(j)
  <1>t. TypeOK BY DEF IInv
  <1>1. jobs[j] \in Row_ BY <1>t DEF TypeOK
  <1>2. jobs'[j] = ClaimedRow(w, j) BY <1>t DEF Claim, ClaimedRow, TypeOK
  <1>3. /\ jobs'[j].status = "PROCESSING" /\ jobs'[j].max = jobs[j].max
        /\ jobs'[j].attempts = jobs[j].attempts + 1
        /\ jobs'[j].lock = <<w, jobs[j].attempts + 1>>
    BY <1>1, <1>2 DEF ClaimedRow, Row_
  <1>4. jobs[j].attempts + 1 \in Attempts /\ jobs[j].attempts + 1 <= jobs[j].max
    BY <1>t, ClaimedRowType DEF Claim
  <1>5. wkr'[w] = [Loop("claimed") EXCEPT !.job = j, !.n = jobs[j].attempts + 1]
    BY <1>t DEF Claim, TypeOK
  <1> QED BY <1>2, <1>3, <1>4, <1>5 DEF Claim

(* The conjuncts of the invariant, one by one. *)
LEMMA ClaimInvStep == ASSUME IInv, [WorkerNext]_vars PROVE ClaimInv'
  <1> SUFFICES ASSUME NEW j \in Jobs, jobs'[j].status = "PROCESSING"
               PROVE  \E w \in Workers : jobs'[j].lock = <<w, jobs'[j].attempts>>
    BY DEF ClaimInv
  <1>1. CASE Kept(j) BY <1>1 DEF Kept, IInv, ClaimInv
  <1>2. CASE Ended(j) BY <1>2 DEF Ended
  <1>3. ASSUME NEW w \in Workers, Claim(w, j)
        PROVE  jobs'[j].lock = <<w, jobs'[j].attempts>>
    BY <1>3, ClaimStep
  <1> QED BY <1>1, <1>2, <1>3, JobStep

(* Attempts stay within their maximum, and a requeue leaves one to claim. *)
LEMMA AttemptsStep == ASSUME IInv, [WorkerNext]_vars PROVE AttemptsInv' /\ NoStrandedQueued'
  <1> SUFFICES ASSUME NEW j \in Jobs
               PROVE  /\ jobs'[j].attempts <= jobs'[j].max
                      /\ jobs'[j].status = "QUEUED" => jobs'[j].attempts < jobs'[j].max
    BY DEF AttemptsInv, NoStrandedQueued
  <1>0. /\ jobs[j].attempts <= jobs[j].max
        /\ jobs[j].status = "QUEUED" => jobs[j].attempts < jobs[j].max
    BY DEF IInv, AttemptsInv, NoStrandedQueued
  <1>1. CASE Kept(j) /\ Fixed(j) BY <1>0, <1>1 DEF Kept, Fixed
  <1>2. CASE Ended(j) /\ Fixed(j) BY <1>0, <1>2 DEF Ended, Fixed
  <1>3. ASSUME NEW w \in Workers, Claim(w, j)
        PROVE  jobs'[j].attempts <= jobs'[j].max /\ jobs'[j].status # "QUEUED"
    BY <1>3, ClaimStep
  <1> QED BY <1>1, <1>2, <1>3, JobStep

(* What a worker took down stays true while it owns the row. *)
LEMMA HandInvStep == ASSUME IInv, [WorkerNext]_vars PROVE HandInv'
  <1> SUFFICES ASSUME NEW v \in Workers
               PROVE  /\ wkr'[v].pc \in Holding => wkr'[v].job \in Jobs /\ wkr'[v].n \in Attempts
                      /\ (wkr'[v].pc \in Working /\ Owns(v)') =>
                           /\ wkr'[v].max = jobs'[wkr'[v].job].max
                           /\ wkr'[v].key = jobs'[wkr'[v].job].key
                      /\ wkr'[v].pc = "finishing" => HasRow(usage', "COMMIT", wkr'[v].key)
    BY DEF HandInv
  <1>t. TypeOK BY DEF IInv
  <1>i. /\ wkr[v].pc \in Holding => wkr[v].job \in Jobs /\ wkr[v].n \in Attempts
        /\ (wkr[v].pc \in Working /\ Owns(v)) =>
             wkr[v].max = jobs[wkr[v].job].max /\ wkr[v].key = jobs[wkr[v].job].key
        /\ wkr[v].pc = "finishing" => HasRow(usage, "COMMIT", wkr[v].key)
    BY DEF IInv, HandInv
  <1>h. "finishing" \in Working /\ Working \subseteq Holding /\ "claimed" \notin Working
    BY DEF Working, Holding
  <1>l. \A k : HasRow(usage, "COMMIT", k) => HasRow(usage', "COMMIT", k)
    BY <1>t, LedgerGrows DEF HasRow
  <1>1. CASE wkr'[v].pc \notin Holding BY <1>1, <1>h
  <1>2. ASSUME NEW j \in Jobs, Claim(v, j)
        PROVE  wkr'[v].pc = "claimed" /\ wkr'[v].job \in Jobs /\ wkr'[v].n \in Attempts
    <2>1. /\ wkr'[v] = [Loop("claimed") EXCEPT !.job = j, !.n = jobs[j].attempts + 1]
          /\ jobs[j].attempts + 1 \in Attempts
      BY <1>2, ClaimStep
    <2> QED BY <2>1 DEF Loop
  <1>3. CASE OpenAttempt(v)
    <2>1. /\ wkr'[v].pc = "dispatching" /\ wkr'[v].job = wkr[v].job /\ wkr'[v].n = wkr[v].n
          /\ wkr'[v].max = jobs[wkr[v].job].max /\ wkr'[v].key = jobs[wkr[v].job].key
      <3>1. wkr[v] \in WorkerType /\ wkr \in [Workers -> WorkerType] BY <1>t DEF TypeOK
      <3> QED BY <1>3, <3>1 DEF OpenAttempt, WorkerType
    <2>2. jobs' = jobs BY <1>3 DEF OpenAttempt
    <2>3. wkr[v].pc \in Holding BY <1>3 DEF OpenAttempt, Holding
    <2> QED BY <1>i, <2>1, <2>2, <2>3
  <1>4. CASE GoesOn(v)
    <2>1. wkr'[v].pc \in Holding => wkr[v].pc \in Holding BY <1>4, <1>h DEF GoesOn
    <2>2. wkr'[v].pc = "finishing" => HasRow(usage', "COMMIT", wkr'[v].key)
      BY <1>4, <1>i, <1>l DEF GoesOn
    <2>3. ASSUME wkr'[v].pc \in Working, Owns(v)'
          PROVE  wkr'[v].max = jobs'[wkr'[v].job].max /\ wkr'[v].key = jobs'[wkr'[v].job].key
      <3> DEFINE j == wkr[v].job
      <3>1. wkr[v].pc \in Working BY <1>4, <2>3 DEF GoesOn
      <3>2. j \in Jobs /\ wkr'[v].job = j BY <1>4, <1>i, <1>h, <3>1 DEF GoesOn
      <3>3. jobs'[j].status = "PROCESSING" /\ jobs'[j].lock = <<v, wkr[v].n>>
        BY <1>4, <2>3, <3>2 DEF GoesOn, Owns, Token
      <3>4. ~ \E w \in Workers : Claim(w, j)
        <4> SUFFICES ASSUME NEW w \in Workers, Claim(w, j) PROVE FALSE OBVIOUS
        <4>1. jobs'[j].lock = <<w, jobs[j].attempts + 1>> /\ wkr[w].pc = "idle"
          BY <3>2, ClaimStep
        <4>2. w = v BY <3>3, <4>1
        <4> QED BY <3>1, <4>1, <4>2 DEF Working
      <3>5. Fixed(j) /\ Kept(j) BY <3>2, <3>3, <3>4, JobStep DEF Ended
      <3>6. Owns(v) BY <3>3, <3>5 DEF Kept, Owns, Token
      <3> QED BY <1>4, <1>i, <3>1, <3>2, <3>5, <3>6 DEF GoesOn, Fixed
    <2> QED BY <1>4, <1>i, <2>1, <2>2, <2>3 DEF GoesOn
  <1> QED BY <1>1, <1>2, <1>3, <1>4, <1>h, WorkerStep

(* A recovery finds its rows as it read them. *)
LEMMA DrainInvStep == ASSUME IInv, [WorkerNext]_vars PROVE DrainInv'
  <1> SUFFICES ASSUME NEW v \in Workers
               PROVE  /\ drain'[v].pc = "off" => drain'[v].rows = {}
                      /\ drain'[v].pc # "off" => wkr'[v].pc = "stopping"
                      /\ \A s \in drain'[v].rows :
                           (~s.spent /\ s.job \in ClaimsOf(v)') =>
                             jobs'[s.job].attempts < jobs'[s.job].max
    BY DEF DrainInv
  <1>t. TypeOK BY DEF IInv
  <1>i. /\ drain[v].pc = "off" => drain[v].rows = {}
        /\ drain[v].pc # "off" => wkr[v].pc = "stopping"
        /\ \A s \in drain[v].rows :
             (~s.spent /\ s.job \in ClaimsOf(v)) => jobs[s.job].attempts < jobs[s.job].max
    BY DEF IInv, DrainInv
  <1>1. CASE drain'[v].pc = "off" /\ drain'[v].rows = {} BY <1>1
  <1>2. CASE Stop(v)
    <2>1. jobs' = jobs BY <1>2 DEF Stop, tables
    <2>2. drain \in [Workers -> ReaperType] /\ wkr \in [Workers -> WorkerType]
      BY <1>t DEF TypeOK
    <2>3. CASE drain' = drain /\ ClaimsOf(v) = {}
      <3>1. wkr[v].pc # "stopping" BY <1>2 DEF Stop
      <3>2. drain'[v].pc = "off" BY <1>i, <2>3, <3>1
      <3>3. ClaimsOf(v)' = {} BY <2>1, <2>3 DEF ClaimsOf
      <3> QED BY <1>i, <2>3, <3>2, <3>3
    <2>4. CASE /\ wkr' = [wkr EXCEPT ![v] = Loop("stopping")]
               /\ drain'[v].pc = "closing"
               /\ drain'[v].rows = {Snapshot(j) : j \in ClaimsOf(v)}
      <3>1. wkr'[v].pc = "stopping" BY <2>2, <2>4 DEF Loop
      <3>2. \A s \in drain'[v].rows : ~s.spent => jobs[s.job].attempts < jobs[s.job].max
        <4> SUFFICES ASSUME NEW j \in ClaimsOf(v), ~Snapshot(j).spent
                     PROVE  jobs[Snapshot(j).job].attempts < jobs[Snapshot(j).job].max
          BY <2>4
        <4>1. jobs[j] \in Row_ BY <1>t DEF TypeOK, ClaimsOf
        <4>2. jobs[j].attempts \in Nat /\ jobs[j].max \in Nat BY <4>1, AttemptsAssumption DEF Row_
        <4>3. Snapshot(j).job = j /\ Snapshot(j).spent = (jobs[j].attempts >= jobs[j].max)
          BY DEF Snapshot
        <4>4. ~(jobs[j].attempts >= jobs[j].max) BY <4>3
        <4>5. jobs[j].attempts < jobs[j].max BY <4>2, <4>4
        <4> QED BY <4>3, <4>5
      <3> QED BY <2>1, <2>4, <3>1, <3>2
    <2>5. ClaimsOf(v) = {} => {Snapshot(j) : j \in ClaimsOf(v)} = {} OBVIOUS
    <2>6. ClaimsOf(v) # {} => {Snapshot(j) : j \in ClaimsOf(v)} # {} OBVIOUS
    <2>7. ASSUME ClaimsOf(v) # {}
          PROVE  /\ wkr' = [wkr EXCEPT ![v] = Loop("stopping")]
                 /\ drain'[v].pc = "closing"
                 /\ drain'[v].rows = {Snapshot(j) : j \in ClaimsOf(v)}
      BY <1>2, <2>2, <2>6, <2>7 DEF Stop, Reaper
    <2>8. ASSUME ClaimsOf(v) = {} PROVE drain' = drain
      BY <1>2, <2>5, <2>8 DEF Stop
    <2> QED BY <2>3, <2>4, <2>7, <2>8
  <1>3. CASE /\ drain'[v].rows = drain[v].rows
             /\ (drain[v].pc = "off") = (drain'[v].pc = "off")
             /\ wkr[v].pc = "stopping" => wkr'[v] = wkr[v]
    <2>1. drain'[v].pc # "off" => wkr'[v].pc = "stopping" BY <1>i, <1>3
    <2>2. ASSUME NEW s \in drain'[v].rows, ~s.spent, s.job \in ClaimsOf(v)'
          PROVE  jobs'[s.job].attempts < jobs'[s.job].max
      <3> DEFINE j == s.job
      <3>1. j \in Jobs /\ jobs'[j].status = "PROCESSING" /\ jobs'[j].lock[1] = v
        BY <2>2 DEF ClaimsOf
      <3>2. s \in drain[v].rows BY <1>3, <2>2
      <3>3. ASSUME NEW w \in Workers, Claim(w, j)
            PROVE  jobs'[j].attempts < jobs'[j].max
        <4>0. jobs'[j].lock = <<w, jobs[j].attempts + 1>> BY <3>1, <3>3, ClaimStep
        <4>1. w = v BY <3>1, <4>0
        <4>2. drain[v].pc # "off" => FALSE BY <1>i, <3>1, <3>3, <4>1, ClaimStep
        <4>3. drain[v].pc = "off" => drain[v].rows = {} BY DEF IInv, DrainInv
        <4> QED BY <3>2, <4>2, <4>3
      <3>4. CASE Kept(j) /\ Fixed(j)
        <4>1. j \in ClaimsOf(v) BY <3>1, <3>4 DEF Kept, ClaimsOf
        <4> QED BY <1>i, <2>2, <3>2, <3>4, <4>1 DEF Kept, Fixed
      <3>5. ~Ended(j) BY <3>1 DEF Ended
      <3> QED BY <3>1, <3>3, <3>4, <3>5, JobStep
    <2>3. drain'[v].pc = "off" => drain'[v].rows = {}
      <3>1. CASE drain[v].pc = "off" BY <1>i, <1>3, <3>1
      <3>2. CASE drain[v].pc # "off" BY <1>i, <1>3, <3>2
      <3> QED BY <3>1, <3>2
    <2> QED BY <2>1, <2>2, <2>3
  <1> QED BY <1>1, <1>2, <1>3, DrainStep

(* A live lease is one that the sweep has seen renewed. *)
LEMMA SweepInvStep == ASSUME IInv, [WorkerNext]_vars PROVE SweepInv'
  <1> SUFFICES ASSUME NEW v \in Workers, NEW s \in sweep'[v].rows,
                      s.job \notin sweep'[v].renewed, jobs'[s.job].status = "PROCESSING",
                      jobs'[s.job].lease = "live"
               PROVE  FALSE
    BY DEF SweepInv
  <1>t. TypeOK BY DEF IInv
  <1> DEFINE j == s.job
  <1>1. CASE SweepRead(v)
    <2>1. sweep \in [Workers -> ReaperType] BY <1>t DEF TypeOK
    <2>2. jobs' = jobs BY <1>1 DEF SweepRead, tables
    <2>3. sweep'[v].rows = {Snapshot(i) : i \in {x \in Jobs :
                    /\ jobs[x].status = "PROCESSING" /\ jobs[x].lease = "stale"
                    /\ jobs[x].attempts >= jobs[x].max}}
      BY <1>1, <2>1 DEF SweepRead
    <2>4. jobs[s.job].lease = "stale" BY <2>3 DEF Snapshot
    <2> QED BY <2>2, <2>4
  <1>2. CASE /\ sweep'[v].rows = sweep[v].rows
             /\ \A i \in Jobs :
                  (jobs'[i].lease = "live" /\ \E x \in sweep[v].rows : x.job = i) =>
                    jobs[i].lease = "live" \/ i \in sweep'[v].renewed
             /\ sweep[v].renewed \subseteq sweep'[v].renewed
    <2>1. s \in sweep[v].rows /\ j \in Jobs BY <1>2, <1>t, RowsAreJobs
    <2>2. j \notin sweep[v].renewed /\ jobs[j].lease = "live" BY <1>2, <2>1
    <2>3. jobs[j].status # "PROCESSING" BY <2>1, <2>2 DEF IInv, SweepInv
    <2>4. PICK w \in Workers : Claim(w, j) BY <2>1, <2>3, JobStep DEF Kept, Ended
    <2>5. sweep' = Renewed(j) BY <2>1, <2>4, ClaimStep
    <2>6. sweep[v] \in ReaperType BY <1>t DEF TypeOK
    <2>7. j \in sweep'[v].renewed BY <2>1, <2>5, <2>6 DEF Renewed, ReaperType
    <2> QED BY <2>7
  <1> QED BY <1>1, <1>2, SweepStep

(* Every step keeps the invariant. *)
LEMMA InductionStep == ASSUME IInv, [WorkerNext]_vars PROVE IInv'
  BY TypeStep, ClaimInvStep, HandInvStep, DrainInvStep, SweepInvStep, AttemptsStep DEF IInv

(* IInv is an invariant of the workers' side of the queue. *)
LEMMA InductiveInvariant == Spec => []IInv
  <1>1. ASSUME Init PROVE IInv
    <2> USE <1>1 DEF Init, InitTables, InitWorkers
    <2>1. TypeOK
      <3>1. \A j \in Jobs : NewRow(j) \in Row_
        <4> SUFFICES ASSUME NEW j \in Jobs PROVE NewRow(j) \in Row_ OBVIOUS
        <4>1. EnqueueKey(j) \in QuotaKeys BY DEF QuotaKeys
        <4>2. MaxAttempts \in 0..AttemptLimit /\ 0 \in 0..AttemptLimit
          BY AttemptsAssumption
        <4> QED BY <4>1, <4>2 DEF NewRow, NoRow, Row_, Statuses, Locks
      <3>2. jobs \in [Jobs -> Row_] BY <3>1
      <3>3. usage \in UsageType
        <4>1. usage.ledger \subseteq LedgerRow BY DEF LedgerRow, LedgerOps, QuotaKeys
        <4>2. Cardinality(Jobs) \in Nat BY FinitenessAssumption, FS_CardinalityType
        <4> QED BY <4>1, <4>2 DEF UsageType
      <3>4. Loop("new") \in WorkerType BY AttemptsInRange DEF Loop, WorkerType
      <3>5. Reaper("off") \in ReaperType BY DEF Reaper, ReaperType
      <3> QED BY <3>2, <3>3, <3>4, <3>5 DEF TypeOK
    <2>2. \A j \in Jobs : jobs[j].status = "QUEUED" /\ jobs[j].attempts = 0
                          /\ jobs[j].max = MaxAttempts
      BY DEF NewRow, NoRow
    <2>3. ClaimInv BY <2>2 DEF ClaimInv
    <2>4. HandInv BY DEF HandInv, Loop, Holding, Working
    <2>5. DrainInv BY DEF DrainInv, Reaper
    <2>6. SweepInv BY DEF SweepInv, Reaper
    <2>7. AttemptsInv /\ NoStrandedQueued
      BY <2>2, AttemptsAssumption DEF AttemptsInv, NoStrandedQueued
    <2> QED BY <2>1, <2>3, <2>4, <2>5, <2>6, <2>7 DEF IInv
  <1> QED BY <1>1, InductionStep, PTL DEF Spec

(* No worker, sweep or recovery leaves a queued job without an attempt: such a
   job would never be claimed again, and its reservation never settled. *)
THEOREM NothingStranded == Spec => []NoStrandedQueued
  BY InductiveInvariant, PTL DEF IInv

(* Every table the workers write keeps its shape, and the counters of the
   monthly quota stay natural numbers, under every interleaving. *)
THEOREM TypeCorrect == Spec => []TypeOK
  BY InductiveInvariant, PTL DEF IInv

(* A step that takes a job away from a live claim is a step of its holder. *)
LEMMA ExclusiveStep ==
  ASSUME IInv, [WorkerNext]_vars, NEW j \in Jobs,
         jobs[j].status = "PROCESSING", jobs[j].lease = "live",
         jobs'[j].status # "PROCESSING" \/ jobs'[j].lock # jobs[j].lock,
         NEW h, h = jobs[j].lock[1]
  PROVE  wkr'[h] # wkr[h] \/ drain'[h] # drain[h]
  <1> DEFINE Goal == wkr'[h] # wkr[h] \/ drain'[h] # drain[h]
  <1>t. TypeOK BY DEF IInv
  <1>d. /\ wkr \in [Workers -> WorkerType] /\ drain \in [Workers -> ReaperType]
        /\ jobs \in [Jobs -> Row_]
    BY <1>t DEF TypeOK
  <1>0. ~Kept(j) BY DEF Kept
  <1>c. ASSUME NEW w \in Workers, NEW i \in Jobs, Claim(w, i) PROVE Goal
    <2>1. i = j BY <1>0, <1>c, <1>d DEF Claim, Kept
    <2> QED BY <1>c, <2>1 DEF Claim, Claimable
  <1>b. ASSUME NEW w \in Workers, Owns(w), wkr[w].job = j, wkr[w].pc \in Working, BackToPolling(w)
        PROVE  Goal
    <2>1. h = w BY <1>b DEF Owns, Token
    <2>2. wkr'[w].pc = "idle" BY <1>b, <1>d DEF BackToPolling, Loop
    <2> QED BY <1>b, <2>1, <2>2 DEF Working
  <1>1. ASSUME NEW w \in Workers, CompleteFinish(w) \/ FailFinish(w) PROVE Goal
    <2>1. wkr[w].job \in Jobs /\ wkr[w].pc \in Working /\ BackToPolling(w)
      BY <1>1 DEF IInv, HandInv, CompleteFinish, FailFinish, Working, Holding
    <2>2. CASE wkr[w].job = j /\ Owns(w) BY <1>b, <2>1, <2>2
    <2>3. CASE ~Owns(w) BY <1>0, <1>1, <2>3 DEF CompleteFinish, FailFinish, Kept
    <2>4. CASE wkr[w].job # j
      <3>1. jobs'[j] = jobs[j]
        BY <1>1, <1>d, <2>1, <2>4 DEF CompleteFinish, FailFinish, BuryJobs
      <3> QED BY <1>0, <3>1 DEF Kept
    <2> QED BY <2>2, <2>3, <2>4
  <1>2. ASSUME NEW w \in Workers, SweepBury(w) PROVE Goal
    <2>1. PICK s \in sweep[w].rows : s.job = j /\ j \notin sweep[w].renewed
      BY <1>0, <1>2 DEF SweepBury, BuryJobs, Kept
    <2> QED BY <2>1 DEF IInv, SweepInv
  <1>3. ASSUME NEW w \in Workers, DrainRequeue(w) \/ DrainBury(w) PROVE Goal
    <2>1. jobs'[j] = jobs[j] \/ j \in ClaimsOf(w)
      BY <1>3 DEF DrainRequeue, DrainBury, BuryJobs
    <2>2. h = w BY <1>0, <2>1 DEF Kept, ClaimsOf
    <2>3. drain'[w].pc # drain[w].pc
      <3>1. CASE Exit(w)
        <4>1. drain'[w].pc = "off" BY <1>d, <3>1 DEF Exit, Reaper
        <4> QED BY <1>3, <4>1 DEF DrainRequeue, DrainBury
      <3>2. CASE DrainRequeue(w) /\ drain' = [drain EXCEPT ![w].pc = "working"]
        <4>1. drain'[w].pc = "working" BY <1>d, <3>2 DEF ReaperType
        <4> QED BY <3>2, <4>1 DEF DrainRequeue
      <3> QED BY <1>3, <3>1, <3>2 DEF DrainRequeue, DrainBury
    <2> QED BY <2>2, <2>3
  <1>4. ASSUME NEW w \in Workers, Heartbeat(w) PROVE FALSE
    BY <1>4, <1>d, <1>0 DEF Heartbeat, Kept, Row_
  <1>5. ASSUME NEW i \in Jobs, LeaseRunsOut(i) PROVE FALSE
    <2>1. CASE jobs' = [jobs EXCEPT ![i].lease = "expired"]
      BY <1>0, <1>d, <2>1 DEF Kept, Row_
    <2>2. CASE jobs' = [jobs EXCEPT ![i].lease = "stale"]
      BY <1>0, <1>d, <2>2 DEF Kept, Row_
    <2> QED BY <1>5, <2>1, <2>2 DEF LeaseRunsOut
  <1>6. ASSUME NEW i \in Jobs, BecomesDue(i) PROVE FALSE
    BY <1>6, <1>d, <1>0 DEF BecomesDue, Kept, Row_
  <1>7. jobs' # jobs BY <1>0 DEF Kept
  <1>8. ASSUME NEW w \in Workers,
               \/ Start(w) \/ OpenAttempt(w) \/ ClaimFails(w) \/ Dispatch(w)
               \/ CompleteCheck(w) \/ CompleteSettle(w) \/ FailCheck(w) \/ FailSettle(w)
               \/ Throws(w) \/ SweepRead(w) \/ SweepRelease(w) \/ Stop(w)
               \/ DrainRelease(w) \/ Crash(w)
        PROVE  FALSE
    BY <1>7, <1>8 DEF Start, OpenAttempt, ClaimFails, Dispatch, DispatchSends, DispatchGivesUp,
       DispatchRefused, CompleteCheck, CompleteSettle, FailCheck, FailSettle, Throws,
       CompleteThrows, FailThrows, SettleThrows, SweepRead, SweepRelease, Stop,
       DrainRelease, Crash, tables
  <1>9. ASSUME (\E d \in inflight : LateSend(d)) \/ UNCHANGED vars PROVE FALSE
    BY <1>7, <1>9 DEF LateSend, tables, vars
  <1> QED BY <1>c, <1>1, <1>2, <1>3, <1>4, <1>5, <1>6, <1>8, <1>9
          DEF WorkerNext, Work, Complete, FailJob, Sweep, Drain

(* Nobody but its holder ends, requeues or takes over a job under a live lease,
   whichever sweeps and recoveries have read it before. *)
THEOREM ClaimsAreExclusive == Spec => LiveClaimIsExclusive
  <1>1. IInv /\ [WorkerNext]_vars =>
          [\A j \in Jobs :
             (jobs[j].status = "PROCESSING" /\ jobs[j].lease = "live"
                /\ (jobs'[j].status # "PROCESSING" \/ jobs'[j].lock # jobs[j].lock))
               => LET holder == jobs[j].lock[1]
                  IN  wkr'[holder] # wkr[holder] \/ drain'[holder] # drain[holder]]_vars
    BY ExclusiveStep
  <1> QED BY <1>1, InductiveInvariant, PTL DEF Spec, LiveClaimIsExclusive
-----------------------------------------------------------------------------
(* The five things a step can be for the outcome of jobs. *)

(* The attempts on record as successful stay what they are. *)
SameWins ==
  \A j \in Jobs, n \in Attempts :
    (log'[j][n] = "SUCCEEDED") = (log[j][n] = "SUCCEEDED")

InProcess(js) == \A j \in js : jobs[j].status = "PROCESSING"

SendsOne(w) ==
  /\ CompleteFinish(w) /\ Owns(w)
  /\ wkr[w].job \in Jobs /\ wkr[w].n \in Attempts
  /\ jobs[wkr[w].job].status = "PROCESSING" /\ jobs[wkr[w].job].attempts = wkr[w].n
  /\ HasRow(usage, "COMMIT", jobs[wkr[w].job].key)

FailsSome(js) ==
  js \subseteq Jobs /\ InProcess(js) /\ ~DuplicateEvent(js) /\ BuryJobs(js) /\ SameWins

RequeuesSome(js) ==
  /\ js \subseteq Jobs /\ InProcess(js) /\ SameWins
  /\ \E due \in BOOLEAN :
       jobs' = [j \in Jobs |-> IF j \in js THEN RequeuedRow(jobs[j], due) ELSE jobs[j]]
  /\ UNCHANGED <<rcpt, events, outbox>>

ClaimsOne(w, j) == Claim(w, j) /\ SameWins

ChangesNone ==
  /\ \A j \in Jobs : /\ jobs'[j].status = jobs[j].status
                     /\ jobs'[j].attempts = jobs[j].attempts
  /\ SameWins
  /\ UNCHANGED <<rcpt, events, outbox>>

(* Every step is one of five: a send, a burial, a requeue, a claim, or nothing that
   the outcome of a job depends on. *)
LEMMA StepKinds ==
  ASSUME IInv, HistoryMatchesJob, [WorkerNext]_vars
  PROVE  \/ \E w \in Workers : SendsOne(w)
         \/ \E js \in SUBSET Jobs : FailsSome(js) \/ RequeuesSome(js)
         \/ \E w \in Workers, j \in Jobs : ClaimsOne(w, j)
         \/ ChangesNone
  <1> DEFINE Goal == \/ \E w \in Workers : SendsOne(w)
                     \/ \E js \in SUBSET Jobs : FailsSome(js) \/ RequeuesSome(js)
                     \/ \E w \in Workers, j \in Jobs : ClaimsOne(w, j)
                     \/ ChangesNone
  <1>t. TypeOK BY DEF IInv
  <1>d. /\ wkr \in [Workers -> WorkerType] /\ jobs \in [Jobs -> Row_]
        /\ log \in [Jobs -> [Attempts -> {"none", "PROCESSING", "SUCCEEDED", "FAILED"}]]
    BY <1>t DEF TypeOK
  <1>s. log' = log => SameWins BY DEF SameWins
  <1>n. UNCHANGED <<jobs, log, rcpt, events, outbox>> => ChangesNone
    BY <1>s DEF ChangesNone
  <1>c. \A rows : log' = ClosedLog(rows) => SameWins BY <1>t, ClosedLogType DEF SameWins
  <1>w. ASSUME NEW w \in Workers, Owns(w), wkr[w].job \in Jobs, wkr[w].n \in Attempts,
               NEW x \in {"PROCESSING", "FAILED"},
               log' = [log EXCEPT ![wkr[w].job][wkr[w].n] = x]
        PROVE  SameWins
    <2>1. \A n \in Attempts : log[wkr[w].job][n] # "SUCCEEDED"
      BY <1>w DEF HistoryMatchesJob, Owns, SentStatuses
    <2>2. SUFFICES ASSUME NEW j \in Jobs, NEW n \in Attempts
                   PROVE  (log'[j][n] = "SUCCEEDED") = (log[j][n] = "SUCCEEDED")
      BY DEF SameWins
    <2>3. CASE j = wkr[w].job
      <3>1. log[j][n] # "SUCCEEDED" BY <2>1, <2>3
      <3>2. log'[j][n] = IF n = wkr[w].n THEN x ELSE log[j][n] BY <1>w, <1>d, <2>3
      <3> QED BY <3>1, <3>2
    <2>4. CASE j # wkr[w].job
      <3>1. log'[j] = log[j] BY <1>w, <1>d, <2>4
      <3> QED BY <3>1
    <2> QED BY <2>3, <2>4
  <1>1. ASSUME NEW w \in Workers, NEW j \in Jobs, Claim(w, j) PROVE Goal
    BY <1>1, <1>s DEF Claim, ClaimsOne
  <1>2. ASSUME NEW w \in Workers, OpenAttempt(w) PROVE Goal
    <2>1. wkr[w].job \in Jobs /\ wkr[w].n \in Attempts
      BY <1>2 DEF IInv, HandInv, OpenAttempt, Holding
    <2>2. SameWins BY <1>2, <1>w, <2>1 DEF OpenAttempt
    <2> QED BY <1>2, <2>2 DEF OpenAttempt, ChangesNone
  <1>3. ASSUME NEW w \in Workers, CompleteFinish(w) PROVE Goal
    <2>1. CASE ~Owns(w) BY <1>3, <1>n, <2>1 DEF CompleteFinish
    <2>2. CASE Owns(w)
      <3>1. wkr[w].pc \in Holding /\ wkr[w].pc \in Working /\ wkr[w].pc = "finishing"
        BY <1>3 DEF CompleteFinish, Holding, Working
      <3>2. HasRow(usage, "COMMIT", jobs[wkr[w].job].key)
        BY <2>2, <3>1 DEF IInv, HandInv
      <3> QED BY <1>3, <2>2, <3>1, <3>2, OwnerKnows DEF SendsOne
    <2> QED BY <2>1, <2>2
  <1>4. ASSUME NEW w \in Workers, FailFinish(w) PROVE Goal
    <2> DEFINE i == wkr[w].job
    <2>1. CASE UNCHANGED <<jobs, log, rcpt, events, outbox>> BY <1>n, <2>1
    <2>2. CASE Owns(w) /\ log' = [log EXCEPT ![i][wkr[w].n] = "FAILED"]
      <3>1. /\ i \in Jobs /\ wkr[w].n \in Attempts /\ jobs[i].status = "PROCESSING"
        BY <1>4, <2>2, OwnerKnows DEF FailFinish, Holding, Working
      <3>2. SameWins BY <1>w, <2>2, <3>1
      <3>3. InProcess({i}) /\ {i} \in SUBSET Jobs BY <3>1 DEF InProcess
      <3>4. CASE BuryJobs({i}) /\ ~DuplicateEvent({i}) BY <3>2, <3>3, <3>4 DEF FailsSome
      <3>5. CASE jobs' = [jobs EXCEPT ![i] = RequeuedRow(@, FALSE)]
                 /\ UNCHANGED <<rcpt, events, outbox>>
        <4>1. jobs' = [j \in Jobs |-> IF j \in {i} THEN RequeuedRow(jobs[j], FALSE) ELSE jobs[j]]
          BY <1>d, <3>1, <3>5
        <4> QED BY <3>2, <3>3, <3>5, <4>1 DEF RequeuesSome
      <3> QED BY <1>4, <2>1, <2>2, <3>4, <3>5 DEF FailFinish
    <2> QED BY <1>4, <2>1, <2>2 DEF FailFinish
  <1>5. ASSUME NEW w \in Workers, SweepBury(w) PROVE Goal
    <2> DEFINE js == {i \in {s.job : s \in sweep[w].rows} \ sweep[w].renewed :
                        jobs[i].status = "PROCESSING"}
    <2>1. js \in SUBSET Jobs /\ InProcess(js) BY <1>t, RowsAreJobs DEF InProcess
    <2>2. \/ UNCHANGED <<jobs, log, rcpt, events, outbox>>
          \/ ~DuplicateEvent(js) /\ BuryJobs(js) /\ log' = ClosedLog(sweep[w].rows)
      BY <1>5 DEF SweepBury
    <2> HIDE DEF js
    <2> QED BY <1>c, <1>n, <2>1, <2>2 DEF FailsSome
  <1>6. ASSUME NEW w \in Workers, DrainRequeue(w) PROVE Goal
    <2> DEFINE js == {s.job : s \in {t \in drain[w].rows : ~t.spent}} \cap ClaimsOf(w)
    <2>1. js \in SUBSET Jobs /\ InProcess(js) BY DEF ClaimsOf, InProcess
    <2>2. /\ jobs' = [j \in Jobs |-> IF j \in js THEN RequeuedRow(jobs[j], TRUE) ELSE jobs[j]]
          /\ log' = ClosedLog(drain[w].rows) /\ UNCHANGED <<rcpt, events, outbox>>
      BY <1>6 DEF DrainRequeue
    <2> HIDE DEF js
    <2>3. SameWins BY <1>c, <2>2
    <2>4. RequeuesSome(js) BY <2>1, <2>2, <2>3 DEF RequeuesSome
    <2> QED BY <2>1, <2>4
  <1>7. ASSUME NEW w \in Workers, DrainBury(w) PROVE Goal
    <2> DEFINE js == {s.job : s \in {t \in drain[w].rows : t.spent}} \cap ClaimsOf(w)
    <2>1. js \in SUBSET Jobs /\ InProcess(js) BY DEF ClaimsOf, InProcess
    <2>2. /\ UNCHANGED <<jobs, rcpt, events, outbox>> \/ (~DuplicateEvent(js) /\ BuryJobs(js))
          /\ log' = log
      BY <1>7 DEF DrainBury
    <2> HIDE DEF js
    <2> QED BY <1>s, <1>n, <2>1, <2>2 DEF FailsSome
  <1>8. ASSUME NEW w \in Workers,
               \/ Start(w) \/ ClaimFails(w) \/ Dispatch(w)
               \/ CompleteCheck(w) \/ CompleteSettle(w) \/ FailCheck(w) \/ FailSettle(w)
               \/ Throws(w) \/ SweepRead(w) \/ SweepRelease(w) \/ Stop(w)
               \/ DrainRelease(w) \/ Crash(w)
        PROVE  UNCHANGED <<jobs, log, rcpt, events, outbox>>
    BY <1>8 DEF Start, ClaimFails, Dispatch, DispatchSends, DispatchGivesUp,
       DispatchRefused, CompleteCheck, CompleteSettle, FailCheck, FailSettle, Throws,
       CompleteThrows, FailThrows, SettleThrows, SweepRead, SweepRelease, Stop,
       DrainRelease, Crash, tables
  <1>9. ASSUME NEW w \in Workers, Heartbeat(w) PROVE Goal
    <2>1. \A j \in Jobs : jobs'[j].status = jobs[j].status /\ jobs'[j].attempts = jobs[j].attempts
      BY <1>9, <1>d DEF Heartbeat, Row_
    <2> QED BY <1>9, <1>s, <2>1 DEF Heartbeat, ChangesNone
  <1>10. ASSUME NEW i \in Jobs, LeaseRunsOut(i) PROVE Goal
    <2>1. \A x \in {"expired", "stale"} : jobs' = [jobs EXCEPT ![i].lease = x] =>
            \A j \in Jobs : jobs'[j].status = jobs[j].status /\ jobs'[j].attempts = jobs[j].attempts
      BY <1>d DEF Row_
    <2> QED BY <1>10, <1>s, <2>1 DEF LeaseRunsOut, ChangesNone
  <1>11. ASSUME NEW i \in Jobs, BecomesDue(i) PROVE Goal
    <2>1. \A j \in Jobs : jobs'[j].status = jobs[j].status /\ jobs'[j].attempts = jobs[j].attempts
      BY <1>11, <1>d DEF BecomesDue, Row_
    <2> QED BY <1>11, <1>s, <2>1 DEF BecomesDue, ChangesNone
  <1>12. CASE (\E d \in inflight : LateSend(d)) \/ UNCHANGED vars
    BY <1>12, <1>n DEF LateSend, tables, vars
  <1> QED BY <1>n, <1>1, <1>2, <1>3, <1>4, <1>5, <1>6, <1>7, <1>8, <1>9, <1>10, <1>11, <1>12
          DEF WorkerNext, Work, Complete, FailJob, Sweep, Drain

(* What the recorded success writes. *)
LEMMA SendEffect ==
  ASSUME TypeOK, NEW w \in Workers, SendsOne(w)
  PROVE  LET i == wkr[w].job
         IN  /\ jobs'[i].status = "SENT" /\ jobs'[i].attempts = jobs[i].attempts
             /\ jobs'[i].key = jobs[i].key
             /\ \A j \in Jobs \ {i} : jobs'[j] = jobs[j] /\ rcpt'[j] = rcpt[j] /\ log'[j] = log[j]
             /\ rcpt'[i] = IF rcpt[i] \in {"ENQUEUED", "FAILED"} THEN "SENT" ELSE rcpt[i]
             /\ \A n \in Attempts :
                  log'[i][n] = IF n = wkr[w].n THEN "SUCCEEDED" ELSE log[i][n]
             /\ events' = events \cup {<<i, "SENT">>} /\ outbox' = outbox /\ usage' = usage
  <1> DEFINE i == wkr[w].job
  <1>1. /\ jobs' = [jobs EXCEPT ![i] = SentRow(@)]
        /\ rcpt' = [rcpt EXCEPT ![i] = IF @ \in {"ENQUEUED", "FAILED"} THEN "SENT" ELSE @]
        /\ log' = [log EXCEPT ![i][wkr[w].n] = "SUCCEEDED"]
        /\ events' = events \cup {<<i, "SENT">>} /\ outbox' = outbox /\ usage' = usage
        /\ i \in Jobs /\ wkr[w].n \in Attempts
    BY DEF SendsOne, CompleteFinish
  <1>2. jobs[i] \in Row_ BY <1>1 DEF TypeOK
  <1>3. jobs'[i] = SentRow(jobs[i]) BY <1>1 DEF TypeOK
  <1>4. /\ jobs'[i].status = "SENT" /\ jobs'[i].attempts = jobs[i].attempts
        /\ jobs'[i].key = jobs[i].key
    BY <1>2, <1>3, SentRowType DEF ClaimDropped
  <1>5. \A j \in Jobs \ {i} : jobs'[j] = jobs[j] /\ rcpt'[j] = rcpt[j] /\ log'[j] = log[j]
    BY <1>1 DEF TypeOK
  <1>6. rcpt'[i] = IF rcpt[i] \in {"ENQUEUED", "FAILED"} THEN "SENT" ELSE rcpt[i]
    BY <1>1 DEF TypeOK
  <1>7. \A n \in Attempts : log'[i][n] = IF n = wkr[w].n THEN "SUCCEEDED" ELSE log[i][n]
    BY <1>1 DEF TypeOK
  <1> QED BY <1>1, <1>4, <1>5, <1>6, <1>7

(* The attempt history stays in agreement with the job. *)
LEMMA HistoryStep ==
  ASSUME IInv, HistoryMatchesJob, [WorkerNext]_vars
  PROVE  HistoryMatchesJob'
  <1>t. TypeOK BY DEF IInv
  <1>d. jobs \in [Jobs -> Row_] BY <1>t DEF TypeOK
  <1> SUFFICES ASSUME NEW j \in Jobs
               PROVE  LET won == {n \in Attempts : log'[j][n] = "SUCCEEDED"}
                      IN  IF jobs'[j].status \in SentStatuses
                          THEN won = {jobs'[j].attempts} /\ <<j, "SENT">> \in events'
                          ELSE jobs'[j].status = "DELETED" \/ won = {}
    BY DEF HistoryMatchesJob
  <1> DEFINE won == {n \in Attempts : log[j][n] = "SUCCEEDED"}
  <1>h. IF jobs[j].status \in SentStatuses
        THEN won = {jobs[j].attempts} /\ <<j, "SENT">> \in events
        ELSE jobs[j].status = "DELETED" \/ won = {}
    BY DEF HistoryMatchesJob
  <1>s. SameWins => {n \in Attempts : log'[j][n] = "SUCCEEDED"} = won BY DEF SameWins
  <1>p. {"PROCESSING", "QUEUED", "FAILED"} \cap SentStatuses = {} BY DEF SentStatuses
  <1>1. ASSUME NEW w \in Workers, SendsOne(w), wkr[w].job = j
        PROVE  /\ jobs'[j].status = "SENT" /\ <<j, "SENT">> \in events'
               /\ {n \in Attempts : log'[j][n] = "SUCCEEDED"} = {jobs'[j].attempts}
    <2>1. won = {} BY <1>1, <1>h, <1>p DEF SendsOne
    <2>2. /\ jobs'[j].status = "SENT" /\ jobs'[j].attempts = wkr[w].n
          /\ wkr[w].n \in Attempts /\ <<j, "SENT">> \in events'
          /\ \A n \in Attempts : log'[j][n] = IF n = wkr[w].n THEN "SUCCEEDED" ELSE log[j][n]
      BY <1>t, <1>1, SendEffect DEF SendsOne
    <2> QED BY <2>1, <2>2
  <1>2. ASSUME NEW w \in Workers, SendsOne(w), wkr[w].job # j
        PROVE  /\ jobs'[j] = jobs[j] /\ events \subseteq events'
               /\ {n \in Attempts : log'[j][n] = "SUCCEEDED"} = won
    BY <1>t, <1>2, SendEffect
  <1>3. ASSUME NEW js \in SUBSET Jobs, FailsSome(js) \/ RequeuesSome(js), j \in js
        PROVE  jobs[j].status = "PROCESSING" /\ jobs'[j].status \in {"QUEUED", "FAILED"} /\ SameWins
    <2>1. jobs[j].status = "PROCESSING" /\ SameWins
      BY <1>3 DEF FailsSome, RequeuesSome, InProcess
    <2>2. CASE FailsSome(js)
      <3>1. jobs'[j] = FailedRow(jobs[j]) BY <1>3, <2>2 DEF FailsSome, BuryJobs
      <3> QED BY <1>d, <2>1, <3>1, FailedRowType
    <2>3. CASE RequeuesSome(js)
      <3>1. PICK due \in BOOLEAN : jobs'[j] = RequeuedRow(jobs[j], due)
        BY <1>3, <2>3 DEF RequeuesSome
      <3> QED BY <1>d, <2>1, <3>1, RequeuedRowType
    <2> QED BY <1>3, <2>2, <2>3
  <1>4. ASSUME NEW js \in SUBSET Jobs, FailsSome(js) \/ RequeuesSome(js), j \notin js
        PROVE  jobs'[j] = jobs[j] /\ SameWins /\ events \subseteq events'
    BY <1>4 DEF FailsSome, RequeuesSome, BuryJobs
  <1>5. ASSUME NEW w \in Workers, NEW i \in Jobs, ClaimsOne(w, i)
        PROVE  SameWins /\ events' = events
               /\ \/ jobs'[j] = jobs[j]
                  \/ jobs[j].status \in {"QUEUED", "PROCESSING"} /\ jobs'[j].status = "PROCESSING"
    <2>1. SameWins /\ events' = events BY <1>5 DEF ClaimsOne, Claim
    <2>2. CASE i = j
      <3>1. jobs[j].status \in {"QUEUED", "PROCESSING"} BY <1>5, <2>2 DEF ClaimsOne, Claim, Claimable
      <3>2. jobs'[j].status = "PROCESSING" BY <1>5, <2>2, ClaimStep DEF ClaimsOne
      <3> QED BY <2>1, <3>1, <3>2
    <2>3. CASE i # j BY <1>5, <1>d, <2>1, <2>3 DEF ClaimsOne, Claim
    <2> QED BY <2>2, <2>3
  <1>6. CASE \E w \in Workers : SendsOne(w) BY <1>6, <1>1, <1>2, <1>h DEF SentStatuses
  <1>7. CASE \E js \in SUBSET Jobs : FailsSome(js) \/ RequeuesSome(js)
    <2>1. PICK js \in SUBSET Jobs : FailsSome(js) \/ RequeuesSome(js) BY <1>7
    <2>2. CASE j \in js
      <3>1. won = {} BY <1>3, <2>1, <2>2, <1>h, <1>p
      <3> QED BY <1>3, <1>s, <1>p, <2>1, <2>2, <3>1
    <2>3. CASE j \notin js BY <1>4, <1>s, <1>h, <2>1, <2>3
    <2> QED BY <2>2, <2>3
  <1>8. CASE \E w \in Workers, i \in Jobs : ClaimsOne(w, i)
    BY <1>8, <1>5, <1>s, <1>h, <1>p
  <1>9. CASE ChangesNone
    <2>1. /\ jobs'[j].status = jobs[j].status /\ jobs'[j].attempts = jobs[j].attempts
          /\ SameWins /\ events' = events
      BY <1>9 DEF ChangesNone
    <2> QED BY <1>s, <1>h, <2>1
  <1> QED BY <1>6, <1>7, <1>8, <1>9, StepKinds

(* The history invariant, with the invariant it needs. *)
LEMMA HistoryInvariant == Spec => [](IInv /\ HistoryMatchesJob)
  <1>1. ASSUME Init PROVE HistoryMatchesJob
    BY <1>1 DEF Init, InitTables, NewRow, NoRow, HistoryMatchesJob, SentStatuses
  <1>2. IInv /\ HistoryMatchesJob /\ [WorkerNext]_vars => HistoryMatchesJob'
    BY HistoryStep
  <1> QED BY <1>1, <1>2, InductiveInvariant, PTL DEF Spec

(* The attempt history agrees with the job: exactly the last attempt of a sent
   job has succeeded, whoever lost claims on the way to it. *)
THEOREM HistoryAgrees == Spec => []HistoryMatchesJob
  BY HistoryInvariant, PTL

(* What a burial writes. *)
LEMMA BuryEffect ==
  ASSUME TypeOK, NEW js \in SUBSET Jobs, FailsSome(js), NEW j \in Jobs
  PROVE  /\ j \in js => /\ jobs[j].status = "PROCESSING" /\ jobs'[j].status = "FAILED"
                        /\ <<j, "FAILED">> \in events' /\ FailedEvent(j) \in outbox'
                        /\ rcpt'[j] = IF rcpt[j] = "ENQUEUED" THEN "FAILED" ELSE rcpt[j]
         /\ j \notin js => jobs'[j] = jobs[j] /\ rcpt'[j] = rcpt[j]
         /\ events \subseteq events' /\ outbox \subseteq outbox'
         /\ jobs'[j].attempts = jobs[j].attempts
  <1>1. /\ jobs'[j] = IF j \in js THEN FailedRow(jobs[j]) ELSE jobs[j]
        /\ rcpt'[j] = IF j \in js /\ rcpt[j] = "ENQUEUED" THEN "FAILED" ELSE rcpt[j]
        /\ events' = events \cup {<<i, "FAILED">> : i \in js}
        /\ outbox' = outbox \cup {FailedEvent(i) : i \in js}
    BY DEF FailsSome, BuryJobs
  <1>2. jobs[j] \in Row_ BY DEF TypeOK
  <1>3. j \in js => jobs[j].status = "PROCESSING" BY DEF FailsSome, InProcess
  <1> QED BY <1>1, <1>2, <1>3, FailedRowType DEF ClaimDropped

(* What a requeue and a claim write. *)
LEMMA RequeueEffect ==
  ASSUME TypeOK, NEW js \in SUBSET Jobs, RequeuesSome(js), NEW j \in Jobs
  PROVE  /\ j \in js => jobs[j].status = "PROCESSING" /\ jobs'[j].status = "QUEUED"
         /\ j \notin js => jobs'[j] = jobs[j]
         /\ jobs'[j].attempts = jobs[j].attempts
  <1>1. PICK due \in BOOLEAN :
          jobs'[j] = IF j \in js THEN RequeuedRow(jobs[j], due) ELSE jobs[j]
    BY DEF RequeuesSome
  <1>2. jobs[j] \in Row_ BY DEF TypeOK
  <1>3. j \in js => jobs[j].status = "PROCESSING" BY DEF RequeuesSome, InProcess
  <1>4. /\ RequeuedRow(jobs[j], due).status = "QUEUED"
        /\ RequeuedRow(jobs[j], due).attempts = jobs[j].attempts
    BY <1>2, RequeuedRowType DEF ClaimDropped
  <1> QED BY <1>1, <1>3, <1>4

(* What a claim writes, and leaves alone. *)
LEMMA ClaimEffect ==
  ASSUME IInv, NEW w \in Workers, NEW i \in Jobs, ClaimsOne(w, i), NEW j \in Jobs
  PROVE  /\ i = j => /\ jobs[j].status \in {"QUEUED", "PROCESSING"}
                     /\ jobs'[j].status = "PROCESSING"
                     /\ jobs'[j].attempts = jobs[j].attempts + 1
         /\ i # j => jobs'[j] = jobs[j]
         /\ UNCHANGED <<rcpt, events, outbox, usage>>
  <1>1. UNCHANGED <<rcpt, events, outbox, usage>> BY DEF ClaimsOne, Claim
  <1>2. CASE i = j
    <2>1. jobs[j].status \in {"QUEUED", "PROCESSING"} BY <1>2 DEF ClaimsOne, Claim, Claimable
    <2> QED BY <1>1, <1>2, <2>1, ClaimStep DEF ClaimsOne
  <1>3. CASE i # j BY <1>1, <1>3 DEF IInv, TypeOK, ClaimsOne, Claim
  <1> QED BY <1>2, <1>3

(* A committed reservation stays committed, and only its owner marks the job sent. *)
LEMMA PaidStep ==
  ASSUME IInv, HistoryMatchesJob, SentIsPaid, [WorkerNext]_vars
  PROVE  SentIsPaid'
  <1>t. TypeOK BY DEF IInv
  <1> SUFFICES ASSUME NEW j \in Jobs, jobs'[j].status \in SentStatuses
               PROVE  HasRow(usage', "COMMIT", jobs'[j].key)
    BY DEF SentIsPaid
  <1>k. jobs'[j].key = jobs[j].key BY JobStep DEF Fixed
  <1>l. HasRow(usage, "COMMIT", jobs[j].key) => HasRow(usage', "COMMIT", jobs[j].key)
    BY <1>t, LedgerGrows DEF HasRow
  <1>s. jobs[j].status \in SentStatuses => HasRow(usage, "COMMIT", jobs[j].key)
    BY DEF SentIsPaid
  <1>p. {"PROCESSING", "QUEUED", "FAILED"} \cap SentStatuses = {} BY DEF SentStatuses
  <1>1. CASE jobs'[j].status = jobs[j].status BY <1>1, <1>k, <1>l, <1>s
  <1>2. ASSUME NEW w \in Workers, SendsOne(w), jobs'[j].status # jobs[j].status
        PROVE  HasRow(usage, "COMMIT", jobs[j].key)
    <2>1. wkr[w].job = j BY <1>t, <1>2, SendEffect
    <2> QED BY <1>2, <2>1 DEF SendsOne
  <1>3. ASSUME NEW js \in SUBSET Jobs, FailsSome(js) \/ RequeuesSome(js)
        PROVE  jobs'[j].status = jobs[j].status
    BY <1>3, <1>t, <1>p, BuryEffect, RequeueEffect
  <1>4. ASSUME NEW w \in Workers, NEW i \in Jobs, ClaimsOne(w, i)
        PROVE  jobs'[j].status = jobs[j].status
    BY <1>4, <1>p, ClaimEffect
  <1>5. CASE ChangesNone BY <1>5, <1>1 DEF ChangesNone
  <1> QED BY <1>1, <1>2, <1>3, <1>4, <1>5, <1>k, <1>l, StepKinds

(* A job becomes FAILED only together with its events. *)
LEMMA ReportedStep ==
  ASSUME IInv, HistoryMatchesJob, FailureIsReported, [WorkerNext]_vars
  PROVE  FailureIsReported'
  <1>t. TypeOK BY DEF IInv
  <1> SUFFICES ASSUME NEW j \in Jobs, jobs'[j].status = "FAILED"
               PROVE  <<j, "FAILED">> \in events' /\ FailedEvent(j)' \in outbox'
    BY DEF FailureIsReported
  <1>e. FailedEvent(j)' = FailedEvent(j) BY DEF FailedEvent
  <1>i. jobs[j].status = "FAILED" => <<j, "FAILED">> \in events /\ FailedEvent(j) \in outbox
    BY DEF FailureIsReported
  <1>1. ASSUME NEW w \in Workers, SendsOne(w)
        PROVE  jobs[j].status = "FAILED" /\ events \subseteq events' /\ outbox' = outbox
    <2>1. wkr[w].job # j BY <1>t, <1>1, SendEffect
    <2> QED BY <1>t, <1>1, <2>1, SendEffect
  <1>2. ASSUME NEW js \in SUBSET Jobs, FailsSome(js)
        PROVE  <<j, "FAILED">> \in events' /\ FailedEvent(j) \in outbox'
    <2>1. CASE j \in js BY <1>t, <1>2, <2>1, BuryEffect
    <2>2. CASE j \notin js
      <3>1. jobs[j].status = "FAILED" BY <1>t, <1>2, <2>2, BuryEffect
      <3> QED BY <1>i, <1>t, <1>2, <3>1, BuryEffect
    <2> QED BY <2>1, <2>2
  <1>3. ASSUME NEW js \in SUBSET Jobs, RequeuesSome(js)
        PROVE  jobs[j].status = "FAILED" /\ events' = events /\ outbox' = outbox
    <2>1. j \notin js BY <1>t, <1>3, RequeueEffect
    <2> QED BY <1>t, <1>3, <2>1, RequeueEffect DEF RequeuesSome
  <1>4. ASSUME NEW w \in Workers, NEW i \in Jobs, ClaimsOne(w, i)
        PROVE  jobs[j].status = "FAILED" /\ events' = events /\ outbox' = outbox
    BY <1>4, ClaimEffect
  <1>5. ASSUME ChangesNone
        PROVE  jobs[j].status = "FAILED" /\ events' = events /\ outbox' = outbox
    BY <1>5 DEF ChangesNone
  <1> QED BY <1>e, <1>i, <1>1, <1>2, <1>3, <1>4, <1>5, StepKinds

(* Each kind of step moves the recipient along with its job. *)
LEMMA RecipientStep ==
  ASSUME IInv, HistoryMatchesJob, RecipientMatchesJob, [WorkerNext]_vars
  PROVE  RecipientMatchesJob'
  <1>t. TypeOK BY DEF IInv
  <1> DEFINE Good(r, s) ==
        (r # "none" /\ s # "DELETED") =>
          /\ (r \in SentStatuses) = (s \in SentStatuses)
          /\ s = "FAILED" => r = "FAILED"
  <1> SUFFICES ASSUME NEW j \in Jobs PROVE Good(rcpt'[j], jobs'[j].status)
    BY DEF RecipientMatchesJob
  <1>i. Good(rcpt[j], jobs[j].status) BY DEF RecipientMatchesJob
  <1>r. rcpt[j] \in {"none", "ENQUEUED", "SENT", "DELIVERED", "READ", "FAILED"}
    BY <1>t DEF TypeOK
  <1>1. ASSUME NEW w \in Workers, SendsOne(w) PROVE Good(rcpt'[j], jobs'[j].status)
    <2>1. CASE wkr[w].job = j
      <3>1. jobs'[j].status = "SENT" /\ jobs[j].status = "PROCESSING"
        BY <1>t, <1>1, <2>1, SendEffect DEF SendsOne
      <3>2. rcpt'[j] = IF rcpt[j] \in {"ENQUEUED", "FAILED"} THEN "SENT" ELSE rcpt[j]
        BY <1>t, <1>1, <2>1, SendEffect
      <3> QED BY <1>i, <1>r, <3>1, <3>2 DEF SentStatuses
    <2>2. CASE wkr[w].job # j
      <3>1. jobs'[j] = jobs[j] /\ rcpt'[j] = rcpt[j] BY <1>t, <1>1, <2>2, SendEffect
      <3> QED BY <1>i, <3>1
    <2> QED BY <2>1, <2>2
  <1>2. ASSUME NEW js \in SUBSET Jobs, FailsSome(js) PROVE Good(rcpt'[j], jobs'[j].status)
    <2>1. CASE j \in js
      <3>1. /\ jobs'[j].status = "FAILED" /\ jobs[j].status = "PROCESSING"
            /\ rcpt'[j] = IF rcpt[j] = "ENQUEUED" THEN "FAILED" ELSE rcpt[j]
        BY <1>t, <1>2, <2>1, BuryEffect
      <3> QED BY <1>i, <1>r, <3>1 DEF SentStatuses
    <2>2. CASE j \notin js
      <3>1. jobs'[j] = jobs[j] /\ rcpt'[j] = rcpt[j] BY <1>t, <1>2, <2>2, BuryEffect
      <3> QED BY <1>i, <3>1
    <2> QED BY <2>1, <2>2
  <1>3. ASSUME NEW js \in SUBSET Jobs, RequeuesSome(js) PROVE Good(rcpt'[j], jobs'[j].status)
    <2>1. rcpt' = rcpt BY <1>3 DEF RequeuesSome
    <2>2. CASE j \in js
      <3>1. jobs[j].status = "PROCESSING" /\ jobs'[j].status = "QUEUED"
        BY <1>t, <1>3, <2>2, RequeueEffect
      <3> QED BY <1>i, <2>1, <3>1 DEF SentStatuses
    <2>3. CASE j \notin js
      <3>1. jobs'[j] = jobs[j] BY <1>t, <1>3, <2>3, RequeueEffect
      <3> QED BY <1>i, <2>1, <3>1
    <2> QED BY <2>2, <2>3
  <1>4. ASSUME NEW w \in Workers, NEW i \in Jobs, ClaimsOne(w, i)
        PROVE  Good(rcpt'[j], jobs'[j].status)
    <2>1. rcpt' = rcpt BY <1>4, ClaimEffect
    <2>2. \/ jobs'[j] = jobs[j]
          \/ jobs[j].status \in {"QUEUED", "PROCESSING"} /\ jobs'[j].status = "PROCESSING"
      BY <1>4, ClaimEffect
    <2> QED BY <1>i, <2>1, <2>2 DEF SentStatuses
  <1>5. CASE ChangesNone BY <1>5, <1>i DEF ChangesNone
  <1> QED BY <1>1, <1>2, <1>3, <1>4, <1>5, StepKinds

(* The invariants about the outcome of a job. *)
LEMMA OutcomeInvariant == Spec => [](SentIsPaid /\ FailureIsReported /\ RecipientMatchesJob)
  <1>1. ASSUME Init PROVE SentIsPaid /\ FailureIsReported /\ RecipientMatchesJob
    <2>1. \A j \in Jobs : jobs[j].status = "QUEUED" /\ rcpt[j] \in {"none", "ENQUEUED"}
      BY <1>1 DEF Init, InitTables, NewRow, NoRow
    <2> QED BY <2>1 DEF SentIsPaid, FailureIsReported, RecipientMatchesJob, SentStatuses
  <1>2. /\ IInv /\ HistoryMatchesJob
        /\ SentIsPaid /\ FailureIsReported /\ RecipientMatchesJob
        /\ [WorkerNext]_vars
        => (SentIsPaid /\ FailureIsReported /\ RecipientMatchesJob)'
    BY PaidStep, ReportedStep, RecipientStep
  <1> QED BY <1>1, <1>2, HistoryInvariant, PTL DEF Spec

(* A job is marked sent only after the reservation it carries was committed, also
   when the claim that committed it was lost to another worker. *)
THEOREM SentMeansPaid == Spec => []SentIsPaid
  BY OutcomeInvariant, PTL

(* Every failed job has its delivery event and its webhook event. *)
THEOREM FailuresReported == Spec => []FailureIsReported
  BY OutcomeInvariant, PTL

(* While recipients are linked before their jobs can be claimed, the broadcast
   report agrees with the queue. *)
THEOREM RecipientsAgree == Spec => []RecipientMatchesJob
  BY OutcomeInvariant, PTL
-----------------------------------------------------------------------------
(***************************************************************************)
(* How often a message can be given to WhatsApp, for every number of jobs, *)
(* workers and attempts.  An attempt is at one place at a time: with the   *)
(* worker that claimed it, until its dispatch has ended; in a request that *)
(* its caller gave up on; or among the sends.  So what is sent, may still  *)
(* be sent, and is being sent together never exceed the attempts counted.  *)
(***************************************************************************)

(* Dispatches of j that nobody waits for, and workers about to dispatch j. *)
Late(j)   == {d \in inflight : d[1] = j}
InHand(j) == {w \in Workers : wkr[w].pc \in {"claimed", "dispatching"} /\ wkr[w].job = j}

SendInv ==
  /\ IsFiniteSet(inflight)
  /\ \A j \in Jobs :
       sends[j] + Cardinality(Late(j)) + Cardinality(InHand(j)) <= jobs[j].attempts

(* A smaller set has a smaller count; one element more or less changes it by
   at most one. *)
LEMMA Counting ==
  ASSUME NEW S, IsFiniteSet(S), NEW T, NEW x
  PROVE  /\ Cardinality(S) \in Nat
         /\ T \subseteq S => Cardinality(T) \in Nat /\ Cardinality(T) <= Cardinality(S)
         /\ T \subseteq S \cup {x} => Cardinality(T) \in Nat /\ Cardinality(T) <= Cardinality(S) + 1
         /\ x \in S /\ T \subseteq S \ {x} =>
              Cardinality(T) \in Nat /\ Cardinality(T) <= Cardinality(S) - 1
  <1>1. Cardinality(S) \in Nat BY FS_CardinalityType
  <1>2. T \subseteq S => Cardinality(T) \in Nat /\ Cardinality(T) <= Cardinality(S)
    BY FS_Subset, FS_CardinalityType
  <1>3. ASSUME T \subseteq S \cup {x}
        PROVE  Cardinality(T) \in Nat /\ Cardinality(T) <= Cardinality(S) + 1
    <2>1. IsFiniteSet(S \cup {x}) /\ Cardinality(S \cup {x}) <= Cardinality(S) + 1
      BY <1>1, FS_AddElement
    <2>2. IsFiniteSet(T) /\ Cardinality(T) <= Cardinality(S \cup {x}) BY <1>3, <2>1, FS_Subset
    <2>3. Cardinality(T) \in Nat /\ Cardinality(S \cup {x}) \in Nat
      BY <2>1, <2>2, FS_CardinalityType
    <2> QED BY <1>1, <2>1, <2>2, <2>3
  <1>4. ASSUME x \in S, T \subseteq S \ {x}
        PROVE  Cardinality(T) \in Nat /\ Cardinality(T) <= Cardinality(S) - 1
    <2>1. IsFiniteSet(S \ {x}) /\ Cardinality(S \ {x}) = Cardinality(S) - 1
      BY <1>4, FS_RemoveElement
    <2>2. IsFiniteSet(T) /\ Cardinality(T) <= Cardinality(S \ {x}) BY <1>4, <2>1, FS_Subset
    <2>3. Cardinality(T) \in Nat BY <2>2, FS_CardinalityType
    <2> QED BY <2>1, <2>2, <2>3
  <1> QED BY <1>1, <1>2, <1>3, <1>4

(* A worker has a job in hand because it had it before, or has just claimed it. *)
LEMMA HandsKeep ==
  ASSUME IInv, [WorkerNext]_vars, NEW j \in Jobs, NEW v \in Workers, v \in InHand(j)'
  PROVE  v \in InHand(j) \/ Claim(v, j)
  <1>1. wkr'[v].pc \in {"claimed", "dispatching"} /\ wkr'[v].job = j BY DEF InHand
  <1>2. wkr'[v].pc \in Holding BY <1>1 DEF Holding, Working
  <1>3. ASSUME NEW i \in Jobs, Claim(v, i) PROVE Claim(v, j)
    <2>1. wkr'[v] = [Loop("claimed") EXCEPT !.job = i, !.n = jobs[i].attempts + 1]
      BY <1>3, ClaimStep
    <2>2. wkr'[v].job = i BY <2>1 DEF Loop
    <2> QED BY <1>1, <1>3, <2>2
  <1>4. CASE OpenAttempt(v)
    <2>1. wkr[v].pc = "claimed" BY <1>4 DEF OpenAttempt
    <2>2. wkr[v] \in WorkerType /\ wkr \in [Workers -> WorkerType] BY DEF IInv, TypeOK
    <2>3. wkr'[v].job = wkr[v].job BY <1>4, <2>2 DEF OpenAttempt, WorkerType
    <2> QED BY <1>1, <2>1, <2>3 DEF InHand
  <1>5. CASE GoesOn(v) BY <1>1, <1>5 DEF GoesOn, InHand, Working
  <1> QED BY <1>2, <1>3, <1>4, <1>5, WorkerStep

(* Attempts only grow. *)
LEMMA AttemptsNeverShrink ==
  ASSUME IInv, [WorkerNext]_vars, NEW j \in Jobs
  PROVE  jobs[j].attempts \in Nat /\ jobs'[j].attempts \in Nat
         /\ jobs'[j].attempts >= jobs[j].attempts
  <1>1. jobs[j].attempts \in Nat BY AttemptsAssumption DEF IInv, TypeOK, Row_
  <1>2. ASSUME NEW w \in Workers, Claim(w, j) PROVE jobs'[j].attempts = jobs[j].attempts + 1
    BY <1>2, ClaimStep
  <1> QED BY <1>1, <1>2, JobStep DEF Kept, Ended

(* The counts are numbers. *)
LEMMA Counts ==
  ASSUME TypeOK, SendInv, NEW j \in Jobs
  PROVE  /\ IsFiniteSet(Late(j)) /\ IsFiniteSet(InHand(j))
         /\ sends[j] \in Nat
         /\ Cardinality(Late(j)) \in Nat /\ Cardinality(InHand(j)) \in Nat
         /\ sends[j] + Cardinality(Late(j)) + Cardinality(InHand(j)) <= jobs[j].attempts
  <1>1. IsFiniteSet(Late(j)) BY FS_Subset DEF SendInv, Late
  <1>2. IsFiniteSet(InHand(j)) BY FinitenessAssumption, FS_Subset DEF InHand
  <1> QED BY <1>1, <1>2, FS_CardinalityType DEF TypeOK, SendInv

-----------------------------------------------------------------------------
(* What a step may do to the places of the attempts of j.  Nothing is handed on. *)
NothingMoves(j) ==
  /\ sends'[j] = sends[j] /\ Late(j)' = Late(j) /\ InHand(j)' \subseteq InHand(j)

(* An attempt begins, in the hand of the worker that claims. *)
Begins(w, j) ==
  /\ sends'[j] = sends[j] /\ Late(j)' = Late(j) /\ InHand(j)' \subseteq InHand(j) \cup {w}
  /\ jobs'[j].attempts = jobs[j].attempts + 1

(* It leaves the hand and is sent, or is given up while it may still be sent. *)
LeavesHand(w, j) ==
  /\ w \in InHand(j) /\ InHand(j)' \subseteq InHand(j) \ {w}
  /\ \/ sends'[j] = sends[j] + 1 /\ Late(j)' = Late(j)
     \/ sends'[j] = sends[j] /\ \E d : Late(j)' \subseteq Late(j) \cup {d}

(* What was given up is sent after all, or is not. *)
Lands(d, j) ==
  /\ d \in Late(j) /\ Late(j)' \subseteq Late(j) \ {d} /\ InHand(j)' \subseteq InHand(j)
  /\ sends'[j] \in {sends[j], sends[j] + 1}

(* Every step moves at most one attempt of j from one place to the next. *)
LEMMA Moves ==
  ASSUME IInv, [WorkerNext]_vars, NEW j \in Jobs
  PROVE  \/ NothingMoves(j)
         \/ \E w \in Workers : Begins(w, j) \/ LeavesHand(w, j)
         \/ \E d \in inflight : Lands(d, j)
  <1> DEFINE Goal == \/ NothingMoves(j)
                     \/ \E w \in Workers : Begins(w, j) \/ LeavesHand(w, j)
                     \/ \E d \in inflight : Lands(d, j)
  <1>t. /\ wkr \in [Workers -> WorkerType] /\ sends \in [Jobs -> Nat]
        /\ inflight \subseteq Jobs \X Attempts
    BY DEF IInv, TypeOK
  <1>h. (\A w \in Workers : ~Claim(w, j)) => InHand(j)' \subseteq InHand(j)
    BY HandsKeep DEF InHand
  <1>l. inflight' = inflight => Late(j)' = Late(j) BY DEF Late
  <1>1. ASSUME NEW w \in Workers, Claim(w, j) PROVE Goal
    <2>1. sends' = sends /\ inflight' = inflight BY <1>1 DEF Claim
    <2>2. jobs'[j].attempts = jobs[j].attempts + 1 BY <1>1, ClaimStep
    <2>3. InHand(j)' \subseteq InHand(j) \cup {w} BY <1>1, <1>t DEF InHand, Claim
    <2>4. Begins(w, j) BY <1>l, <2>1, <2>2, <2>3 DEF Begins
    <2> QED BY <2>4
  <1>2. ASSUME NEW w \in Workers,
               DispatchSends(w) \/ (inflight' = inflight \cup {<<wkr[w].job, wkr[w].n>>}
                                     /\ wkr[w].pc = "dispatching" /\ sends' = sends
                                     /\ (DispatchGivesUp(w) \/ Crash(w)))
        PROVE  Goal
    <2>0. wkr[w].pc = "dispatching" BY <1>2 DEF DispatchSends
    <2>1. wkr'[w].pc \notin {"claimed", "dispatching"}
      BY <1>2, <1>t DEF DispatchSends, DispatchGivesUp, Crash, Goto, Failing, Loop, WorkerType
    <2>2. \A v \in Workers \ {w} : wkr'[v] = wkr[v]
      BY <1>2, <1>t DEF DispatchSends, DispatchGivesUp, Crash, Goto, Failing
    <2>3. InHand(j)' \subseteq InHand(j) \ {w} BY <2>1, <2>2 DEF InHand
    <2>4. CASE wkr[w].job = j
      <3>1. w \in InHand(j) BY <2>0, <2>4 DEF InHand
      <3>2. \/ sends'[j] = sends[j] + 1 /\ inflight' = inflight
            \/ sends'[j] = sends[j] /\ inflight' = inflight \cup {<<wkr[w].job, wkr[w].n>>}
        BY <1>2, <1>t, <2>4 DEF DispatchSends
      <3>3. inflight' = inflight \cup {<<wkr[w].job, wkr[w].n>>}
              => Late(j)' \subseteq Late(j) \cup {<<wkr[w].job, wkr[w].n>>}
        BY DEF Late
      <3>4. LeavesHand(w, j) BY <1>l, <2>3, <3>1, <3>2, <3>3 DEF LeavesHand
      <3> QED BY <3>4
    <2>5. CASE wkr[w].job # j
      <3>1. sends'[j] = sends[j] BY <1>2, <1>t, <2>5 DEF DispatchSends
      <3>2. inflight' = inflight \/ inflight' = inflight \cup {<<wkr[w].job, wkr[w].n>>}
        BY <1>2 DEF DispatchSends
      <3>3. Late(j)' = Late(j) BY <2>5, <3>2 DEF Late
      <3>4. NothingMoves(j) BY <2>3, <3>1, <3>3 DEF NothingMoves
      <3> QED BY <3>4
    <2> QED BY <2>4, <2>5
  <1>3. ASSUME NEW d \in inflight, LateSend(d) PROVE Goal
    <2>1. wkr' = wkr /\ inflight' = inflight \ {d} BY <1>3 DEF LateSend
    <2>2. InHand(j)' = InHand(j) BY <2>1 DEF InHand
    <2>3. d[1] \in Jobs BY <1>t
    <2>4. CASE d[1] = j
      <3>1. d \in Late(j) /\ Late(j)' \subseteq Late(j) \ {d} BY <2>1, <2>4 DEF Late
      <3>2. sends'[j] \in {sends[j], sends[j] + 1} BY <1>3, <1>t, <2>4 DEF LateSend
      <3>3. Lands(d, j) BY <2>2, <3>1, <3>2 DEF Lands
      <3> QED BY <3>3
    <2>5. CASE d[1] # j
      <3>1. Late(j)' = Late(j) BY <2>1, <2>5 DEF Late
      <3>2. sends'[j] = sends[j] BY <1>3, <1>t, <2>5 DEF LateSend
      <3>3. NothingMoves(j) BY <2>2, <3>1, <3>2 DEF NothingMoves
      <3> QED BY <3>3
    <2> QED BY <2>4, <2>5
  <1>q. ASSUME sends' = sends, inflight' = inflight PROVE Goal
    <2>1. CASE \A w \in Workers : ~Claim(w, j)
      <3>1. NothingMoves(j) BY <1>q, <1>h, <1>l, <2>1 DEF NothingMoves
      <3> QED BY <3>1
    <2>2. CASE \E w \in Workers : Claim(w, j) BY <1>1, <2>2
    <2> QED BY <2>1, <2>2
  <1>4. ASSUME NEW w \in Workers, Dispatch(w) PROVE Goal
    <2>1. CASE DispatchSends(w) BY <1>2, <2>1
    <2>2. CASE DispatchGivesUp(w) BY <1>2, <2>2 DEF DispatchGivesUp
    <2>3. CASE \E b \in BOOLEAN : DispatchRefused(w, b) BY <1>q, <2>3 DEF DispatchRefused
    <2> QED BY <1>4, <2>1, <2>2, <2>3 DEF Dispatch
  <1>5. ASSUME NEW w \in Workers, Crash(w) PROVE Goal
    <2>1. sends' = sends BY <1>5 DEF Crash
    <2>2. CASE inflight' = inflight BY <1>q, <2>1, <2>2
    <2>3. CASE wkr[w].pc = "dispatching" /\ inflight' = inflight \cup {<<wkr[w].job, wkr[w].n>>}
      BY <1>2, <1>5, <2>1, <2>3
    <2> QED BY <1>5, <2>2, <2>3 DEF Crash
  <1>6. ASSUME NEW w \in Workers,
               \/ Start(w) \/ OpenAttempt(w) \/ ClaimFails(w) \/ Complete(w) \/ FailJob(w)
               \/ Throws(w) \/ Heartbeat(w) \/ \E i \in Jobs : Claim(w, i)
        PROVE  Goal
    BY <1>6, <1>q DEF Start, OpenAttempt, ClaimFails, Complete, CompleteCheck, CompleteSettle,
       CompleteFinish, FailJob, FailCheck, FailSettle, FailFinish, Throws, CompleteThrows,
       FailThrows, SettleThrows, Heartbeat, Claim
  <1>7. ASSUME NEW w \in Workers, Sweep(w) \/ Stop(w) \/ Drain(w) PROVE Goal
    BY <1>7, <1>q DEF Sweep, SweepRead, SweepRelease, SweepBury, Stop,
       Drain, DrainRequeue, DrainRelease, DrainBury
  <1>8. CASE (\E i \in Jobs : LeaseRunsOut(i) \/ BecomesDue(i)) \/ UNCHANGED vars
    BY <1>8, <1>q DEF LeaseRunsOut, BecomesDue, vars
  <1> QED BY <1>3, <1>4, <1>5, <1>6, <1>7, <1>8 DEF WorkerNext, Work

(* Calls given up stay finitely many. *)
LEMMA InflightFinite ==
  ASSUME IsFiniteSet(inflight), [WorkerNext]_vars
  PROVE  IsFiniteSet(inflight')
  <1>1. ASSUME NEW x, inflight' \subseteq inflight \cup {x} PROVE IsFiniteSet(inflight')
    <2>1. IsFiniteSet(inflight \cup {x}) BY FS_AddElement
    <2> QED BY <1>1, <2>1, FS_Subset
  <1>2. \/ inflight' = inflight
        \/ \E d \in inflight : inflight' = inflight \ {d}
        \/ \E x : inflight' = inflight \cup {x}
    <2>1. ASSUME NEW w \in Workers,
                 \/ Start(w) \/ Work(w) \/ Throws(w) \/ Heartbeat(w)
                 \/ Crash(w) \/ \E i \in Jobs : Claim(w, i)
          PROVE  inflight' = inflight \/ \E x : inflight' = inflight \cup {x}
      BY <2>1 DEF Start, Work, Dispatch, DispatchSends, DispatchRefused, DispatchGivesUp,
         OpenAttempt, ClaimFails, Complete, CompleteCheck, CompleteSettle,
         CompleteFinish, FailJob, FailCheck, FailSettle, FailFinish, Throws, CompleteThrows,
         FailThrows, SettleThrows, Heartbeat, Claim, Crash
    <2>2. ASSUME NEW w \in Workers, Sweep(w) \/ Stop(w) \/ Drain(w) PROVE inflight' = inflight
      BY <2>2 DEF Sweep, SweepRead, SweepRelease, SweepBury, Stop,
         Drain, DrainRequeue, DrainRelease, DrainBury
    <2>3. CASE (\E i \in Jobs : LeaseRunsOut(i) \/ BecomesDue(i)) \/ UNCHANGED vars
      BY <2>3 DEF LeaseRunsOut, BecomesDue, vars
    <2>4. CASE \E d \in inflight : LateSend(d) BY <2>4 DEF LateSend
    <2> QED BY <2>1, <2>2, <2>3, <2>4 DEF WorkerNext
  <1> QED BY <1>1, <1>2

(* A move keeps the sum within the attempts. *)
LEMMA SendStep ==
  ASSUME IInv, SendInv, [WorkerNext]_vars
  PROVE  SendInv'
  <1>1. IsFiniteSet(inflight') BY InflightFinite DEF SendInv
  <1>2. ASSUME NEW j \in Jobs
        PROVE  sends'[j] + Cardinality(Late(j)') + Cardinality(InHand(j)') <= jobs'[j].attempts
    <2>t. TypeOK BY DEF IInv
    <2>1. /\ IsFiniteSet(Late(j)) /\ IsFiniteSet(InHand(j)) /\ sends[j] \in Nat
          /\ Cardinality(Late(j)) \in Nat /\ Cardinality(InHand(j)) \in Nat
          /\ sends[j] + Cardinality(Late(j)) + Cardinality(InHand(j)) <= jobs[j].attempts
      BY <2>t, Counts
    <2>2. /\ jobs[j].attempts \in Nat /\ jobs'[j].attempts \in Nat
          /\ jobs'[j].attempts >= jobs[j].attempts
      BY AttemptsNeverShrink
    <2>3. CASE NothingMoves(j)
      <3>1. Cardinality(InHand(j)') \in Nat /\ Cardinality(InHand(j)') <= Cardinality(InHand(j))
        BY <2>1, <2>3, Counting DEF NothingMoves
      <3> QED BY <2>1, <2>2, <2>3, <3>1 DEF NothingMoves
    <2>4. ASSUME NEW w \in Workers, Begins(w, j)
          PROVE  sends'[j] + Cardinality(Late(j)') + Cardinality(InHand(j)') <= jobs'[j].attempts
      <3>1. /\ Cardinality(InHand(j)') \in Nat
            /\ Cardinality(InHand(j)') <= Cardinality(InHand(j)) + 1
        BY <2>1, <2>4, Counting DEF Begins
      <3> QED BY <2>1, <2>2, <2>4, <3>1 DEF Begins
    <2>5. ASSUME NEW w \in Workers, LeavesHand(w, j)
          PROVE  sends'[j] + Cardinality(Late(j)') + Cardinality(InHand(j)') <= jobs'[j].attempts
      <3>1. /\ Cardinality(InHand(j)') \in Nat
            /\ Cardinality(InHand(j)') <= Cardinality(InHand(j)) - 1
        BY <2>1, <2>5, Counting DEF LeavesHand
      <3>2. CASE sends'[j] = sends[j] + 1 /\ Late(j)' = Late(j) BY <2>1, <2>2, <3>1, <3>2
      <3>3. ASSUME NEW d, sends'[j] = sends[j], Late(j)' \subseteq Late(j) \cup {d}
            PROVE  sends'[j] + Cardinality(Late(j)') + Cardinality(InHand(j)')
                     <= jobs'[j].attempts
        <4>1. Cardinality(Late(j)') \in Nat /\ Cardinality(Late(j)') <= Cardinality(Late(j)) + 1
          BY <2>1, <3>3, Counting
        <4> QED BY <2>1, <2>2, <3>1, <3>3, <4>1
      <3> QED BY <2>5, <3>2, <3>3 DEF LeavesHand
    <2>6. ASSUME NEW d \in inflight, Lands(d, j)
          PROVE  sends'[j] + Cardinality(Late(j)') + Cardinality(InHand(j)') <= jobs'[j].attempts
      <3>1. Cardinality(Late(j)') \in Nat /\ Cardinality(Late(j)') <= Cardinality(Late(j)) - 1
        BY <2>1, <2>6, Counting DEF Lands
      <3>2. Cardinality(InHand(j)') \in Nat /\ Cardinality(InHand(j)') <= Cardinality(InHand(j))
        BY <2>1, <2>6, Counting DEF Lands
      <3>3. sends'[j] <= sends[j] + 1 /\ sends'[j] \in Nat BY <2>1, <2>6 DEF Lands
      <3> QED BY <2>1, <2>2, <3>1, <3>2, <3>3
    <2> QED BY <2>3, <2>4, <2>5, <2>6, Moves
  <1> QED BY <1>1, <1>2 DEF SendInv

(* The sum is an invariant. *)
LEMMA SendInvariant == Spec => [](IInv /\ SendInv)
  <1>1. ASSUME Init PROVE SendInv
    <2>1. inflight = {} /\ IsFiniteSet(inflight) BY <1>1, FS_EmptySet DEF Init, InitWorkers
    <2>2. ASSUME NEW j \in Jobs
          PROVE  sends[j] + Cardinality(Late(j)) + Cardinality(InHand(j)) <= jobs[j].attempts
      <3>1. sends[j] = 0 /\ jobs[j].attempts = 0
        BY <1>1 DEF Init, InitWorkers, InitTables, NewRow, NoRow
      <3>2. Late(j) = {} BY <2>1 DEF Late
      <3>3. InHand(j) = {} BY <1>1 DEF Init, InitWorkers, Loop, InHand
      <3> QED BY <3>1, <3>2, <3>3, FS_EmptySet
    <2> QED BY <2>1, <2>2 DEF SendInv
  <1>2. IInv /\ SendInv /\ [WorkerNext]_vars => SendInv' BY SendStep
  <1> QED BY <1>1, <1>2, InductiveInvariant, PTL DEF Spec

(* A message is given to WhatsApp at most once for each counted attempt, calls that
   time out and finish later included, and attempts never exceed the job's maximum. *)
THEOREM SendsAreBounded == Spec => []SendsBounded
  <1>1. ASSUME IInv, SendInv PROVE SendsBounded
    <2>1. ASSUME NEW j \in Jobs
          PROVE  /\ sends[j] + Cardinality({d \in inflight : d[1] = j}) <= jobs[j].attempts
                 /\ jobs[j].attempts <= jobs[j].max
      <3>1. /\ sends[j] \in Nat
            /\ Cardinality(Late(j)) \in Nat /\ Cardinality(InHand(j)) \in Nat
            /\ sends[j] + Cardinality(Late(j)) + Cardinality(InHand(j)) <= jobs[j].attempts
        BY <1>1, Counts DEF IInv
      <3>2. jobs[j].attempts \in Nat BY <1>1, AttemptsAssumption DEF IInv, TypeOK, Row_
      <3>3. sends[j] + Cardinality(Late(j)) <= jobs[j].attempts BY <3>1, <3>2
      <3> QED BY <1>1, <3>3 DEF Late, IInv, AttemptsInv
    <2> QED BY <2>1 DEF SendsBounded
  <1> QED BY <1>1, SendInvariant, PTL
-----------------------------------------------------------------------------
(***************************************************************************)
(* The worker side of the queue implements JobLifecycle, for every set of  *)
(* jobs and workers: each kind of step (StepKinds) is a step of the        *)
(* abstract specification or leaves the mapped state unchanged.  That the  *)
(* mapped winner is well defined is the history invariant.                 *)
(***************************************************************************)

(* The mapped variables. *)
AbsState  == [j \in Jobs |-> AbstractState(jobs[j].status)]
AbsTurn   == [j \in Jobs |-> jobs[j].attempts]
AbsWinner == [j \in Jobs |-> Winner(j)]

(* The statuses of the code are told apart. *)
LEMMA AbstractStates ==
  /\ AbstractState("QUEUED") = "queued" /\ AbstractState("PROCESSING") = "held"
  /\ AbstractState("SENT") = "sent" /\ AbstractState("FAILED") = "failed"
  BY DEF AbstractState, SentStatuses

(* The mapped winner depends on the successful attempts only. *)
LEMMA WinnerOfJob ==
  ASSUME NEW j \in Jobs,
         \A n \in Attempts : (log'[j][n] = "SUCCEEDED") = (log[j][n] = "SUCCEEDED")
  PROVE  Winner(j)' = Winner(j)
  <1>1. (\E n \in Attempts : log'[j][n] = "SUCCEEDED")
          = (\E n \in Attempts : log[j][n] = "SUCCEEDED")
    OBVIOUS
  <1>2. (CHOOSE n \in Attempts : log'[j][n] = "SUCCEEDED")
          = (CHOOSE n \in Attempts : log[j][n] = "SUCCEEDED")
    OBVIOUS
  <1> QED BY <1>1, <1>2 DEF Winner

(* No attempt won, so the mapped winners are as before. *)
LEMMA WinnerIsKept == ASSUME SameWins PROVE AbsWinner' = AbsWinner
  BY WinnerOfJob DEF AbsWinner, SameWins

(* A success recorded by the owner is the abstract Send. *)
LEMMA SendRefines ==
  ASSUME IInv, HistoryMatchesJob, NEW w \in Workers, SendsOne(w)
  PROVE  Lifecycle!Send(wkr[w].job)
  <1>t. TypeOK BY DEF IInv
  <1>p. PICK i \in Jobs : i = wkr[w].job BY DEF SendsOne
  <1>i. /\ wkr[w].n \in Attempts /\ jobs[i].status = "PROCESSING"
        /\ jobs[i].attempts = wkr[w].n
    BY <1>p DEF SendsOne
  <1>e. /\ jobs'[i].status = "SENT"
        /\ \A j \in Jobs : jobs'[j].attempts = jobs[j].attempts
        /\ \A j \in Jobs \ {i} : jobs'[j] = jobs[j] /\ log'[j] = log[j]
        /\ \A n \in Attempts : log'[i][n] = IF n = wkr[w].n THEN "SUCCEEDED" ELSE log[i][n]
    BY <1>t, <1>p, SendEffect
  <1>1. AbsState[i] = "held" BY <1>i, AbstractStates DEF AbsState
  <1>2. AbsState' = [AbsState EXCEPT ![i] = "sent"]
    BY <1>e, AbstractStates DEF AbsState
  <1>3. AbsTurn' = AbsTurn BY <1>e DEF AbsTurn
  <1>4. Winner(i)' = wkr[w].n
    <2>1. \A n \in Attempts : log[i][n] # "SUCCEEDED"
      BY <1>i DEF HistoryMatchesJob, SentStatuses
    <2>2. \A n \in Attempts : (log'[i][n] = "SUCCEEDED") = (n = wkr[w].n)
      BY <1>e, <2>1
    <2>3. (CHOOSE n \in Attempts : log'[i][n] = "SUCCEEDED") = wkr[w].n
      BY <1>i, <2>2
    <2> QED BY <1>i, <2>2, <2>3 DEF Winner
  <1>5. \A j \in Jobs \ {i} : Winner(j)' = Winner(j)
    <2> SUFFICES ASSUME NEW j \in Jobs \ {i} PROVE Winner(j)' = Winner(j) OBVIOUS
    <2>1. \A n \in Attempts : (log'[j][n] = "SUCCEEDED") = (log[j][n] = "SUCCEEDED")
      BY <1>e
    <2> QED BY <2>1, WinnerOfJob
  <1>6. AbsWinner' = [AbsWinner EXCEPT ![i] = AbsTurn[i]]
    BY <1>i, <1>4, <1>5 DEF AbsWinner, AbsTurn
  <1> QED BY <1>p, <1>1, <1>2, <1>3, <1>6
          DEF Lifecycle!Send, Lifecycle!Move, AbsState, AbsTurn, AbsWinner

(* A burial is the abstract failure of the jobs buried. *)
LEMMA FailRefines ==
  ASSUME IInv, NEW js \in SUBSET Jobs, FailsSome(js)
  PROVE  Lifecycle!Fail(js)
  <1>t. TypeOK BY DEF IInv
  <1>1. \A j \in js : AbsState[j] = "held"
    BY <1>t, BuryEffect, AbstractStates DEF AbsState
  <1>2. AbsState' = [j \in Jobs |-> IF j \in js THEN "failed" ELSE AbsState[j]]
    BY <1>t, BuryEffect, AbstractStates DEF AbsState
  <1>3. AbsTurn' = AbsTurn BY <1>t, BuryEffect DEF AbsTurn
  <1>4. AbsWinner' = AbsWinner BY WinnerIsKept DEF FailsSome
  <1> QED BY <1>1, <1>2, <1>3, <1>4 DEF Lifecycle!Fail, AbsState, AbsTurn, AbsWinner

(* A requeue gives the held jobs back. *)
LEMMA RequeueRefines ==
  ASSUME IInv, NEW js \in SUBSET Jobs, RequeuesSome(js)
  PROVE  Lifecycle!PutBack(js)
  <1>t. TypeOK BY DEF IInv
  <1>1. \A j \in js : AbsState[j] = "held"
    BY <1>t, RequeueEffect, AbstractStates DEF AbsState
  <1>2. AbsState' = [j \in Jobs |-> IF j \in js THEN "queued" ELSE AbsState[j]]
    BY <1>t, RequeueEffect, AbstractStates DEF AbsState
  <1>3. AbsTurn' = AbsTurn BY <1>t, RequeueEffect DEF AbsTurn
  <1>4. AbsWinner' = AbsWinner BY WinnerIsKept DEF RequeuesSome
  <1> QED BY <1>1, <1>2, <1>3, <1>4 DEF Lifecycle!PutBack, AbsState, AbsTurn, AbsWinner

(* A claim, of a queued job or of an expired lease, starts the next turn. *)
LEMMA ClaimRefines ==
  ASSUME IInv, NEW w \in Workers, NEW i \in Jobs, ClaimsOne(w, i)
  PROVE  Lifecycle!Take(i)
  <1>1. AbsState[i] \in {"queued", "held"} BY ClaimEffect, AbstractStates DEF AbsState
  <1>2. AbsState' = [AbsState EXCEPT ![i] = "held"]
    BY ClaimEffect, AbstractStates DEF AbsState
  <1>3. AbsTurn' = [AbsTurn EXCEPT ![i] = @ + 1] BY ClaimEffect DEF AbsTurn
  <1>4. AbsWinner' = AbsWinner BY WinnerIsKept DEF ClaimsOne
  <1> QED BY <1>1, <1>2, <1>3, <1>4
          DEF Lifecycle!Take, Lifecycle!Move, AbsState, AbsTurn, AbsWinner

(* Every other step leaves the mapped state unchanged. *)
LEMMA OtherStepsStutter ==
  ASSUME ChangesNone
  PROVE  UNCHANGED Lifecycle!vars
  <1>1. AbsState' = AbsState /\ AbsTurn' = AbsTurn BY DEF ChangesNone, AbsState, AbsTurn
  <1>2. AbsWinner' = AbsWinner BY WinnerIsKept DEF ChangesNone
  <1> QED BY <1>1, <1>2 DEF Lifecycle!vars, AbsState, AbsTurn, AbsWinner

(* What the workers do, step by step. *)
LEMMA WorkersRefine ==
  ASSUME IInv, HistoryMatchesJob, [WorkerNext]_vars
  PROVE  [Lifecycle!Next]_(Lifecycle!vars)
  <1>1. ASSUME NEW w \in Workers, SendsOne(w) PROVE Lifecycle!Next
    <2>1. wkr[w].job \in Jobs BY <1>1 DEF SendsOne
    <2> QED BY <1>1, <2>1, SendRefines DEF Lifecycle!Next
  <1>2. ASSUME NEW js \in SUBSET Jobs, FailsSome(js) \/ RequeuesSome(js)
        PROVE  Lifecycle!Next
    BY <1>2, FailRefines, RequeueRefines DEF Lifecycle!Next
  <1>3. ASSUME NEW w \in Workers, NEW i \in Jobs, ClaimsOne(w, i) PROVE Lifecycle!Next
    BY <1>3, ClaimRefines DEF Lifecycle!Next
  <1>4. ASSUME ChangesNone PROVE UNCHANGED Lifecycle!vars BY <1>4, OtherStepsStutter
  <1> QED BY <1>1, <1>2, <1>3, <1>4, StepKinds

(* A message is recorded as sent only by the turn that is current, never goes
   back once it was sent, and is requeued or failed only while it is held. *)
THEOREM QueueImplementsLifecycle == Spec => ImplementsLifecycle
  <1>1. ASSUME Init PROVE Lifecycle!Init
    <2>1. \A j \in Jobs : jobs[j].status = "QUEUED" /\ jobs[j].attempts = 0
      BY <1>1 DEF Init, InitTables, NewRow, NoRow
    <2>2. \A j \in Jobs, n \in Attempts : log[j][n] # "SUCCEEDED"
      BY <1>1 DEF Init, InitTables
    <2>3. \A j \in Jobs : Winner(j) = 0 BY <2>2 DEF Winner
    <2> QED BY <2>1, <2>3, AbstractStates DEF Lifecycle!Init
  <1> QED BY <1>1, WorkersRefine, HistoryInvariant, PTL
          DEF Spec, ImplementsLifecycle, Lifecycle!Spec
-----------------------------------------------------------------------------
(***************************************************************************)
(* The queue with its API and the acknowledgements.  A handler changes a   *)
(* row only while nobody processes it, so what the workers rely on stays   *)
(* true; what is new is that a retry revives a failed job.  It raises the  *)
(* maximum by what it read of the attempts, and finds the job failed with  *)
(* those attempts still: a job fails once, because its failure event is    *)
(* unique (RetryInv).                                                      *)
(***************************************************************************)

CallerPcs == {"ready", "reserving", "creating", "raced", "releasing", "cancelled",
              "retry-reserving", "retrying", "retry-rereading"}
CallerStates == [pc : CallerPcs, job : Jobs \cup {NoJob}, req : Requests \cup {NoJob},
                 n : 0..AttemptLimit, max : 0..AttemptLimit, key : QuotaKeys \cup {NoKey}]
AckStates == [pc : {"ready", "recording", "publishing"}, job : Jobs \cup {NoJob},
              type : {"SENT", "DELIVERED", "READ"}]

(* A handler works with a key, or on a job; a retry on what it has read of the job,
   which is still true of it while it is failed. *)
WithKey == {"reserving", "creating", "raced", "releasing", "retry-reserving", "retrying", "retry-rereading"}
Reviving == {"retry-reserving", "retrying"}

CallFits(x) ==
  /\ x.pc \in WithKey => x.key \in QuotaKeys
  /\ x.pc \in {"reserving", "creating", "raced"} => x.req \in Requests
  /\ x.pc \in Reviving \cup {"cancelled", "retry-rereading"} => x.job \in Jobs

RetryFits(x, rows, keys) ==
  x.pc \in Reviving =>
    /\ x.n + RetryExtra <= AttemptLimit
    /\ FailedEvent(x.job) \in keys
    /\ rows[x.job].status = "FAILED" => rows[x.job].attempts = x.n

(* An acknowledgement that is being recorded is one of a sent message. *)
AckFits(y) == (y.pc # "ready" => y.job \in Jobs) /\ (y.pc = "recording" => y.type # "SENT")

CallInv == api \in [Callers -> CallerStates] /\ \A c \in Callers : CallFits(api[c])
RetryInv == \A c \in Callers : RetryFits(api[c], jobs, outbox)
AckInv == ack \in [Handlers -> AckStates] /\ \A h \in Handlers : AckFits(ack[h])

(* What was processed was attempted, and what is not there yet was not. *)
AttemptedInv ==
  \A j \in Jobs :
    /\ jobs[j].status \in {"PROCESSING", "FAILED"} => jobs[j].attempts \in Attempts
    /\ jobs[j].status = "none" => jobs[j].attempts = 0

(* What the workers keep, and the handlers with them. *)
QueueInv == IInv /\ HistoryMatchesJob /\ SentIsPaid /\ FailureIsReported /\ AttemptedInv
SysInv == QueueInv /\ CallInv /\ RetryInv /\ AckInv

(* A job fails for the first time only: its failure is reported under a key of its own. *)
LEMMA FailsOnce ==
  ASSUME IInv, HistoryMatchesJob, [WorkerNext]_vars, NEW j \in Jobs,
         jobs'[j].status = "FAILED", FailedEvent(j) \in outbox
  PROVE  jobs[j].status = "FAILED"
  <1>t. TypeOK BY DEF IInv
  <1>1. ASSUME NEW w \in Workers, SendsOne(w) PROVE jobs[j].status = "FAILED"
    <2>1. wkr[w].job # j BY <1>t, <1>1, SendEffect
    <2> QED BY <1>t, <1>1, <2>1, SendEffect
  <1>2. ASSUME NEW js \in SUBSET Jobs, FailsSome(js) PROVE jobs[j].status = "FAILED"
    <2>1. j \notin js BY <1>2 DEF FailsSome, DuplicateEvent
    <2> QED BY <1>t, <1>2, <2>1, BuryEffect
  <1>3. ASSUME NEW js \in SUBSET Jobs, RequeuesSome(js) PROVE jobs[j].status = "FAILED"
    BY <1>t, <1>3, RequeueEffect
  <1>4. ASSUME NEW w \in Workers, NEW i \in Jobs, ClaimsOne(w, i) PROVE jobs[j].status = "FAILED"
    BY <1>4, ClaimEffect
  <1>5. ASSUME ChangesNone PROVE jobs[j].status = "FAILED" BY <1>5 DEF ChangesNone
  <1> QED BY <1>1, <1>2, <1>3, <1>4, <1>5, StepKinds

(* The events that were published stay. *)
LEMMA OutboxGrows ==
  ASSUME IInv, HistoryMatchesJob, [WorkerNext]_vars PROVE outbox \subseteq outbox'
  <1>t. TypeOK BY DEF IInv
  <1>1. ASSUME NEW w \in Workers, SendsOne(w) PROVE outbox \subseteq outbox' BY <1>t, <1>1, SendEffect
  <1>2. ASSUME NEW js \in SUBSET Jobs, FailsSome(js) PROVE outbox \subseteq outbox'
    BY <1>2 DEF FailsSome, BuryJobs
  <1>3. ASSUME NEW js \in SUBSET Jobs, RequeuesSome(js) PROVE outbox \subseteq outbox'
    BY <1>3 DEF RequeuesSome
  <1>4. ASSUME NEW w \in Workers, NEW i \in Jobs, ClaimsOne(w, i) PROVE outbox \subseteq outbox'
    BY <1>4 DEF ClaimsOne, Claim
  <1>5. ASSUME ChangesNone PROVE outbox \subseteq outbox' BY <1>5 DEF ChangesNone
  <1> QED BY <1>1, <1>2, <1>3, <1>4, <1>5, StepKinds

(* Only a claim takes up a job, and counts an attempt for it. *)
LEMMA AttemptedStep ==
  ASSUME IInv, AttemptedInv, [WorkerNext]_vars PROVE AttemptedInv'
  <1> SUFFICES ASSUME NEW j \in Jobs
               PROVE  /\ jobs'[j].status \in {"PROCESSING", "FAILED"} => jobs'[j].attempts \in Attempts
                      /\ jobs'[j].status = "none" => jobs'[j].attempts = 0
    BY DEF AttemptedInv, Attempts
  <1>1. CASE Kept(j) BY <1>1 DEF Kept, AttemptedInv
  <1>2. CASE Ended(j) BY <1>2 DEF Ended, AttemptedInv
  <1>3. CASE \E w \in Workers : Claim(w, j) BY <1>3, ClaimStep
  <1> QED BY <1>1, <1>2, <1>3, JobStep

(* The workers keep their part. *)
LEMMA QueueStep == ASSUME QueueInv, [WorkerNext]_vars PROVE QueueInv'
  BY InductionStep, HistoryStep, PaidStep, ReportedStep, AttemptedStep DEF QueueInv

(* What a retry has read stays true of a job that does not fail anew. *)
LEMMA ReadStaysTrue ==
  ASSUME NEW x, CallFits(x), RetryFits(x, jobs, outbox), outbox \subseteq outbox',
         (x.pc \in Reviving /\ jobs'[x.job].status = "FAILED") =>
           jobs[x.job].status = "FAILED" /\ jobs'[x.job].attempts = jobs[x.job].attempts
  PROVE  RetryFits(x, jobs', outbox')
  BY DEF RetryFits, CallFits

(* A step of the workers leaves the handlers alone. *)
LEMMA WorkersKeepSystem ==
  ASSUME SysInv, [WorkerNext]_vars, UNCHANGED <<api, ack>>
  PROVE  SysInv'
  <1>1. QueueInv' BY QueueStep DEF SysInv
  <1>2. CallInv' /\ AckInv' BY DEF SysInv, CallInv, AckInv
  <1>3. RetryInv'
    <2> SUFFICES ASSUME NEW c \in Callers PROVE RetryFits(api[c], jobs', outbox')
      BY DEF RetryInv
    <2>1. RetryFits(api[c], jobs, outbox) /\ CallFits(api[c]) BY DEF SysInv, RetryInv, CallInv
    <2>2. outbox \subseteq outbox' BY OutboxGrows DEF SysInv, QueueInv
    <2>3. ASSUME api[c].pc \in Reviving, jobs'[api[c].job].status = "FAILED"
          PROVE  jobs[api[c].job].status = "FAILED" /\ jobs'[api[c].job].attempts = jobs[api[c].job].attempts
      <3>1. api[c].job \in Jobs /\ FailedEvent(api[c].job) \in outbox
        BY <2>1, <2>3 DEF CallFits, RetryFits
      <3>2. jobs[api[c].job].status = "FAILED" BY <2>3, <3>1, FailsOnce DEF SysInv, QueueInv
      <3>3. jobs'[api[c].job].attempts = jobs[api[c].job].attempts
        BY <2>3, <3>1, <3>2, JobStep, ClaimStep DEF SysInv, QueueInv, Kept, Ended
      <3> QED BY <3>2, <3>3
    <2> QED BY <2>1, <2>2, <2>3, ReadStaysTrue
  <1> QED BY <1>1, <1>2, <1>3 DEF SysInv
-----------------------------------------------------------------------------
(* The steps of the handlers.  The row that a handler creates is typed. *)
LEMMA NewRowType ==
  ASSUME NEW j \in Jobs
  PROVE  NewRow(j) \in Row_ /\ NewRow(j).status = "QUEUED" /\ NewRow(j).attempts < NewRow(j).max
  <1>1. EnqueueKey(j) \in QuotaKeys BY DEF QuotaKeys
  <1>2. MaxAttempts \in 0..AttemptLimit /\ 0 \in 0..AttemptLimit /\ 0 < MaxAttempts BY AttemptsAssumption
  <1> QED BY <1>1, <1>2 DEF NewRow, NoRow, Row_, Statuses, Locks

(* The row of a deleted job keeps its attempts and their maximum. *)
DeletedRow(j) ==
  [NoRow(j) EXCEPT !.status = "DELETED", !.attempts = jobs[j].attempts, !.max = jobs[j].max]

LEMMA DeletedRowType ==
  ASSUME TypeOK, NEW j \in Jobs
  PROVE  /\ DeletedRow(j) \in Row_ /\ DeletedRow(j).status = "DELETED"
         /\ DeletedRow(j).attempts = jobs[j].attempts /\ DeletedRow(j).max = jobs[j].max
  <1>1. EnqueueKey(j) \in QuotaKeys BY DEF QuotaKeys
  <1>2. jobs[j] \in Row_ BY DEF TypeOK
  <1> QED BY <1>1, <1>2 DEF DeletedRow, NoRow, Row_, Statuses, Locks

(* The cancelled row. *)
CancelledRow(r) == [Unlocked(r) EXCEPT !.status = "CANCELLED"]
LEMMA CancelledRowType ==
  ASSUME NEW r \in Row_
  PROVE  /\ CancelledRow(r) \in Row_ /\ CancelledRow(r).status = "CANCELLED"
         /\ CancelledRow(r).attempts = r.attempts /\ CancelledRow(r).max = r.max
  BY DEF Row_, CancelledRow, Unlocked, Statuses, Locks

(* The revived row: more attempts, under the key of the retry. *)
RevivedRow(r, m, k) == [RequeuedRow(r, TRUE) EXCEPT !.max = m, !.key = k]
LEMMA RevivedRowType ==
  ASSUME NEW r \in Row_, NEW m \in 0..AttemptLimit, NEW k \in QuotaKeys
  PROVE  /\ RevivedRow(r, m, k) \in Row_ /\ RevivedRow(r, m, k).status = "QUEUED"
         /\ RevivedRow(r, m, k).attempts = r.attempts /\ RevivedRow(r, m, k).max = m
  BY DEF Row_, RevivedRow, RequeuedRow, Unlocked, Statuses, Locks

(* The row of an acknowledged job. *)
AckedRow(r, t) == [r EXCEPT !.status = t]
LEMMA AckedRowType ==
  ASSUME NEW r \in Row_, NEW t \in SentStatuses
  PROVE  /\ AckedRow(r, t) \in Row_ /\ AckedRow(r, t).status = t /\ AckedRow(r, t).key = r.key
         /\ AckedRow(r, t).attempts = r.attempts /\ AckedRow(r, t).max = r.max
  BY DEF Row_, AckedRow, Statuses, SentStatuses

(* Won attempts of a job. *)
Won(rows) == {n \in Attempts : rows[n] = "SUCCEEDED"}

LogStatuses == {"none", "PROCESSING", "SUCCEEDED", "FAILED"}
RcptStatuses == {"none", "ENQUEUED", "SENT", "DELIVERED", "READ", "FAILED"}

(* A handler that writes the row of a job nobody processes keeps what the queue relies
   on, if what it writes is true of that job. *)
LEMMA RowWritten ==
  ASSUME QueueInv, NEW i \in Jobs, NEW r \in Row_, jobs' = [jobs EXCEPT ![i] = r],
         jobs[i].status # "PROCESSING", r.status \notin {"PROCESSING", "FAILED", "none"},
         r.attempts <= r.max, r.status = "QUEUED" => r.attempts < r.max,
         log' \in [Jobs -> [Attempts -> LogStatuses]], rcpt' \in [Jobs -> RcptStatuses],
         events' \subseteq Jobs \X {"SENT", "DELIVERED", "READ", "FAILED"},
         outbox' \subseteq EventKeys, outbox \subseteq outbox',
         \A j \in Jobs \ {i} : /\ log'[j] = log[j]
                               /\ \A t \in {"SENT", "FAILED"} : <<j, t>> \in events => <<j, t>> \in events',
         IF r.status \in SentStatuses
         THEN Won(log'[i]) = {r.attempts} /\ <<i, "SENT">> \in events' /\ HasRow(usage, "COMMIT", r.key)
         ELSE r.status = "DELETED" \/ Won(log'[i]) = {},
         UNCHANGED <<usage, wkr, sweep, drain, inflight, sends>>
  PROVE  QueueInv'
  <1>t. TypeOK BY DEF QueueInv, IInv
  <1>j. jobs \in [Jobs -> Row_] /\ jobs'[i] = r /\ \A j \in Jobs \ {i} : jobs'[j] = jobs[j]
    BY <1>t DEF TypeOK
  <1>p. \A j \in Jobs : jobs'[j].status = "PROCESSING" => j # i /\ jobs[j].status = "PROCESSING" /\ jobs'[j] = jobs[j]
    BY <1>j
  <1>q. \A j \in Jobs : jobs[j].status = "PROCESSING" => j # i /\ jobs'[j] = jobs[j]
    BY <1>j
  <1>1. TypeOK'
    <2>1. jobs' \in [Jobs -> Row_] BY <1>t DEF TypeOK
    <2> QED BY <1>t, <2>1 DEF TypeOK, LogStatuses, RcptStatuses, QuotaKeys, EventKeys, EnqueueKey, RetryKey, FailedEvent, StatusEvent
  <1>2. ClaimInv' BY <1>p DEF ClaimInv, QueueInv, IInv
  <1>3. HandInv'
    <2> SUFFICES ASSUME NEW w \in Workers
                 PROVE  /\ wkr[w].pc \in Holding => wkr[w].job \in Jobs /\ wkr[w].n \in Attempts
                        /\ (wkr[w].pc \in Working /\ Owns(w)') =>
                              wkr[w].max = jobs'[wkr[w].job].max /\ wkr[w].key = jobs'[wkr[w].job].key
                        /\ wkr[w].pc = "finishing" => HasRow(usage, "COMMIT", wkr[w].key)
      BY DEF HandInv, HasRow
    <2>1. /\ wkr[w].pc \in Holding => wkr[w].job \in Jobs /\ wkr[w].n \in Attempts
          /\ (wkr[w].pc \in Working /\ Owns(w)) =>
                wkr[w].max = jobs[wkr[w].job].max /\ wkr[w].key = jobs[wkr[w].job].key
          /\ wkr[w].pc = "finishing" => HasRow(usage, "COMMIT", wkr[w].key)
      BY DEF QueueInv, IInv, HandInv
    <2>2. ASSUME wkr[w].pc \in Working, Owns(w)'
          PROVE  Owns(w) /\ jobs'[wkr[w].job] = jobs[wkr[w].job]
      <3>1. wkr[w].job \in Jobs BY <2>1, <2>2 DEF Holding
      <3> QED BY <1>p, <2>2, <3>1 DEF Owns, Token
    <2> QED BY <2>1, <2>2
  <1>4. DrainInv'
    <2>1. \A w \in Workers : ClaimsOf(w)' = ClaimsOf(w) BY <1>p, <1>q DEF ClaimsOf
    <2>2. \A w \in Workers : \A j \in ClaimsOf(w) : jobs'[j] = jobs[j] BY <1>q DEF ClaimsOf
    <2> QED BY <2>1, <2>2 DEF DrainInv, QueueInv, IInv
  <1>5. SweepInv'
    <2>1. \A w \in Workers : \A s \in sweep[w].rows : s.job \in Jobs BY <1>t, RowsAreJobs
    <2> QED BY <1>p, <2>1 DEF SweepInv, QueueInv, IInv
  <1>6. AttemptsInv' /\ NoStrandedQueued' /\ AttemptedInv'
    BY <1>j DEF AttemptsInv, NoStrandedQueued, AttemptedInv, QueueInv, IInv, Attempts
  <1>7. HistoryMatchesJob'
    <2> SUFFICES ASSUME NEW j \in Jobs
                 PROVE  IF jobs'[j].status \in SentStatuses
                        THEN Won(log'[j]) = {jobs'[j].attempts} /\ <<j, "SENT">> \in events'
                        ELSE jobs'[j].status = "DELETED" \/ Won(log'[j]) = {}
      BY DEF HistoryMatchesJob, Won, Attempts
    <2>1. CASE j = i BY <1>j, <2>1
    <2>2. CASE j # i
      <3>1. IF jobs[j].status \in SentStatuses
            THEN Won(log[j]) = {jobs[j].attempts} /\ <<j, "SENT">> \in events
            ELSE jobs[j].status = "DELETED" \/ Won(log[j]) = {}
        BY DEF QueueInv, HistoryMatchesJob, Won
      <3> QED BY <1>j, <2>2, <3>1
    <2> QED BY <2>1, <2>2
  <1>8. SentIsPaid' BY <1>j DEF SentIsPaid, QueueInv, HasRow
  <1>9. FailureIsReported' BY <1>j DEF FailureIsReported, QueueInv, FailedEvent
  <1> QED BY <1>1, <1>2, <1>3, <1>4, <1>5, <1>6, <1>7, <1>8, <1>9 DEF QueueInv, IInv

(* So does a handler that reserves or releases a quota. *)
LEMMA UsageWritten ==
  ASSUME QueueInv, usage' \in UsageType, usage.ledger \subseteq usage'.ledger,
         UNCHANGED <<jobs, log, rcpt, events, outbox, wkr, sweep, drain, inflight, sends>>
  PROVE  QueueInv'
  <1>h. \A op, k : HasRow(usage, op, k) => HasRow(usage', op, k) BY DEF HasRow
  <1>1. TypeOK' BY DEF QueueInv, IInv, TypeOK, UsageType
  <1>2. ClaimInv' /\ SweepInv' /\ AttemptsInv' /\ NoStrandedQueued' /\ AttemptedInv'
    BY DEF QueueInv, IInv, ClaimInv, SweepInv, AttemptsInv, NoStrandedQueued, AttemptedInv, Attempts
  <1>3. DrainInv' BY DEF QueueInv, IInv, DrainInv, ClaimsOf
  <1>4. HandInv' BY <1>h DEF QueueInv, IInv, HandInv, Owns, Token, Attempts
  <1>5. HistoryMatchesJob' /\ FailureIsReported'
    BY DEF QueueInv, HistoryMatchesJob, FailureIsReported, Attempts, FailedEvent
  <1>6. SentIsPaid' BY <1>h DEF QueueInv, SentIsPaid
  <1> QED BY <1>1, <1>2, <1>3, <1>4, <1>5, <1>6 DEF QueueInv, IInv

(* A reservation keeps the type of the tables. *)
LEMMA ReservedType ==
  ASSUME NEW u \in UsageType, NEW k \in QuotaKeys
  PROVE  Reserved(u, Month, k, 1) \in UsageType /\ u.ledger \subseteq Reserved(u, Month, k, 1).ledger
  <1>1. CASE HasRow(u, "RESERVE", k) BY <1>1 DEF Reserved
  <1>2. CASE ~HasRow(u, "RESERVE", k)
    <2>1. [u.reserved EXCEPT ![Month] = @ + 1] \in [{Month} -> Nat] BY DEF UsageType
    <2>2. AddRow(u, "RESERVE", k, 1, Month) \in SUBSET LedgerRow
      BY DEF AddRow, UsageType, LedgerRow, LedgerOps
    <2>3. Reserved(u, Month, k, 1) = [u EXCEPT !.reserved[Month] = @ + 1,
                                               !.ledger = AddRow(u, "RESERVE", k, 1, Month)]
      BY <1>2 DEF Reserved
    <2>4. /\ Reserved(u, Month, k, 1) \in UsageType
          /\ Reserved(u, Month, k, 1).ledger = AddRow(u, "RESERVE", k, 1, Month)
      BY <2>1, <2>2, <2>3 DEF UsageType
    <2> QED BY <2>4 DEF AddRow
  <1> QED BY <1>1, <1>2

(* A handler that takes its next step, from one that fits to one that does. *)
LEMMA CallerMoves ==
  ASSUME SysInv, NEW c \in Callers, NEW x \in CallerStates, api' = [api EXCEPT ![c] = x],
         CallFits(x), RetryFits(x, jobs', outbox'), outbox \subseteq outbox',
         \A j \in Jobs : jobs'[j].status = "FAILED" =>
           jobs[j].status = "FAILED" /\ jobs'[j].attempts = jobs[j].attempts
  PROVE  CallInv' /\ RetryInv'
  <1>1. CallInv'
    <2>1. api' \in [Callers -> CallerStates] BY DEF SysInv, CallInv
    <2>2. \A d \in Callers : CallFits(api'[d]) BY DEF SysInv, CallInv
    <2> QED BY <2>1, <2>2 DEF CallInv, CallerStates, QuotaKeys, EnqueueKey, RetryKey
  <1>2. ASSUME NEW d \in Callers PROVE RetryFits(api'[d], jobs', outbox')
    <2>1. CASE d = c BY <2>1 DEF SysInv, CallInv
    <2>2. CASE d # c
      <3>1. api'[d] = api[d] /\ CallFits(api[d]) /\ RetryFits(api[d], jobs, outbox)
        BY <2>2 DEF SysInv, CallInv, RetryInv
      <3>2. api[d].pc \in Reviving => api[d].job \in Jobs BY <3>1 DEF CallFits
      <3> QED BY <3>1, <3>2, ReadStaysTrue
    <2> QED BY <2>1, <2>2
  <1> QED BY <1>1, <1>2 DEF RetryInv

(* The handlers that do not move. *)
LEMMA CallersStay ==
  ASSUME SysInv, api' = api, outbox \subseteq outbox',
         \A j \in Jobs : jobs'[j].status = "FAILED" =>
           jobs[j].status = "FAILED" /\ jobs'[j].attempts = jobs[j].attempts
  PROVE  CallInv' /\ RetryInv'
  <1>1. CallInv' BY DEF SysInv, CallInv
  <1>2. ASSUME NEW d \in Callers PROVE RetryFits(api[d], jobs', outbox')
    <2>1. CallFits(api[d]) /\ RetryFits(api[d], jobs, outbox) BY DEF SysInv, CallInv, RetryInv
    <2>2. api[d].pc \in Reviving => api[d].job \in Jobs BY <2>1 DEF CallFits
    <2> QED BY <2>1, <2>2, ReadStaysTrue
  <1> QED BY <1>1, <1>2 DEF RetryInv

(* A handler at its next place, with what it knew. *)
At_(x, pc) == [x EXCEPT !.pc = pc]
LEMMA NextPlace ==
  ASSUME NEW x \in CallerStates, NEW pc \in CallerPcs
  PROVE  /\ At_(x, pc) \in CallerStates /\ At_(x, pc).pc = pc /\ At_(x, pc).job = x.job
         /\ At_(x, pc).req = x.req
         /\ At_(x, pc).n = x.n /\ At_(x, pc).max = x.max /\ At_(x, pc).key = x.key
  BY DEF At_, CallerStates

(* The handlers that have not begun, or have answered. *)
LEMMA ReadyFits ==
  /\ Ready \in CallerStates /\ CallFits(Ready)
  /\ \A rows, keys : RetryFits(Ready, rows, keys)
  <1>1. 0 \in 0..AttemptLimit BY AttemptsInRange
  <1>2. Ready \in CallerStates /\ Ready.pc = "ready" BY <1>1 DEF Ready, CallerStates, CallerPcs
  <1> QED BY <1>2 DEF CallFits, RetryFits, WithKey, Reviving

(* Where a handler that was at one place and fits may go on to, with what it knew: to
   places where nobody needs more. *)
LEMMA NextFits ==
  ASSUME SysInv, NEW c \in Callers,
         NEW pc \in {"creating", "raced", "releasing", "retry-rereading", "retrying"},
         pc \in {"creating", "raced"} => api[c].pc \in {"reserving", "creating"},
         pc = "releasing" => api[c].pc \in WithKey,
         pc = "retry-rereading" => api[c].pc \in Reviving,
         pc = "retrying" => api[c].pc = "retry-reserving",
         UNCHANGED <<jobs, outbox>>, Step(c, pc)
  PROVE  CallInv' /\ RetryInv'
  <1> DEFINE x == At_(api[c], pc)
  <1>1. api[c] \in CallerStates /\ CallFits(api[c]) /\ RetryFits(api[c], jobs, outbox)
    BY DEF SysInv, CallInv, RetryInv
  <1>2. pc \in CallerPcs BY DEF CallerPcs
  <1>3. api' = [api EXCEPT ![c] = x] BY DEF Step, At_
  <1>4. /\ x \in CallerStates /\ x.pc = pc /\ x.job = api[c].job /\ x.req = api[c].req
        /\ x.n = api[c].n /\ x.key = api[c].key
    BY <1>1, <1>2, NextPlace
  <1> HIDE DEF x
  <1>5. CallFits(x) BY <1>1, <1>4 DEF CallFits, WithKey, Reviving
  <1>6. RetryFits(x, jobs, outbox) BY <1>1, <1>4 DEF RetryFits, Reviving
  <1> QED BY <1>3, <1>4, <1>5, <1>6, CallerMoves

(* A handler that answers. *)
LEMMA ReturnFits ==
  ASSUME SysInv, NEW c \in Callers, Return(c), outbox \subseteq outbox',
         \A j \in Jobs : jobs'[j].status = "FAILED" =>
           jobs[j].status = "FAILED" /\ jobs'[j].attempts = jobs[j].attempts
  PROVE  CallInv' /\ RetryInv'
  BY ReadyFits, CallerMoves DEF Return

(* Steps that read only. *)
LEMMA ReadingSteps ==
  ASSUME SysInv, NEW c \in Callers,
         \/ \E r \in Requests : EnqueueLookup(c, r)
         \/ \E j \in Jobs : RetryRead(c, j)
         \/ EnqueueRaced(c) \/ EnqueueAfterRace(c) \/ EnqueueFails(c)
         \/ CancelReread(c) \/ RetryLost(c) \/ RetryReread(c)
  PROVE  SysInv'
  <1>v. UNCHANGED <<vars, ack>>
    BY DEF EnqueueLookup, RetryRead, EnqueueRaced, EnqueueAfterRace, EnqueueFails, CancelReread,
           RetryLost, RetryReread, apiUnchanged, vars
  <1>1. QueueInv' BY <1>v, QueueStep DEF SysInv
  <1>2. AckInv' BY <1>v DEF SysInv, AckInv, AckStates, AckFits
  <1>3. UNCHANGED <<jobs, outbox>> BY <1>v DEF vars
  <1>c. api[c] \in CallerStates /\ CallFits(api[c]) BY DEF SysInv, CallInv
  <1>r. Return(c) => CallInv' /\ RetryInv' BY <1>3, ReturnFits
  <1>4. ASSUME NEW r \in Requests, EnqueueLookup(c, r) PROVE CallInv' /\ RetryInv'
    <2> DEFINE k == <<"message-job", r, 0>>
               x == [Ready EXCEPT !.pc = "reserving", !.req = r, !.key = k]
    <2>1. api' = [api EXCEPT ![c] = x] BY <1>4 DEF EnqueueLookup
    <2>2. k \in QuotaKeys
      <3>1. PICK j \in Jobs : RequestOf[j] = r BY <1>4 DEF EnqueueLookup
      <3>2. EnqueueKey(j) = k BY <3>1 DEF EnqueueKey
      <3>3. EnqueueKey(j) \in QuotaKeys BY DEF QuotaKeys
      <3> QED BY <3>2, <3>3
    <2> HIDE DEF k
    <2>3. x \in CallerStates /\ x.pc = "reserving" /\ x.req \in Requests /\ x.key \in QuotaKeys
      BY <2>2, ReadyFits DEF CallerStates, CallerPcs
    <2> HIDE DEF x
    <2>4. CallFits(x) /\ RetryFits(x, jobs, outbox) BY <2>3 DEF CallFits, RetryFits, Reviving
    <2> QED BY <1>3, <2>1, <2>3, <2>4, CallerMoves
  <1>5. ASSUME NEW j \in Jobs, RetryRead(c, j) PROVE CallInv' /\ RetryInv'
    <2> DEFINE k == RetryKey(j, jobs[j].attempts)
               x == [Ready EXCEPT !.pc = "retry-reserving", !.job = j, !.n = jobs[j].attempts,
                                  !.max = jobs[j].max, !.key = k]
    <2>1. api' = [api EXCEPT ![c] = x] BY <1>5 DEF RetryRead
    <2>2. jobs[j] \in Row_ BY DEF SysInv, QueueInv, IInv, TypeOK
    <2>3. jobs[j].status = "FAILED" /\ jobs[j].attempts + RetryExtra <= AttemptLimit
      BY <1>5 DEF RetryRead
    <2>4. jobs[j].attempts \in Attempts /\ FailedEvent(j) \in outbox
      BY <2>3 DEF SysInv, QueueInv, AttemptedInv, FailureIsReported
    <2>5. k \in QuotaKeys BY <2>4 DEF QuotaKeys
    <2> HIDE DEF k
    <2>6. /\ x \in CallerStates /\ x.pc = "retry-reserving" /\ x.job = j
          /\ x.n = jobs[j].attempts /\ x.key = k
      BY <2>2, <2>5, ReadyFits DEF CallerStates, CallerPcs, Row_
    <2> HIDE DEF x
    <2>7. CallFits(x) BY <2>5, <2>6 DEF CallFits
    <2>8. RetryFits(x, jobs, outbox) BY <2>3, <2>4, <2>6 DEF RetryFits
    <2> QED BY <1>3, <2>1, <2>6, <2>7, <2>8, CallerMoves
  <1>6. ASSUME EnqueueRaced(c) \/ EnqueueAfterRace(c) \/ EnqueueFails(c) PROVE CallInv' /\ RetryInv'
    BY <1>6, <1>3, <1>r, NextFits DEF EnqueueRaced, EnqueueAfterRace, EnqueueFails, At, WithKey
  <1>7. ASSUME CancelReread(c) PROVE CallInv' /\ RetryInv'
    <2>1. CASE Return(c) BY <1>r, <2>1
    <2>2. CASE api' = [api EXCEPT ![c].pc = "releasing", ![c].key = jobs[api[c].job].key]
      <3> DEFINE x == [api[c] EXCEPT !.pc = "releasing", !.key = jobs[api[c].job].key]
      <3>1. api' = [api EXCEPT ![c] = x] BY <2>2, <1>c DEF SysInv, CallInv
      <3>2. api[c].job \in Jobs BY <1>7, <1>c DEF CancelReread, At, CallFits
      <3>3. jobs[api[c].job].key \in QuotaKeys
        BY <3>2 DEF SysInv, QueueInv, IInv, TypeOK, Row_
      <3>4. x \in CallerStates /\ x.pc = "releasing" /\ x.key \in QuotaKeys
        BY <1>c, <3>3 DEF CallerStates, CallerPcs
      <3> HIDE DEF x
      <3>5. CallFits(x) /\ RetryFits(x, jobs, outbox) BY <3>4 DEF CallFits, RetryFits, Reviving
      <3> QED BY <1>3, <3>1, <3>4, <3>5, CallerMoves
    <2> QED BY <1>7, <2>1, <2>2 DEF CancelReread
  <1>8. ASSUME RetryLost(c) \/ RetryReread(c) PROVE CallInv' /\ RetryInv'
    BY <1>8, <1>3, <1>r, NextFits DEF RetryLost, RetryReread, At, WithKey, Reviving
  <1> QED BY <1>1, <1>2, <1>4, <1>5, <1>6, <1>7, <1>8 DEF SysInv

(* Steps that reserve or release. *)
LEMMA QuotaSteps ==
  ASSUME SysInv, NEW c \in Callers, EnqueueReserve(c) \/ RetryReserve(c) \/ ReleaseKey(c)
  PROVE  SysInv'
  <1>v. UNCHANGED <<jobs, log, rcpt, events, outbox, wkr, sweep, drain, inflight, sends, ack>>
    BY DEF EnqueueReserve, RetryReserve, ReleaseKey, apiUnchanged
  <1>u. usage \in UsageType BY DEF SysInv, QueueInv, IInv, TypeOK
  <1>k. api[c].key \in QuotaKeys
    BY DEF SysInv, CallInv, CallFits, EnqueueReserve, RetryReserve, ReleaseKey, At, WithKey
  <1>1. \/ usage' = usage \/ usage' = Reserved(usage, Month, api[c].key, 1)
        \/ CanSettle(usage, "RELEASE", api[c].key) /\ usage' = Settled(usage, "RELEASE", api[c].key)
    BY DEF EnqueueReserve, RetryReserve, ReleaseKey
  <1>2. usage' \in UsageType /\ usage.ledger \subseteq usage'.ledger
    BY <1>u, <1>k, <1>1, ReservedType, SettledType DEF Settlements
  <1>3. QueueInv' BY <1>v, <1>2, UsageWritten DEF SysInv
  <1>4. AckInv' BY <1>v DEF SysInv, AckInv, AckStates, AckFits
  <1>5. \/ Return(c)
        \/ At(c, "reserving") /\ Step(c, "creating")
        \/ At(c, "retry-reserving") /\ Step(c, "retrying")
    BY DEF EnqueueReserve, RetryReserve, ReleaseKey
  <1>6. CallInv' /\ RetryInv' BY <1>v, <1>5, ReturnFits, NextFits DEF At
  <1> QED BY <1>3, <1>4, <1>6 DEF SysInv

(* The table of recipients and the published events are nothing the queue relies on,
   but that a published event stays. *)
LEMMA AsideWritten ==
  ASSUME QueueInv, rcpt' \in [Jobs -> RcptStatuses], outbox' \subseteq EventKeys, outbox \subseteq outbox',
         UNCHANGED <<jobs, log, events, usage, wkr, sweep, drain, inflight, sends>>
  PROVE  QueueInv'
  <1>1. TypeOK' BY DEF QueueInv, IInv, TypeOK, RcptStatuses, EventKeys, FailedEvent, StatusEvent
  <1>2. ClaimInv' /\ SweepInv' /\ AttemptsInv' /\ NoStrandedQueued' /\ AttemptedInv'
    BY DEF QueueInv, IInv, ClaimInv, SweepInv, AttemptsInv, NoStrandedQueued, AttemptedInv, Attempts
  <1>3. DrainInv' BY DEF QueueInv, IInv, DrainInv, ClaimsOf
  <1>4. HandInv' BY DEF QueueInv, IInv, HandInv, Owns, Token, Attempts, HasRow
  <1>5. HistoryMatchesJob' /\ FailureIsReported'
    BY DEF QueueInv, HistoryMatchesJob, FailureIsReported, Attempts, FailedEvent
  <1>6. SentIsPaid' BY DEF QueueInv, SentIsPaid, HasRow
  <1> QED BY <1>1, <1>2, <1>3, <1>4, <1>5, <1>6 DEF QueueInv, IInv

(* A handler creates the job of its request. *)
LEMMA CreateStep ==
  ASSUME SysInv, NEW c \in Callers, NEW i \in Jobs, EnqueueCreate(c, i)
  PROVE  SysInv'
  <1>t. QueueInv /\ TypeOK /\ jobs[i].status = "none" BY DEF SysInv, QueueInv, IInv, EnqueueCreate
  <1> DEFINE r == NewRow(i)
  <1>1. /\ r \in Row_ /\ r.status = "QUEUED" /\ r.attempts < r.max /\ jobs' = [jobs EXCEPT ![i] = r]
    BY NewRowType DEF EnqueueCreate
  <1> HIDE DEF r
  <1>2. UNCHANGED <<log, rcpt, events, outbox, usage, wkr, sweep, drain, inflight, sends, ack>>
    BY DEF EnqueueCreate, apiUnchanged
  <1>3. Won(log[i]) = {} BY <1>t DEF QueueInv, HistoryMatchesJob, SentStatuses, Won
  <1>4. /\ log \in [Jobs -> [Attempts -> LogStatuses]] /\ rcpt \in [Jobs -> RcptStatuses]
        /\ events \subseteq Jobs \X {"SENT", "DELIVERED", "READ", "FAILED"} /\ outbox \subseteq EventKeys
    BY <1>t DEF TypeOK, LogStatuses, RcptStatuses
  <1>5. r.attempts <= r.max /\ r.status \notin SentStatuses BY <1>1 DEF Row_, SentStatuses
  <1>6. QueueInv' BY <1>t, <1>1, <1>2, <1>3, <1>4, <1>5, RowWritten
  <1>7. \A j \in Jobs : jobs'[j].status = "FAILED" =>
          jobs[j].status = "FAILED" /\ jobs'[j].attempts = jobs[j].attempts
    BY <1>t, <1>1 DEF TypeOK
  <1>8. CallInv' /\ RetryInv' BY <1>2, <1>7, ReturnFits DEF EnqueueCreate
  <1>9. AckInv' BY <1>2 DEF SysInv, AckInv, AckStates, AckFits
  <1> QED BY <1>6, <1>8, <1>9 DEF SysInv

(* A queued job is cancelled. *)
LEMMA CancelStep ==
  ASSUME SysInv, NEW c \in Callers, NEW i \in Jobs, Cancel(c, i)
  PROVE  SysInv'
  <1>t. QueueInv /\ TypeOK /\ jobs[i] \in Row_ /\ jobs[i].status = "QUEUED"
    BY DEF SysInv, QueueInv, IInv, Cancel, TypeOK
  <1> DEFINE r == CancelledRow(jobs[i])
  <1>1. /\ r \in Row_ /\ r.status = "CANCELLED" /\ r.attempts = jobs[i].attempts /\ r.max = jobs[i].max
    BY <1>t, CancelledRowType
  <1>e. jobs' = [jobs EXCEPT ![i] = r] BY DEF Cancel, CancelledRow
  <1> HIDE DEF r
  <1>2. UNCHANGED <<log, rcpt, events, outbox, usage, wkr, sweep, drain, inflight, sends, ack>>
    BY DEF Cancel, apiUnchanged
  <1>3. Won(log[i]) = {} BY <1>t DEF QueueInv, HistoryMatchesJob, SentStatuses, Won
  <1>4. /\ log \in [Jobs -> [Attempts -> LogStatuses]] /\ rcpt \in [Jobs -> RcptStatuses]
        /\ events \subseteq Jobs \X {"SENT", "DELIVERED", "READ", "FAILED"} /\ outbox \subseteq EventKeys
    BY <1>t DEF TypeOK, LogStatuses, RcptStatuses
  <1>5. r.attempts <= r.max /\ r.status \notin SentStatuses
    BY <1>1, <1>t DEF SentStatuses, QueueInv, IInv, AttemptsInv
  <1>6. QueueInv' BY <1>t, <1>1, <1>e, <1>2, <1>3, <1>4, <1>5, RowWritten
  <1>7. \A j \in Jobs : jobs'[j].status = "FAILED" =>
          jobs[j].status = "FAILED" /\ jobs'[j].attempts = jobs[j].attempts
    BY <1>t, <1>1, <1>e DEF TypeOK
  <1> DEFINE x == [Ready EXCEPT !.pc = "cancelled", !.job = i]
  <1>8. x \in CallerStates /\ x.pc = "cancelled" /\ x.job \in Jobs BY ReadyFits DEF CallerStates, CallerPcs
  <1>a. api' = [api EXCEPT ![c] = x] BY DEF Cancel
  <1> HIDE DEF x
  <1>9. CallFits(x) /\ RetryFits(x, jobs', outbox')
    BY <1>8 DEF CallFits, RetryFits, WithKey, Reviving
  <1>10. CallInv' /\ RetryInv' BY <1>2, <1>7, <1>8, <1>a, <1>9, CallerMoves
  <1>11. AckInv' BY <1>2 DEF SysInv, AckInv, AckStates, AckFits
  <1> QED BY <1>6, <1>10, <1>11 DEF SysInv

(* A finished job is deleted, and what was recorded of it with it. *)
LEMMA DeleteStep ==
  ASSUME SysInv, NEW c \in Callers, NEW i \in Jobs, Delete(c, i)
  PROVE  SysInv'
  <1>t. QueueInv /\ TypeOK /\ jobs[i] \in Row_ /\ jobs[i].status # "PROCESSING"
    BY DEF SysInv, QueueInv, IInv, Delete, TypeOK, SentStatuses
  <1> DEFINE r == DeletedRow(i)
  <1>1. /\ r \in Row_ /\ r.status = "DELETED" /\ r.attempts = jobs[i].attempts /\ r.max = jobs[i].max
    BY <1>t, DeletedRowType
  <1>e. jobs' = [jobs EXCEPT ![i] = r] BY DEF Delete, DeletedRow
  <1> HIDE DEF r
  <1>2. /\ UNCHANGED <<outbox, usage, wkr, sweep, drain, inflight, sends, api, ack>>
        /\ log' = [log EXCEPT ![i] = [n \in Attempts |-> "none"]]
        /\ events' = {e \in events : e[1] # i} /\ rcpt' = [rcpt EXCEPT ![i] = "none"]
    BY DEF Delete
  <1>3. /\ log' \in [Jobs -> [Attempts -> LogStatuses]] /\ rcpt' \in [Jobs -> RcptStatuses]
        /\ events' \subseteq Jobs \X {"SENT", "DELIVERED", "READ", "FAILED"} /\ outbox' \subseteq EventKeys
        /\ outbox \subseteq outbox'
    BY <1>t, <1>2 DEF TypeOK, LogStatuses, RcptStatuses
  <1>4. \A j \in Jobs \ {i} : /\ log'[j] = log[j]
                              /\ \A t \in {"SENT", "FAILED"} : <<j, t>> \in events => <<j, t>> \in events'
    BY <1>t, <1>2 DEF TypeOK
  <1>5. r.attempts <= r.max /\ r.status \notin SentStatuses
    BY <1>1, <1>t DEF SentStatuses, QueueInv, IInv, AttemptsInv
  <1>6. QueueInv' BY <1>t, <1>1, <1>e, <1>2, <1>3, <1>4, <1>5, RowWritten
  <1>7. \A j \in Jobs : jobs'[j].status = "FAILED" =>
          jobs[j].status = "FAILED" /\ jobs'[j].attempts = jobs[j].attempts
    BY <1>t, <1>1, <1>e DEF TypeOK
  <1>8. CallInv' /\ RetryInv' BY <1>2, <1>3, <1>7, CallersStay
  <1>9. AckInv' BY <1>2 DEF SysInv, AckInv, AckStates, AckFits
  <1> QED BY <1>6, <1>8, <1>9 DEF SysInv

(* A failed job is revived, with attempts left: they are still those that were read. *)
LEMMA ReviveStep ==
  ASSUME SysInv, NEW c \in Callers, RetryRequeue(c)
  PROVE  SysInv'
  <1>c. /\ api[c] \in CallerStates /\ CallFits(api[c]) /\ RetryFits(api[c], jobs, outbox)
        /\ api[c].pc = "retrying" /\ jobs[api[c].job].status = "FAILED"
    BY DEF SysInv, CallInv, RetryInv, RetryRequeue, At
  <1>i. PICK i \in Jobs : i = api[c].job BY <1>c DEF CallFits, Reviving
  <1>t. QueueInv /\ TypeOK /\ jobs[i] \in Row_ BY <1>i DEF SysInv, QueueInv, IInv, TypeOK
  <1> DEFINE more == api[c].n + RetryExtra
             m == IF api[c].max > more THEN api[c].max ELSE more
             k == api[c].key
             r == RevivedRow(jobs[i], m, k)
  <1>0. /\ m \in 0..AttemptLimit /\ k \in QuotaKeys /\ jobs[i].attempts < m
    <2>1. jobs[i].attempts = api[c].n /\ more <= AttemptLimit BY <1>c, <1>i DEF RetryFits, Reviving
    <2>2. api[c].n \in 0..AttemptLimit /\ api[c].max \in 0..AttemptLimit BY <1>c DEF CallerStates
    <2>3. k \in QuotaKeys BY <1>c DEF CallFits, WithKey
    <2> QED BY <2>1, <2>2, <2>3, AttemptsAssumption, RetryExtraAssumption
  <1>e. jobs' = [jobs EXCEPT ![i] = r] BY <1>i DEF RetryRequeue, RevivedRow
  <1> HIDE DEF m, k
  <1>1. /\ r \in Row_ /\ r.status = "QUEUED" /\ r.attempts = jobs[i].attempts /\ r.max = m
    BY <1>t, <1>0, RevivedRowType
  <1> HIDE DEF r
  <1>2. UNCHANGED <<log, rcpt, events, outbox, usage, wkr, sweep, drain, inflight, sends, ack>>
    BY DEF RetryRequeue, apiUnchanged
  <1>3. Won(log[i]) = {} BY <1>t, <1>c, <1>i DEF QueueInv, HistoryMatchesJob, SentStatuses, Won
  <1>4. /\ log \in [Jobs -> [Attempts -> LogStatuses]] /\ rcpt \in [Jobs -> RcptStatuses]
        /\ events \subseteq Jobs \X {"SENT", "DELIVERED", "READ", "FAILED"} /\ outbox \subseteq EventKeys
    BY <1>t DEF TypeOK, LogStatuses, RcptStatuses
  <1>5. r.attempts <= r.max /\ r.attempts < r.max /\ r.status \notin SentStatuses
    BY <1>1, <1>0, <1>t DEF SentStatuses, Row_
  <1>6. QueueInv' BY <1>t, <1>c, <1>i, <1>1, <1>e, <1>2, <1>3, <1>4, <1>5, RowWritten
  <1>7. \A j \in Jobs : jobs'[j].status = "FAILED" =>
          jobs[j].status = "FAILED" /\ jobs'[j].attempts = jobs[j].attempts
    BY <1>t, <1>1, <1>e DEF TypeOK
  <1>8. CallInv' /\ RetryInv' BY <1>2, <1>7, ReturnFits DEF RetryRequeue
  <1>9. AckInv' BY <1>2 DEF SysInv, AckInv, AckStates, AckFits
  <1> QED BY <1>6, <1>8, <1>9 DEF SysInv

(* A recipient of a broadcast is linked to its job. *)
LEMMA LinkStep ==
  ASSUME SysInv, NEW i \in Jobs, LinkRecipient(i)
  PROVE  SysInv'
  <1>1. /\ rcpt' = [rcpt EXCEPT ![i] = "ENQUEUED"]
        /\ UNCHANGED <<jobs, log, events, outbox, usage, wkr, sweep, drain, inflight, sends, api, ack>>
    BY DEF LinkRecipient, apiUnchanged
  <1>2. rcpt' \in [Jobs -> RcptStatuses] /\ outbox \subseteq EventKeys
    BY <1>1 DEF SysInv, QueueInv, IInv, TypeOK, RcptStatuses
  <1>3. QueueInv' BY <1>1, <1>2, AsideWritten DEF SysInv
  <1>4. CallInv' /\ RetryInv' BY <1>1, CallersStay
  <1>5. AckInv' BY <1>1 DEF SysInv, AckInv, AckStates, AckFits
  <1> QED BY <1>3, <1>4, <1>5 DEF SysInv

(* An acknowledgement arrives for a job there is, and is taken for a sent job's. *)
LEMMA ArriveStep ==
  ASSUME SysInv, NEW h \in Handlers, NEW i \in Jobs, NEW t \in AckTypes, AckArrives(h, i, t)
  PROVE  SysInv'
  <1>v. UNCHANGED <<vars, api>> BY DEF AckArrives
  <1> DEFINE pc == IF Advances(jobs[i].status, t) THEN "recording" ELSE "publishing"
             y == [pc |-> pc, job |-> i, type |-> t]
  <1>1. pc \in {"recording", "publishing"} OBVIOUS
  <1>2. t \in {"SENT", "DELIVERED", "READ"} BY AckTypesAssumption
  <1>3. pc = "recording" => t # "SENT"
    BY DEF Advances, Progress
  <1>e. ack' = [ack EXCEPT ![h] = y] BY DEF AckArrives
  <1> HIDE DEF pc
  <1>4. y \in AckStates /\ AckFits(y) BY <1>1, <1>2, <1>3 DEF AckStates, AckFits
  <1> HIDE DEF y
  <1>5. AckInv' BY <1>e, <1>4 DEF SysInv, AckInv, AckStates, AckFits
  <1>6. QueueInv' BY <1>v, QueueStep DEF SysInv
  <1>7. CallInv' /\ RetryInv' BY <1>v, CallersStay DEF vars
  <1> QED BY <1>5, <1>6, <1>7 DEF SysInv

(* What an acknowledgement does to the tables: nothing, or it moves a sent job on. *)
Acked(j, t) ==
  /\ t \in {"DELIVERED", "READ"}
  /\ jobs[j].status \in SentStatuses /\ Progress(t) > Progress(jobs[j].status)
  /\ jobs' = [jobs EXCEPT ![j] = AckedRow(jobs[j], t)]
  /\ \E x \in RcptStatuses : rcpt' = [rcpt EXCEPT ![j] = x]
  /\ events' = events \cup {<<j, t>>}
  /\ outbox' = outbox \cup {StatusEvent(j, t)}

LEMMA RecordEffect ==
  ASSUME SysInv, NEW h \in Handlers, AckRecord(h)
  PROVE  /\ AckInv'
         /\ UNCHANGED <<log, usage, wkr, sweep, drain, inflight, sends, api>>
         /\ \/ UNCHANGED <<jobs, rcpt, events, outbox>>
            \/ \E j \in Jobs, t \in {"DELIVERED", "READ"} : Acked(j, t)
  <1>y. /\ ack \in [Handlers -> AckStates] /\ ack[h] \in AckStates
        /\ ack[h].pc = "recording" /\ ack[h].job \in Jobs /\ ack[h].type \in {"DELIVERED", "READ"}
    BY DEF SysInv, AckInv, AckStates, AckFits, AckRecord
  <1>n. NoAck \in AckStates /\ AckFits(NoAck) BY DEF NoAck, AckStates, AckFits
  <1>p. PICK j \in Jobs, t \in {"DELIVERED", "READ"} : j = ack[h].job /\ t = ack[h].type
    BY <1>y
  <1>1. UNCHANGED <<log, usage, wkr, sweep, drain, inflight, sends, api>> BY DEF AckRecord
  <1>2. AckInv'
    <2>1. \/ ack' = [ack EXCEPT ![h].pc = "publishing"]
          \/ ack' = [ack EXCEPT ![h] = NoAck]
      BY DEF AckRecord
    <2> DEFINE y == [ack[h] EXCEPT !.pc = "publishing"]
    <2>2. y \in AckStates /\ AckFits(y) BY <1>y DEF AckStates, AckFits
    <2>3. ack' = [ack EXCEPT ![h] = y] \/ ack' = [ack EXCEPT ![h] = NoAck] BY <1>y, <2>1
    <2> HIDE DEF y
    <2>4. PICK z \in AckStates : AckFits(z) /\ ack' = [ack EXCEPT ![h] = z] BY <1>n, <2>2, <2>3
    <2> QED BY <1>y, <2>4 DEF SysInv, AckInv, AckStates, AckFits
  <1>3. CASE UNCHANGED <<jobs, rcpt, events, outbox>> BY <1>1, <1>2, <1>3
  <1>4. CASE ~UNCHANGED <<jobs, rcpt, events, outbox>>
    <2>1. jobs[j].status \in Recordable(t) BY <1>4, <1>p DEF AckRecord
    <2>2. jobs[j].status \in SentStatuses /\ Progress(t) > Progress(jobs[j].status)
      BY <2>1 DEF Recordable, SentStatuses, Progress
    <2>3. jobs' = [jobs EXCEPT ![j].status = t] BY <1>4, <1>p DEF AckRecord
    <2>4. jobs' = [jobs EXCEPT ![j] = AckedRow(jobs[j], t)] BY <2>3 DEF AckedRow
    <2>5. events' = events \cup {<<j, t>>} /\ outbox' = outbox \cup {StatusEvent(j, t)}
      BY <1>4, <1>p DEF AckRecord
    <2>6. rcpt' = [rcpt EXCEPT ![j] =
                     IF rcpt[j] \in (CASE t = "SENT" -> {"ENQUEUED"}
                                       [] t = "DELIVERED" -> {"SENT"}
                                       [] t = "READ" -> {"SENT", "DELIVERED"})
                     THEN t ELSE rcpt[j]]
      BY <1>4, <1>p DEF AckRecord
    <2>7. t \in RcptStatuses /\ rcpt[j] \in RcptStatuses
      BY DEF SysInv, QueueInv, IInv, TypeOK, RcptStatuses
    <2>8. \E x \in RcptStatuses : rcpt' = [rcpt EXCEPT ![j] = x] BY <2>6, <2>7
    <2> QED BY <1>1, <1>2, <2>2, <2>4, <2>5, <2>8 DEF Acked
  <1> QED BY <1>3, <1>4

LEMMA RecordStep ==
  ASSUME SysInv, NEW h \in Handlers, AckRecord(h)
  PROVE  SysInv'
  <1>a. /\ AckInv' /\ UNCHANGED <<log, usage, wkr, sweep, drain, inflight, sends, api>>
        /\ \/ UNCHANGED <<jobs, rcpt, events, outbox>>
           \/ \E j \in Jobs, t \in {"DELIVERED", "READ"} : Acked(j, t)
    BY RecordEffect
  <1>t. QueueInv /\ TypeOK BY DEF SysInv, QueueInv, IInv
  <1>1. CASE UNCHANGED <<jobs, rcpt, events, outbox>>
    <2>1. QueueInv' BY <1>a, <1>1, <1>t, QueueStep DEF vars
    <2>2. CallInv' /\ RetryInv' BY <1>a, <1>1, CallersStay
    <2> QED BY <1>a, <2>1, <2>2 DEF SysInv
  <1>2. ASSUME NEW i \in Jobs, NEW t \in {"DELIVERED", "READ"}, Acked(i, t) PROVE SysInv'
    <2> DEFINE r == AckedRow(jobs[i], t)
    <2>1. jobs[i] \in Row_ /\ t \in SentStatuses BY <1>t DEF TypeOK, SentStatuses
    <2>2. /\ r \in Row_ /\ r.status = t /\ r.key = jobs[i].key
          /\ r.attempts = jobs[i].attempts /\ r.max = jobs[i].max
      BY <2>1, AckedRowType
    <2>3. jobs' = [jobs EXCEPT ![i] = r] /\ jobs[i].status \in SentStatuses BY <1>2 DEF Acked
    <2> HIDE DEF r
    <2>4. PICK x \in RcptStatuses : rcpt' = [rcpt EXCEPT ![i] = x] BY <1>2 DEF Acked
    <2>5. StatusEvent(i, t) \in EventKeys BY DEF EventKeys
    <2>e. events' = events \cup {<<i, t>>} /\ outbox' = outbox \cup {StatusEvent(i, t)}
      BY <1>2 DEF Acked
    <2>6. /\ log' \in [Jobs -> [Attempts -> LogStatuses]] /\ rcpt' \in [Jobs -> RcptStatuses]
          /\ events' \subseteq Jobs \X {"SENT", "DELIVERED", "READ", "FAILED"}
          /\ outbox' \subseteq EventKeys /\ outbox \subseteq outbox' /\ events \subseteq events'
      <3>1. log' \in [Jobs -> [Attempts -> LogStatuses]] BY <1>t, <1>a DEF TypeOK, LogStatuses
      <3>2. rcpt' \in [Jobs -> RcptStatuses] BY <1>t, <2>4 DEF TypeOK, RcptStatuses
      <3>3. <<i, t>> \in Jobs \X {"SENT", "DELIVERED", "READ", "FAILED"} OBVIOUS
      <3>4. events' \subseteq Jobs \X {"SENT", "DELIVERED", "READ", "FAILED"}
        BY <1>t, <2>e, <3>3 DEF TypeOK
      <3> QED BY <1>t, <2>5, <2>e, <3>1, <3>2, <3>4 DEF TypeOK
    <2>7. Won(log'[i]) = {r.attempts} /\ <<i, "SENT">> \in events' /\ HasRow(usage, "COMMIT", r.key)
      BY <1>t, <1>a, <2>2, <2>3, <2>6 DEF QueueInv, HistoryMatchesJob, SentIsPaid, Won
    <2>8. /\ r.status \notin {"PROCESSING", "FAILED", "QUEUED", "none"} /\ jobs[i].status # "PROCESSING"
          /\ r.status \in SentStatuses /\ r.attempts <= r.max
      BY <1>t, <2>1, <2>2, <2>3 DEF SentStatuses, QueueInv, IInv, AttemptsInv
    <2>9. QueueInv' BY <1>a, <1>t, <2>2, <2>3, <2>6, <2>7, <2>8, RowWritten
    <2>10. \A j \in Jobs : jobs'[j].status = "FAILED" =>
             jobs[j].status = "FAILED" /\ jobs'[j].attempts = jobs[j].attempts
      BY <1>t, <2>2, <2>3, <2>8 DEF TypeOK
    <2>11. CallInv' /\ RetryInv' BY <1>a, <2>6, <2>10, CallersStay
    <2> QED BY <1>a, <2>9, <2>11 DEF SysInv
  <1> QED BY <1>a, <1>1, <1>2

(* The store publishes its own event, once. *)
LEMMA PublishStep ==
  ASSUME SysInv, NEW h \in Handlers, AckPublish(h)
  PROVE  SysInv'
  <1>1. /\ UNCHANGED <<jobs, log, rcpt, events, usage, wkr, sweep, drain, inflight, sends, api>>
        /\ outbox' = outbox \cup {StatusEvent(ack[h].job, ack[h].type)}
        /\ ack' = [ack EXCEPT ![h] = NoAck]
    BY DEF AckPublish
  <1>2. ack[h].job \in Jobs /\ ack[h].type \in {"SENT", "DELIVERED", "READ"}
    BY DEF SysInv, AckInv, AckFits, AckStates, AckPublish
  <1>3. StatusEvent(ack[h].job, ack[h].type) \in EventKeys BY <1>2 DEF EventKeys
  <1>4. /\ rcpt' \in [Jobs -> RcptStatuses] /\ outbox' \subseteq EventKeys /\ outbox \subseteq outbox'
    BY <1>1, <1>3 DEF SysInv, QueueInv, IInv, TypeOK, RcptStatuses
  <1>5. QueueInv' BY <1>1, <1>4, AsideWritten DEF SysInv
  <1>6. CallInv' /\ RetryInv' BY <1>1, <1>4, CallersStay
  <1>7. NoAck \in AckStates /\ AckFits(NoAck) BY DEF NoAck, AckStates, AckFits
  <1>8. AckInv' BY <1>1, <1>7 DEF SysInv, AckInv, AckStates, AckFits
  <1> QED BY <1>5, <1>6, <1>8 DEF SysInv

(* Every step of the system, by who takes it. *)
LEMMA SysStep == ASSUME SysInv, [SysNext]_sysVars PROVE SysInv'
  <1>1. ASSUME UNCHANGED sysVars PROVE SysInv'
    BY <1>1, WorkersKeepSystem DEF sysVars
  <1>2. ASSUME WorkerNext, UNCHANGED <<api, ack>> PROVE SysInv' BY <1>2, WorkersKeepSystem
  <1>3. ASSUME NEW c \in Callers, Begin(c) \/ Handle(c) PROVE SysInv'
    BY <1>3, ReadingSteps, QuotaSteps, CreateStep, CancelStep, DeleteStep, ReviveStep
       DEF Begin, Handle
  <1>4. ASSUME NEW j \in Jobs, LinkRecipient(j) PROVE SysInv' BY <1>4, LinkStep
  <1>5. ASSUME NEW h \in Handlers, Acknowledge(h) PROVE SysInv'
    BY <1>5, ArriveStep, RecordStep, PublishStep DEF Acknowledge
  <1> QED BY <1>1, <1>2, <1>3, <1>4, <1>5 DEF SysNext

(* Nothing has been submitted. *)
LEMMA SystemBegins == ASSUME SysInit PROVE SysInv
  <1> USE DEF SysInit, InitTables, InitWorkers
  <1>1. \A j \in Jobs : NoRow(j) \in Row_
    <2> SUFFICES ASSUME NEW j \in Jobs PROVE NoRow(j) \in Row_ OBVIOUS
    <2>1. EnqueueKey(j) \in QuotaKeys BY DEF QuotaKeys
    <2>2. MaxAttempts \in 0..AttemptLimit /\ 0 \in 0..AttemptLimit BY AttemptsAssumption
    <2> QED BY <2>1, <2>2 DEF NoRow, Row_, Statuses, Locks
  <1>2. \A j \in Jobs : jobs[j] = NoRow(j) OBVIOUS
  <1>3. TypeOK
    <2>1. jobs \in [Jobs -> Row_] BY <1>1
    <2>2. usage \in UsageType
      <3>1. usage.ledger = {} OBVIOUS
      <3>2. Cardinality({}) = 0 BY FS_EmptySet
      <3> QED BY <3>1, <3>2 DEF UsageType
    <2>3. Loop("new") \in WorkerType BY AttemptsInRange DEF Loop, WorkerType
    <2>4. Reaper("off") \in ReaperType BY DEF Reaper, ReaperType
    <2> QED BY <2>1, <2>2, <2>3, <2>4 DEF TypeOK
  <1>4. \A j \in Jobs : jobs[j].status = "none" /\ jobs[j].attempts = 0 /\ jobs[j].max = MaxAttempts
    BY <1>2 DEF NoRow
  <1>5. ClaimInv BY <1>4 DEF ClaimInv
  <1>6. HandInv BY DEF HandInv, Loop, Holding, Working
  <1>7. DrainInv /\ SweepInv BY DEF DrainInv, SweepInv, Reaper
  <1>8. /\ AttemptsInv /\ NoStrandedQueued /\ AttemptedInv /\ SentIsPaid /\ FailureIsReported
    BY <1>4, AttemptsAssumption
       DEF AttemptsInv, NoStrandedQueued, AttemptedInv, SentIsPaid, FailureIsReported, SentStatuses
  <1>9. HistoryMatchesJob BY <1>4 DEF HistoryMatchesJob, SentStatuses
  <1>10. CallInv /\ RetryInv BY ReadyFits DEF CallInv, RetryInv
  <1>11. AckInv BY DEF AckInv, NoAck, AckStates, AckFits
  <1> QED BY <1>3, <1>5, <1>6, <1>7, <1>8, <1>9, <1>10, <1>11 DEF SysInv, QueueInv, IInv

LEMMA SystemInvariant == SysSpec => []SysInv
  BY SystemBegins, SysStep, PTL DEF SysSpec

(* Callers that submit, cancel, retry and delete, and acknowledgements in any order,
   leave a queued job an attempt, a sent one paid for, and the record of its attempts
   in agreement with what became of it. *)
THEOREM JobsSoundWithCallers == SysSpec => []JobsStaySound
  <1>1. SysInv => JobsStaySound
    BY DEF SysInv, QueueInv, IInv, JobsStaySound, SysTypeOK, CallInv, AckInv, CallerStates, CallerPcs, AckStates
  <1> QED BY <1>1, SystemInvariant, PTL
-----------------------------------------------------------------------------
(***************************************************************************)
(* What a step does to the jobs: a step of the workers, or of a handler    *)
(* that moves one job nobody processes, with its attempts as they were, or *)
(* of one that leaves them alone.                                          *)
(***************************************************************************)

(* The ways of a job under the handlers. *)
Way(from, to) ==
  \/ from = "none" /\ to = "QUEUED"
  \/ from = "QUEUED" /\ to = "CANCELLED"
  \/ from = "FAILED" /\ to = "QUEUED"
  \/ from \in SentStatuses /\ to \in SentStatuses /\ Progress(to) > Progress(from)
  \/ from \in SentStatuses \cup {"FAILED", "CANCELLED"} /\ to = "DELETED"

Handled(i) ==
  /\ Way(jobs[i].status, jobs'[i].status)
  /\ jobs'[i].attempts = jobs[i].attempts
  /\ \A j \in Jobs \ {i} : jobs'[j] = jobs[j] /\ log'[j] = log[j]
  /\ \A n \in Attempts : IF jobs'[i].status = "DELETED" THEN log'[i][n] = "none" ELSE log'[i][n] = log[i][n]

(* The handlers' steps. *)
LEMMA CallerKinds ==
  ASSUME SysInv, NEW c \in Callers, Begin(c) \/ Handle(c)
  PROVE  UNCHANGED <<jobs, log>> \/ \E i \in Jobs : Handled(i)
  <1>t. QueueInv /\ TypeOK /\ jobs \in [Jobs -> Row_] BY DEF SysInv, QueueInv, IInv, TypeOK
  <1>1. ASSUME NEW i \in Jobs, EnqueueCreate(c, i) PROVE Handled(i)
    <2>1. jobs' = [jobs EXCEPT ![i] = NewRow(i)] /\ log' = log /\ jobs[i].status = "none"
      BY <1>1 DEF EnqueueCreate, apiUnchanged
    <2>2. NewRow(i).status = "QUEUED" /\ NewRow(i).attempts = 0 BY DEF NewRow, NoRow
    <2>3. jobs[i].attempts = 0 BY <1>t, <2>1 DEF QueueInv, AttemptedInv
    <2> QED BY <1>t, <2>1, <2>2, <2>3 DEF Handled, Way
  <1>2. ASSUME NEW i \in Jobs, Cancel(c, i) PROVE Handled(i)
    <2>1. jobs' = [jobs EXCEPT ![i] = CancelledRow(jobs[i])] /\ log' = log /\ jobs[i].status = "QUEUED"
      BY <1>2 DEF Cancel, CancelledRow, apiUnchanged
    <2> QED BY <1>t, <2>1, CancelledRowType DEF Handled, Way
  <1>3. ASSUME NEW i \in Jobs, Delete(c, i) PROVE Handled(i)
    <2>1. /\ jobs' = [jobs EXCEPT ![i] = DeletedRow(i)]
          /\ log' = [log EXCEPT ![i] = [n \in Attempts |-> "none"]]
          /\ jobs[i].status \in SentStatuses \cup {"FAILED", "CANCELLED"}
      BY <1>3 DEF Delete, DeletedRow
    <2>2. jobs'[i].status = "DELETED" /\ jobs'[i].attempts = jobs[i].attempts
      BY <1>t, <2>1, DeletedRowType
    <2>3. \A j \in Jobs \ {i} : jobs'[j] = jobs[j] /\ log'[j] = log[j] BY <1>t, <2>1 DEF TypeOK
    <2>4. \A n \in Attempts : log'[i][n] = "none" BY <1>t, <2>1 DEF TypeOK
    <2> QED BY <2>1, <2>2, <2>3, <2>4 DEF Handled, Way
  <1>4. ASSUME RetryRequeue(c) PROVE \E i \in Jobs : Handled(i)
    <2>1. PICK i \in Jobs : i = api[c].job
      BY <1>4 DEF RetryRequeue, At, SysInv, CallInv, CallFits, Reviving
    <2> DEFINE more == api[c].n + RetryExtra
               m == IF api[c].max > more THEN api[c].max ELSE more
               r == RevivedRow(jobs[i], m, api[c].key)
    <2>2. jobs' = [jobs EXCEPT ![i] = r] BY <1>4, <2>1 DEF RetryRequeue, RevivedRow
    <2>3. r.status = "QUEUED" /\ r.attempts = jobs[i].attempts
      <3>1. jobs[i] \in Row_ BY <1>t
      <3> HIDE DEF m
      <3> QED BY <3>1 DEF RevivedRow, RequeuedRow, Unlocked, Row_
    <2> HIDE DEF r
    <2>4. log' = log /\ jobs[i].status = "FAILED" BY <1>4, <2>1 DEF RetryRequeue, apiUnchanged
    <2>5. Handled(i) BY <1>t, <2>2, <2>3, <2>4 DEF Handled, Way
    <2> QED BY <2>5
  <1>5. \/ UNCHANGED <<jobs, log>> \/ RetryRequeue(c)
        \/ \E i \in Jobs : EnqueueCreate(c, i) \/ Cancel(c, i) \/ Delete(c, i)
    BY DEF Begin, Handle, EnqueueLookup, RetryRead, EnqueueReserve, EnqueueRaced, EnqueueAfterRace,
           EnqueueFails, CancelReread, RetryReserve, RetryLost, RetryReread, ReleaseKey,
           apiUnchanged, vars
  <1> QED BY <1>1, <1>2, <1>3, <1>4, <1>5

LEMMA SystemKinds ==
  ASSUME SysInv, [SysNext]_sysVars
  PROVE  [WorkerNext]_vars \/ UNCHANGED <<jobs, log>> \/ \E i \in Jobs : Handled(i)
  <1>1. ASSUME NEW h \in Handlers, Acknowledge(h)
        PROVE  UNCHANGED <<jobs, log>> \/ \E i \in Jobs : Handled(i)
    <2>1. ASSUME NEW j \in Jobs, NEW t \in AckTypes, AckArrives(h, j, t) PROVE UNCHANGED <<jobs, log>>
      BY <2>1 DEF AckArrives, vars
    <2>2. ASSUME AckPublish(h) PROVE UNCHANGED <<jobs, log>> BY <2>2 DEF AckPublish
    <2>3. ASSUME AckRecord(h) PROVE UNCHANGED <<jobs, log>> \/ \E i \in Jobs : Handled(i)
      <3>1. ASSUME NEW i \in Jobs, NEW t \in {"DELIVERED", "READ"}, Acked(i, t), log' = log
            PROVE  Handled(i)
        <4>1. jobs \in [Jobs -> Row_] /\ t \in SentStatuses BY DEF SysInv, QueueInv, IInv, TypeOK, SentStatuses
        <4>2. jobs' = [jobs EXCEPT ![i] = AckedRow(jobs[i], t)] BY <3>1 DEF Acked
        <4>3. jobs'[i].status = t /\ jobs'[i].attempts = jobs[i].attempts BY <4>1, <4>2, AckedRowType
        <4>4. \A j \in Jobs \ {i} : jobs'[j] = jobs[j] BY <4>1, <4>2
        <4>5. t # "DELETED" OBVIOUS
        <4>6. jobs[i].status \in SentStatuses /\ Progress(t) > Progress(jobs[i].status) BY <3>1 DEF Acked
        <4> QED BY <3>1, <4>1, <4>3, <4>4, <4>5, <4>6 DEF Handled, Way
      <3> QED BY <2>3, <3>1, RecordEffect
    <2> QED BY <1>1, <2>1, <2>2, <2>3 DEF Acknowledge
  <1>2. ASSUME NEW j \in Jobs, LinkRecipient(j) PROVE UNCHANGED <<jobs, log>>
    BY <1>2 DEF LinkRecipient, apiUnchanged
  <1>3. UNCHANGED sysVars => [WorkerNext]_vars BY DEF sysVars
  <1> QED BY <1>1, <1>2, <1>3, CallerKinds DEF SysNext

(* Whatever order the acknowledgements and their handlers come in, and whatever the
   workers do meanwhile, a sent message only advances, until it is deleted. *)
THEOREM DeliveryAdvances == SysSpec => DeliveryOnlyAdvances
  <1>1. ASSUME SysInv, [SysNext]_sysVars, NEW j \in Jobs, jobs[j].status \in SentStatuses
        PROVE  \/ jobs'[j].status = "DELETED"
               \/ Progress(jobs'[j].status) >= Progress(jobs[j].status)
    <2>p. \A s \in SentStatuses : Progress(s) \in Nat BY DEF SentStatuses, Progress
    <2>1. CASE [WorkerNext]_vars
      <3>1. jobs'[j].status = jobs[j].status
        <4>1. ~Ended(j) BY <1>1 DEF Ended, SentStatuses
        <4>2. ~ \E w \in Workers : Claim(w, j)
          BY <1>1 DEF Claim, Claimable, SentStatuses
        <4> QED BY <1>1, <2>1, <4>1, <4>2, JobStep DEF SysInv, QueueInv, Kept
      <3> QED BY <1>1, <2>p, <3>1
    <2>2. CASE UNCHANGED <<jobs, log>> BY <1>1, <2>p, <2>2
    <2>3. ASSUME NEW i \in Jobs, Handled(i)
          PROVE  \/ jobs'[j].status = "DELETED"
                 \/ Progress(jobs'[j].status) >= Progress(jobs[j].status)
      <3>1. CASE i # j BY <1>1, <2>p, <2>3, <3>1 DEF Handled
      <3>2. CASE i = j BY <1>1, <2>p, <2>3, <3>2 DEF Handled, Way, SentStatuses
      <3> QED BY <3>1, <3>2
    <2> QED BY <1>1, <2>1, <2>2, <2>3, SystemKinds
  <1>2. SysInv /\ [SysNext]_sysVars =>
          [\A j \in Jobs :
             jobs[j].status \in SentStatuses =>
               \/ jobs'[j].status = "DELETED"
               \/ Progress(jobs'[j].status) >= Progress(jobs[j].status)]_sysVars
    BY <1>1
  <1> QED BY <1>2, SystemInvariant, PTL DEF SysSpec, DeliveryOnlyAdvances
-----------------------------------------------------------------------------
(* The handlers' statuses are told apart, too. *)
LEMMA HandlerStates ==
  /\ AbstractState("none") = "absent" /\ AbstractState("CANCELLED") = "cancelled"
  /\ AbstractState("DELETED") = "removed"
  /\ \A s \in SentStatuses : AbstractState(s) = "sent"
  BY DEF AbstractState, SentStatuses

(* A handler creates, cancels, revives or removes a message, or leaves it sent. *)
LEMMA HandlersRefine ==
  ASSUME SysInv, NEW i \in Jobs, Handled(i)
  PROVE  [Lifecycle!Next]_(Lifecycle!vars)
  <1> DEFINE s == jobs[i].status
             t == jobs'[i].status
  <1>1. AbsState' = [AbsState EXCEPT ![i] = AbstractState(t)] BY DEF AbsState, Handled
  <1>2. AbsTurn' = AbsTurn BY DEF AbsTurn, Handled
  <1>3. AbsState[i] = AbstractState(s) BY DEF AbsState
  <1>4. t # "DELETED" => AbsWinner' = AbsWinner
    <2>1. t # "DELETED" => SameWins BY DEF SameWins, Handled
    <2> QED BY <2>1, WinnerIsKept
  <1>5. t = "DELETED" => AbsWinner' = [AbsWinner EXCEPT ![i] = 0]
    <2> SUFFICES ASSUME t = "DELETED" PROVE AbsWinner' = [AbsWinner EXCEPT ![i] = 0] OBVIOUS
    <2>1. Winner(i)' = 0 BY DEF Winner, Handled
    <2>2. \A j \in Jobs \ {i} : Winner(j)' = Winner(j)
      <3> SUFFICES ASSUME NEW j \in Jobs \ {i} PROVE Winner(j)' = Winner(j) OBVIOUS
      <3>1. \A n \in Attempts : (log'[j][n] = "SUCCEEDED") = (log[j][n] = "SUCCEEDED") BY DEF Handled
      <3> QED BY <3>1, WinnerOfJob
    <2> QED BY <2>1, <2>2 DEF AbsWinner
  <1>w. Way(s, t) BY DEF Handled
  <1> HIDE DEF s, t
  <1> USE DEF Lifecycle!Next, Lifecycle!Move
  <1>6. CASE s = "none" /\ t = "QUEUED"
    <2>1. Lifecycle!Create(i)
      BY <1>1, <1>2, <1>3, <1>4, <1>6, AbstractStates, HandlerStates
         DEF Lifecycle!Create, AbsState, AbsTurn, AbsWinner
    <2> QED BY <2>1
  <1>7. CASE s = "QUEUED" /\ t = "CANCELLED"
    <2>1. Lifecycle!Cancel(i)
      BY <1>1, <1>2, <1>3, <1>4, <1>7, AbstractStates, HandlerStates
         DEF Lifecycle!Cancel, AbsState, AbsTurn, AbsWinner
    <2> QED BY <2>1
  <1>8. CASE s = "FAILED" /\ t = "QUEUED"
    <2>1. Lifecycle!Revive(i)
      BY <1>1, <1>2, <1>3, <1>4, <1>8, AbstractStates, HandlerStates
         DEF Lifecycle!Revive, AbsState, AbsTurn, AbsWinner
    <2> QED BY <2>1
  <1>9. CASE s \in SentStatuses /\ t \in SentStatuses
    <2>1. AbsState' = AbsState BY <1>1, <1>3, <1>9, HandlerStates DEF AbsState
    <2>2. AbsWinner' = AbsWinner BY <1>4, <1>9 DEF SentStatuses
    <2> QED BY <1>2, <2>1, <2>2 DEF Lifecycle!vars, AbsState, AbsTurn, AbsWinner
  <1>10. CASE s \in SentStatuses \cup {"FAILED", "CANCELLED"} /\ t = "DELETED"
    <2>1. AbstractState(s) \in {"sent", "failed", "cancelled"}
      BY <1>10, AbstractStates, HandlerStates
    <2>2. Lifecycle!Remove(i)
      BY <1>1, <1>2, <1>3, <1>5, <1>10, <2>1, HandlerStates
         DEF Lifecycle!Remove, AbsState, AbsTurn, AbsWinner
    <2> QED BY <2>2
  <1> QED BY <1>w, <1>6, <1>7, <1>8, <1>9, <1>10 DEF Way

(* The queue keeps the abstract promise beside its callers: what they submit is
   created, cancelled, revived and removed as JobLifecycle allows, whatever call of
   a handler or a worker comes in between, and an acknowledgement leaves it sent. *)
THEOREM SystemImplementsLifecycle == SysSpec => ImplementsLifecycle
  <1>1. ASSUME SysInit PROVE Lifecycle!Init
    <2>1. \A j \in Jobs : jobs[j].status = "none" /\ jobs[j].attempts = 0
      BY <1>1 DEF SysInit, InitTables, NoRow
    <2>2. \A j \in Jobs, n \in Attempts : log[j][n] # "SUCCEEDED"
      BY <1>1 DEF SysInit, InitTables
    <2>3. \A j \in Jobs : Winner(j) = 0 BY <2>2 DEF Winner
    <2> QED BY <2>1, <2>3, HandlerStates DEF Lifecycle!Init
  <1>2. ASSUME SysInv, [SysNext]_sysVars PROVE [Lifecycle!Next]_(Lifecycle!vars)
    <2>1. ASSUME UNCHANGED <<jobs, log>> PROVE UNCHANGED Lifecycle!vars
      <3>1. AbsState' = AbsState /\ AbsTurn' = AbsTurn BY <2>1 DEF AbsState, AbsTurn
      <3>2. AbsWinner' = AbsWinner BY <2>1, WinnerIsKept DEF SameWins
      <3> QED BY <3>1, <3>2 DEF Lifecycle!vars, AbsState, AbsTurn, AbsWinner
    <2> QED BY <1>2, <2>1, SystemKinds, HandlersRefine, WorkersRefine DEF SysInv, QueueInv
  <1> QED BY <1>1, <1>2, SystemInvariant, PTL DEF SysSpec, ImplementsLifecycle, Lifecycle!Spec
-----------------------------------------------------------------------------
(* The API does not interfere with a live claim: its conditional updates find a job
   in no state in which somebody works on it. *)
THEOREM ClaimsExclusiveWithCallers == SysSpec => LiveClaimIsExclusive
  <1> DEFINE Lost(j) == /\ jobs[j].status = "PROCESSING" /\ jobs[j].lease = "live"
                        /\ jobs'[j].status # "PROCESSING" \/ jobs'[j].lock # jobs[j].lock
             Moves_(h) == wkr'[h] # wkr[h] \/ drain'[h] # drain[h]
  <1>1. ASSUME SysInv, [SysNext]_sysVars, NEW j \in Jobs, Lost(j)
        PROVE  Moves_(jobs[j].lock[1])
    <2>1. CASE [WorkerNext]_vars BY <1>1, <2>1, ExclusiveStep DEF SysInv, QueueInv
    <2>2. CASE UNCHANGED <<jobs, log>> BY <1>1, <2>2
    <2>3. ASSUME NEW i \in Jobs, Handled(i) PROVE FALSE
      BY <1>1, <2>3 DEF Handled, Way, SentStatuses
    <2> QED BY <1>1, <2>1, <2>2, <2>3, SystemKinds
  <1>2. SysInv /\ [SysNext]_sysVars =>
          [\A j \in Jobs :
             (jobs[j].status = "PROCESSING" /\ jobs[j].lease = "live"
                /\ (jobs'[j].status # "PROCESSING" \/ jobs'[j].lock # jobs[j].lock))
               => LET holder == jobs[j].lock[1]
                  IN  wkr'[holder] # wkr[holder] \/ drain'[holder] # drain[holder]]_vars
    BY <1>1
  <1> QED BY <1>2, SystemInvariant, PTL DEF SysSpec, LiveClaimIsExclusive
-----------------------------------------------------------------------------
(***************************************************************************)
(* The quota of the jobs, where nothing fails: callers submit and cancel,  *)
(* workers claim, send, fail, retry, start and stop, and acknowledgements  *)
(* come, but no process is killed or stalls, no statement throws, and no   *)
(* job is retried by hand or deleted.  Each of those is excluded because   *)
(* the code does lose track of the quota then (README, section 6).         *)
(*                                                                         *)
(* What a worker or a caller may do with a key follows from where it is:   *)
(* a key is open from its reservation until the one who ends the job has   *)
(* settled it, and whoever is about to settle one is the only one to.      *)
(***************************************************************************)

Undisturbed ==
  Ops \subseteq {"enqueue", "cancel"} /\ Faults = {} /\ Killable = {} /\ Stalls = FALSE

Open(k) == OpenReservation(usage, k)

(* A request has one job, which keeps the key of its request and fails once. *)
OneJobInv ==
  /\ \A j \in Jobs : jobs[j].status # "DELETED" /\ jobs[j].key = EnqueueKey(j)
  /\ \A i, j \in Jobs : (Present(i) /\ Present(j) /\ RequestOf[i] = RequestOf[j]) => i = j
  /\ \A j \in Jobs : FailedEvent(j) \in outbox => jobs[j].status = "FAILED"

(* Every job in process is in the hand of the worker that claimed it, so leases do
   not run out, and there is nothing for the sweeps and recoveries to do. *)
InHandInv ==
  /\ \A w \in Workers : wkr[w].pc \in Holding => Owns(w)
  /\ \A j \in Jobs : jobs[j].status = "PROCESSING" =>
       jobs[j].lease = "live" /\ \E w \in Workers : wkr[w].pc \in Holding /\ wkr[w].job = j
  /\ \A w \in Workers : /\ sweep[w].pc # "working" /\ sweep[w].rows = {} /\ sweep[w].unreleased = {}
                        /\ drain[w].pc = "off"

(* The key of a job in hand is open until its worker has settled it. *)
Refusing(w) == wkr[w].pc = "burying" /\ ~ShouldRetry(w)
StageInv ==
  \A w \in Workers :
    /\ wkr[w].pc = "releasing" => ~ShouldRetry(w)
    /\ Refusing(w) => HasRow(usage, "RELEASE", EnqueueKey(wkr[w].job))
    /\ (wkr[w].pc \in Holding \ {"finishing"} /\ ~Refusing(w)) => Open(EnqueueKey(wkr[w].job))

(* A caller that creates has reserved the key of its request; one that lost the race
   finds the job; one that has cancelled a job is the one to give its quota back. *)
Submitting == {"reserving", "creating", "raced"}
Cancelling == {"cancelled", "releasing"}
RequestKey(r) == <<"message-job", r, 0>>
RequestInv ==
  \A c \in Callers :
    /\ api[c].pc \in {"ready"} \cup Submitting \cup Cancelling
    /\ api[c].pc \in Submitting => api[c].key = RequestKey(api[c].req)
    /\ api[c].pc = "creating" => HasRow(usage, "RESERVE", api[c].key)
    /\ api[c].pc = "raced" => HasJob(api[c].req)
    /\ api[c].pc \in Cancelling =>
         /\ api[c].job \in Jobs /\ jobs[api[c].job].status = "CANCELLED"
         /\ Open(EnqueueKey(api[c].job))
         /\ \A d \in Callers \ {c} : api[d].pc \in Cancelling => api[d].job # api[c].job
    /\ api[c].pc = "releasing" => api[c].key = EnqueueKey(api[c].job)

(* Who an open reservation is for. *)
Wanted(k) ==
  \/ \E j \in Jobs : Live(j) /\ k = EnqueueKey(j)
  \/ \E c \in Callers : api[c].pc \in Cancelling /\ k = EnqueueKey(api[c].job)
  \/ \E c \in Callers : api[c].pc = "creating" /\ k = api[c].key /\ ~HasJob(api[c].req)

(* What is settled was reserved, for a job that is there; what is open is wanted, a job
   has reserved, and a queued job's key is open. *)
KeysInv ==
  /\ \A k \in QuotaKeys : (HasRow(usage, "COMMIT", k) \/ HasRow(usage, "RELEASE", k)) =>
       HasRow(usage, "RESERVE", k) /\ \E j \in Jobs : Present(j) /\ k = EnqueueKey(j)
  /\ \A k \in QuotaKeys : Open(k) => Wanted(k)
  /\ \A j \in Jobs : Present(j) => HasRow(usage, "RESERVE", EnqueueKey(j))
  /\ QueuedJobHoldsQuota

(* The counters count. *)
OpenKeys(u) == {k \in QuotaKeys : OpenReservation(u, k)}
PaidKeys(u) == {k \in QuotaKeys : HasRow(u, "COMMIT", k)}
BooksInv ==
  /\ IsFiniteSet(OpenKeys(usage)) /\ IsFiniteSet(PaidKeys(usage))
  /\ usage.reserved[Month] = Cardinality(OpenKeys(usage))
  /\ usage.consumed[Month] = Cardinality(PaidKeys(usage))

QuotaInv == OneJobInv /\ InHandInv /\ StageInv /\ RequestInv /\ KeysInv /\ BooksInv

(* Requests and their keys. *)
LEMMA KeysOfRequests ==
  /\ \A j \in Jobs : EnqueueKey(j) \in QuotaKeys /\ EnqueueKey(j) = RequestKey(RequestOf[j])
  /\ \A r, s : RequestKey(r) = RequestKey(s) => r = s
  /\ \A i, j \in Jobs : EnqueueKey(i) = EnqueueKey(j) => RequestOf[i] = RequestOf[j]
  BY DEF QuotaKeys, EnqueueKey, RequestKey

(* What a settlement of an open reservation does. *)
LEMMA SettleOpen ==
  ASSUME usage \in UsageType, BooksInv, NEW op \in Settlements, NEW k \in QuotaKeys, Open(k)
  PROVE  /\ CanSettle(usage, op, k)
         /\ \A o, x : HasRow(Settled(usage, op, k), o, x) <=> HasRow(usage, o, x) \/ (o = op /\ x = k)
         /\ Settled(usage, op, k).reserved[Month] = usage.reserved[Month] - 1
         /\ Settled(usage, op, k).consumed[Month]
              = usage.consumed[Month] + IF op = "COMMIT" THEN 1 ELSE 0
  <1> DEFINE r == Row(usage, "RESERVE", k)
             v == Settled(usage, op, k)
             c == IF op = "COMMIT" THEN r.amount ELSE 0
  <1>1. HasRow(usage, "RESERVE", k) /\ ~HasRow(usage, op, k) BY DEF Open, OpenReservation, Settlements
  <1>2. r \in LedgerRow /\ r.period = Month /\ r.amount = 1
    BY <1>1, RowIsFound DEF UsageType, LedgerRow
  <1>3. usage.reserved[Month] \in Nat /\ usage.reserved[Month] >= 1
    <2>1. k \in OpenKeys(usage) BY DEF OpenKeys, Open
    <2>2. Cardinality(OpenKeys(usage)) # 0 /\ Cardinality(OpenKeys(usage)) \in Nat
      BY <2>1, FS_EmptySet, FS_CardinalityType DEF BooksInv
    <2> QED BY <2>2 DEF BooksInv
  <1>4. CanSettle(usage, op, k) BY <1>1, <1>2, <1>3 DEF CanSettle
  <1> HIDE DEF r, c
  <1>5. v = [usage EXCEPT !.reserved[r.period] = @ - r.amount,
                          !.consumed[r.period] = @ + c,
                          !.ledger = AddRow(usage, op, k, r.amount, r.period)]
    BY <1>1 DEF Settled, r, c
  <1>6. /\ v.ledger = AddRow(usage, op, k, 1, Month)
        /\ v.reserved[Month] = usage.reserved[Month] - 1
        /\ v.consumed[Month] = usage.consumed[Month] + c
    BY <1>2, <1>5 DEF UsageType
  <1>7. c = IF op = "COMMIT" THEN 1 ELSE 0 BY <1>2 DEF c
  <1> HIDE DEF v
  <1>8. ASSUME NEW o, NEW x PROVE HasRow(v, o, x) <=> HasRow(usage, o, x) \/ (o = op /\ x = k)
    <2> DEFINE e == [op |-> op, key |-> k, amount |-> 1, period |-> Month]
    <2>1. v.ledger = usage.ledger \cup {e} BY <1>6 DEF AddRow
    <2>2. e.op = op /\ e.key = k OBVIOUS
    <2> HIDE DEF e
    <2> QED BY <2>1, <2>2 DEF HasRow
  <1> QED BY <1>4, <1>6, <1>7, <1>8 DEF v

(* The books after it. *)
LEMMA BooksSettled ==
  ASSUME usage \in UsageType, BooksInv, NEW op \in Settlements, NEW k \in QuotaKeys, Open(k),
         usage' = Settled(usage, op, k)
  PROVE  BooksInv'
  <1>e. /\ \A o, x : HasRow(usage', o, x) <=> HasRow(usage, o, x) \/ (o = op /\ x = k)
        /\ usage'.reserved[Month] = usage.reserved[Month] - 1
        /\ usage'.consumed[Month] = usage.consumed[Month] + IF op = "COMMIT" THEN 1 ELSE 0
    BY SettleOpen
  <1> DEFINE O == OpenKeys(usage)
             P == PaidKeys(usage)
  <1>o. k \in O /\ k \notin P BY DEF OpenKeys, PaidKeys, Open, OpenReservation
  <1>1. OpenKeys(usage') = O \ {k}
    BY <1>e DEF OpenKeys, OpenReservation, Settlements
  <1>2. PaidKeys(usage') = IF op = "COMMIT" THEN P \cup {k} ELSE P
    BY <1>e DEF PaidKeys, Settlements
  <1>f. /\ IsFiniteSet(O) /\ IsFiniteSet(P)
        /\ usage.reserved[Month] = Cardinality(O) /\ usage.consumed[Month] = Cardinality(P)
    BY DEF BooksInv
  <1> HIDE DEF O, P
  <1>3. IsFiniteSet(O \ {k}) /\ Cardinality(O \ {k}) = Cardinality(O) - 1
    BY <1>f, <1>o, FS_RemoveElement
  <1>4. IsFiniteSet(P \cup {k}) /\ Cardinality(P \cup {k}) = Cardinality(P) + 1
    BY <1>f, <1>o, FS_AddElement
  <1>5. Cardinality(P) + 0 = Cardinality(P) BY <1>f, FS_CardinalityType
  <1> QED BY <1>e, <1>1, <1>2, <1>f, <1>3, <1>4, <1>5 DEF BooksInv, Settlements

(* A new reservation is open if its key was never settled. *)
LEMMA BooksReserved ==
  ASSUME usage \in UsageType, BooksInv, NEW k \in QuotaKeys, ~HasRow(usage, "RESERVE", k),
         ~HasRow(usage, "COMMIT", k), ~HasRow(usage, "RELEASE", k), usage' = Reserved(usage, Month, k, 1)
  PROVE  /\ BooksInv'
         /\ \A o, x : HasRow(usage', o, x) <=> HasRow(usage, o, x) \/ (o = "RESERVE" /\ x = k)
  <1>1. usage' = [usage EXCEPT !.reserved[Month] = @ + 1,
                               !.ledger = AddRow(usage, "RESERVE", k, 1, Month)]
    BY DEF Reserved
  <1>2. /\ usage'.ledger = AddRow(usage, "RESERVE", k, 1, Month)
        /\ usage'.reserved[Month] = usage.reserved[Month] + 1
        /\ usage'.consumed = usage.consumed
    BY <1>1 DEF UsageType
  <1>3. ASSUME NEW o, NEW x PROVE HasRow(usage', o, x) <=> HasRow(usage, o, x) \/ (o = "RESERVE" /\ x = k)
    <2> DEFINE e == [op |-> "RESERVE", key |-> k, amount |-> 1, period |-> Month]
    <2>1. usage'.ledger = usage.ledger \cup {e} BY <1>2 DEF AddRow
    <2>2. e.op = "RESERVE" /\ e.key = k OBVIOUS
    <2> HIDE DEF e
    <2> QED BY <2>1, <2>2 DEF HasRow
  <1> DEFINE O == OpenKeys(usage)
  <1>4. k \notin O BY DEF OpenKeys, OpenReservation
  <1>5. OpenKeys(usage') = O \cup {k} BY <1>3 DEF OpenKeys, OpenReservation
  <1>6. PaidKeys(usage') = PaidKeys(usage) BY <1>3 DEF PaidKeys
  <1>7. IsFiniteSet(O) /\ usage.reserved[Month] = Cardinality(O) BY DEF BooksInv
  <1> HIDE DEF O
  <1>8. IsFiniteSet(O \cup {k}) /\ Cardinality(O \cup {k}) = Cardinality(O) + 1
    BY <1>4, <1>7, FS_AddElement
  <1>9. BooksInv' BY <1>2, <1>5, <1>6, <1>7, <1>8 DEF BooksInv
  <1> QED BY <1>3, <1>9

(* No two workers have the same job in hand. *)
LEMMA OneHand ==
  ASSUME InHandInv, NEW w \in Workers, NEW v \in Workers,
         wkr[w].pc \in Holding, wkr[v].pc \in Holding, wkr[w].job = wkr[v].job
  PROVE  w = v
  BY DEF InHandInv, Owns, Token

(* What a worker with a job in hand knows of it. *)
LEMMA HandOfQuota ==
  ASSUME SysInv, QuotaInv, NEW w \in Workers, wkr[w].pc \in Holding
  PROVE  /\ wkr[w].job \in Jobs /\ jobs[wkr[w].job].status = "PROCESSING" /\ jobs[wkr[w].job].lease = "live"
         /\ Owns(w) /\ Present(wkr[w].job)
         /\ wkr[w].pc # "claimed" => wkr[w].key = EnqueueKey(wkr[w].job)
         /\ wkr[w].pc = "finishing" => HasRow(usage, "COMMIT", EnqueueKey(wkr[w].job))
  <1>1. wkr[w].job \in Jobs /\ Owns(w)
    BY DEF SysInv, QueueInv, IInv, HandInv, QuotaInv, InHandInv
  <1>2. jobs[wkr[w].job].status = "PROCESSING" BY <1>1 DEF Owns
  <1>3. wkr[w].pc # "claimed" => wkr[w].key = EnqueueKey(wkr[w].job)
    BY <1>1 DEF Holding, SysInv, QueueInv, IInv, HandInv, QuotaInv, OneJobInv
  <1>4. wkr[w].pc = "finishing" => HasRow(usage, "COMMIT", EnqueueKey(wkr[w].job))
    BY <1>3 DEF SysInv, QueueInv, IInv, HandInv
  <1> QED BY <1>1, <1>2, <1>3, <1>4 DEF QuotaInv, InHandInv, Present
-----------------------------------------------------------------------------
(* A sweep that has nothing to do. *)
NoBatch(x) == x.pc # "working" /\ x.rows = {} /\ x.unreleased = {}

(* A step that changes neither the keys, the hands nor the handlers, and leaves every
   job where it is, or sent. *)
JobAlike(j) ==
  /\ jobs'[j].key = jobs[j].key
  /\ jobs'[j].status = jobs[j].status
     \/ (jobs[j].status \in SentStatuses /\ jobs'[j].status \in SentStatuses)
  /\ jobs[j].status = "PROCESSING" => jobs'[j].lock = jobs[j].lock /\ jobs'[j].lease = jobs[j].lease

LEMMA AlikeKeeps ==
  ASSUME SysInv, QuotaInv, \A j \in Jobs : JobAlike(j),
         UNCHANGED <<usage, wkr, api, drain>>,
         \A w \in Workers : NoBatch(sweep'[w]),
         \A j \in Jobs : FailedEvent(j) \in outbox' => FailedEvent(j) \in outbox
  PROVE  QuotaInv'
  <1>s. \A j \in Jobs : \A s \in {"none", "QUEUED", "PROCESSING", "FAILED", "CANCELLED", "DELETED"} :
          (jobs'[j].status = s) <=> (jobs[j].status = s)
    BY DEF JobAlike, SentStatuses
  <1>p. \A j \in Jobs : /\ Present(j)' <=> Present(j)
                        /\ Live(j)' <=> Live(j)
    BY <1>s DEF Present, Live
  <1>h. \A r : HasJob(r)' <=> HasJob(r) BY <1>p DEF HasJob
  <1>1. OneJobInv' BY <1>s, <1>p DEF QuotaInv, OneJobInv, JobAlike, EnqueueKey, FailedEvent
  <1>2. InHandInv'
    <2>1. ASSUME NEW w \in Workers, wkr[w].pc \in Holding PROVE Owns(w)'
      BY <2>1, HandOfQuota DEF JobAlike, Owns, Token, SentStatuses
    <2> QED BY <1>s, <2>1 DEF QuotaInv, InHandInv, JobAlike, NoBatch
  <1>3. StageInv' BY DEF QuotaInv, StageInv, Refusing, ShouldRetry, Open, EnqueueKey
  <1>4. RequestInv'
    BY <1>s, <1>h DEF QuotaInv, RequestInv, Open, EnqueueKey, RequestKey
  <1>5. KeysInv'
    <2>1. \A k \in QuotaKeys : Open(k) => Wanted(k)' BY <1>p, <1>h DEF QuotaInv, KeysInv, Wanted, EnqueueKey
    <2>2. QueuedJobHoldsQuota' BY <1>s DEF QuotaInv, KeysInv, QueuedJobHoldsQuota, JobAlike
    <2> QED BY <1>p, <2>1, <2>2 DEF QuotaInv, KeysInv, Open, QuotaKeys, EnqueueKey, RetryKey
  <1>6. BooksInv' BY DEF QuotaInv, BooksInv
  <1> QED BY <1>1, <1>2, <1>3, <1>4, <1>5, <1>6 DEF QuotaInv
-----------------------------------------------------------------------------
(* The jobs a worker has in hand, and those of the cancellers, have keys of their own. *)
LEMMA KeysApart ==
  ASSUME QuotaInv, NEW i \in Jobs, NEW j \in Jobs, Present(i), Present(j),
         EnqueueKey(i) = EnqueueKey(j)
  PROVE  i = j
  BY KeysOfRequests DEF QuotaInv, OneJobInv

(* A worker that goes on with its job, or without one, before it has settled. *)
LEMMA HandMoves ==
  ASSUME SysInv, QuotaInv, NEW w \in Workers, NEW y, wkr' = [wkr EXCEPT ![w] = y],
         y.pc \in Holding <=> wkr[w].pc \in Holding,
         y.pc \in Holding => y.job = wkr[w].job /\ y.n = wkr[w].n,
         y.pc \in Holding => /\ y.pc # "finishing" /\ wkr[w].pc # "finishing" /\ ~Refusing(w)
                             /\ y.pc = "releasing" => ~(y.retry /\ y.n < y.max)
                             /\ y.pc = "burying" => (y.retry /\ y.n < y.max),
         UNCHANGED <<jobs, usage, api, outbox, drain>>,
         \A v \in Workers : NoBatch(sweep'[v])
  PROVE  QuotaInv'
  <1>w. /\ wkr'[w] = y /\ \A v \in Workers \ {w} : wkr'[v] = wkr[v]
    BY DEF SysInv, QueueInv, IInv, TypeOK
  <1>1. OneJobInv' BY DEF QuotaInv, OneJobInv, Present, EnqueueKey, FailedEvent
  <1>2. InHandInv'
    <2>1. ASSUME NEW v \in Workers, wkr'[v].pc \in Holding PROVE Owns(v)'
      <3>1. wkr[v].pc \in Holding /\ wkr'[v].job = wkr[v].job /\ wkr'[v].n = wkr[v].n BY <1>w, <2>1
      <3>2. Owns(v) BY <3>1 DEF QuotaInv, InHandInv
      <3> QED BY <3>1, <3>2 DEF Owns, Token
    <2>2. ASSUME NEW j \in Jobs, jobs[j].status = "PROCESSING"
          PROVE  jobs[j].lease = "live" /\ \E v \in Workers : wkr'[v].pc \in Holding /\ wkr'[v].job = j
      <3>1. PICK v \in Workers : wkr[v].pc \in Holding /\ wkr[v].job = j
        BY <2>2 DEF QuotaInv, InHandInv
      <3>2. wkr'[v].pc \in Holding /\ wkr'[v].job = j BY <1>w, <3>1
      <3> QED BY <2>2, <3>2 DEF QuotaInv, InHandInv
    <2> QED BY <2>1, <2>2 DEF QuotaInv, InHandInv, NoBatch
  <1>3. StageInv'
    <2> SUFFICES ASSUME NEW v \in Workers
                 PROVE  /\ wkr'[v].pc = "releasing" => ~ShouldRetry(v)'
                        /\ Refusing(v)' => HasRow(usage, "RELEASE", EnqueueKey(wkr'[v].job))
                        /\ (wkr'[v].pc \in Holding \ {"finishing"} /\ ~Refusing(v)') => Open(EnqueueKey(wkr'[v].job))
      BY DEF StageInv, Open, EnqueueKey
    <2>1. CASE v # w BY <1>w, <2>1 DEF QuotaInv, StageInv, Refusing, ShouldRetry
    <2>2. CASE v = w
      <3>1. ~Refusing(w)' /\ (y.pc = "releasing" => ~ShouldRetry(w)')
        BY <1>w DEF Refusing, ShouldRetry, Holding, Working
      <3>2. y.pc \in Holding => Open(EnqueueKey(wkr[w].job)) BY DEF QuotaInv, StageInv
      <3> QED BY <1>w, <2>2, <3>1, <3>2
    <2> QED BY <2>1, <2>2
  <1>4. RequestInv' BY DEF QuotaInv, RequestInv, Open, HasJob, Present, EnqueueKey, RequestKey
  <1>5. KeysInv'
    BY DEF QuotaInv, KeysInv, Wanted, Open, Live, HasJob, Present, QueuedJobHoldsQuota, EnqueueKey, QuotaKeys, RetryKey
  <1>6. BooksInv' BY DEF QuotaInv, BooksInv
  <1> QED BY <1>1, <1>2, <1>3, <1>4, <1>5, <1>6 DEF QuotaInv

(* The settlement of an open reservation leaves the others as they are. *)
Settles(op, k) ==
  /\ usage' = Settled(usage, op, k)
  /\ \A x : Open(x)' <=> Open(x) /\ x # k
  /\ \A o, x : HasRow(usage', o, x) <=> HasRow(usage, o, x) \/ (o = op /\ x = k)

LEMMA SettleEffect ==
  ASSUME SysInv, QuotaInv, NEW op \in Settlements, NEW k \in QuotaKeys, Open(k),
         usage' = Settled(usage, op, k)
  PROVE  Settles(op, k) /\ BooksInv'
  <1>1. usage \in UsageType /\ BooksInv BY DEF SysInv, QueueInv, IInv, TypeOK, QuotaInv
  <1>2. \A o, x : HasRow(usage', o, x) <=> HasRow(usage, o, x) \/ (o = op /\ x = k)
    BY <1>1, SettleOpen
  <1>3. \A x : Open(x)' <=> Open(x) /\ x # k BY <1>2 DEF Open, OpenReservation, Settlements
  <1> QED BY <1>1, <1>2, <1>3, BooksSettled DEF Settles

(* The worker that settles the quota of its job. *)
LEMMA HandSettles ==
  ASSUME SysInv, QuotaInv, NEW w \in Workers, NEW op \in Settlements, NEW pc,
         wkr[w].pc \in Holding \ {"finishing"}, ~Refusing(w), wkr[w].pc # "claimed",
         usage' = Settled(usage, op, wkr[w].key), wkr' = [wkr EXCEPT ![w].pc = pc],
         \/ op = "COMMIT" /\ pc = "finishing"
         \/ op = "RELEASE" /\ pc = "burying" /\ ~ShouldRetry(w),
         UNCHANGED <<jobs, api, outbox, sweep, drain>>
  PROVE  QuotaInv'
  <1> DEFINE i == wkr[w].job
             k == EnqueueKey(i)
  <1>i. /\ i \in Jobs /\ jobs[i].status = "PROCESSING" /\ Present(i) /\ wkr[w].key = k
        /\ k \in QuotaKeys
    BY HandOfQuota, KeysOfRequests
  <1>o. Open(k) BY DEF QuotaInv, StageInv
  <1>s. Settles(op, k) /\ BooksInv' BY <1>i, <1>o, SettleEffect
  <1>w. /\ wkr'[w].pc = pc /\ wkr'[w].job = i /\ wkr'[w].n = wkr[w].n /\ wkr'[w].max = wkr[w].max
        /\ wkr'[w].retry = wkr[w].retry /\ \A v \in Workers \ {w} : wkr'[v] = wkr[v]
    BY DEF SysInv, QueueInv, IInv, TypeOK, WorkerType
  <1>a. ASSUME NEW j \in Jobs, Present(j), j # i PROVE EnqueueKey(j) # k
    BY <1>i, <1>a, KeysApart
  <1>p. pc \in Holding BY DEF Holding, Working
  <1> HIDE DEF i, k
  <1>1. OneJobInv' BY DEF QuotaInv, OneJobInv, Present, EnqueueKey, FailedEvent
  <1>2. InHandInv'
    <2>1. ASSUME NEW v \in Workers, wkr'[v].pc \in Holding PROVE Owns(v)'
      <3>1. wkr[v].pc \in Holding /\ wkr'[v].job = wkr[v].job /\ wkr'[v].n = wkr[v].n BY <1>w, <2>1 DEF i
      <3>2. Owns(v) BY <3>1 DEF QuotaInv, InHandInv
      <3> QED BY <3>1, <3>2 DEF Owns, Token
    <2>2. ASSUME NEW j \in Jobs, jobs[j].status = "PROCESSING"
          PROVE  jobs[j].lease = "live" /\ \E v \in Workers : wkr'[v].pc \in Holding /\ wkr'[v].job = j
      <3>1. PICK v \in Workers : wkr[v].pc \in Holding /\ wkr[v].job = j
        BY <2>2 DEF QuotaInv, InHandInv
      <3>2. wkr'[v].pc \in Holding /\ wkr'[v].job = j BY <1>w, <1>p, <3>1 DEF i
      <3> QED BY <2>2, <3>2 DEF QuotaInv, InHandInv
    <2> QED BY <2>1, <2>2 DEF QuotaInv, InHandInv
  <1>3. StageInv'
    <2> SUFFICES ASSUME NEW v \in Workers
                 PROVE  /\ wkr'[v].pc = "releasing" => ~ShouldRetry(v)'
                        /\ Refusing(v)' => HasRow(usage', "RELEASE", EnqueueKey(wkr'[v].job))
                        /\ (wkr'[v].pc \in Holding \ {"finishing"} /\ ~Refusing(v)') => Open(EnqueueKey(wkr[v].job))'
      BY DEF StageInv, EnqueueKey
    <2>1. CASE v # w
      <3>1. wkr'[v] = wkr[v] BY <1>w, <2>1
      <3>2. wkr[v].pc \in Holding => EnqueueKey(wkr[v].job) # k
        <4> SUFFICES ASSUME wkr[v].pc \in Holding PROVE EnqueueKey(wkr[v].job) # k OBVIOUS
        <4>1. wkr[v].job # i BY <2>1, OneHand DEF QuotaInv, i
        <4>2. wkr[v].job \in Jobs /\ Present(wkr[v].job) BY HandOfQuota
        <4> QED BY <4>1, <4>2, <1>a
      <3>3. (Refusing(v)' <=> Refusing(v)) /\ (ShouldRetry(v)' <=> ShouldRetry(v))
        BY <3>1 DEF Refusing, ShouldRetry
      <3>4. Refusing(v) => HasRow(usage', "RELEASE", EnqueueKey(wkr[v].job))
        BY <1>s DEF QuotaInv, StageInv, Settles
      <3>5. (wkr[v].pc \in Holding \ {"finishing"} /\ ~Refusing(v)) => Open(EnqueueKey(wkr[v].job))'
        <4>1. (wkr[v].pc \in Holding \ {"finishing"} /\ ~Refusing(v)) => Open(EnqueueKey(wkr[v].job))
          BY DEF QuotaInv, StageInv
        <4> QED BY <4>1, <3>2, <1>s DEF Settles, EnqueueKey
      <3> QED BY <3>1, <3>3, <3>4, <3>5 DEF QuotaInv, StageInv, EnqueueKey
    <2>2. CASE v = w
      <3>1. ShouldRetry(w)' <=> ShouldRetry(w) BY <1>w DEF ShouldRetry
      <3>2. HasRow(usage', op, k) BY <1>s DEF Settles
      <3> QED BY <1>w, <2>2, <3>1, <3>2 DEF Refusing, k, i
    <2> QED BY <2>1, <2>2
  <1>4. RequestInv'
    <2>1. ASSUME NEW c \in Callers, api[c].pc \in Cancelling
          PROVE  Open(EnqueueKey(api[c].job))'
      <3>1. /\ api[c].job \in Jobs /\ jobs[api[c].job].status = "CANCELLED"
            /\ Open(EnqueueKey(api[c].job))
        BY <2>1 DEF QuotaInv, RequestInv
      <3>2. EnqueueKey(api[c].job) # k BY <3>1, <1>i, <1>a DEF Present
      <3> QED BY <3>1, <3>2, <1>s DEF Settles, EnqueueKey
    <2>2. \A x : HasRow(usage, "RESERVE", x) => HasRow(usage', "RESERVE", x) BY <1>s DEF Settles
    <2>3. \A r : HasJob(r)' <=> HasJob(r) BY DEF HasJob, Present
    <2> QED BY <2>1, <2>2, <2>3 DEF QuotaInv, RequestInv, RequestKey, EnqueueKey
  <1>5. KeysInv'
    <2>1. \A x \in QuotaKeys : Open(x)' => Wanted(x)'
      BY <1>s DEF Settles, QuotaInv, KeysInv, Wanted, Live, HasJob, Present, EnqueueKey
    <2>2. QueuedJobHoldsQuota'
      <3> SUFFICES ASSUME NEW j \in Jobs, jobs[j].status = "QUEUED" PROVE Open(jobs[j].key)'
        BY DEF QueuedJobHoldsQuota, Open
      <3>1. Open(jobs[j].key) /\ jobs[j].key = EnqueueKey(j)
        BY DEF QuotaInv, KeysInv, QueuedJobHoldsQuota, Open, OneJobInv
      <3>2. jobs[j].key # k BY <1>i, <1>a, <3>1 DEF Present
      <3> QED BY <1>s, <3>1, <3>2 DEF Settles
    <2>3. \A x \in QuotaKeys : (HasRow(usage', "COMMIT", x) \/ HasRow(usage', "RELEASE", x)) =>
            HasRow(usage', "RESERVE", x) /\ \E j \in Jobs : Present(j) /\ x = EnqueueKey(j)
      <3>1. HasRow(usage, "RESERVE", k) /\ \E j \in Jobs : Present(j) /\ k = EnqueueKey(j)
        BY <1>o, <1>i DEF Open, OpenReservation, k
      <3> QED BY <1>s, <3>1 DEF Settles, QuotaInv, KeysInv
    <2>4. \A j \in Jobs : Present(j) => HasRow(usage', "RESERVE", EnqueueKey(j))
      BY <1>s DEF Settles, QuotaInv, KeysInv
    <2> QED BY <2>1, <2>2, <2>3, <2>4 DEF KeysInv, Present, EnqueueKey, QuotaKeys, RetryKey
  <1> QED BY <1>s, <1>1, <1>2, <1>3, <1>4, <1>5 DEF QuotaInv
-----------------------------------------------------------------------------
(* A job that comes into a hand is queued, with its key open. *)
LEMMA ClaimKeeps ==
  ASSUME SysInv, QuotaInv, NEW w \in Workers, NEW i \in Jobs, Claim(w, i), UNCHANGED api
  PROVE  QuotaInv'
  <1>c. Claimable(i) /\ wkr[w].pc = "idle" BY DEF Claim
  <1>q. jobs[i].status = "QUEUED" BY <1>c DEF Claimable, QuotaInv, InHandInv
  <1>t. TypeOK BY DEF SysInv, QueueInv, IInv
  <1> DEFINE n == jobs[i].attempts + 1
             y == [Loop("claimed") EXCEPT !.job = i, !.n = n]
             r == ClaimedRow(w, i)
  <1>j. /\ jobs' = [jobs EXCEPT ![i] = r] /\ wkr' = [wkr EXCEPT ![w] = y]
        /\ UNCHANGED <<outbox, usage, drain, api>> /\ sweep' = Renewed(i)
    BY DEF Claim, ClaimedRow
  <1>r. r.status = "PROCESSING" /\ r.lock = <<w, n>> /\ r.lease = "live" /\ r.key = jobs[i].key
    <2>1. jobs[i] \in Row_ BY <1>t DEF TypeOK
    <2> QED BY <2>1 DEF ClaimedRow, Row_
  <1>y. y.pc = "claimed" /\ y.job = i /\ y.n = n BY DEF Loop
  <1> HIDE DEF r, y
  <1>J. jobs'[i] = r /\ \A j \in Jobs \ {i} : jobs'[j] = jobs[j] BY <1>j, <1>t DEF TypeOK
  <1>W. wkr'[w] = y /\ \A v \in Workers \ {w} : wkr'[v] = wkr[v] BY <1>j, <1>t DEF TypeOK
  <1>h. wkr[w].pc \notin Holding BY <1>c DEF Holding, Working
  <1>o. \A v \in Workers : wkr[v].pc \in Holding => wkr[v].job # i
    BY <1>q, HandOfQuota
  <1>p. \A j \in Jobs : (Present(j)' <=> Present(j)) /\ (Live(j)' <=> Live(j))
    BY <1>J, <1>r, <1>q DEF Present, Live
  <1>H. \A x : HasJob(x)' <=> HasJob(x) BY <1>p DEF HasJob
  <1>1. OneJobInv'
    BY <1>j, <1>J, <1>r, <1>p, <1>q DEF QuotaInv, OneJobInv, EnqueueKey, FailedEvent
  <1>2. InHandInv'
    <2>1. ASSUME NEW v \in Workers, wkr'[v].pc \in Holding PROVE Owns(v)'
      <3>1. CASE v = w BY <1>W, <1>y, <1>J, <1>r, <3>1 DEF Owns, Token
      <3>2. CASE v # w
        <4>1. wkr'[v] = wkr[v] /\ wkr[v].pc \in Holding BY <1>W, <2>1, <3>2
        <4>2. Owns(v) /\ wkr[v].job \in Jobs \ {i} BY <4>1, <1>o, HandOfQuota
        <4> QED BY <4>1, <4>2, <1>J DEF Owns, Token
      <3> QED BY <3>1, <3>2
    <2>2. ASSUME NEW j \in Jobs, jobs'[j].status = "PROCESSING"
          PROVE  jobs'[j].lease = "live" /\ \E v \in Workers : wkr'[v].pc \in Holding /\ wkr'[v].job = j
      <3>1. CASE j = i
        <4>1. wkr'[w].pc \in Holding /\ wkr'[w].job = i BY <1>W, <1>y DEF Holding
        <4> QED BY <3>1, <4>1, <1>J, <1>r
      <3>2. CASE j # i
        <4>1. PICK v \in Workers : wkr[v].pc \in Holding /\ wkr[v].job = j
          BY <2>2, <3>2, <1>J DEF QuotaInv, InHandInv
        <4>2. wkr'[v].pc \in Holding /\ wkr'[v].job = j BY <1>W, <4>1, <1>h
        <4> QED BY <2>2, <3>2, <4>2, <1>J DEF QuotaInv, InHandInv
      <3> QED BY <3>1, <3>2
    <2>3. ASSUME NEW v \in Workers
          PROVE  /\ sweep'[v].pc # "working" /\ sweep'[v].rows = {} /\ sweep'[v].unreleased = {}
                 /\ drain'[v].pc = "off"
      <3>1. sweep[v].rows = {} /\ sweep[v].pc # "working" /\ sweep[v].unreleased = {} /\ drain[v].pc = "off"
        BY DEF QuotaInv, InHandInv
      <3>2. sweep'[v] = sweep[v] BY <1>j, <3>1 DEF Renewed
      <3> QED BY <3>1, <3>2, <1>j
    <2> QED BY <2>1, <2>2, <2>3 DEF InHandInv
  <1>q2. Open(EnqueueKey(i)) BY <1>q DEF QuotaInv, KeysInv, QueuedJobHoldsQuota, OneJobInv, Open
  <1>3. StageInv'
    <2> SUFFICES ASSUME NEW v \in Workers
                 PROVE  /\ wkr'[v].pc = "releasing" => ~ShouldRetry(v)'
                        /\ Refusing(v)' => HasRow(usage, "RELEASE", EnqueueKey(wkr'[v].job))
                        /\ (wkr'[v].pc \in Holding \ {"finishing"} /\ ~Refusing(v)') => Open(EnqueueKey(wkr'[v].job))
      BY <1>j DEF StageInv, Open, EnqueueKey
    <2>1. CASE v = w BY <1>W, <1>y, <1>q2, <2>1 DEF Refusing
    <2>2. CASE v # w BY <1>W, <2>2 DEF QuotaInv, StageInv, Refusing, ShouldRetry
    <2> QED BY <2>1, <2>2
  <1>4. RequestInv'
    BY <1>j, <1>J, <1>q, <1>H DEF QuotaInv, RequestInv, Open, EnqueueKey, RequestKey
  <1>5. KeysInv'
    <2>1. \A k \in QuotaKeys : Open(k) => Wanted(k)'
      BY <1>j, <1>p, <1>H DEF QuotaInv, KeysInv, Wanted, EnqueueKey
    <2>2. QueuedJobHoldsQuota'
      BY <1>j, <1>J, <1>r DEF QuotaInv, KeysInv, QueuedJobHoldsQuota
    <2> QED BY <1>j, <1>p, <2>1, <2>2 DEF QuotaInv, KeysInv, Open, QuotaKeys, EnqueueKey, RetryKey
  <1>6. BooksInv' BY <1>j DEF QuotaInv, BooksInv
  <1> QED BY <1>1, <1>2, <1>3, <1>4, <1>5, <1>6 DEF QuotaInv

(* A job leaves a hand back to the queue with its key open, or ended with it settled. *)
Lets(w, i) ==
  /\ i = wkr[w].job /\ wkr' = [wkr EXCEPT ![w] = Loop("idle")]
  /\ \A j \in Jobs \ {i} : jobs'[j] = jobs[j]
  /\ jobs'[i].key = jobs[i].key /\ jobs'[i].status \in {"QUEUED", "SENT", "FAILED"}
  /\ jobs'[i].status = "QUEUED" <=> Open(EnqueueKey(i))
  /\ \A j \in Jobs : FailedEvent(j) \in outbox' =>
       FailedEvent(j) \in outbox \/ (j = i /\ jobs'[i].status = "FAILED")
  /\ UNCHANGED <<usage, api, sweep, drain>>

LEMMA LettingKeeps ==
  ASSUME SysInv, QuotaInv, NEW w \in Workers, wkr[w].pc \in Holding, NEW i, Lets(w, i)
  PROVE  QuotaInv'
  <1>i. i \in Jobs /\ jobs[i].status = "PROCESSING" BY HandOfQuota DEF Lets
  <1>j. /\ \A j \in Jobs \ {i} : jobs'[j] = jobs[j]
        /\ jobs'[i].key = jobs[i].key /\ jobs'[i].status \in {"QUEUED", "SENT", "FAILED"}
        /\ jobs'[i].status = "QUEUED" <=> Open(EnqueueKey(i))
        /\ UNCHANGED <<usage, api, sweep, drain>>
    BY DEF Lets
  <1>W. wkr'[w] = Loop("idle") /\ \A v \in Workers \ {w} : wkr'[v] = wkr[v]
    BY DEF Lets, SysInv, QueueInv, IInv, TypeOK
  <1>h. wkr'[w].pc \notin Holding BY <1>W DEF Loop, Holding, Working
  <1>v. \A v \in Workers \ {w} : wkr[v].pc \in Holding => wkr[v].job # i
    BY OneHand DEF Lets, QuotaInv
  <1>p. \A j \in Jobs : Present(j)' <=> Present(j) BY <1>i, <1>j DEF Present
  <1>H. \A x : HasJob(x)' <=> HasJob(x) BY <1>p DEF HasJob
  <1>1. OneJobInv'
    <2>1. \A j \in Jobs : FailedEvent(j) \in outbox' => jobs'[j].status = "FAILED"
      <3> SUFFICES ASSUME NEW j \in Jobs, FailedEvent(j) \in outbox' PROVE jobs'[j].status = "FAILED" OBVIOUS
      <3>1. FailedEvent(j) \in outbox \/ (j = i /\ jobs'[i].status = "FAILED") BY DEF Lets
      <3>2. FailedEvent(j) \in outbox => jobs[j].status = "FAILED" BY DEF QuotaInv, OneJobInv
      <3> QED BY <3>1, <3>2, <1>i, <1>j
    <2>2. \A j \in Jobs : jobs'[j].status # "DELETED" /\ jobs'[j].key = EnqueueKey(j)
      BY <1>i, <1>j DEF QuotaInv, OneJobInv
    <2> QED BY <1>p, <2>1, <2>2 DEF QuotaInv, OneJobInv, EnqueueKey, FailedEvent
  <1>2. InHandInv'
    <2>1. ASSUME NEW v \in Workers, wkr'[v].pc \in Holding PROVE Owns(v)'
      <3>1. v # w /\ wkr'[v] = wkr[v] /\ wkr[v].pc \in Holding BY <1>W, <1>h, <2>1
      <3>2. Owns(v) /\ wkr[v].job \in Jobs \ {i} BY <3>1, <1>v, HandOfQuota
      <3> QED BY <3>1, <3>2, <1>j DEF Owns, Token
    <2>2. ASSUME NEW j \in Jobs, jobs'[j].status = "PROCESSING"
          PROVE  jobs'[j].lease = "live" /\ \E v \in Workers : wkr'[v].pc \in Holding /\ wkr'[v].job = j
      <3>1. j # i /\ jobs'[j] = jobs[j] BY <2>2, <1>j
      <3>2. PICK v \in Workers : wkr[v].pc \in Holding /\ wkr[v].job = j
        BY <2>2, <3>1 DEF QuotaInv, InHandInv
      <3>3. wkr'[v].pc \in Holding /\ wkr'[v].job = j BY <1>W, <3>1, <3>2 DEF Lets
      <3> QED BY <2>2, <3>1, <3>3 DEF QuotaInv, InHandInv
    <2> QED BY <2>1, <2>2, <1>j DEF QuotaInv, InHandInv
  <1>3. StageInv'
    <2> SUFFICES ASSUME NEW v \in Workers
                 PROVE  /\ wkr'[v].pc = "releasing" => ~ShouldRetry(v)'
                        /\ Refusing(v)' => HasRow(usage, "RELEASE", EnqueueKey(wkr'[v].job))
                        /\ (wkr'[v].pc \in Holding \ {"finishing"} /\ ~Refusing(v)') => Open(EnqueueKey(wkr'[v].job))
      BY <1>j DEF StageInv, Open, EnqueueKey
    <2>1. CASE v = w BY <1>h, <2>1 DEF Refusing, Holding, Working
    <2>2. CASE v # w BY <1>W, <2>2 DEF QuotaInv, StageInv, Refusing, ShouldRetry
    <2> QED BY <2>1, <2>2
  <1>4. RequestInv'
    BY <1>i, <1>j, <1>H DEF QuotaInv, RequestInv, Open, EnqueueKey, RequestKey
  <1>5. KeysInv'
    <2>1. \A k \in QuotaKeys : Open(k) => Wanted(k)'
      <3> SUFFICES ASSUME NEW k \in QuotaKeys, Open(k) PROVE Wanted(k)' OBVIOUS
      <3>1. CASE \E j \in Jobs : Live(j) /\ k = EnqueueKey(j)
        <4>1. PICK j \in Jobs : Live(j) /\ k = EnqueueKey(j) BY <3>1
        <4>2. Live(j)' BY <4>1, <1>j DEF Live
        <4> QED BY <4>1, <4>2 DEF Wanted, EnqueueKey
      <3>2. CASE \E c \in Callers : api[c].pc \in Cancelling /\ k = EnqueueKey(api[c].job)
        BY <3>2, <1>j DEF Wanted, EnqueueKey
      <3>3. CASE \E c \in Callers : api[c].pc = "creating" /\ k = api[c].key /\ ~HasJob(api[c].req)
        BY <3>3, <1>j, <1>H DEF Wanted
      <3> QED BY <3>1, <3>2, <3>3 DEF QuotaInv, KeysInv, Wanted
    <2>2. QueuedJobHoldsQuota'
      <3> SUFFICES ASSUME NEW j \in Jobs, jobs'[j].status = "QUEUED" PROVE Open(jobs'[j].key)
        BY <1>j DEF QueuedJobHoldsQuota, Open
      <3>1. CASE j = i BY <3>1, <1>i, <1>j DEF QuotaInv, OneJobInv
      <3>2. CASE j # i BY <3>2, <1>j DEF QuotaInv, KeysInv, QueuedJobHoldsQuota, Open
      <3> QED BY <3>1, <3>2
    <2> QED BY <1>j, <1>p, <2>1, <2>2 DEF QuotaInv, KeysInv, Open, QuotaKeys, EnqueueKey, RetryKey
  <1>6. BooksInv' BY <1>j DEF QuotaInv, BooksInv
  <1> QED BY <1>1, <1>2, <1>3, <1>4, <1>5, <1>6 DEF QuotaInv
-----------------------------------------------------------------------------
(* No sweep and no recovery has anything to do. *)
LEMMA SweepsRest ==
  ASSUME QuotaInv PROVE \A v \in Workers : NoBatch(sweep[v])
  BY DEF QuotaInv, InHandInv, NoBatch

(* Steps of the loop before a job is settled. *)
LEMMA LoopKeepsQuota ==
  ASSUME Undisturbed, SysInv, QuotaInv, NEW w \in Workers, UNCHANGED api,
         Start(w) \/ OpenAttempt(w) \/ ClaimFails(w) \/ Dispatch(w) \/ CompleteCheck(w) \/ FailCheck(w)
  PROVE  QuotaInv'
  <1>t. wkr \in [Workers -> WorkerType] /\ wkr[w] \in WorkerType /\ sweep \in [Workers -> ReaperType]
    BY DEF SysInv, QueueInv, IInv, TypeOK
  <1>l. \A pc \in {"idle", "new", "stopped", "dead"} : Loop(pc).pc = pc /\ pc \notin Holding
    BY DEF Loop, Holding, Working
  <1>b. \A v \in Workers : NoBatch(sweep[v]) BY SweepsRest
  <1>o. wkr[w].pc \in Holding => Owns(w) BY HandOfQuota
  <1>1. CASE Start(w)
    <2>1. \A v \in Workers : NoBatch(sweep'[v])
      <3>1. sweep' = [sweep EXCEPT ![w] = Reaper("start")] BY <1>1 DEF Start
      <3>2. NoBatch(Reaper("start")) BY DEF NoBatch, Reaper
      <3> QED BY <1>t, <1>b, <3>1, <3>2
    <2>2. wkr' = [wkr EXCEPT ![w] = Loop("idle")] /\ wkr[w].pc = "new" BY <1>1 DEF Start
    <2>3. UNCHANGED <<jobs, usage, api, outbox, drain>> BY <1>1 DEF Start
    <2>4. Loop("idle").pc \notin Holding /\ "new" \notin Holding BY <1>l
    <2> QED BY <2>1, <2>2, <2>3, <2>4, HandMoves
  <1>2. CASE OpenAttempt(w)
    <2> DEFINE y == [wkr[w] EXCEPT !.pc = "dispatching", !.max = jobs[wkr[w].job].max, !.key = jobs[wkr[w].job].key]
    <2>1. wkr[w].pc = "claimed" BY <1>2 DEF OpenAttempt
    <2>2. wkr' = [wkr EXCEPT ![w] = y] BY <1>2, <1>t DEF OpenAttempt
    <2>3. y.pc = "dispatching" /\ y.job = wkr[w].job /\ y.n = wkr[w].n BY <1>t DEF WorkerType
    <2> HIDE DEF y
    <2>4. UNCHANGED <<jobs, usage, api, outbox, drain, sweep>> BY <1>2 DEF OpenAttempt
    <2>5. ~Refusing(w) BY <2>1 DEF Refusing
    <2>6. y.pc \in Holding /\ wkr[w].pc \in Holding BY <2>1, <2>3 DEF Holding, Working
    <2> QED BY <2>1, <2>2, <2>3, <2>4, <2>5, <2>6, <1>b, HandMoves
  <1>3. CASE ClaimFails(w) BY <1>3, <1>o DEF ClaimFails, Undisturbed, Holding
  <1>4. CASE Dispatch(w)
    <2>1. wkr[w].pc = "dispatching"
      BY <1>4 DEF Dispatch, DispatchSends, DispatchGivesUp, DispatchRefused
    <2>2. PICK y \in WorkerType : /\ wkr' = [wkr EXCEPT ![w] = y] /\ y.pc \in {"sent", "failing"}
                                  /\ y.job = wkr[w].job /\ y.n = wkr[w].n
      <3>1. CASE DispatchSends(w)
        <4> DEFINE y == [wkr[w] EXCEPT !.pc = "sent"]
        <4>1. wkr' = [wkr EXCEPT ![w] = y] BY <3>1 DEF DispatchSends, Goto
        <4>2. y \in WorkerType /\ y.pc = "sent" /\ y.job = wkr[w].job /\ y.n = wkr[w].n
          BY <1>t DEF WorkerType, Working
        <4> QED BY <4>1, <4>2
      <3>2. ASSUME NEW b \in BOOLEAN, Failing(w, b)
            PROVE  \E y \in WorkerType : /\ wkr' = [wkr EXCEPT ![w] = y] /\ y.pc \in {"sent", "failing"}
                                         /\ y.job = wkr[w].job /\ y.n = wkr[w].n
        <4> DEFINE y == [wkr[w] EXCEPT !.pc = "failing", !.retry = b]
        <4>1. wkr' = [wkr EXCEPT ![w] = y] BY <3>2, <1>t DEF Failing
        <4>2. y \in WorkerType /\ y.pc = "failing" /\ y.job = wkr[w].job /\ y.n = wkr[w].n
          BY <1>t DEF WorkerType, Working
        <4> QED BY <4>1, <4>2
      <3> QED BY <1>4, <3>1, <3>2 DEF Dispatch, DispatchGivesUp, DispatchRefused
    <2>3. UNCHANGED <<jobs, usage, api, outbox, drain, sweep>>
      BY <1>4 DEF Dispatch, DispatchSends, DispatchGivesUp, DispatchRefused, tables
    <2>4. ~Refusing(w) /\ y.pc \in Holding /\ wkr[w].pc \in Holding
      BY <2>1, <2>2 DEF Refusing, Holding, Working
    <2> QED BY <2>1, <2>2, <2>3, <2>4, <1>b, HandMoves
  <1>5. CASE CompleteCheck(w)
    <2> DEFINE y == [wkr[w] EXCEPT !.pc = "committing"]
    <2>1. wkr[w].pc = "sent" /\ wkr[w].pc \in Holding BY <1>5 DEF CompleteCheck, Holding, Working
    <2>2. wkr' = [wkr EXCEPT ![w] = y] BY <1>5, <1>o, <2>1 DEF CompleteCheck, Goto
    <2>3. y.pc = "committing" /\ y.job = wkr[w].job /\ y.n = wkr[w].n BY <1>t DEF WorkerType
    <2> HIDE DEF y
    <2>4. UNCHANGED <<jobs, usage, api, outbox, drain, sweep>> BY <1>5 DEF CompleteCheck, tables
    <2>5. ~Refusing(w) /\ y.pc \in Holding BY <2>1, <2>3 DEF Refusing, Holding, Working
    <2> QED BY <2>1, <2>2, <2>3, <2>4, <2>5, <1>b, HandMoves
  <1>6. CASE FailCheck(w)
    <2> DEFINE pc == IF ShouldRetry(w) THEN "burying" ELSE "releasing"
               y == [wkr[w] EXCEPT !.pc = pc]
    <2>1. wkr[w].pc = "failing" /\ wkr[w].pc \in Holding BY <1>6 DEF FailCheck, Holding, Working
    <2>2. wkr' = [wkr EXCEPT ![w] = y] BY <1>6, <1>o, <2>1 DEF FailCheck, Goto
    <2>3. y.pc = pc /\ y.job = wkr[w].job /\ y.n = wkr[w].n /\ y.retry = wkr[w].retry /\ y.max = wkr[w].max
      BY <1>t DEF WorkerType
    <2> HIDE DEF y
    <2>4. UNCHANGED <<jobs, usage, api, outbox, drain, sweep>> BY <1>6 DEF FailCheck, tables
    <2>5. ~Refusing(w) /\ y.pc \in Holding BY <2>1, <2>3 DEF Refusing, Holding, Working
    <2>6. /\ y.pc # "finishing"
          /\ y.pc = "releasing" => ~(y.retry /\ y.n < y.max)
          /\ y.pc = "burying" => (y.retry /\ y.n < y.max)
      BY <2>3 DEF ShouldRetry
    <2> HIDE DEF pc
    <2> QED BY <2>1, <2>2, <2>3, <2>4, <2>5, <2>6, <1>b, HandMoves
  <1> QED BY <1>1, <1>2, <1>3, <1>4, <1>5, <1>6

(* A worker settles the quota of the job in its hand. *)
LEMMA SettlingKeepsQuota ==
  ASSUME SysInv, QuotaInv, NEW w \in Workers, UNCHANGED api, CompleteSettle(w) \/ FailSettle(w)
  PROVE  QuotaInv'
  <1>t. usage \in UsageType /\ BooksInv BY DEF SysInv, QueueInv, IInv, TypeOK, QuotaInv
  <1>1. ASSUME wkr[w].pc \in {"committing", "releasing"}, NEW op \in Settlements
        PROVE  CanSettle(usage, op, wkr[w].key)
    <2>1. wkr[w].pc \in Holding \ {"finishing", "claimed"} /\ ~Refusing(w)
      BY <1>1 DEF Holding, Working, Refusing
    <2>2. wkr[w].key = EnqueueKey(wkr[w].job) /\ wkr[w].key \in QuotaKeys
      BY <2>1, HandOfQuota, KeysOfRequests
    <2>3. Open(wkr[w].key) BY <2>1, <2>2 DEF QuotaInv, StageInv
    <2> QED BY <1>t, <2>2, <2>3, SettleOpen
  <1>2. CASE CompleteSettle(w)
    <2>1. wkr[w].pc = "committing" BY <1>2 DEF CompleteSettle
    <2>2. /\ usage' = Settled(usage, "COMMIT", wkr[w].key) /\ wkr' = [wkr EXCEPT ![w].pc = "finishing"]
          /\ UNCHANGED <<jobs, api, outbox, sweep, drain>>
      BY <1>1, <1>2, <2>1 DEF CompleteSettle, Goto, Settlements
    <2>3. wkr[w].pc \in Holding \ {"finishing"} /\ ~Refusing(w) /\ wkr[w].pc # "claimed"
      BY <2>1 DEF Holding, Working, Refusing
    <2>4. "COMMIT" \in Settlements BY DEF Settlements
    <2> QED BY <2>2, <2>3, <2>4, HandSettles
  <1>3. CASE FailSettle(w)
    <2>1. wkr[w].pc = "releasing" BY <1>3 DEF FailSettle
    <2>2. /\ usage' = Settled(usage, "RELEASE", wkr[w].key) /\ wkr' = [wkr EXCEPT ![w].pc = "burying"]
          /\ UNCHANGED <<jobs, api, outbox, sweep, drain>>
      BY <1>1, <1>3, <2>1 DEF FailSettle, Goto, Settlements
    <2>3. wkr[w].pc \in Holding \ {"finishing"} /\ ~Refusing(w) /\ wkr[w].pc # "claimed"
      BY <2>1 DEF Holding, Working, Refusing
    <2>4. "RELEASE" \in Settlements BY DEF Settlements
    <2>5. ~ShouldRetry(w) BY <2>1 DEF QuotaInv, StageInv
    <2> QED BY <2>2, <2>3, <2>4, <2>5, HandSettles
  <1> QED BY <1>2, <1>3

(* A worker ends the job, or gives it back. *)
LEMMA EndingKeepsQuota ==
  ASSUME SysInv, QuotaInv, NEW w \in Workers, UNCHANGED api, CompleteFinish(w) \/ FailFinish(w)
  PROVE  QuotaInv'
  <1> DEFINE i == wkr[w].job
  <1>h. wkr[w].pc \in Holding /\ wkr[w].pc \in {"finishing", "burying"}
    BY DEF CompleteFinish, FailFinish, Holding, Working
  <1>i. i \in Jobs /\ Owns(w) /\ jobs[i].status = "PROCESSING" BY <1>h, HandOfQuota
  <1>t. jobs \in [Jobs -> Row_] /\ jobs[i] \in Row_ BY <1>i DEF SysInv, QueueInv, IInv, TypeOK
  <1> HIDE DEF i
  <1>1. CASE CompleteFinish(w)
    <2>1. /\ jobs' = [jobs EXCEPT ![i] = SentRow(jobs[i])] /\ wkr' = [wkr EXCEPT ![w] = Loop("idle")]
          /\ UNCHANGED <<outbox, usage, api, sweep, drain>> /\ wkr[w].pc = "finishing"
      BY <1>1, <1>i DEF CompleteFinish, BackToPolling, i
    <2>2. ~Open(EnqueueKey(i)) BY <2>1, <1>h, HandOfQuota DEF Open, OpenReservation, i
    <2>3. SentRow(jobs[i]).status = "SENT" /\ SentRow(jobs[i]).key = jobs[i].key
      BY <1>t, SentRowType DEF ClaimDropped
    <2>4. Lets(w, i)
      <3>1. jobs'[i].status = "SENT" /\ jobs'[i].key = jobs[i].key /\ \A j \in Jobs \ {i} : jobs'[j] = jobs[j]
        BY <2>1, <2>3, <1>t, <1>i
      <3> QED BY <2>1, <2>2, <3>1 DEF Lets, i
    <2> QED BY <1>h, <2>4, LettingKeeps
  <1>2. CASE FailFinish(w)
    <2>1. wkr' = [wkr EXCEPT ![w] = Loop("idle")] /\ UNCHANGED <<usage, api, sweep, drain>> /\ wkr[w].pc = "burying"
      BY <1>2 DEF FailFinish, BackToPolling
    <2>2. CASE ShouldRetry(w)
      <3>1. jobs' = [jobs EXCEPT ![i] = RequeuedRow(jobs[i], FALSE)] /\ outbox' = outbox
        BY <1>2, <1>i, <2>2 DEF FailFinish, i
      <3>2. Open(EnqueueKey(i)) BY <1>h, <2>1, <2>2 DEF QuotaInv, StageInv, Refusing, i
      <3>3. RequeuedRow(jobs[i], FALSE).status = "QUEUED" /\ RequeuedRow(jobs[i], FALSE).key = jobs[i].key
        BY <1>t, RequeuedRowType DEF ClaimDropped
      <3>4. jobs'[i].status = "QUEUED" /\ jobs'[i].key = jobs[i].key /\ \A j \in Jobs \ {i} : jobs'[j] = jobs[j]
        BY <3>1, <3>3, <1>t, <1>i
      <3>5. Lets(w, i) BY <2>1, <3>1, <3>2, <3>4 DEF Lets, i
      <3> QED BY <1>h, <3>5, LettingKeeps
    <2>3. CASE ~ShouldRetry(w)
      <3>1. ~DuplicateEvent({i}) BY <1>i DEF DuplicateEvent, QuotaInv, OneJobInv
      <3>2. BuryJobs({i}) BY <1>2, <1>i, <2>3, <3>1 DEF FailFinish, i
      <3>3. ~Open(EnqueueKey(i))
        BY <2>1, <2>3 DEF QuotaInv, StageInv, Refusing, Open, OpenReservation, i
      <3>4. FailedRow(jobs[i]).status = "FAILED" /\ FailedRow(jobs[i]).key = jobs[i].key
        BY <1>t, FailedRowType DEF ClaimDropped
      <3>5. jobs'[i].status = "FAILED" /\ jobs'[i].key = jobs[i].key /\ \A j \in Jobs \ {i} : jobs'[j] = jobs[j]
        BY <3>2, <3>4, <1>t, <1>i DEF BuryJobs
      <3>6. \A j \in Jobs : FailedEvent(j) \in outbox' => FailedEvent(j) \in outbox \/ j = i
        BY <3>2 DEF BuryJobs, FailedEvent
      <3>7. Lets(w, i) BY <2>1, <3>3, <3>5, <3>6 DEF Lets, i
      <3> QED BY <1>h, <3>7, LettingKeeps
    <2> QED BY <2>2, <2>3
  <1> QED BY <1>1, <1>2

(* Nothing runs out, nothing is left behind, and a worker that stops has no claim. *)
LEMMA RestKeepsQuota ==
  ASSUME Undisturbed, SysInv, QuotaInv, UNCHANGED api, NEW w \in Workers,
         Throws(w) \/ Heartbeat(w) \/ Sweep(w) \/ Stop(w) \/ Drain(w) \/ Crash(w)
  PROVE  QuotaInv'
  <1>b. \A v \in Workers : NoBatch(sweep[v]) BY SweepsRest
  <1>l. \A j \in Jobs : jobs[j].status = "PROCESSING" => jobs[j].lease = "live"
    BY DEF QuotaInv, InHandInv
  <1>1. ~Throws(w)
    BY DEF Undisturbed, Throws, CompleteThrows, FailThrows, SettleThrows
  <1>2. ~Heartbeat(w)
    <2>1. Working \subseteq Holding BY DEF Holding
    <2> QED BY <2>1, HandOfQuota DEF Heartbeat
  <1>3. ASSUME Sweep(w) PROVE QuotaInv'
    <2>1. SweepRead(w)
      BY <1>3, <1>b DEF Sweep, SweepRelease, SweepBury, NoBatch
    <2>2. {i \in Jobs : /\ jobs[i].status = "PROCESSING" /\ jobs[i].lease = "stale"
                        /\ jobs[i].attempts >= jobs[i].max} = {}
      BY <1>l
    <2> DEFINE x == [pc |-> "off", rows |-> {}, unreleased |-> {}, renewed |-> {}]
    <2>3. sweep' = [sweep EXCEPT ![w] = x] BY <2>1, <2>2 DEF SweepRead
    <2>4. NoBatch(x) BY DEF NoBatch
    <2> HIDE DEF x
    <2>5. \A v \in Workers : NoBatch(sweep'[v]) BY <2>3, <2>4, <1>b DEF SysInv, QueueInv, IInv, TypeOK
    <2>6. UNCHANGED <<jobs, outbox, usage, wkr, api, drain>> BY <2>1 DEF SweepRead, tables
    <2> QED BY <2>5, <2>6, AlikeKeeps DEF JobAlike
  <1>4. ASSUME Stop(w) PROVE QuotaInv'
    <2>1. wkr[w].pc = "idle" BY <1>4 DEF Stop
    <2>2. ClaimsOf(w) = {}
      <3> SUFFICES ASSUME NEW j \in Jobs, jobs[j].status = "PROCESSING", jobs[j].lock[1] = w PROVE FALSE
        BY DEF ClaimsOf
      <3>1. PICK v \in Workers : wkr[v].pc \in Holding /\ wkr[v].job = j BY DEF QuotaInv, InHandInv
      <3>2. Owns(v) BY <3>1 DEF QuotaInv, InHandInv
      <3>3. v = w BY <3>1, <3>2 DEF Owns, Token
      <3> QED BY <2>1, <3>1, <3>3 DEF Holding, Working
    <2>3. /\ wkr' = [wkr EXCEPT ![w] = Loop("stopped")] /\ sweep' = [sweep EXCEPT ![w] = Reaper("off")]
          /\ UNCHANGED <<jobs, usage, api, outbox, drain>>
      BY <1>4, <2>2 DEF Stop, tables
    <2>4. NoBatch(Reaper("off")) BY DEF NoBatch, Reaper
    <2>5. \A v \in Workers : NoBatch(sweep'[v]) BY <2>3, <2>4, <1>b DEF SysInv, QueueInv, IInv, TypeOK
    <2>6. Loop("stopped").pc \notin Holding /\ wkr[w].pc \notin Holding BY <2>1 DEF Loop, Holding, Working
    <2> QED BY <2>3, <2>5, <2>6, HandMoves
  <1>5. ~Drain(w)
    BY DEF Drain, DrainRequeue, DrainRelease, DrainBury, QuotaInv, InHandInv
  <1>6. ~Crash(w) BY DEF Undisturbed, Crash
  <1> QED BY <1>1, <1>2, <1>3, <1>4, <1>5, <1>6

(* The steps of the workers and of time. *)
LEMMA WorkersKeepQuota ==
  ASSUME Undisturbed, SysInv, QuotaInv, [WorkerNext]_vars, UNCHANGED api
  PROVE  QuotaInv'
  <1>b. \A v \in Workers : NoBatch(sweep[v]) BY SweepsRest
  <1>1. ASSUME NEW j \in Jobs, LeaseRunsOut(j) PROVE FALSE
    <2>1. jobs[j].status = "PROCESSING" /\ ~Attended(j) BY <1>1 DEF LeaseRunsOut, Undisturbed
    <2>2. PICK w \in Workers : wkr[w].pc \in Holding /\ wkr[w].job = j BY <2>1 DEF QuotaInv, InHandInv
    <2>3. Owns(w) BY <2>2 DEF QuotaInv, InHandInv
    <2> QED BY <2>1, <2>2, <2>3 DEF Attended, Owns, Holding
  <1>2. ASSUME NEW i \in Jobs, BecomesDue(i) PROVE QuotaInv'
    <2>1. /\ jobs' = [jobs EXCEPT ![i].due = TRUE] /\ jobs[i].status = "QUEUED"
          /\ UNCHANGED <<outbox, usage, wkr, sweep, drain>>
      BY <1>2 DEF BecomesDue
    <2>2. \A j \in Jobs : JobAlike(j)
      <3> SUFFICES ASSUME NEW j \in Jobs PROVE JobAlike(j) OBVIOUS
      <3>1. jobs \in [Jobs -> Row_] /\ jobs[j] \in Row_ BY DEF SysInv, QueueInv, IInv, TypeOK
      <3>2. jobs'[j] = IF j = i THEN [jobs[i] EXCEPT !.due = TRUE] ELSE jobs[j] BY <2>1, <3>1
      <3> QED BY <3>1, <3>2 DEF JobAlike, Row_
    <2> QED BY <2>1, <2>2, <1>b, AlikeKeeps
  <1>3. ASSUME NEW d \in inflight, LateSend(d) PROVE QuotaInv'
    <2>1. UNCHANGED <<jobs, outbox, usage, wkr, sweep, drain>> BY <1>3 DEF LateSend, tables
    <2> QED BY <2>1, <1>b, AlikeKeeps DEF JobAlike
  <1>4. ASSUME UNCHANGED vars PROVE QuotaInv'
    <2>1. UNCHANGED <<jobs, outbox, usage, wkr, sweep, drain>> BY <1>4 DEF vars
    <2> QED BY <2>1, <1>b, AlikeKeeps DEF JobAlike
  <1>5. ASSUME NEW w \in Workers, Work(w) PROVE QuotaInv'
    BY <1>5, LoopKeepsQuota, SettlingKeepsQuota, EndingKeepsQuota DEF Work, Complete, FailJob
  <1>6. ASSUME NEW w \in Workers, Start(w) PROVE QuotaInv' BY <1>6, LoopKeepsQuota
  <1> QED BY <1>1, <1>2, <1>3, <1>4, <1>5, <1>6, RestKeepsQuota, ClaimKeeps DEF WorkerNext
-----------------------------------------------------------------------------
(* A caller that goes on without touching the ledger or the jobs. *)
LEMMA CallerGoesOn ==
  ASSUME SysInv, QuotaInv, NEW c \in Callers, NEW y, api' = [api EXCEPT ![c] = y],
         UNCHANGED <<jobs, usage, outbox, wkr, sweep, drain>>,
         y.pc \in {"ready"} \cup Submitting \cup Cancelling,
         y.pc \in Submitting => y.key = RequestKey(y.req),
         y.pc = "creating" => HasRow(usage, "RESERVE", y.key),
         y.pc = "raced" => HasJob(y.req),
         y.pc \in Cancelling <=> api[c].pc \in Cancelling,
         y.pc \in Cancelling => y.job = api[c].job,
         y.pc = "releasing" => y.key = EnqueueKey(y.job),
         api[c].pc = "creating" => HasJob(api[c].req)
  PROVE  QuotaInv'
  <1>a. api'[c] = y /\ \A d \in Callers \ {c} : api'[d] = api[d] BY DEF SysInv, CallInv
  <1>1. OneJobInv' BY DEF QuotaInv, OneJobInv, Present, EnqueueKey, FailedEvent
  <1>2. InHandInv' BY DEF QuotaInv, InHandInv, Owns, Token
  <1>3. StageInv' BY DEF QuotaInv, StageInv, Refusing, ShouldRetry, Open, EnqueueKey
  <1>4. RequestInv'
    <2> SUFFICES ASSUME NEW d \in Callers
                 PROVE  /\ api'[d].pc \in {"ready"} \cup Submitting \cup Cancelling
                        /\ api'[d].pc \in Submitting => api'[d].key = RequestKey(api'[d].req)
                        /\ api'[d].pc = "creating" => HasRow(usage, "RESERVE", api'[d].key)
                        /\ api'[d].pc = "raced" => HasJob(api'[d].req)
                        /\ api'[d].pc \in Cancelling =>
                             /\ api'[d].job \in Jobs /\ jobs[api'[d].job].status = "CANCELLED"
                             /\ Open(EnqueueKey(api'[d].job))
                             /\ \A e \in Callers \ {d} : api'[e].pc \in Cancelling => api'[e].job # api'[d].job
                        /\ api'[d].pc = "releasing" => api'[d].key = EnqueueKey(api'[d].job)
      BY DEF RequestInv, Open, EnqueueKey, RequestKey, HasJob, Present
    <2>1. \A e \in Callers : api'[e].pc \in Cancelling => api[e].pc \in Cancelling /\ api'[e].job = api[e].job
      BY <1>a
    <2>2. CASE d = c BY <1>a, <2>1, <2>2 DEF QuotaInv, RequestInv
    <2>3. CASE d # c BY <1>a, <2>1, <2>3 DEF QuotaInv, RequestInv
    <2> QED BY <2>2, <2>3
  <1>5. KeysInv'
    <2>1. ASSUME NEW k \in QuotaKeys, Open(k) PROVE Wanted(k)'
      <3>1. CASE \E j \in Jobs : Live(j) /\ k = EnqueueKey(j) BY <3>1 DEF Wanted, Live, EnqueueKey
      <3>2. CASE \E d \in Callers : api[d].pc \in Cancelling /\ k = EnqueueKey(api[d].job)
        <4>1. PICK d \in Callers : api[d].pc \in Cancelling /\ k = EnqueueKey(api[d].job) BY <3>2
        <4>2. api'[d].pc \in Cancelling /\ api'[d].job = api[d].job BY <4>1, <1>a
        <4> QED BY <4>1, <4>2 DEF Wanted, EnqueueKey
      <3>3. CASE \E d \in Callers : api[d].pc = "creating" /\ k = api[d].key /\ ~HasJob(api[d].req)
        <4>1. PICK d \in Callers : api[d].pc = "creating" /\ k = api[d].key /\ ~HasJob(api[d].req) BY <3>3
        <4>2. api'[d] = api[d] BY <4>1, <1>a
        <4> QED BY <4>1, <4>2 DEF Wanted, HasJob, Present
      <3> QED BY <2>1, <3>1, <3>2, <3>3 DEF QuotaInv, KeysInv, Wanted
    <2>2. QueuedJobHoldsQuota' BY DEF QuotaInv, KeysInv, QueuedJobHoldsQuota
    <2> QED BY <2>1, <2>2 DEF QuotaInv, KeysInv, Open, Present, QuotaKeys, EnqueueKey, RetryKey
  <1>6. BooksInv' BY DEF QuotaInv, BooksInv
  <1> QED BY <1>1, <1>2, <1>3, <1>4, <1>5, <1>6 DEF QuotaInv

(* A caller that answers has nothing left to do. *)
LEMMA CallerReturns ==
  ASSUME SysInv, QuotaInv, NEW c \in Callers, Return(c),
         UNCHANGED <<jobs, usage, outbox, wkr, sweep, drain>>,
         api[c].pc \notin Cancelling, api[c].pc = "creating" => HasJob(api[c].req)
  PROVE  QuotaInv'
  <1>1. Ready.pc = "ready" BY DEF Ready
  <1>2. api' = [api EXCEPT ![c] = Ready] BY DEF Return
  <1>3. "ready" \notin Submitting \cup Cancelling BY DEF Submitting, Cancelling
  <1> QED BY <1>1, <1>2, <1>3, CallerGoesOn DEF Submitting, Cancelling

(* The key of a request that has no job is not settled. *)
LEMMA NoJobNoSettlement ==
  ASSUME QuotaInv, NEW k \in QuotaKeys, NEW r, k = RequestKey(r), ~HasJob(r)
  PROVE  ~HasRow(usage, "COMMIT", k) /\ ~HasRow(usage, "RELEASE", k)
  BY KeysOfRequests DEF QuotaInv, KeysInv, HasJob

(* A caller reserves, and has yet to create the job. *)
LEMMA ReservingKeepsQuota ==
  ASSUME SysInv, QuotaInv, NEW c \in Callers, EnqueueReserve(c)
  PROVE  QuotaInv'
  <1> DEFINE k == api[c].key
             y == At_(api[c], "creating")
  <1>c. api[c].pc = "reserving" BY DEF EnqueueReserve, At
  <1>a. api[c] \in CallerStates /\ CallFits(api[c]) BY DEF SysInv, CallInv
  <1>k. k \in QuotaKeys /\ k = RequestKey(api[c].req)
    BY <1>a, <1>c DEF CallFits, WithKey, QuotaInv, RequestInv, Submitting
  <1>u. UNCHANGED <<jobs, outbox, wkr, sweep, drain>> BY DEF EnqueueReserve, apiUnchanged
  <1>n. "reserving" \notin Cancelling BY DEF Cancelling
  <1>y. /\ y.pc = "creating" /\ y.job = api[c].job /\ y.req = api[c].req /\ y.key = k
    BY <1>a, NextPlace DEF CallerPcs
  <1>1. CASE usage' = usage /\ Return(c)
    BY <1>1, <1>u, <1>c, <1>n, CallerReturns
  <1>2. CASE usage' = Reserved(usage, Month, k, 1) /\ Step(c, "creating")
    <2>1. api' = [api EXCEPT ![c] = y] BY <1>2 DEF Step, At_
    <2> HIDE DEF y, k
    <2>2. CASE HasRow(usage, "RESERVE", k)
      <3>1. usage' = usage BY <1>2, <2>2 DEF Reserved
      <3>2. y.pc \in Submitting /\ y.pc \notin Cancelling BY <1>y DEF Submitting, Cancelling
      <3> QED BY <1>c, <1>k, <1>u, <1>n, <1>y, <2>1, <2>2, <3>1, <3>2, CallerGoesOn
    <2>3. CASE ~HasRow(usage, "RESERVE", k)
      <3>1. ~HasJob(api[c].req)
        <4> SUFFICES ASSUME NEW j \in Jobs, Present(j), RequestOf[j] = api[c].req PROVE FALSE BY DEF HasJob
        <4>1. EnqueueKey(j) = k BY <1>k, KeysOfRequests
        <4> QED BY <4>1, <2>3 DEF QuotaInv, KeysInv
      <3>2. ~HasRow(usage, "COMMIT", k) /\ ~HasRow(usage, "RELEASE", k)
        BY <1>k, <3>1, NoJobNoSettlement
      <3>3. usage \in UsageType /\ BooksInv BY DEF SysInv, QueueInv, IInv, TypeOK, QuotaInv
      <3>4. /\ BooksInv'
            /\ \A o, x : HasRow(usage', o, x) <=> HasRow(usage, o, x) \/ (o = "RESERVE" /\ x = k)
        BY <1>2, <1>k, <2>3, <3>2, <3>3, BooksReserved DEF k
      <3>5. \A x : Open(x)' <=> Open(x) \/ x = k
        BY <3>2, <3>4 DEF Open, OpenReservation
      <3>6. api'[c] = y /\ \A d \in Callers \ {c} : api'[d] = api[d] BY <2>1 DEF SysInv, CallInv
      <3>7. OneJobInv' BY <1>u DEF QuotaInv, OneJobInv, Present, EnqueueKey, FailedEvent
      <3>8. InHandInv' BY <1>u DEF QuotaInv, InHandInv, Owns, Token
      <3>9. StageInv'
        <4>1. \A w \in Workers : Refusing(w)' <=> Refusing(w) BY <1>u DEF Refusing, ShouldRetry
        <4>2. \A w \in Workers : ShouldRetry(w)' <=> ShouldRetry(w) BY <1>u DEF ShouldRetry
        <4> QED BY <1>u, <3>4, <3>5, <4>1, <4>2 DEF QuotaInv, StageInv, EnqueueKey
      <3>10. RequestInv'
        <4>1. \A r : HasJob(r)' <=> HasJob(r) BY <1>u DEF HasJob, Present
        <4>2. HasRow(usage', "RESERVE", k) BY <3>4
        <4>3. "creating" \in Submitting /\ "creating" \notin Cancelling BY DEF Submitting, Cancelling
        <4> SUFFICES ASSUME NEW d \in Callers
                     PROVE  /\ api'[d].pc \in {"ready"} \cup Submitting \cup Cancelling
                            /\ api'[d].pc \in Submitting => api'[d].key = RequestKey(api'[d].req)
                            /\ api'[d].pc = "creating" => HasRow(usage', "RESERVE", api'[d].key)
                            /\ api'[d].pc = "raced" => HasJob(api'[d].req)
                            /\ api'[d].pc \in Cancelling =>
                                 /\ api'[d].job \in Jobs /\ jobs[api'[d].job].status = "CANCELLED"
                                 /\ \E z : z = api'[d].job /\ Open(EnqueueKey(z))'
                                 /\ \A e \in Callers \ {d} : api'[e].pc \in Cancelling => api'[e].job # api'[d].job
                            /\ api'[d].pc = "releasing" => api'[d].key = EnqueueKey(api'[d].job)
          BY <1>u, <4>1 DEF RequestInv, EnqueueKey, RequestKey
        <4>4. CASE d = c BY <1>k, <1>y, <3>6, <4>2, <4>3, <4>4
        <4>5. CASE d # c
          BY <1>y, <3>4, <3>5, <3>6, <4>3, <4>5 DEF QuotaInv, RequestInv, EnqueueKey
        <4> QED BY <4>4, <4>5
      <3>11. KeysInv'
        <4>1. ASSUME NEW x \in QuotaKeys, Open(x)' PROVE Wanted(x)'
          <5>1. CASE x = k
            <6>1. api'[c].pc = "creating" /\ x = api'[c].key /\ ~HasJob(api[c].req)'
              BY <1>u, <1>y, <3>1, <3>6, <5>1 DEF HasJob, Present
            <6> QED BY <6>1 DEF Wanted
          <5>2. CASE x # k
            <6>1. Wanted(x) BY <3>5, <4>1, <5>2 DEF QuotaInv, KeysInv
            <6>2. CASE \E j \in Jobs : Live(j) /\ x = EnqueueKey(j)
              BY <1>u, <6>2 DEF Wanted, Live, EnqueueKey
            <6>3. CASE \E d \in Callers : api[d].pc \in Cancelling /\ x = EnqueueKey(api[d].job)
              <7>1. PICK d \in Callers : api[d].pc \in Cancelling /\ x = EnqueueKey(api[d].job) BY <6>3
              <7>2. api'[d] = api[d] BY <7>1, <1>c, <1>n, <3>6
              <7> QED BY <7>1, <7>2 DEF Wanted, EnqueueKey
            <6>4. CASE \E d \in Callers : api[d].pc = "creating" /\ x = api[d].key /\ ~HasJob(api[d].req)
              <7>1. PICK d \in Callers : api[d].pc = "creating" /\ x = api[d].key /\ ~HasJob(api[d].req) BY <6>4
              <7>2. api'[d] = api[d] BY <7>1, <1>c, <3>6
              <7> QED BY <1>u, <7>1, <7>2 DEF Wanted, HasJob, Present
            <6> QED BY <6>1, <6>2, <6>3, <6>4 DEF Wanted
          <5> QED BY <5>1, <5>2
        <4>2. QueuedJobHoldsQuota'
          BY <1>u, <3>5 DEF QuotaInv, KeysInv, QueuedJobHoldsQuota, Open
        <4> QED BY <1>u, <3>4, <4>1, <4>2 DEF QuotaInv, KeysInv, Present, QuotaKeys, EnqueueKey, RetryKey
      <3> QED BY <3>4, <3>7, <3>8, <3>9, <3>10, <3>11 DEF QuotaInv
    <2> QED BY <2>2, <2>3
  <1> QED BY <1>1, <1>2 DEF EnqueueReserve

(* A caller creates the job it has reserved for. *)
LEMMA CreatingKeepsQuota ==
  ASSUME SysInv, QuotaInv, NEW c \in Callers, NEW i \in Jobs, EnqueueCreate(c, i)
  PROVE  QuotaInv'
  <1> DEFINE k == EnqueueKey(i)
  <1>c. /\ api[c].pc = "creating" /\ ~HasJob(api[c].req) /\ RequestOf[i] = api[c].req
        /\ jobs[i].status = "none" /\ jobs' = [jobs EXCEPT ![i] = NewRow(i)]
        /\ api' = [api EXCEPT ![c] = Ready]
        /\ UNCHANGED <<usage, outbox, wkr, sweep, drain>>
    BY DEF EnqueueCreate, At, Return, apiUnchanged
  <1>t. jobs \in [Jobs -> Row_] BY DEF SysInv, QueueInv, IInv, TypeOK
  <1>r. NewRow(i).status = "QUEUED" /\ NewRow(i).key = k BY DEF NewRow, NoRow
  <1>J. /\ jobs'[i].status = "QUEUED" /\ jobs'[i].key = k
        /\ \A j \in Jobs \ {i} : jobs'[j] = jobs[j]
    BY <1>c, <1>t, <1>r
  <1>k. k \in QuotaKeys /\ k = RequestKey(api[c].req) /\ k = api[c].key
    BY <1>c, KeysOfRequests DEF QuotaInv, RequestInv, Submitting
  <1>a. api'[c].pc = "ready" /\ \A d \in Callers \ {c} : api'[d] = api[d]
    BY <1>c DEF SysInv, CallInv, Ready
  <1>o. Open(k)
    BY <1>c, <1>k, NoJobNoSettlement DEF QuotaInv, RequestInv, Open, OpenReservation
  <1> HIDE DEF k
  <1>p. /\ \A j \in Jobs : Present(j)' <=> Present(j) \/ j = i
        /\ \A j \in Jobs : Live(j)' <=> Live(j) \/ j = i
    BY <1>c, <1>J DEF Present, Live
  <1>h. \A x : HasJob(x)' <=> HasJob(x) \/ x = RequestOf[i] BY <1>p DEF HasJob
  <1>d. \A j \in Jobs : Present(j) => RequestOf[j] # RequestOf[i] BY <1>c DEF HasJob
  <1>1. OneJobInv'
    <2>1. \A j, l \in Jobs : (Present(j)' /\ Present(l)' /\ RequestOf[j] = RequestOf[l]) => j = l
      BY <1>p, <1>d DEF QuotaInv, OneJobInv
    <2>2. \A j \in Jobs : jobs'[j].status # "DELETED" /\ jobs'[j].key = EnqueueKey(j)
      BY <1>J DEF QuotaInv, OneJobInv, k
    <2>3. \A j \in Jobs : FailedEvent(j) \in outbox => jobs'[j].status = "FAILED"
      BY <1>c, <1>J DEF QuotaInv, OneJobInv
    <2> QED BY <1>c, <2>1, <2>2, <2>3 DEF OneJobInv, EnqueueKey, FailedEvent
  <1>2. InHandInv'
    <2>1. ASSUME NEW v \in Workers, wkr[v].pc \in Holding PROVE Owns(v)'
      <3>1. Owns(v) /\ wkr[v].job \in Jobs /\ wkr[v].job # i BY <1>c, <2>1, HandOfQuota
      <3> QED BY <1>c, <1>J, <3>1 DEF Owns, Token
    <2>2. \A j \in Jobs : jobs'[j].status = "PROCESSING" =>
            jobs'[j].lease = "live" /\ \E w \in Workers : wkr[w].pc \in Holding /\ wkr[w].job = j
      BY <1>J DEF QuotaInv, InHandInv
    <2> QED BY <1>c, <2>1, <2>2 DEF QuotaInv, InHandInv
  <1>3. StageInv' BY <1>c DEF QuotaInv, StageInv, Refusing, ShouldRetry, Open, EnqueueKey
  <1>4. RequestInv'
    <2>1. \A d \in Callers : api[d].pc \in Cancelling => api[d].job \in Jobs \ {i}
      BY <1>c DEF QuotaInv, RequestInv
    <2>2. "ready" \notin Submitting \cup Cancelling BY DEF Submitting, Cancelling
    <2> SUFFICES ASSUME NEW d \in Callers
                 PROVE  /\ api'[d].pc \in {"ready"} \cup Submitting \cup Cancelling
                        /\ api'[d].pc \in Submitting => api'[d].key = RequestKey(api'[d].req)
                        /\ api'[d].pc = "creating" => HasRow(usage, "RESERVE", api'[d].key)
                        /\ api'[d].pc = "raced" => HasJob(api[d].req)'
                        /\ api'[d].pc \in Cancelling =>
                             /\ api'[d].job \in Jobs /\ jobs'[api'[d].job].status = "CANCELLED"
                             /\ Open(EnqueueKey(api'[d].job))
                             /\ \A e \in Callers \ {d} : api'[e].pc \in Cancelling => api'[e].job # api'[d].job
                        /\ api'[d].pc = "releasing" => api'[d].key = EnqueueKey(api'[d].job)
      BY <1>c DEF RequestInv, EnqueueKey, RequestKey, Open, HasJob
    <2>3. CASE d = c BY <1>a, <2>2, <2>3
    <2>4. CASE d # c
      <3>1. api'[d] = api[d] /\ (HasJob(api[d].req) => HasJob(api[d].req)')
        BY <1>a, <1>h, <2>4 DEF HasJob
      <3>2. \A e \in Callers : api'[e].pc \in Cancelling => api'[e] = api[e] BY <1>a, <2>2
      <3> QED BY <1>J, <2>1, <3>1, <3>2, <1>h DEF QuotaInv, RequestInv
    <2> QED BY <2>3, <2>4
  <1>5. KeysInv'
    <2>1. ASSUME NEW x \in QuotaKeys, Open(x) PROVE Wanted(x)'
      <3>1. CASE x = k
        <4>1. Live(i)' /\ x = EnqueueKey(i) BY <1>p, <3>1 DEF k
        <4> QED BY <4>1 DEF Wanted, EnqueueKey
      <3>2. CASE \E j \in Jobs : Live(j) /\ x = EnqueueKey(j)
        <4>1. PICK j \in Jobs : Live(j) /\ x = EnqueueKey(j) BY <3>2
        <4>2. Live(j)' BY <4>1, <1>p
        <4> QED BY <4>1, <4>2 DEF Wanted, EnqueueKey
      <3>3. CASE \E d \in Callers : api[d].pc \in Cancelling /\ x = EnqueueKey(api[d].job)
        <4>1. PICK d \in Callers : api[d].pc \in Cancelling /\ x = EnqueueKey(api[d].job) BY <3>3
        <4>2. api'[d] = api[d] BY <4>1, <1>a, <1>c DEF Cancelling
        <4> QED BY <4>1, <4>2 DEF Wanted, EnqueueKey
      <3>4. CASE x # k /\ \E d \in Callers : api[d].pc = "creating" /\ x = api[d].key /\ ~HasJob(api[d].req)
        <4>1. PICK d \in Callers : api[d].pc = "creating" /\ x = api[d].key /\ ~HasJob(api[d].req) BY <3>4
        <4>2. api'[d] = api[d] BY <4>1, <3>4, <1>a, <1>k
        <4>3. x = RequestKey(api[d].req) BY <4>1 DEF QuotaInv, RequestInv, Submitting
        <4>4. api[d].req # RequestOf[i] BY <4>3, <3>4, <1>k, <1>c
        <4>5. ~HasJob(api[d].req)' BY <4>1, <4>4, <4>2, <1>h
        <4> QED BY <4>1, <4>2, <4>5 DEF Wanted
      <3> QED BY <2>1, <3>1, <3>2, <3>3, <3>4 DEF QuotaInv, KeysInv, Wanted
    <2>2. QueuedJobHoldsQuota'
      BY <1>c, <1>J, <1>o DEF QuotaInv, KeysInv, QueuedJobHoldsQuota, Open
    <2>3. \A j \in Jobs : Present(j)' => HasRow(usage, "RESERVE", EnqueueKey(j))
      BY <1>p, <1>o DEF QuotaInv, KeysInv, Open, OpenReservation, k
    <2>4. \A x \in QuotaKeys : (HasRow(usage, "COMMIT", x) \/ HasRow(usage, "RELEASE", x)) =>
            HasRow(usage, "RESERVE", x) /\ \E j \in Jobs : Present(j)' /\ x = EnqueueKey(j)
      BY <1>p DEF QuotaInv, KeysInv
    <2> QED BY <1>c, <2>1, <2>2, <2>3, <2>4 DEF KeysInv, Open, QuotaKeys, EnqueueKey, RetryKey
  <1>6. BooksInv' BY <1>c DEF QuotaInv, BooksInv
  <1> QED BY <1>1, <1>2, <1>3, <1>4, <1>5, <1>6 DEF QuotaInv

(* A caller cancels a queued job, and is the one to give its quota back. *)
LEMMA CancellingKeepsQuota ==
  ASSUME SysInv, QuotaInv, NEW c \in Callers, NEW i \in Jobs, Cancel(c, i)
  PROVE  QuotaInv'
  <1> DEFINE y == [Ready EXCEPT !.pc = "cancelled", !.job = i]
  <1>c. /\ api[c].pc = "ready" /\ jobs[i].status = "QUEUED"
        /\ jobs' = [jobs EXCEPT ![i] = CancelledRow(jobs[i])] /\ api' = [api EXCEPT ![c] = y]
        /\ UNCHANGED <<usage, outbox, wkr, sweep, drain>>
    BY DEF Cancel, At, CancelledRow, apiUnchanged
  <1>y. y.pc = "cancelled" /\ y.job = i BY DEF Ready
  <1> HIDE DEF y
  <1>J. /\ jobs'[i].status = "CANCELLED" /\ jobs'[i].key = jobs[i].key
        /\ \A j \in Jobs \ {i} : jobs'[j] = jobs[j]
    <2>1. jobs \in [Jobs -> Row_] /\ jobs[i] \in Row_ BY DEF SysInv, QueueInv, IInv, TypeOK
    <2>2. CancelledRow(jobs[i]).status = "CANCELLED" /\ CancelledRow(jobs[i]).key = jobs[i].key
      BY <2>1 DEF CancelledRow, Unlocked, Row_
    <2> QED BY <1>c, <2>1, <2>2
  <1>a. api'[c] = y /\ \A d \in Callers \ {c} : api'[d] = api[d] BY <1>c DEF SysInv, CallInv
  <1>o. Open(EnqueueKey(i)) BY <1>c DEF QuotaInv, KeysInv, QueuedJobHoldsQuota, OneJobInv, Open
  <1>p. \A j \in Jobs : Present(j)' <=> Present(j) BY <1>c, <1>J DEF Present
  <1>h. \A x : HasJob(x)' <=> HasJob(x) BY <1>p DEF HasJob
  <1>n. "ready" \notin Cancelling /\ "cancelled" \in Cancelling /\ "cancelled" \notin Submitting
    BY DEF Submitting, Cancelling
  <1>1. OneJobInv'
    <2>1. \A j \in Jobs : jobs'[j].status # "DELETED" /\ jobs'[j].key = EnqueueKey(j)
      BY <1>J DEF QuotaInv, OneJobInv
    <2>2. \A j \in Jobs : FailedEvent(j) \in outbox => jobs'[j].status = "FAILED"
      BY <1>c, <1>J DEF QuotaInv, OneJobInv
    <2> QED BY <1>c, <1>p, <2>1, <2>2 DEF QuotaInv, OneJobInv, EnqueueKey, FailedEvent
  <1>2. InHandInv'
    <2>1. ASSUME NEW v \in Workers, wkr[v].pc \in Holding PROVE Owns(v)'
      <3>1. Owns(v) /\ wkr[v].job \in Jobs /\ wkr[v].job # i BY <1>c, <2>1, HandOfQuota
      <3> QED BY <1>c, <1>J, <3>1 DEF Owns, Token
    <2>2. \A j \in Jobs : jobs'[j].status = "PROCESSING" =>
            jobs'[j].lease = "live" /\ \E w \in Workers : wkr[w].pc \in Holding /\ wkr[w].job = j
      BY <1>J DEF QuotaInv, InHandInv
    <2> QED BY <1>c, <2>1, <2>2 DEF QuotaInv, InHandInv
  <1>3. StageInv' BY <1>c DEF QuotaInv, StageInv, Refusing, ShouldRetry, Open, EnqueueKey
  <1>4. RequestInv'
    <2>1. \A d \in Callers : api[d].pc \in Cancelling => api[d].job \in Jobs \ {i}
      BY <1>c DEF QuotaInv, RequestInv
    <2> SUFFICES ASSUME NEW d \in Callers
                 PROVE  /\ api'[d].pc \in {"ready"} \cup Submitting \cup Cancelling
                        /\ api'[d].pc \in Submitting => api'[d].key = RequestKey(api'[d].req)
                        /\ api'[d].pc = "creating" => HasRow(usage, "RESERVE", api'[d].key)
                        /\ api'[d].pc = "raced" => HasJob(api'[d].req)
                        /\ api'[d].pc \in Cancelling =>
                             /\ api'[d].job \in Jobs /\ jobs'[api'[d].job].status = "CANCELLED"
                             /\ Open(EnqueueKey(api'[d].job))
                             /\ \A e \in Callers \ {d} : api'[e].pc \in Cancelling => api'[e].job # api'[d].job
                        /\ api'[d].pc = "releasing" => api'[d].key = EnqueueKey(api'[d].job)
      BY <1>c, <1>h DEF RequestInv, EnqueueKey, RequestKey, Open
    <2>3. CASE d = c BY <1>J, <1>a, <1>y, <1>o, <1>n, <2>1, <2>3
    <2>4. CASE d # c
      <3>1. api'[d] = api[d] /\ api'[c].job = i BY <1>a, <1>y, <2>4
      <3>2. \A e \in Callers : e # c => api'[e] = api[e] BY <1>a
      <3>3. api[d].pc \in Cancelling =>
               \A e \in Callers \ {d} : api'[e].pc \in Cancelling => api'[e].job # api'[d].job
        BY <2>1, <3>1, <3>2 DEF QuotaInv, RequestInv
      <3> QED BY <1>J, <2>1, <3>1, <3>3 DEF QuotaInv, RequestInv
    <2> QED BY <2>3, <2>4
  <1>5. KeysInv'
    <2>1. ASSUME NEW x \in QuotaKeys, Open(x) PROVE Wanted(x)'
      <3>1. CASE x = EnqueueKey(i)
        <4>1. api'[c].pc \in Cancelling /\ x = EnqueueKey(api'[c].job) BY <1>a, <1>y, <1>n, <3>1
        <4> QED BY <4>1 DEF Wanted, EnqueueKey
      <3>2. CASE x # EnqueueKey(i) /\ \E j \in Jobs : Live(j) /\ x = EnqueueKey(j)
        <4>1. PICK j \in Jobs : Live(j) /\ x = EnqueueKey(j) BY <3>2
        <4>2. Live(j)' BY <4>1, <3>2, <1>J DEF Live
        <4> QED BY <4>1, <4>2 DEF Wanted, EnqueueKey
      <3>3. CASE \E d \in Callers : api[d].pc \in Cancelling /\ x = EnqueueKey(api[d].job)
        <4>1. PICK d \in Callers : api[d].pc \in Cancelling /\ x = EnqueueKey(api[d].job) BY <3>3
        <4>2. api'[d] = api[d] BY <4>1, <1>a, <1>c, <1>n
        <4> QED BY <4>1, <4>2 DEF Wanted, EnqueueKey
      <3>4. CASE \E d \in Callers : api[d].pc = "creating" /\ x = api[d].key /\ ~HasJob(api[d].req)
        <4>1. PICK d \in Callers : api[d].pc = "creating" /\ x = api[d].key /\ ~HasJob(api[d].req) BY <3>4
        <4>2. api'[d] = api[d] BY <4>1, <1>a, <1>c
        <4> QED BY <4>1, <4>2, <1>h DEF Wanted
      <3> QED BY <2>1, <3>1, <3>2, <3>3, <3>4 DEF QuotaInv, KeysInv, Wanted
    <2>2. QueuedJobHoldsQuota'
      BY <1>c, <1>J DEF QuotaInv, KeysInv, QueuedJobHoldsQuota
    <2> QED BY <1>c, <1>p, <2>1, <2>2 DEF QuotaInv, KeysInv, Open, QuotaKeys, EnqueueKey, RetryKey
  <1>6. BooksInv' BY <1>c DEF QuotaInv, BooksInv
  <1> QED BY <1>1, <1>2, <1>3, <1>4, <1>5, <1>6 DEF QuotaInv

(* A caller gives back the quota of the job it has cancelled. *)
LEMMA ReleasingKeepsQuota ==
  ASSUME SysInv, QuotaInv, NEW c \in Callers, ReleaseKey(c)
  PROVE  QuotaInv'
  <1> DEFINE i == api[c].job
             k == EnqueueKey(i)
  <1>c. /\ api[c].pc = "releasing" /\ api' = [api EXCEPT ![c] = Ready]
        /\ UNCHANGED <<jobs, outbox, wkr, sweep, drain>>
    BY DEF ReleaseKey, At, Return, apiUnchanged
  <1>n. "releasing" \in Cancelling /\ "ready" \notin Submitting \cup Cancelling
    BY DEF Submitting, Cancelling
  <1>i. i \in Jobs /\ jobs[i].status = "CANCELLED" /\ Open(k) /\ api[c].key = k /\ k \in QuotaKeys
    BY <1>c, <1>n, KeysOfRequests DEF QuotaInv, RequestInv
  <1>u. CanSettle(usage, "RELEASE", k)
    BY <1>i, SettleOpen DEF SysInv, QueueInv, IInv, TypeOK, QuotaInv, Settlements
  <1>s. Settles("RELEASE", k) /\ BooksInv'
    BY <1>i, <1>u, SettleEffect DEF ReleaseKey, Settlements
  <1>a. api'[c].pc = "ready" /\ \A d \in Callers \ {c} : api'[d] = api[d]
    BY <1>c DEF SysInv, CallInv, Ready
  <1>x. ASSUME NEW j \in Jobs, Present(j), j # i PROVE EnqueueKey(j) # k
    BY <1>i, <1>x, KeysApart DEF Present
  <1> HIDE DEF i, k
  <1>d. ASSUME NEW d \in Callers, d # c, api[d].pc \in Cancelling
        PROVE  api'[d] = api[d] /\ api[d].job \in Jobs /\ EnqueueKey(api[d].job) # k
    <2>1. api[d].job \in Jobs /\ Present(api[d].job) BY <1>d DEF QuotaInv, RequestInv, Present
    <2>2. api[d].job # i BY <1>d, <1>c, <1>n DEF QuotaInv, RequestInv, i
    <2> QED BY <1>d, <1>a, <2>1, <2>2, <1>x
  <1>1. OneJobInv' BY <1>c DEF QuotaInv, OneJobInv, Present, EnqueueKey, FailedEvent
  <1>2. InHandInv' BY <1>c DEF QuotaInv, InHandInv, Owns, Token
  <1>3. StageInv'
    <2> SUFFICES ASSUME NEW v \in Workers
                 PROVE  /\ wkr[v].pc = "releasing" => ~ShouldRetry(v)
                        /\ Refusing(v) => HasRow(usage', "RELEASE", EnqueueKey(wkr[v].job))
                        /\ (wkr[v].pc \in Holding \ {"finishing"} /\ ~Refusing(v)) => Open(EnqueueKey(wkr[v].job))'
      BY <1>c DEF StageInv, EnqueueKey, Refusing, ShouldRetry
    <2>1. wkr[v].pc \in Holding => EnqueueKey(wkr[v].job) # k
      <3> SUFFICES ASSUME wkr[v].pc \in Holding PROVE EnqueueKey(wkr[v].job) # k OBVIOUS
      <3>1. wkr[v].job \in Jobs /\ Present(wkr[v].job) /\ wkr[v].job # i BY <1>i, HandOfQuota
      <3> QED BY <3>1, <1>x
    <2>2. (wkr[v].pc \in Holding \ {"finishing"} /\ ~Refusing(v)) => Open(EnqueueKey(wkr[v].job))'
      <3>1. (wkr[v].pc \in Holding \ {"finishing"} /\ ~Refusing(v)) => Open(EnqueueKey(wkr[v].job))
        BY DEF QuotaInv, StageInv
      <3> QED BY <3>1, <2>1, <1>s, <1>c DEF Settles, EnqueueKey
    <2>3. Refusing(v) => HasRow(usage', "RELEASE", EnqueueKey(wkr[v].job))
      BY <1>s DEF QuotaInv, StageInv, Settles
    <2> QED BY <2>2, <2>3 DEF QuotaInv, StageInv
  <1>4. RequestInv'
    <2>1. \A x : HasRow(usage, "RESERVE", x) => HasRow(usage', "RESERVE", x) BY <1>s DEF Settles
    <2>2. \A r : HasJob(r)' <=> HasJob(r) BY <1>c DEF HasJob, Present
    <2>3. ASSUME NEW d \in Callers, api'[d].pc \in Cancelling
          PROVE  d # c /\ api'[d] = api[d] /\ Open(EnqueueKey(api[d].job))'
      <3>1. d # c /\ api'[d] = api[d] BY <1>a, <1>n, <2>3
      <3>2. Open(EnqueueKey(api[d].job)) BY <2>3, <3>1 DEF QuotaInv, RequestInv
      <3>3. EnqueueKey(api[d].job) # k BY <1>d, <2>3, <3>1
      <3> QED BY <3>1, <3>2, <3>3, <1>s DEF Settles, EnqueueKey
    <2> SUFFICES ASSUME NEW d \in Callers
                 PROVE  /\ api'[d].pc \in {"ready"} \cup Submitting \cup Cancelling
                        /\ api'[d].pc \in Submitting => api'[d].key = RequestKey(api'[d].req)
                        /\ api'[d].pc = "creating" => HasRow(usage', "RESERVE", api'[d].key)
                        /\ api'[d].pc = "raced" => HasJob(api'[d].req)
                        /\ api'[d].pc \in Cancelling =>
                             /\ api'[d].job \in Jobs /\ jobs[api'[d].job].status = "CANCELLED"
                             /\ \A e \in Callers \ {d} : api'[e].pc \in Cancelling => api'[e].job # api'[d].job
                        /\ api'[d].pc = "releasing" => api'[d].key = EnqueueKey(api'[d].job)
      BY <1>c, <2>2, <2>3 DEF RequestInv, EnqueueKey, RequestKey
    <2>4. CASE d = c BY <1>a, <1>n, <2>4
    <2>5. CASE d # c BY <1>a, <2>1, <2>3, <2>5 DEF QuotaInv, RequestInv
    <2> QED BY <2>4, <2>5
  <1>5. KeysInv'
    <2>1. ASSUME NEW x \in QuotaKeys, Open(x)' PROVE Wanted(x)'
      <3>0. Open(x) /\ x # k BY <1>s, <2>1 DEF Settles
      <3>2. CASE \E j \in Jobs : Live(j) /\ x = EnqueueKey(j)
        BY <1>c, <3>2 DEF Wanted, Live, EnqueueKey
      <3>3. CASE \E d \in Callers : api[d].pc \in Cancelling /\ x = EnqueueKey(api[d].job)
        <4>1. PICK d \in Callers : api[d].pc \in Cancelling /\ x = EnqueueKey(api[d].job) BY <3>3
        <4>2. api'[d] = api[d] BY <4>1, <3>0, <1>a DEF k, i
        <4> QED BY <4>1, <4>2 DEF Wanted, EnqueueKey
      <3>4. CASE \E d \in Callers : api[d].pc = "creating" /\ x = api[d].key /\ ~HasJob(api[d].req)
        <4>1. PICK d \in Callers : api[d].pc = "creating" /\ x = api[d].key /\ ~HasJob(api[d].req) BY <3>4
        <4>2. api'[d] = api[d] BY <4>1, <1>a, <1>c
        <4> QED BY <1>c, <4>1, <4>2 DEF Wanted, HasJob, Present
      <3> QED BY <3>0, <3>2, <3>3, <3>4 DEF QuotaInv, KeysInv, Wanted
    <2>2. QueuedJobHoldsQuota'
      <3> SUFFICES ASSUME NEW j \in Jobs, jobs[j].status = "QUEUED" PROVE Open(jobs[j].key)'
        BY <1>c DEF QueuedJobHoldsQuota, Open
      <3>1. Open(jobs[j].key) /\ jobs[j].key = EnqueueKey(j)
        BY DEF QuotaInv, KeysInv, QueuedJobHoldsQuota, Open, OneJobInv
      <3>2. jobs[j].key # k BY <1>i, <1>x, <3>1 DEF Present
      <3> QED BY <1>s, <1>c, <3>1, <3>2 DEF Settles
    <2>3. \A x \in QuotaKeys : (HasRow(usage', "COMMIT", x) \/ HasRow(usage', "RELEASE", x)) =>
            HasRow(usage', "RESERVE", x) /\ \E j \in Jobs : Present(j) /\ x = EnqueueKey(j)
      <3>1. HasRow(usage, "RESERVE", k) /\ \E j \in Jobs : Present(j) /\ k = EnqueueKey(j)
        BY <1>i DEF Open, OpenReservation, k, Present
      <3> QED BY <1>s, <3>1 DEF Settles, QuotaInv, KeysInv
    <2>4. \A j \in Jobs : Present(j) => HasRow(usage', "RESERVE", EnqueueKey(j))
      BY <1>s DEF Settles, QuotaInv, KeysInv
    <2> QED BY <1>c, <2>1, <2>2, <2>3, <2>4 DEF KeysInv, Present, EnqueueKey, QuotaKeys, RetryKey
  <1> QED BY <1>s, <1>1, <1>2, <1>3, <1>4, <1>5 DEF QuotaInv

(* The steps of the callers. *)
LEMMA CallersKeepQuota ==
  ASSUME Undisturbed, SysInv, QuotaInv, NEW c \in Callers, Begin(c) \/ Handle(c)
  PROVE  QuotaInv'
  <1>a. api[c] \in CallerStates /\ CallFits(api[c]) BY DEF SysInv, CallInv
  <1>r. api[c].pc \in {"ready"} \cup Submitting \cup Cancelling BY DEF QuotaInv, RequestInv
  <1>1. ASSUME NEW r \in Requests, EnqueueLookup(c, r) PROVE QuotaInv'
    <2> DEFINE y == [Ready EXCEPT !.pc = "reserving", !.req = r, !.key = <<"message-job", r, 0>>]
    <2>1. api' = [api EXCEPT ![c] = y] /\ api[c].pc = "ready"
          /\ UNCHANGED <<jobs, usage, outbox, wkr, sweep, drain>>
      BY <1>1 DEF EnqueueLookup, At, vars
    <2>2. y.pc = "reserving" /\ y.req = r /\ y.key = RequestKey(r) BY DEF Ready, RequestKey
    <2> HIDE DEF y
    <2>3. "reserving" \in Submitting /\ {"ready", "reserving"} \cap Cancelling = {}
      BY DEF Submitting, Cancelling
    <2> QED BY <2>1, <2>2, <2>3, CallerGoesOn
  <1>2. ASSUME EnqueueRaced(c) PROVE QuotaInv'
    <2> DEFINE y == At_(api[c], "raced")
    <2>1. /\ api' = [api EXCEPT ![c] = y] /\ api[c].pc = "creating" /\ HasJob(api[c].req)
          /\ UNCHANGED <<jobs, usage, outbox, wkr, sweep, drain>>
      BY <1>2 DEF EnqueueRaced, At, Step, At_, apiUnchanged
    <2>2. y.pc = "raced" /\ y.req = api[c].req /\ y.key = api[c].key
      BY <1>a, NextPlace DEF CallerPcs
    <2> HIDE DEF y
    <2>3. {"creating", "raced"} \subseteq Submitting /\ {"creating", "raced"} \cap Cancelling = {}
      BY DEF Submitting, Cancelling
    <2>4. api[c].key = RequestKey(api[c].req) BY <2>1, <2>3 DEF QuotaInv, RequestInv
    <2> QED BY <2>1, <2>2, <2>3, <2>4, CallerGoesOn
  <1>3. ASSUME EnqueueAfterRace(c) PROVE QuotaInv'
    <2>1. api[c].pc = "raced" /\ UNCHANGED <<jobs, usage, outbox, wkr, sweep, drain>>
      BY <1>3 DEF EnqueueAfterRace, At, apiUnchanged
    <2>2. Return(c) BY <1>3, <2>1 DEF EnqueueAfterRace, QuotaInv, RequestInv
    <2>3. "raced" \notin Cancelling BY DEF Cancelling
    <2> QED BY <2>1, <2>2, <2>3, CallerReturns
  <1>4. ASSUME CancelReread(c) PROVE QuotaInv'
    <2> DEFINE i == api[c].job
               y == [api[c] EXCEPT !.pc = "releasing", !.key = jobs[i].key]
    <2>1. api[c].pc = "cancelled" /\ UNCHANGED <<jobs, usage, outbox, wkr, sweep, drain>>
      BY <1>4 DEF CancelReread, At, apiUnchanged
    <2>2. {"cancelled", "releasing"} \subseteq Cancelling /\ "releasing" \notin Submitting
      BY DEF Cancelling, Submitting
    <2>3. i \in Jobs /\ jobs[i].status = "CANCELLED" BY <2>1, <2>2 DEF QuotaInv, RequestInv
    <2>4. Present(i) /\ jobs[i].key = EnqueueKey(i) BY <2>3 DEF Present, QuotaInv, OneJobInv
    <2>5. api' = [api EXCEPT ![c] = y] BY <1>4, <1>a, <2>4 DEF CancelReread, SysInv, CallInv
    <2>6. y.pc = "releasing" /\ y.job = api[c].job /\ y.key = EnqueueKey(api[c].job)
      BY <1>a, <2>4 DEF CallerStates
    <2> HIDE DEF y
    <2> QED BY <2>1, <2>2, <2>5, <2>6, CallerGoesOn
  <1>5. ASSUME NEW j \in Jobs, Delete(c, j) \/ RetryRead(c, j) PROVE FALSE
    BY <1>5 DEF Undisturbed, Delete, RetryRead
  <1>6. ASSUME EnqueueFails(c) PROVE FALSE BY <1>6 DEF Undisturbed, EnqueueFails
  <1>7. ASSUME RetryReserve(c) \/ RetryRequeue(c) \/ RetryLost(c) \/ RetryReread(c) PROVE FALSE
    BY <1>7, <1>r DEF RetryReserve, RetryRequeue, RetryLost, RetryReread, At, Submitting, Cancelling
  <1> QED BY <1>1, <1>2, <1>3, <1>4, <1>5, <1>6, <1>7, ReservingKeepsQuota, CreatingKeepsQuota,
             CancellingKeepsQuota, ReleasingKeepsQuota DEF Begin, Handle

(* Acknowledgements, and the recipients of a broadcast, have nothing to do with quota. *)
LEMMA QuotaStep ==
  ASSUME Undisturbed, SysInv, QuotaInv, [SysNext]_sysVars PROVE QuotaInv'
  <1>b. \A v \in Workers : NoBatch(sweep[v]) BY SweepsRest
  <1>1. ASSUME NEW h \in Handlers, Acknowledge(h) PROVE QuotaInv'
    <2>1. /\ UNCHANGED <<usage, wkr, sweep, drain, api>>
          /\ \A j \in Jobs : JobAlike(j)
          /\ \A j \in Jobs : FailedEvent(j) \in outbox' => FailedEvent(j) \in outbox
      <3>e. \A i, j \in Jobs, t \in {"SENT", "DELIVERED", "READ"} : FailedEvent(j) # StatusEvent(i, t)
        BY DEF FailedEvent, StatusEvent
      <3>1. ASSUME NEW j \in Jobs, NEW t \in AckTypes, AckArrives(h, j, t)
            PROVE  UNCHANGED <<jobs, outbox, usage, wkr, sweep, drain, api>>
        BY <3>1 DEF AckArrives, vars
      <3>2. CASE AckPublish(h)
        <4>1. ack[h].job \in Jobs /\ ack[h].type \in {"SENT", "DELIVERED", "READ"}
          BY <3>2 DEF AckPublish, SysInv, AckInv, AckFits, AckStates
        <4> QED BY <3>2, <3>e, <4>1 DEF AckPublish, JobAlike
      <3>3. CASE AckRecord(h)
        <4>1. UNCHANGED <<usage, wkr, sweep, drain, api>> BY <3>3, RecordEffect
        <4>2. ASSUME NEW i \in Jobs, NEW t \in {"DELIVERED", "READ"}, Acked(i, t)
              PROVE  /\ \A j \in Jobs : JobAlike(j)
                     /\ \A j \in Jobs : FailedEvent(j) \in outbox' => FailedEvent(j) \in outbox
          <5>1. /\ jobs[i].status \in SentStatuses /\ jobs' = [jobs EXCEPT ![i] = AckedRow(jobs[i], t)]
                /\ outbox' = outbox \cup {StatusEvent(i, t)}
            BY <4>2 DEF Acked, AckedRow
          <5>2. jobs \in [Jobs -> Row_] /\ jobs[i] \in Row_ /\ t \in SentStatuses
            BY DEF SysInv, QueueInv, IInv, TypeOK, SentStatuses
          <5>3. AckedRow(jobs[i], t).status = t /\ AckedRow(jobs[i], t).key = jobs[i].key
            BY <5>2, AckedRowType
          <5>4. \A j \in Jobs : JobAlike(j)
            <6> SUFFICES ASSUME NEW j \in Jobs PROVE JobAlike(j) OBVIOUS
            <6>1. CASE j = i BY <5>1, <5>2, <5>3, <6>1 DEF JobAlike, SentStatuses
            <6>2. CASE j # i BY <5>1, <5>2, <6>2 DEF JobAlike
            <6> QED BY <6>1, <6>2
          <5> QED BY <5>1, <5>4, <3>e
        <4> QED BY <3>3, <4>1, <4>2, RecordEffect DEF JobAlike
      <3> QED BY <1>1, <3>1, <3>2, <3>3 DEF Acknowledge, JobAlike
    <2> QED BY <2>1, <1>b, AlikeKeeps
  <1>2. ASSUME NEW j \in Jobs, LinkRecipient(j) PROVE QuotaInv'
    <2>1. UNCHANGED <<jobs, outbox, usage, wkr, sweep, drain, api>>
      BY <1>2 DEF LinkRecipient, apiUnchanged
    <2> QED BY <2>1, <1>b, AlikeKeeps DEF JobAlike
  <1>3. UNCHANGED sysVars => [WorkerNext]_vars /\ UNCHANGED api BY DEF sysVars
  <1> QED BY <1>1, <1>2, <1>3, WorkersKeepQuota, CallersKeepQuota DEF SysNext

(* Nothing has been reserved. *)
LEMMA QuotaBegins == ASSUME SysInit PROVE QuotaInv
  <1> USE DEF SysInit, InitTables, InitWorkers
  <1>1. \A j \in Jobs : jobs[j].status = "none" /\ jobs[j].key = EnqueueKey(j) BY DEF NoRow
  <1>2. \A o, k : ~HasRow(usage, o, k) BY DEF HasRow
  <1>3. OneJobInv BY <1>1 DEF OneJobInv, Present
  <1>4. InHandInv
    <2>1. \A w \in Workers : wkr[w].pc \notin Holding BY DEF Loop, Holding, Working
    <2> QED BY <1>1, <2>1 DEF InHandInv, Reaper
  <1>5. StageInv BY DEF StageInv, Refusing, Loop, Holding, Working
  <1>6. RequestInv
    <2>1. \A c \in Callers : api[c].pc = "ready" BY DEF Ready
    <2> QED BY <2>1 DEF RequestInv, Submitting, Cancelling
  <1>7. KeysInv
    BY <1>1, <1>2 DEF KeysInv, Open, OpenReservation, QueuedJobHoldsQuota, Present
  <1>8. BooksInv
    <2>1. OpenKeys(usage) = {} /\ PaidKeys(usage) = {} BY <1>2 DEF OpenKeys, PaidKeys, OpenReservation
    <2>2. IsFiniteSet({}) /\ Cardinality({}) = 0 BY FS_EmptySet
    <2>3. usage.reserved[Month] = 0 /\ usage.consumed[Month] = 0 BY <2>2
    <2> QED BY <2>1, <2>2, <2>3 DEF BooksInv
  <1> QED BY <1>3, <1>4, <1>5, <1>6, <1>7, <1>8 DEF QuotaInv

LEMMA QuotaInvariant == ASSUME Undisturbed PROVE SysSpec => [](SysInv /\ QuotaInv)
  <1>1. SysInit => SysInv /\ QuotaInv BY SystemBegins, QuotaBegins
  <1>2. SysInv /\ QuotaInv /\ [SysNext]_sysVars => (SysInv /\ QuotaInv)'
    BY SysStep, QuotaStep
  <1> QED BY <1>1, <1>2, PTL DEF SysSpec

(* Where nothing fails, a job that waits in the queue holds an open reservation of its
   own key, whatever callers and workers do at once: a caller that lost the race for a
   request, or cancels, never gives back the quota of a job that may still be sent. *)
THEOREM QueuedJobsHoldQuota == ASSUME Undisturbed PROVE SysSpec => []QueuedJobHoldsQuota
  <1>1. QuotaInv => QueuedJobHoldsQuota BY DEF QuotaInv, KeysInv
  <1> QED BY <1>1, QuotaInvariant, PTL

(* As many keys as jobs: the key of a job is the key of its request. *)
LEMMA KeysCountJobs ==
  ASSUME QuotaInv, NEW js \in SUBSET Jobs, \A j \in js : Present(j)
  PROVE  /\ IsFiniteSet(js) /\ IsFiniteSet({EnqueueKey(j) : j \in js})
         /\ Cardinality({EnqueueKey(j) : j \in js}) = Cardinality(js)
  <1> DEFINE ks == {EnqueueKey(j) : j \in js}
             f == [j \in js |-> EnqueueKey(j)]
  <1>1. IsFiniteSet(js) BY FinitenessAssumption, FS_Subset
  <1>2. f \in Bijection(js, ks)
    <2>1. f \in [js -> ks] OBVIOUS
    <2>2. \A i, j \in js : f[i] = f[j] => i = j
      <3> SUFFICES ASSUME NEW i \in js, NEW j \in js, f[i] = f[j] PROVE i = j OBVIOUS
      <3>1. EnqueueKey(i) = EnqueueKey(j) OBVIOUS
      <3> QED BY <3>1, KeysApart
    <2>3. \A k \in ks : \E j \in js : f[j] = k OBVIOUS
    <2> QED BY <2>1, <2>2, <2>3 DEF Bijection, Injection, Surjection, IsInjective
  <1> HIDE DEF f, ks
  <1>3. IsFiniteSet(ks) /\ Cardinality(ks) = Cardinality(js)
    BY <1>1, <1>2, FS_Bijection DEF ExistsBijection
  <1> QED BY <1>1, <1>3 DEF ks

(* Where nothing fails, the books balance whenever nobody is between two statements:
   the open reservations are those of the jobs that may still be sent, one each, and
   every message that was sent has consumed its own. *)
THEOREM BooksBalance == ASSUME Undisturbed PROVE SysSpec => []QuiescentBooks
  <1>1. ASSUME SysInv, QuotaInv, Quiescent PROVE QuiescentBooks
    <2> DEFINE live == {j \in Jobs : Live(j)}
               sent == {j \in Jobs : jobs[j].status \in SentStatuses}
               ks == {EnqueueKey(j) : j \in live}
               ps == {EnqueueKey(j) : j \in sent}
    <2>k. \A j \in Jobs : jobs[j].key = EnqueueKey(j) BY <1>1 DEF QuotaInv, OneJobInv
    <2>p. \A j \in live \cup sent : j \in Jobs /\ Present(j) BY DEF Live, Present, SentStatuses
    <2>1. \A j \in live : jobs[j].status = "QUEUED"
      <3>1. \A w \in Workers : wkr[w].pc \notin Holding
        BY <1>1 DEF Quiescent, Holding, Working, Gone
      <3>2. \A j \in Jobs : jobs[j].status # "PROCESSING" BY <1>1, <3>1 DEF QuotaInv, InHandInv
      <3> QED BY <3>2 DEF Live
    <2>2. OpenKeys(usage) = ks
      <3>1. ASSUME NEW k \in OpenKeys(usage) PROVE k \in ks
        <4>1. Open(k) /\ k \in QuotaKeys BY DEF OpenKeys, Open
        <4>2. Wanted(k) BY <1>1, <4>1 DEF QuotaInv, KeysInv
        <4>3. \A c \in Callers : api[c].pc \notin Cancelling \cup {"creating"}
          BY <1>1 DEF Quiescent, At, Cancelling
        <4> QED BY <4>2, <4>3 DEF Wanted
      <3>2. ASSUME NEW j \in live PROVE EnqueueKey(j) \in OpenKeys(usage)
        <4>1. Open(EnqueueKey(j)) BY <1>1, <2>1, <2>k DEF QuotaInv, KeysInv, QueuedJobHoldsQuota, Open
        <4> QED BY <4>1, KeysOfRequests DEF OpenKeys, Open
      <3> QED BY <3>1, <3>2
    <2>3. ks = {jobs[j].key : j \in live} BY <2>k
    <2>4. \A j \in sent : HasRow(usage, "COMMIT", jobs[j].key)
      BY <1>1 DEF SysInv, QueueInv, SentIsPaid
    <2>5. ps \subseteq PaidKeys(usage) BY <2>4, <2>k, KeysOfRequests DEF PaidKeys
    <2>6. live \in SUBSET Jobs /\ sent \in SUBSET Jobs OBVIOUS
    <2>o. {k \in QuotaKeys : OpenReservation(usage, k)} = OpenKeys(usage) BY DEF OpenKeys
    <2>b. /\ usage.reserved[Month] = Cardinality(OpenKeys(usage))
          /\ usage.consumed[Month] = Cardinality(PaidKeys(usage)) /\ IsFiniteSet(PaidKeys(usage))
      BY <1>1 DEF QuotaInv, BooksInv
    <2> HIDE DEF live, sent
    <2>7. Cardinality(ks) = Cardinality(live) BY <1>1, <2>p, <2>6, KeysCountJobs
    <2>8. Cardinality(ps) = Cardinality(sent) /\ IsFiniteSet(ps) BY <1>1, <2>p, <2>6, KeysCountJobs
    <2> HIDE DEF ks, ps
    <2>9. Cardinality(ps) <= Cardinality(PaidKeys(usage)) BY <2>5, <2>b, FS_Subset
    <2>10. Cardinality(ps) \in Nat /\ Cardinality(PaidKeys(usage)) \in Nat
      BY <2>8, <2>b, FS_CardinalityType
    <2>11. usage.reserved[Month] = Cardinality(live) BY <2>b, <2>2, <2>7
    <2>12. usage.consumed[Month] >= Cardinality(sent) BY <2>8, <2>9, <2>10, <2>b
    <2>13. {k \in QuotaKeys : OpenReservation(usage, k)} = {jobs[j].key : j \in live}
      BY <2>o, <2>2, <2>3
    <2> QED BY <2>4, <2>11, <2>12, <2>13 DEF QuiescentBooks, live, sent
  <1>2. ~Quiescent => QuiescentBooks BY DEF QuiescentBooks
  <1> QED BY <1>1, <1>2, QuotaInvariant, PTL
=============================================================================
