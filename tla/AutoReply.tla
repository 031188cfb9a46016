----------------------------- MODULE AutoReply -----------------------------
(***************************************************************************)
(* Automatic replies: the intake of incoming messages                      *)
(* (src/modules/whatsapp/store/autoreply.ts), the queue of triggers and    *)
(* the throttle of a contact (src/lib/autoreply-queue.ts,                  *)
(* src/lib/autoreply-throttle.ts), the loop of                             *)
(* src/autoreply/autoreply-worker.ts and the edits of the rule             *)
(* (src/lib/autoreply-service.ts).  The triggers are messages of one       *)
(* contact that the same rule would answer.                                *)
(***************************************************************************)
EXTENDS WorkerLease

CONSTANTS
  Triggers,            \* AutoReplyTriggerLog rows, by event key
  MaxTriggerAttempts,  \* MAX_AUTOREPLY_ATTEMPTS
  ReplyLimit,          \* the smaller of rateLimitCount and maxChainDepth
  RuleEdits,           \* bound on the versions of the rule
  Pauses               \* bound on how often cooldown or window run out

ASSUME TriggerAssumption ==
  /\ IsFiniteSet(Triggers) /\ MaxTriggerAttempts \in Nat \ {0}
  /\ ReplyLimit \in Nat \ {0} /\ RuleEdits \in Nat \ {0} /\ Pauses \in Nat

VARIABLES
  triggers,  \* trigger rows; version: the rule version of their snapshot, 0 without one
  rule,      \* version of the rule, and whether it is enabled
  cooldown,  \* AutoReplyCooldown row: counter, whether cooldown and window still run
  replies,   \* version of the rule that the queued reply of a trigger quotes, 0 without one
  replier,   \* per worker: its loop, and what it snapshotted
  counted    \* history: the triggers let through since the window began

replyVars == <<triggers, rule, cooldown, replies, replier, counted>>

FinishedTrigger == {"ENQUEUED", "SKIPPED", "FAILED"}
NoTrigger == [status |-> "none", attempts |-> 0, due |-> TRUE, lock |-> Nobody, lease |-> "none", version |-> 0]
ReplierAt(pc) == [pc |-> pc, trigger |-> "no trigger", n |-> 0, version |-> 0]

ReplyInit ==
  /\ triggers = [t \in Triggers |-> NoTrigger]
  /\ rule = [version |-> 1, enabled |-> TRUE]
  /\ cooldown = [count |-> 0, cooling |-> FALSE, within |-> FALSE, pauses |-> 0]
  /\ replies = [t \in Triggers |-> 0]
  /\ replier = [w \in Workers |-> ReplierAt("idle")]
  /\ counted = {}
-----------------------------------------------------------------------------
(* ingestAutoReplyMessage: one row per event key, a repeated message is a no-op. *)
IngestMessage(t) ==
  /\ triggers[t].status = "none"
  /\ triggers' = [triggers EXCEPT ![t].status = "PENDING"]
  /\ UNCHANGED <<rule, cooldown, replies, replier, counted>>

(* updateAutoReplyRule, setAutoReplyRuleEnabled, deleteAutoReplyRule: each of them
   counts the version up. *)
EditRule(enabled) ==
  /\ rule.version < RuleEdits
  /\ rule' = [version |-> rule.version + 1, enabled |-> enabled]
  /\ UNCHANGED <<triggers, cooldown, replies, replier, counted>>

(* The cooldown, or the cooldown and the window, run out. *)
TimePasses(within) ==
  /\ cooldown.pauses < Pauses /\ (cooldown.cooling \/ cooldown.within)
  /\ within => cooldown.within
  /\ cooldown' = [cooldown EXCEPT !.cooling = FALSE, !.within = within, !.pauses = @ + 1]
  /\ counted' = IF within THEN counted ELSE {}
  /\ UNCHANGED <<triggers, rule, replies, replier>>

TriggerOf(w) == triggers[replier[w].trigger]
ExpiredTrigger(t) == triggers[t].status = "PROCESSING" /\ triggers[t].lease = "expired"
OwnsTrigger(w) == TriggerOf(w).status = "PROCESSING" /\ TriggerOf(w).lock = w
Finished(row, status) == [Released(row) EXCEPT !.status = status]
Write(w, row) == triggers' = IF OwnsTrigger(w) THEN [triggers EXCEPT ![replier[w].trigger] = row] ELSE triggers

(* claimNextAutoReplyTrigger, first statement. *)
BuryTriggers(w) ==
  /\ replier[w].pc = "idle"
  /\ triggers' = [t \in Triggers |->
       IF ExpiredTrigger(t) /\ triggers[t].attempts >= MaxTriggerAttempts
       THEN Finished(triggers[t], "FAILED") ELSE triggers[t]]
  /\ replier' = [replier EXCEPT ![w] = ReplierAt("claiming")]
  /\ UNCHANGED <<rule, cooldown, replies, counted>>

(* Faulty variant of ClaimableTrigger: the bound on the attempts is forgotten. *)
ClaimableTriggerForever(t) == (triggers[t].status = "PENDING" /\ triggers[t].due) \/ ExpiredTrigger(t)

ClaimableTrigger(t) ==
  /\ \/ triggers[t].status = "PENDING" /\ triggers[t].due
     \/ ExpiredTrigger(t)
  /\ triggers[t].attempts < MaxTriggerAttempts

(* Faulty variant: a claim forgets what an earlier one snapshotted. *)
ResumeAfresh(t) == "selecting"

(* processClaimedAutoReply goes straight to the reply when there is a snapshot. *)
Resume(t) == IF triggers[t].version # 0 THEN "checking" ELSE "selecting"

ClaimTrigger(w) ==
  /\ replier[w].pc = "claiming"
  /\ \/ \E t \in Triggers :
          /\ ClaimableTrigger(t)
          /\ triggers' = [triggers EXCEPT ![t] =
               [Claimed(triggers[t], w) EXCEPT !.status = "PROCESSING", !.attempts = @ + 1]]
          /\ replier' = [replier EXCEPT ![w] =
               [pc |-> Resume(t), trigger |-> t, n |-> triggers[t].attempts + 1,
                version |-> triggers[t].version]]
     \/ /\ \A t \in Triggers : ~ClaimableTrigger(t)
        /\ replier' = [replier EXCEPT ![w] = ReplierAt("idle")]
        /\ UNCHANGED triggers
  /\ UNCHANGED <<rule, cooldown, replies, counted>>

(* The checks and the selection of the rule: skipped (access, suppression, no rule
   that matches, its media gone), or the rule as it is now, or a call throws. *)
SelectRule(w) ==
  /\ replier[w].pc = "selecting"
  /\ \/ /\ Write(w, Finished(TriggerOf(w), "SKIPPED"))
        /\ replier' = [replier EXCEPT ![w] = ReplierAt("idle")]
     \/ /\ rule.enabled
        /\ replier' = [replier EXCEPT ![w].pc = "snapshotting", ![w].version = rule.version]
        /\ UNCHANGED triggers
     \/ replier' = [replier EXCEPT ![w].pc = "failing"] /\ UNCHANGED triggers
  /\ UNCHANGED <<rule, cooldown, replies, counted>>

(* decideAutoReplyThrottle. *)
RepliesSoFar == IF cooldown.within THEN cooldown.count ELSE 0
ThrottleAllows == ~cooldown.cooling /\ RepliesSoFar < ReplyLimit

LetThrough(w) ==
  /\ cooldown' = [cooldown EXCEPT !.count = RepliesSoFar + 1, !.cooling = TRUE, !.within = TRUE]
  /\ triggers' = [triggers EXCEPT ![replier[w].trigger].version = replier[w].version]
  /\ counted' = counted \cup {replier[w].trigger}
  /\ replier' = [replier EXCEPT ![w].pc = "checking"]

(* Faulty variant of SnapshotRule: the transaction does not look at the claim. *)
SnapshotUnowned(w) ==
  /\ replier[w].pc = "snapshotting" /\ ThrottleAllows /\ LetThrough(w)
  /\ UNCHANGED <<rule, replies>>

(* snapshotRuleWithThrottle, a serializable transaction: under the claim, the
   contact is throttled, or counted and the rule copied into the trigger. *)
SnapshotRule(w) ==
  /\ replier[w].pc = "snapshotting"
  /\ \/ OwnsTrigger(w) /\ ThrottleAllows /\ LetThrough(w)
     \/ /\ OwnsTrigger(w) => ~ThrottleAllows
        /\ Write(w, Finished(TriggerOf(w), "SKIPPED"))
        /\ replier' = [replier EXCEPT ![w] = ReplierAt("idle")]
        /\ UNCHANGED <<cooldown, counted>>
     \/ /\ replier' = [replier EXCEPT ![w].pc = "failing"]
        /\ UNCHANGED <<triggers, cooldown, counted>>
  /\ UNCHANGED <<rule, replies>>

(* enqueueSnapshot: the heartbeat must still find the claim, *)
CheckTrigger(w) ==
  /\ replier[w].pc = "checking"
  /\ IF OwnsTrigger(w)
     THEN /\ triggers' = [triggers EXCEPT ![replier[w].trigger].lease = "live"]
          /\ replier' = [replier EXCEPT ![w].pc = "enqueueing"]
     ELSE replier' = [replier EXCEPT ![w] = ReplierAt("idle")] /\ UNCHANGED triggers
  /\ UNCHANGED <<rule, cooldown, replies, counted>>

(* the message is queued under the trigger's id, once (its answer may be lost), or
   refused; *)
EnqueueReply(w) ==
  /\ replier[w].pc = "enqueueing"
  /\ \/ /\ replies' = [replies EXCEPT ![replier[w].trigger] = IF @ = 0 THEN replier[w].version ELSE @]
        /\ \E pc \in {"recording", "failing"} : replier' = [replier EXCEPT ![w].pc = pc]
     \/ /\ replies[replier[w].trigger] = 0
        /\ \E pc \in {"failing", "refused", "unpaid"} : replier' = [replier EXCEPT ![w].pc = pc]
        /\ UNCHANGED replies
  /\ UNCHANGED <<triggers, rule, cooldown, counted>>

(* and the trigger is finished, if the claim still stands. *)
RecordReply(w) ==
  /\ replier[w].pc = "recording"
  /\ \/ /\ Write(w, Finished(TriggerOf(w), "ENQUEUED"))
        /\ replier' = [replier EXCEPT ![w] = ReplierAt("idle")]
     \/ replier' = [replier EXCEPT ![w].pc = "failing"] /\ UNCHANGED triggers
  /\ UNCHANGED <<rule, cooldown, replies, counted>>

(* failClaimedAutoReply: SKIPPED when quota or entitlement is wanting, FAILED when
   it cannot be retried or the attempts are spent, else PENDING after a backoff. *)
FailTrigger(w) ==
  /\ replier[w].pc \in {"failing", "refused", "unpaid"}
  /\ \/ Write(w, CASE replier[w].pc = "unpaid" -> Finished(TriggerOf(w), "SKIPPED")
                   [] replier[w].pc = "refused" \/ replier[w].n >= MaxTriggerAttempts ->
                        Finished(TriggerOf(w), "FAILED")
                   [] OTHER -> [Finished(TriggerOf(w), "PENDING") EXCEPT !.due = FALSE])
     \/ UNCHANGED triggers
  /\ replier' = [replier EXCEPT ![w] = ReplierAt("idle")]
  /\ UNCHANGED <<rule, cooldown, replies, counted>>

HeartbeatTrigger(w) ==
  /\ replier[w].pc \notin {"idle", "claiming"} \cup Gone
  /\ OwnsTrigger(w) /\ TriggerOf(w).lease = "expired"
  /\ triggers' = [triggers EXCEPT ![replier[w].trigger].lease = "live"]
  /\ UNCHANGED <<rule, cooldown, replies, replier, counted>>

(* recoverAutoReplyClaimsForWorker. *)
StopReplier(w) ==
  /\ w \in Mortal /\ replier[w].pc = "idle"
  /\ triggers' = [t \in Triggers |->
       IF triggers[t].status = "PROCESSING" /\ triggers[t].lock = w
       THEN [Finished(triggers[t], "PENDING") EXCEPT !.due = TRUE] ELSE triggers[t]]
  /\ replier' = [replier EXCEPT ![w] = ReplierAt("stopped")]
  /\ UNCHANGED <<rule, cooldown, replies, counted>>

KillReplier(w) ==
  /\ w \in Mortal /\ replier[w].pc \notin Gone
  /\ replier' = [replier EXCEPT ![w] = ReplierAt("dead")]
  /\ UNCHANGED <<triggers, rule, cooldown, replies, counted>>

TriggerLeaseExpires(t) ==
  /\ triggers[t].lease = "live"
  /\ triggers' = [triggers EXCEPT ![t].lease = "expired"]
  /\ UNCHANGED <<rule, cooldown, replies, replier, counted>>

TriggerFallsDue(t) ==
  /\ ~triggers[t].due
  /\ triggers' = [triggers EXCEPT ![t].due = TRUE]
  /\ UNCHANGED <<rule, cooldown, replies, replier, counted>>

ReplierStep(w) ==
  \/ BuryTriggers(w) \/ ClaimTrigger(w) \/ SelectRule(w) \/ SnapshotRule(w)
  \/ CheckTrigger(w) \/ EnqueueReply(w) \/ RecordReply(w) \/ FailTrigger(w)

ReplyNext ==
  \/ \E w \in Workers : ReplierStep(w) \/ HeartbeatTrigger(w) \/ StopReplier(w) \/ KillReplier(w)
  \/ \E t \in Triggers : IngestMessage(t) \/ TriggerLeaseExpires(t) \/ TriggerFallsDue(t)
  \/ \E b \in BOOLEAN : EditRule(b) \/ TimePasses(b)

(* Time passes: a backoff, or a lease that nobody renews. *)
AbandonedTrigger(t) == \A w \in Workers : replier[w].trigger = t => triggers[t].lock # w
TriggerTime == \E t \in Triggers : TriggerFallsDue(t) \/ (TriggerLeaseExpires(t) /\ AbandonedTrigger(t))

(* A worker that is up goes on, and time passes. *)
ReplyFairness == (\A w \in Workers : WF_replyVars(ReplierStep(w))) /\ WF_replyVars(TriggerTime)

ReplySpec == ReplyInit /\ [][ReplyNext]_replyVars /\ ReplyFairness
-----------------------------------------------------------------------------
ReplyTypeOK ==
  /\ \A t \in Triggers : /\ triggers[t].status \in {"none", "PENDING", "PROCESSING"} \cup FinishedTrigger
                         /\ triggers[t].attempts \in 0..MaxTriggerAttempts
                         /\ triggers[t].version \in 0..RuleEdits
                         /\ (triggers[t].lock # Nobody) <=> (triggers[t].status = "PROCESSING")
  /\ replies \in [Triggers -> 0..RuleEdits]

(* A message is answered with the text its log row names: the queued reply has the
   version of the snapshot, although the rule is edited while the trigger waits for
   another attempt; and ENQUEUED means that there is a reply. *)
ReplyMatchesSnapshot ==
  \A t \in Triggers : /\ replies[t] # 0 => replies[t] = triggers[t].version
                      /\ triggers[t].status = "ENQUEUED" => replies[t] # 0

(* The throttle counts every message let through once, however often it is claimed,
   and lets no more through in a window than the rule allows. *)
ThrottleCountsReplies ==
  cooldown.within => Cardinality(counted) = cooldown.count /\ cooldown.count <= ReplyLimit

(* Set back by the stop of a worker without an attempt left; no claim takes it. *)
StrandedTrigger(t) == triggers[t].status = "PENDING" /\ triggers[t].attempts >= MaxTriggerAttempts

(* Every incoming message is answered, skipped or failed in the end, unless a
   stopped worker has stranded it. *)
ReplyWaits == \E t \in Triggers : triggers[t].status \in {"PENDING", "PROCESSING"} /\ ~StrandedTrigger(t)
TriggersFinish == ReplyWaits ~> ~ReplyWaits
=============================================================================
