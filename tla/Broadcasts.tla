----------------------------- MODULE Broadcasts -----------------------------
(***************************************************************************)
(* Broadcasts: one message to many recipients, created, paused, resumed,   *)
(* cancelled and deleted by users (src/lib/broadcast-service.ts) while     *)
(* workers hand one recipient after the other to the message queue         *)
(* (src/lib/broadcast-queue.ts, src/broadcast/broadcast-worker.ts).        *)
(*                                                                         *)
(* What becomes of a recipient once its message is queued is the matter of *)
(* MessageQueue.  nextDispatchAt is left out: a broadcast may be claimed   *)
(* at any later time.  The broadcast of a campaign is known by the         *)
(* campaign (campaignId is unique).                                        *)
(***************************************************************************)
EXTENDS WorkerLease

CONSTANTS
  Broadcasts,  \* createKeys of broadcasts, and the campaigns
  Campaigns,   \* those of them whose broadcast a campaign creates
  Recipients,  \* recipients of every broadcast
  Callers,     \* requests of users that run at the same time
  MaxDeletions \* bound on the deletions of a broadcast

ASSUME BroadcastAssumption ==
  IsFiniteSet(Broadcasts) /\ Campaigns \subseteq Broadcasts /\ IsFiniteSet(Recipients) /\ IsFiniteSet(Callers)
  /\ MaxDeletions \in Nat

VARIABLES
  broadcasts,  \* BroadcastLog rows, by createKey
  recipients,  \* BroadcastRecipient rows: their status, by broadcast
  handed,      \* <<broadcast, row, recipient>> whose message is in the queue
  broadcaster, \* per worker: its loop, its claim and the recipient it chose
  reported,    \* webhook events: <<broadcast, row, status>>
  quota,       \* the usage reservation of a broadcast's createKey
  creator,     \* per request: how far createBroadcast has come
  refused,     \* history: the keys of which a creation threw
  deletions,   \* how many rows of each key were deleted
  ended        \* history: the keys of which a COMPLETED row was deleted

broadcastVars == <<broadcasts, recipients, handed, broadcaster, reported, quota, creator, refused, deletions, ended>>

NoBroadcast == [status |-> "none", lock |-> Nobody, lease |-> "none", enqueued |-> 0, skipped |-> 0, cancelled |-> 0]
BroadcasterAt(pc) == [pc |-> pc, broadcast |-> "no broadcast", recipient |-> "no recipient", row |-> 0]
CreatorAt(pc, b) == [pc |-> pc, broadcast |-> b]
NotCreating == CreatorAt("idle", "no broadcast")

BroadcastInit ==
  /\ broadcasts = [b \in Broadcasts |-> NoBroadcast]
  /\ recipients = [b \in Broadcasts |-> [r \in Recipients |-> "none"]]
  /\ handed = {} /\ reported = {}
  /\ broadcaster = [w \in Workers |-> BroadcasterAt("idle")]
  /\ quota = [b \in Broadcasts |-> "none"]
  /\ creator = [c \in Callers |-> NotCreating]
  /\ refused = {} /\ ended = {}
  /\ deletions = [b \in Broadcasts |-> 0]

With(b, status) == Cardinality({r \in Recipients : recipients[b][r] = status})
BroadcastIs(b, statuses) == broadcasts[b].status \in statuses

(* The id of the present row of a key: the next one is another. *)
RowId(b) == deletions[b] + 1
-----------------------------------------------------------------------------
(* The row and its recipients, some of them suppressed from the start. *)
NewBroadcast(b) ==
  \E skip \in SUBSET Recipients :
    /\ broadcasts' = [broadcasts EXCEPT ![b].status = IF skip = Recipients THEN "COMPLETED" ELSE "QUEUED",
                                        ![b].skipped = Cardinality(skip)]
    /\ recipients' = [recipients EXCEPT ![b] = [r \in Recipients |-> IF r \in skip THEN "SKIPPED" ELSE "PENDING"]]

(* reserveUsage, commitReservedUsage and releaseReservedUsage of one key: a second
   call of the same kind, or a settlement of what is settled, changes nothing. *)
ReservedKey(q) == IF q = "none" THEN "reserved" ELSE q
SettledKey(q, as) == IF q = "reserved" THEN as ELSE q

(* createBroadcast: a broadcast of this key exists, or its quota is reserved, *)
BeginBroadcast(c, b) ==
  /\ creator[c].pc = "idle" /\ b \notin Campaigns
  /\ IF BroadcastIs(b, {"none"})
     THEN /\ quota' = [quota EXCEPT ![b] = ReservedKey(@)]
          /\ creator' = [creator EXCEPT ![c] = CreatorAt("creating", b)]
     ELSE quota' = [quota EXCEPT ![b] = SettledKey(@, "committed")] /\ UNCHANGED creator
  /\ UNCHANGED <<broadcasts, recipients, handed, broadcaster, reported, refused, deletions, ended>>

(* Faulty variant of AfterRace: who loses the race gives the quota back. *)
ReleasedAfterRace == "releasing"
AfterRace == "settling"

(* the row is created, unless another request was faster or the call throws, *)
CreateBroadcast(c) ==
  LET b == creator[c].broadcast
      Then(pc) == creator' = [creator EXCEPT ![c].pc = pc]
  IN /\ creator[c].pc = "creating"
     /\ \/ BroadcastIs(b, {"none"}) /\ NewBroadcast(b) /\ Then("settling") /\ UNCHANGED refused
        \/ ~BroadcastIs(b, {"none"}) /\ Then(AfterRace) /\ UNCHANGED <<broadcasts, recipients, refused>>
        \/ Then("releasing") /\ refused' = refused \cup {b} /\ UNCHANGED <<broadcasts, recipients>>
     /\ UNCHANGED <<handed, broadcaster, reported, quota, deletions, ended>>

(* and the quota committed or released; a settlement that throws is not repeated. *)
SettleBroadcast(c) ==
  LET b == creator[c].broadcast
      as == IF creator[c].pc = "settling" THEN "committed" ELSE "released"
  IN /\ creator[c].pc \in {"settling", "releasing"}
     /\ quota' \in {quota, [quota EXCEPT ![b] = SettledKey(@, as)]}
     /\ creator' = [creator EXCEPT ![c] = NotCreating]
     /\ UNCHANGED <<broadcasts, recipients, handed, broadcaster, reported, refused, deletions, ended>>

Becomes(b, status) == [broadcasts EXCEPT ![b] = [Released(broadcasts[b]) EXCEPT !.status = status]]

PauseBroadcast(b) ==
  /\ BroadcastIs(b, {"QUEUED", "RUNNING"})
  /\ broadcasts' = Becomes(b, "PAUSED")
  /\ UNCHANGED <<recipients, handed, broadcaster, reported, quota, creator, refused, deletions, ended>>

ResumeBroadcast(b) ==
  /\ BroadcastIs(b, {"PAUSED", "FAILED"})
  /\ broadcasts' = Becomes(b, "QUEUED")
  /\ UNCHANGED <<recipients, handed, broadcaster, reported, quota, creator, refused, deletions, ended>>

(* Faulty variant of Stopped: recipients are cancelled whatever became of them. *)
StoppedAnyRecipient(b) ==
  /\ broadcasts' = [Becomes(b, "CANCELLED") EXCEPT ![b].cancelled = @ + With(b, "PENDING")]
  /\ recipients' = [recipients EXCEPT ![b] = [r \in Recipients |-> "CANCELLED"]]

(* One serializable transaction. *)
Stopped(b) ==
  /\ broadcasts' = [Becomes(b, "CANCELLED") EXCEPT ![b].cancelled = @ + With(b, "PENDING")]
  /\ recipients' = [recipients EXCEPT ![b] =
       [r \in Recipients |-> IF @[r] = "PENDING" THEN "CANCELLED" ELSE @[r]]]

Stoppable == {"QUEUED", "RUNNING", "PAUSED", "FAILED"}

CancelBroadcast(b) ==
  /\ BroadcastIs(b, Stoppable) /\ Stopped(b)
  /\ UNCHANGED <<handed, broadcaster, reported, quota, creator, refused, deletions, ended>>

(* The row of a finished broadcast, of a campaign or not, with its recipients; its
   createKey, and the campaign, are free for another row. *)
DeleteBroadcast(b) ==
  /\ BroadcastIs(b, {"COMPLETED", "CANCELLED"}) /\ deletions[b] < MaxDeletions
  /\ broadcasts' = [broadcasts EXCEPT ![b] = NoBroadcast]
  /\ recipients' = [recipients EXCEPT ![b] = [r \in Recipients |-> "none"]]
  /\ deletions' = [deletions EXCEPT ![b] = @ + 1]
  /\ ended' = IF BroadcastIs(b, {"COMPLETED"}) THEN ended \cup {b} ELSE ended
  /\ UNCHANGED <<handed, broadcaster, reported, quota, creator, refused>>
-----------------------------------------------------------------------------
ClaimableBroadcast(b) ==
  /\ BroadcastIs(b, {"QUEUED", "RUNNING"})
  /\ broadcasts[b].lock = Nobody \/ broadcasts[b].lease = "expired"

ClaimBroadcast(w) ==
  /\ broadcaster[w].pc = "idle"
  /\ \E b \in Broadcasts :
       /\ ClaimableBroadcast(b)
       /\ broadcasts' = [broadcasts EXCEPT ![b] = [Claimed(broadcasts[b], w) EXCEPT !.status = "RUNNING"]]
       /\ broadcaster' = [broadcaster EXCEPT ![w] = [BroadcasterAt("claimed") EXCEPT !.broadcast = b, !.row = RowId(b)]]
  /\ UNCHANGED <<recipients, handed, reported, quota, creator, refused, deletions, ended>>

(* where: { id, status: "RUNNING", lockedBy: claimToken } *)
OwnsBroadcast(w) ==
  LET b == broadcaster[w].broadcast
  IN broadcaster[w].row = RowId(b) /\ broadcasts[b].status = "RUNNING" /\ broadcasts[b].lock = w
BroadcasterRests(w) == broadcaster' = [broadcaster EXCEPT ![w] = BroadcasterAt("idle")]
BroadcasterGoes(w, pc) == broadcaster' = [broadcaster EXCEPT ![w].pc = pc]
PendingRecipients(b) == {r \in Recipients : recipients[b][r] = "PENDING"}

Completes(b, counted) ==
  /\ broadcasts' = [broadcasts EXCEPT ![b] = [Released(counted) EXCEPT !.status = "COMPLETED"]]
  /\ reported' = reported \cup {<<b, RowId(b), "COMPLETED">>}

(* executeClaimedBroadcast: the next pending recipient (their order is left open), or
   none is left; it may have been suppressed since, the tenant may not send any more,
   a call may throw. *)
ChooseRecipient(w) ==
  LET b == broadcaster[w].broadcast
  IN /\ broadcaster[w].pc = "claimed"
     /\ \/ ~OwnsBroadcast(w) /\ BroadcasterRests(w) /\ UNCHANGED <<broadcasts, reported>>
        \/ /\ OwnsBroadcast(w) /\ PendingRecipients(b) = {}
           /\ Completes(b, broadcasts[b]) /\ BroadcasterRests(w)
        \/ /\ OwnsBroadcast(w)
           /\ \E r \in PendingRecipients(b) : \E pc \in {"enqueueing", "skipping", "denied", "failing"} :
                broadcaster' = [broadcaster EXCEPT ![w].pc = pc, ![w].recipient = r]
           /\ broadcasts' = [broadcasts EXCEPT ![b].lease = "live"]
           /\ UNCHANGED reported
     /\ UNCHANGED <<recipients, handed, quota, creator, refused, deletions, ended>>

(* The second heartbeat, and enqueueMessage under the recipient's id: queued once,
   however often it is called; its answer may be lost. *)
CheckBroadcast(w) ==
  /\ broadcaster[w].pc = "enqueueing"
  /\ IF OwnsBroadcast(w)
     THEN /\ broadcasts' = [broadcasts EXCEPT ![broadcaster[w].broadcast].lease = "live"] /\ BroadcasterGoes(w, "handing")
     ELSE BroadcasterRests(w) /\ UNCHANGED broadcasts
  /\ UNCHANGED <<recipients, handed, reported, quota, creator, refused, deletions, ended>>

HandOver(w) ==
  /\ broadcaster[w].pc = "handing"
  /\ \/ /\ handed' = handed \cup {<<broadcaster[w].broadcast, broadcaster[w].row, broadcaster[w].recipient>>}
        /\ \E pc \in {"recording", "failing"} : BroadcasterGoes(w, pc)
     \/ \E pc \in {"denied", "failing"} : BroadcasterGoes(w, pc) /\ UNCHANGED handed
  /\ UNCHANGED <<broadcasts, recipients, reported, quota, creator, refused, deletions, ended>>

(* finalizeRecipient: under the claim, the recipient, the counters and, with the last
   one, the end of the broadcast and its event; it throws when the recipient is not
   pending any more. *)
FinalizeRecipient(w) ==
  LET b == broadcaster[w].broadcast  r == broadcaster[w].recipient
      skip == broadcaster[w].pc = "skipping"
      row == [broadcasts[b] EXCEPT !.skipped = @ + (IF skip THEN 1 ELSE 0), !.enqueued = @ + (IF skip THEN 0 ELSE 1)]
  IN /\ broadcaster[w].pc \in {"skipping", "recording"}
     /\ \/ ~OwnsBroadcast(w) /\ BroadcasterRests(w) /\ UNCHANGED <<broadcasts, recipients, reported>>
        \/ /\ OwnsBroadcast(w) /\ r \in PendingRecipients(b)
           /\ recipients' = [recipients EXCEPT ![b][r] = IF skip THEN "SKIPPED" ELSE "ENQUEUED"]
           /\ IF PendingRecipients(b) = {r} THEN Completes(b, row)
              ELSE broadcasts' = [broadcasts EXCEPT ![b] = Released(row)] /\ UNCHANGED reported
           /\ BroadcasterRests(w)
        \/ BroadcasterGoes(w, "failing") /\ UNCHANGED <<broadcasts, recipients, reported>>
     /\ UNCHANGED <<handed, quota, creator, refused, deletions, ended>>

(* failClaimedBroadcast: QUEUED again, or FAILED with its event.  The claim stays when
   it is not this worker's any more, or when the transaction throws: always for a
   broadcast that has failed before and has that event already. *)
FailBroadcast(w) ==
  LET b == broadcaster[w].broadcast
  IN /\ broadcaster[w].pc \in {"failing", "denied"}
     /\ \/ /\ broadcaster[w].pc = "failing" /\ OwnsBroadcast(w)
           /\ broadcasts' = Becomes(b, "QUEUED") /\ UNCHANGED reported
        \/ /\ broadcaster[w].pc = "denied" /\ OwnsBroadcast(w) /\ <<b, RowId(b), "FAILED">> \notin reported
           /\ broadcasts' = Becomes(b, "FAILED") /\ reported' = reported \cup {<<b, RowId(b), "FAILED">>}
        \/ UNCHANGED <<broadcasts, reported>>
     /\ BroadcasterRests(w)
     /\ UNCHANGED <<recipients, handed, quota, creator, refused, deletions, ended>>

HeartbeatBroadcast(w) ==
  /\ broadcaster[w].pc \notin {"idle"} \cup Gone
  /\ OwnsBroadcast(w) /\ broadcasts[broadcaster[w].broadcast].lease = "expired"
  /\ broadcasts' = [broadcasts EXCEPT ![broadcaster[w].broadcast].lease = "live"]
  /\ UNCHANGED <<recipients, handed, broadcaster, reported, quota, creator, refused, deletions, ended>>

(* recoverBroadcastsForWorker. *)
StopBroadcaster(w) ==
  /\ w \in Mortal /\ broadcaster[w].pc = "idle"
  /\ broadcasts' = [b \in Broadcasts |->
       IF BroadcastIs(b, {"RUNNING"}) /\ broadcasts[b].lock = w
       THEN [Released(broadcasts[b]) EXCEPT !.status = "QUEUED"] ELSE broadcasts[b]]
  /\ broadcaster' = [broadcaster EXCEPT ![w] = BroadcasterAt("stopped")]
  /\ UNCHANGED <<recipients, handed, reported, quota, creator, refused, deletions, ended>>

KillBroadcaster(w) ==
  /\ w \in Mortal /\ broadcaster[w].pc \notin Gone
  /\ broadcaster' = [broadcaster EXCEPT ![w] = BroadcasterAt("dead")]
  /\ UNCHANGED <<broadcasts, recipients, handed, reported, quota, creator, refused, deletions, ended>>

BroadcastLeaseExpires(b) ==
  /\ broadcasts[b].lease = "live"
  /\ broadcasts' = [broadcasts EXCEPT ![b].lease = "expired"]
  /\ UNCHANGED <<recipients, handed, broadcaster, reported, quota, creator, refused, deletions, ended>>

BroadcasterStep(w) ==
  \/ ClaimBroadcast(w) \/ ChooseRecipient(w) \/ CheckBroadcast(w) \/ HandOver(w)
  \/ FinalizeRecipient(w) \/ FailBroadcast(w)

BroadcastNext ==
  \/ \E w \in Workers : BroadcasterStep(w) \/ HeartbeatBroadcast(w) \/ StopBroadcaster(w) \/ KillBroadcaster(w)
  \/ \E c \in Callers : CreateBroadcast(c) \/ SettleBroadcast(c) \/ \E b \in Broadcasts : BeginBroadcast(c, b)
  \/ \E b \in Broadcasts :
       \/ PauseBroadcast(b) \/ ResumeBroadcast(b) \/ CancelBroadcast(b) \/ DeleteBroadcast(b)
       \/ BroadcastLeaseExpires(b)

BroadcastSpec == BroadcastInit /\ [][BroadcastNext]_broadcastVars
-----------------------------------------------------------------------------
BroadcastTypeOK ==
  /\ \A b \in Broadcasts :
       /\ broadcasts[b].status \in {"none", "QUEUED", "RUNNING", "PAUSED", "COMPLETED", "CANCELLED", "FAILED"}
       /\ (broadcasts[b].lock # Nobody) => broadcasts[b].status = "RUNNING"
       /\ \A r \in Recipients : recipients[b][r] \in {"none", "PENDING", "ENQUEUED", "SKIPPED", "CANCELLED"}
  /\ handed \subseteq Broadcasts \X Nat \X Recipients
  /\ quota \in [Broadcasts -> {"none", "reserved", "committed", "released"}]

(* The progress that is shown adds up: every counter is the number of recipients it
   counts, none is counted twice when a claim is lost or taken over, whoever counts as
   handed over has a message in the queue, and a broadcast is COMPLETED, or reported
   as such, only when nobody is left; and nothing of a row that was deleted counts for
   the row that has its key now. *)
ProgressAddsUp ==
  /\ \A b \in Broadcasts :
       /\ broadcasts[b].enqueued = With(b, "ENQUEUED")
       /\ broadcasts[b].skipped = With(b, "SKIPPED")
       /\ broadcasts[b].cancelled = With(b, "CANCELLED")
       /\ BroadcastIs(b, {"COMPLETED", "CANCELLED"}) => PendingRecipients(b) = {}
       /\ <<b, RowId(b), "COMPLETED">> \in reported => BroadcastIs(b, {"COMPLETED"})
  /\ \A b \in Broadcasts, r \in Recipients :
       recipients[b][r] = "ENQUEUED" => <<b, RowId(b), r>> \in handed

(* A broadcast is on a quota that nobody has given back, however many requests of
   its key ran at once.  (A creation that threw has released the key for good: when
   it is repeated, neither its reservation nor its commit takes effect.) *)
BroadcastHoldsQuota ==
  \A b \in Broadcasts \ (Campaigns \cup refused) :
    broadcasts[b].status # "none" => quota[b] \in {"reserved", "committed"}
=============================================================================
