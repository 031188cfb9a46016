--------------------------- MODULE WebhookOutbox ---------------------------
(***************************************************************************)
(* The outbox of webhook events and their deliveries:                      *)
(* src/lib/webhook-outbox.ts, the loop of src/webhook/webhook-worker.ts    *)
(* and what src/lib/webhook-service.ts does to endpoints and deliveries.   *)
(*                                                                         *)
(* A worker turns an event into one delivery per subscribed endpoint, then *)
(* takes one delivery, opens a row of the delivery log for its attempt,    *)
(* posts, and records the outcome in both.  A step is one SQL statement,   *)
(* one transaction or one HTTP request.  Attempt n of a delivery belongs   *)
(* to the one claim that counted n, so <<lock, n>> is its claim token.     *)
(***************************************************************************)
EXTENDS WorkerLease

CONSTANTS
  Events,               \* WebhookOutboxEvent rows, by event key
  Endpoints,            \* Webhook rows of the tenant, subscribed to these events
  MaxOutboxAttempts,    \* MAX_OUTBOX_ATTEMPTS
  MaxDeliveryAttempts,  \* maxAttempts of an endpoint
  EndpointChanges,      \* bound on the changes of each endpoint
  ReplayedStatuses      \* bound: the statuses in which a delivery is replayed

ASSUME WebhookAssumption ==
  /\ IsFiniteSet(Events) /\ IsFiniteSet(Endpoints) /\ EndpointChanges \in Nat
  /\ MaxOutboxAttempts \in Nat \ {0} /\ MaxDeliveryAttempts \in Nat \ {0}

VARIABLES
  outbox,      \* WebhookOutboxEvent rows; skipped: safeErrorCode is ENTITLEMENT_DENIED
  endpoints,   \* state of each endpoint and the number of changes so far
  deliveries,  \* WebhookDelivery rows
  log,         \* WebhookDeliveryAttempt rows, by delivery and attempt number
  received,    \* history: how often the endpoint accepted the delivery
  sender       \* per worker: its loop and what it snapshotted at its claim

webhookVars == <<outbox, endpoints, deliveries, log, received, sender>>

(* deliveryKey is `${event}:${endpoint}:` with initial, test or replay:uuid (one
   replay per event and endpoint is enough to run beside the first delivery). *)
Deliveries == Events \X Endpoints \X {"initial", "test", "replay"}
OfEndpoint(x) == {d \in Deliveries : d[2] = x}

NoEvent == [status |-> "none", attempts |-> 0, due |-> TRUE, lock |-> Nobody, lease |-> "none",
            skipped |-> FALSE]
NoDelivery == [status |-> "none", attempts |-> 0, due |-> TRUE, lock |-> Nobody, lease |-> "none"]
PendingDelivery == [NoDelivery EXCEPT !.status = "PENDING"]
NoLog == [n \in 1..MaxDeliveryAttempts |-> "none"]
SettledDelivery == {"SUCCEEDED", "DEAD_LETTER", "CANCELLED"}

SenderAt(pc) == [pc |-> pc, row |-> <<>>, n |-> 0, targets |-> {}, active |-> FALSE]

WebhookInit ==
  /\ outbox = [e \in Events |-> NoEvent]
  /\ endpoints = [x \in Endpoints |-> [state |-> "active", changes |-> 0]]
  /\ deliveries = [d \in Deliveries |-> NoDelivery]
  /\ log = [d \in Deliveries |-> NoLog]
  /\ received = [d \in Deliveries |-> 0]
  /\ sender = [w \in Workers |-> SenderAt("polling")]
-----------------------------------------------------------------------------
(* publishWebhookEvent and createWebhookOutboxEvent: the unique event key makes
   the lookup, the create and its P2002 one step, and a second call a no-op. *)
PublishEvent(e) ==
  /\ outbox[e].status = "none"
  /\ outbox' = [outbox EXCEPT ![e].status = "PENDING"]
  /\ UNCHANGED <<endpoints, deliveries, log, received, sender>>

(* queueWebhookTest: an event of its own, dispatched in the same transaction. *)
QueueTest(e, x) ==
  /\ outbox[e].status = "none" /\ endpoints[x].state # "deleted"
  /\ outbox' = [outbox EXCEPT ![e].status = "DISPATCHED"]
  /\ deliveries' = [deliveries EXCEPT ![<<e, x, "test">>] = PendingDelivery]
  /\ UNCHANGED <<endpoints, log, received, sender>>

(* replayWebhookDelivery: a new delivery, whatever became of its source;
   the instance bounds the sources. *)
Replay(e, x) ==
  /\ deliveries[<<e, x, "replay">>].status = "none"
  /\ \E kind \in {"initial", "test"} : deliveries[<<e, x, kind>>].status \in ReplayedStatuses \ {"none"}
  /\ deliveries' = [deliveries EXCEPT ![<<e, x, "replay">>] = PendingDelivery]
  /\ UNCHANGED <<outbox, endpoints, log, received, sender>>

(* updateWebhookEndpoint with isActive; deleteWebhookEndpoint, whose deliveries
   and attempts go with it (onDelete: Cascade). *)
ChangeEndpoint(x, state) ==
  /\ endpoints[x].state \notin {"deleted", state} /\ endpoints[x].changes < EndpointChanges
  /\ endpoints' = [endpoints EXCEPT ![x] = [state |-> state, changes |-> @.changes + 1]]
  /\ deliveries' = IF state # "deleted" THEN deliveries
                   ELSE [d \in Deliveries |-> IF d[2] = x THEN NoDelivery ELSE deliveries[d]]
  /\ log' = IF state # "deleted" THEN log
            ELSE [d \in Deliveries |-> IF d[2] = x THEN NoLog ELSE log[d]]
  /\ received' = IF state # "deleted" THEN received
                 ELSE [d \in Deliveries |-> IF d[2] = x THEN 0 ELSE received[d]]
  /\ UNCHANGED <<outbox, sender>>
-----------------------------------------------------------------------------
Lapsed(row) == row.status = "PROCESSING" /\ row.lease = "expired"
Claimable(row, waiting, max) ==
  /\ \/ row.status \in waiting /\ row.due
     \/ Lapsed(row)
  /\ row.attempts < max
Buried(row) == [Released(row) EXCEPT !.status = "DEAD_LETTER"]

EventOf(w) == outbox[sender[w].row]
DeliveryOf(w) == deliveries[sender[w].row]
OwnsEvent(w) == EventOf(w).status = "PROCESSING" /\ EventOf(w).lock = w

(* Faulty variant: the lock is not compared. *)
OwnsAnyDelivery(w) == DeliveryOf(w).status = "PROCESSING"
OwnsDelivery(w) == DeliveryOf(w).status = "PROCESSING" /\ DeliveryOf(w).lock = w

(* claimNextWebhookEvent, first statement. *)
BuryEvents(w) ==
  /\ sender[w].pc = "polling"
  /\ outbox' = [e \in Events |-> IF Lapsed(outbox[e]) /\ outbox[e].attempts >= MaxOutboxAttempts
                                 THEN Buried(outbox[e]) ELSE outbox[e]]
  /\ sender' = [sender EXCEPT ![w] = SenderAt("claiming event")]
  /\ UNCHANGED <<endpoints, deliveries, log, received>>

(* claimNextWebhookEvent, the claim; without one the loop goes on to deliveries. *)
ClaimEvent(w) ==
  /\ sender[w].pc = "claiming event"
  /\ \/ \E e \in Events :
          /\ Claimable(outbox[e], {"PENDING"}, MaxOutboxAttempts)
          /\ outbox' = [outbox EXCEPT ![e] =
               [Claimed(outbox[e], w) EXCEPT !.status = "PROCESSING", !.attempts = @ + 1]]
          /\ sender' = [sender EXCEPT ![w] =
               [SenderAt("reading targets") EXCEPT !.row = e, !.n = outbox[e].attempts + 1]]
     \/ /\ \A e \in Events : ~Claimable(outbox[e], {"PENDING"}, MaxOutboxAttempts)
        /\ sender' = [sender EXCEPT ![w] = SenderAt("sweeping")]
        /\ UNCHANGED outbox
  /\ UNCHANGED <<endpoints, deliveries, log, received>>

(* materializeClaimedWebhookEvent up to its transaction: the entitlement is denied
   and the event skipped; or the subscribed endpoints are read; or a call throws. *)
ReadTargets(w) ==
  /\ sender[w].pc = "reading targets"
  /\ \/ /\ outbox' = IF OwnsEvent(w)
                     THEN [outbox EXCEPT ![sender[w].row] =
                            [Released(@) EXCEPT !.status = "DISPATCHED", !.skipped = TRUE]]
                     ELSE outbox
        /\ sender' = [sender EXCEPT ![w] = SenderAt("sweeping")]
     \/ /\ sender' = [sender EXCEPT ![w].pc = "fanning out",
             ![w].targets = {x \in Endpoints : endpoints[x].state = "active"}]
        /\ UNCHANGED outbox
     \/ sender' = [sender EXCEPT ![w].pc = "event failed"] /\ UNCHANGED outbox
  /\ UNCHANGED <<endpoints, deliveries, log, received>>

FannedOut(e, targets) ==
  [d \in Deliveries |-> IF d[1] = e /\ d[2] \in targets /\ d[3] = "initial" /\ deliveries[d].status = "none"
                        THEN PendingDelivery ELSE deliveries[d]]

(* Faulty variant of FanOut: the event is marked and the deliveries are created
   without a transaction, and a failing creation is not noticed. *)
FanOutTorn(w) ==
  /\ sender[w].pc = "fanning out"
  /\ outbox' = [outbox EXCEPT ![sender[w].row] = [Released(@) EXCEPT !.status = "DISPATCHED"]]
  /\ deliveries' \in {deliveries, FannedOut(sender[w].row, sender[w].targets)}
  /\ sender' = [sender EXCEPT ![w] = SenderAt("sweeping")]
  /\ UNCHANGED <<endpoints, log, received>>

(* The transaction: one delivery for each target, duplicates skipped, and the event
   is dispatched.  It throws when an endpoint was deleted since (foreign key). *)
FanOut(w) ==
  LET e == sender[w].row
      gone == \E x \in sender[w].targets : endpoints[x].state = "deleted"
  IN /\ sender[w].pc = "fanning out"
     /\ \/ /\ OwnsEvent(w) /\ ~gone
           /\ deliveries' = FannedOut(e, sender[w].targets)
           /\ outbox' = [outbox EXCEPT ![e] = [Released(@) EXCEPT !.status = "DISPATCHED"]]
           /\ sender' = [sender EXCEPT ![w] = SenderAt("sweeping")]
        \/ ~OwnsEvent(w) /\ sender' = [sender EXCEPT ![w] = SenderAt("sweeping")]
           /\ UNCHANGED <<outbox, deliveries>>
        \/ sender' = [sender EXCEPT ![w].pc = "event failed"] /\ UNCHANGED <<outbox, deliveries>>
     /\ UNCHANGED <<endpoints, log, received>>

(* failClaimedWebhookEvent; when it throws too, the loop starts anew. *)
FailEvent(w) ==
  /\ sender[w].pc = "event failed"
  /\ \/ /\ OwnsEvent(w)
        /\ outbox' = [outbox EXCEPT ![sender[w].row] =
             IF sender[w].n >= MaxOutboxAttempts THEN Buried(@)
             ELSE [Released(@) EXCEPT !.status = "PENDING", !.due = FALSE]]
        /\ sender' = [sender EXCEPT ![w] = SenderAt("sweeping")]
     \/ ~OwnsEvent(w) /\ sender' = [sender EXCEPT ![w] = SenderAt("sweeping")] /\ UNCHANGED outbox
     \/ sender' = [sender EXCEPT ![w] = SenderAt("polling")] /\ UNCHANGED outbox
  /\ UNCHANGED <<endpoints, deliveries, log, received>>
-----------------------------------------------------------------------------
(* claimNextWebhookDelivery, first statement. *)
BuryDeliveries(w) ==
  /\ sender[w].pc = "sweeping"
  /\ deliveries' = [d \in Deliveries |->
       IF Lapsed(deliveries[d]) /\ deliveries[d].attempts >= MaxDeliveryAttempts
       THEN Buried(deliveries[d]) ELSE deliveries[d]]
  /\ sender' = [sender EXCEPT ![w] = SenderAt("closing")]
  /\ UNCHANGED <<outbox, endpoints, log, received>>

(* Attempt n is open under the claim that counted it. *)
Current(d, n) == deliveries[d].status = "PROCESSING" /\ deliveries[d].attempts = n

(* Its second and third statement close the open attempts of deliveries that are
   not in progress, or in progress under a later claim; the attempts the second
   one selects are among those of the third. *)
CloseOrphanedAttempts(w) ==
  /\ sender[w].pc = "closing"
  /\ log' = [d \in Deliveries |-> [n \in 1..MaxDeliveryAttempts |->
       IF log[d][n] = "PROCESSING" /\ ~Current(d, n) THEN "FAILED" ELSE log[d][n]]]
  /\ sender' = [sender EXCEPT ![w] = SenderAt("claiming")]
  /\ UNCHANGED <<outbox, endpoints, deliveries, received>>

(* The claim; the snapshot carries the endpoint with its isActive. *)
ClaimDelivery(w) ==
  LET claimable == {d \in Deliveries :
                      Claimable(deliveries[d], {"PENDING", "RETRYING"}, MaxDeliveryAttempts)}
  IN /\ sender[w].pc = "claiming"
     /\ \/ \E d \in claimable :
             /\ deliveries' = [deliveries EXCEPT ![d] =
                  [Claimed(deliveries[d], w) EXCEPT !.status = "PROCESSING", !.attempts = @ + 1]]
             /\ sender' = [sender EXCEPT ![w] =
                  [SenderAt("checking") EXCEPT !.row = d, !.n = deliveries[d].attempts + 1,
                                               !.active = (endpoints[d[2]].state = "active")]]
        \/ /\ claimable = {}
           /\ sender' = [sender EXCEPT ![w] = SenderAt("polling")]
           /\ UNCHANGED deliveries
     /\ UNCHANGED <<outbox, endpoints, log, received>>

(* executeClaimedWebhookDelivery: the ownership check, *)
CheckOwned(w) ==
  /\ sender[w].pc = "checking"
  /\ sender' = [sender EXCEPT ![w] =
       IF OwnsDelivery(w) THEN [@ EXCEPT !.pc = "opening"] ELSE SenderAt("polling")]
  /\ UNCHANGED <<outbox, endpoints, deliveries, log, received>>

(* the row of the attempt, *)
OpenAttempt(w) ==
  /\ sender[w].pc = "opening"
  /\ \/ /\ DeliveryOf(w).status # "none"
        /\ log' = [log EXCEPT ![sender[w].row][sender[w].n] = "PROCESSING"]
        /\ sender' = [sender EXCEPT ![w].pc = IF sender[w].active THEN "posting" ELSE "cancelling"]
     \/ sender' = [sender EXCEPT ![w].pc = "failing"] /\ UNCHANGED log
  /\ UNCHANGED <<outbox, endpoints, deliveries, received>>

(* the cancellation of a disabled endpoint's delivery, by its id alone, *)
CancelDisabled(w) ==
  /\ sender[w].pc = "cancelling"
  /\ \/ /\ DeliveryOf(w).status # "none"
        /\ deliveries' = [deliveries EXCEPT ![sender[w].row] = [Released(@) EXCEPT !.status = "CANCELLED"]]
        /\ log' = [log EXCEPT ![sender[w].row][sender[w].n] = "FAILED"]
        /\ sender' = [sender EXCEPT ![w] = SenderAt("polling")]
     \/ sender' = [sender EXCEPT ![w].pc = "failing"] /\ UNCHANGED <<deliveries, log>>
  /\ UNCHANGED <<outbox, endpoints, received>>

(* and the HTTP request: accepted, accepted with the answer lost, or not sent or
   refused (entitlement, rate limit, transport error). *)
Post(w) ==
  /\ sender[w].pc = "posting"
  /\ \/ /\ received' = IF DeliveryOf(w).status = "none" THEN received
                       ELSE [received EXCEPT ![sender[w].row] = @ + 1]
        /\ \E pc \in {"posted", "failing"} : sender' = [sender EXCEPT ![w].pc = pc]
     \/ sender' = [sender EXCEPT ![w].pc = "failing"] /\ UNCHANGED received
  /\ UNCHANGED <<outbox, endpoints, deliveries, log>>

(* One transaction records the success in both, under the claim. *)
Complete(w) ==
  /\ sender[w].pc = "posted"
  /\ \/ /\ OwnsDelivery(w)
        /\ deliveries' = [deliveries EXCEPT ![sender[w].row] = [Released(@) EXCEPT !.status = "SUCCEEDED"]]
        /\ log' = [log EXCEPT ![sender[w].row][sender[w].n] = "SUCCEEDED"]
        /\ sender' = [sender EXCEPT ![w] = SenderAt("polling")]
     \/ /\ ~OwnsDelivery(w)
        /\ sender' = [sender EXCEPT ![w] = SenderAt("polling")]
        /\ UNCHANGED <<deliveries, log>>
     \/ sender' = [sender EXCEPT ![w].pc = "failing"] /\ UNCHANGED <<deliveries, log>>
  /\ UNCHANGED <<outbox, endpoints, received>>

(* failClaimedWebhookDelivery: retryable failures with attempts left are retried
   after a backoff, the others are dead letters. *)
FailDelivery(w) ==
  /\ sender[w].pc = "failing"
  /\ \/ /\ OwnsDelivery(w)
        /\ \E retryable \in BOOLEAN :
             deliveries' = [deliveries EXCEPT ![sender[w].row] =
               IF ~retryable \/ sender[w].n >= MaxDeliveryAttempts THEN Buried(@)
               ELSE [Released(@) EXCEPT !.status = "RETRYING", !.due = FALSE]]
        /\ log' = [log EXCEPT ![sender[w].row][sender[w].n] = IF @ = "PROCESSING" THEN "FAILED" ELSE @]
     \/ UNCHANGED <<deliveries, log>>
  /\ sender' = [sender EXCEPT ![w] = SenderAt("polling")]
  /\ UNCHANGED <<outbox, endpoints, received>>
-----------------------------------------------------------------------------
HeldBy(row, w) == row.status = "PROCESSING" /\ row.lock = w

(* stop: recoverWebhookClaimsForWorker sets back what its worker still holds,
   whatever attempts are left, in one transaction. *)
StopSender(w) ==
  /\ w \in Mortal /\ sender[w].pc = "polling"
  /\ outbox' = [e \in Events |->
       IF HeldBy(outbox[e], w)
       THEN [Released(outbox[e]) EXCEPT !.status = "PENDING", !.due = TRUE] ELSE outbox[e]]
  /\ deliveries' = [d \in Deliveries |->
       IF HeldBy(deliveries[d], w)
       THEN [Released(deliveries[d]) EXCEPT !.status = "RETRYING", !.due = TRUE] ELSE deliveries[d]]
  /\ log' = [d \in Deliveries |-> [n \in 1..MaxDeliveryAttempts |->
       IF log[d][n] = "PROCESSING" /\ Current(d, n) /\ HeldBy(deliveries[d], w)
       THEN "FAILED" ELSE log[d][n]]]
  /\ sender' = [sender EXCEPT ![w] = SenderAt("stopped")]
  /\ UNCHANGED <<endpoints, received>>

KillSender(w) ==
  /\ w \in Mortal /\ sender[w].pc \notin Gone
  /\ sender' = [sender EXCEPT ![w] = SenderAt("dead")]
  /\ UNCHANGED <<outbox, endpoints, deliveries, log, received>>

(* heartbeatWebhookEvent and heartbeatWebhookDelivery: a late one revives a lease
   that has run out as long as nobody else has claimed the row. *)
HeartbeatWebhook(w) ==
  \/ /\ sender[w].pc \in {"reading targets", "fanning out", "event failed"}
     /\ OwnsEvent(w) /\ EventOf(w).lease = "expired"
     /\ outbox' = [outbox EXCEPT ![sender[w].row].lease = "live"]
     /\ UNCHANGED <<endpoints, deliveries, log, received, sender>>
  \/ /\ sender[w].pc \in {"checking", "opening", "cancelling", "posting", "posted", "failing"}
     /\ OwnsDelivery(w) /\ DeliveryOf(w).lease = "expired"
     /\ deliveries' = [deliveries EXCEPT ![sender[w].row].lease = "live"]
     /\ UNCHANGED <<outbox, endpoints, log, received, sender>>

EventLeaseExpires(e) ==
  /\ outbox[e].lease = "live"
  /\ outbox' = [outbox EXCEPT ![e].lease = "expired"]
  /\ UNCHANGED <<endpoints, deliveries, log, received, sender>>

DeliveryLeaseExpires(d) ==
  /\ deliveries[d].lease = "live"
  /\ deliveries' = [deliveries EXCEPT ![d].lease = "expired"]
  /\ UNCHANGED <<outbox, endpoints, log, received, sender>>

(* A backoff ends. *)
WebhookFallsDue ==
  /\ \/ \E e \in Events : /\ ~outbox[e].due /\ outbox' = [outbox EXCEPT ![e].due = TRUE]
                          /\ UNCHANGED deliveries
     \/ \E d \in Deliveries : /\ ~deliveries[d].due /\ deliveries' = [deliveries EXCEPT ![d].due = TRUE]
                              /\ UNCHANGED outbox
  /\ UNCHANGED <<endpoints, log, received, sender>>

SenderStep(w) ==
  \/ BuryEvents(w) \/ ClaimEvent(w) \/ ReadTargets(w) \/ FanOut(w) \/ FailEvent(w)
  \/ BuryDeliveries(w) \/ CloseOrphanedAttempts(w) \/ ClaimDelivery(w) \/ CheckOwned(w)
  \/ OpenAttempt(w) \/ CancelDisabled(w) \/ Post(w) \/ Complete(w) \/ FailDelivery(w)

WebhookNext ==
  \/ \E w \in Workers : SenderStep(w) \/ HeartbeatWebhook(w) \/ StopSender(w) \/ KillSender(w)
  \/ \E e \in Events : PublishEvent(e) \/ EventLeaseExpires(e)
  \/ \E e \in Events, x \in Endpoints : QueueTest(e, x) \/ Replay(e, x)
  \/ \E x \in Endpoints, state \in {"active", "disabled", "deleted"} : ChangeEndpoint(x, state)
  \/ \E d \in Deliveries : DeliveryLeaseExpires(d)
  \/ WebhookFallsDue

(* Nobody renews the lease any more. *)
AbandonedEvent(e) == \A w \in Workers : sender[w].row = e => outbox[e].lock # w
AbandonedDelivery(d) == \A w \in Workers : sender[w].row = d => deliveries[d].lock # w

(* Time passes: a backoff, or a lease that nobody renews. *)
WebhookTime ==
  \/ WebhookFallsDue
  \/ \E e \in Events : EventLeaseExpires(e) /\ AbandonedEvent(e)
  \/ \E d \in Deliveries : DeliveryLeaseExpires(d) /\ AbandonedDelivery(d)

(* A worker that is up goes on (requests have a timeout), and time passes. *)
WebhookFairness ==
  (\A w \in Workers : WF_webhookVars(SenderStep(w))) /\ WF_webhookVars(WebhookTime)

WebhookSpec == WebhookInit /\ [][WebhookNext]_webhookVars
FairWebhookSpec == WebhookSpec /\ WebhookFairness
-----------------------------------------------------------------------------
WebhookTypeOK ==
  /\ \A e \in Events : /\ outbox[e].status \in {"none", "PENDING", "PROCESSING", "DISPATCHED", "DEAD_LETTER"}
                       /\ outbox[e].attempts \in 0..MaxOutboxAttempts
                       /\ (outbox[e].lock # Nobody) <=> (outbox[e].status = "PROCESSING")
  /\ \A d \in Deliveries :
       /\ deliveries[d].status \in {"none", "PENDING", "PROCESSING", "RETRYING"} \cup SettledDelivery
       /\ deliveries[d].attempts \in 0..MaxDeliveryAttempts
       /\ (deliveries[d].lock # Nobody) <=> (deliveries[d].status = "PROCESSING")
       /\ log[d] \in [1..MaxDeliveryAttempts -> {"none", "PROCESSING", "FAILED", "SUCCEEDED"}]

(* Fan-out is all or nothing: a dispatched event that was not skipped has its
   delivery for every endpoint that has been active all the time, however many
   workers materialized it and wherever they crashed; before that it has none. *)
FanOutIsComplete ==
  \A e \in Events :
    /\ (outbox[e].status = "DISPATCHED" /\ ~outbox[e].skipped /\ outbox[e].attempts > 0) =>
         \A x \in Endpoints : endpoints[x].changes = 0 => deliveries[<<e, x, "initial">>].status # "none"
    /\ outbox[e].status # "DISPATCHED" =>
         \A x \in Endpoints : deliveries[<<e, x, "initial">>].status = "none"

(* The delivery log agrees with the delivery: a success is recorded for the last
   attempt alone and only if the endpoint has accepted it, and an attempt is never
   recorded beyond those counted; an endpoint is never asked more often than that.
   (A cancellation may overwrite a success: the disabled endpoint cancels by id.) *)
DeliveryLogAgrees ==
  \A d \in Deliveries :
    /\ received[d] <= deliveries[d].attempts
    /\ \A n \in 1..MaxDeliveryAttempts :
         /\ log[d][n] # "none" => n <= deliveries[d].attempts
         /\ log[d][n] = "SUCCEEDED" =>
              n = deliveries[d].attempts /\ deliveries[d].status \in {"SUCCEEDED", "CANCELLED"}
    /\ deliveries[d].status = "SUCCEEDED" => log[d][deliveries[d].attempts] = "SUCCEEDED" /\ received[d] > 0

(* Set back by the stop of a worker without an attempt left; no claim takes it. *)
StrandedEvent(e) == outbox[e].status = "PENDING" /\ outbox[e].attempts >= MaxOutboxAttempts
StrandedDelivery(d) == deliveries[d].status = "RETRYING" /\ deliveries[d].attempts >= MaxDeliveryAttempts

(* Every event is dispatched and every delivery ends: accepted, dead, cancelled or
   gone with its endpoint, unless a stopped worker has stranded it.  And "the delivery
   log never shows a phantom running attempt": an attempt whose claim is gone is
   closed by whichever worker polls next. *)
WebhookWaits ==
  \/ \E e \in Events : outbox[e].status \in {"PENDING", "PROCESSING"} /\ ~StrandedEvent(e)
  \/ \E d \in Deliveries :
       \/ deliveries[d].status \in {"PENDING", "PROCESSING", "RETRYING"} /\ ~StrandedDelivery(d)
       \/ \E n \in 1..MaxDeliveryAttempts : log[d][n] = "PROCESSING" /\ ~Current(d, n)
DeliveriesSettle == WebhookWaits ~> ~WebhookWaits
=============================================================================
