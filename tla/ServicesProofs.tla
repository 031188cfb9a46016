--------------------------- MODULE ServicesProofs ---------------------------
(***************************************************************************)
(* Theorems about broadcasts and campaigns together, for any number of     *)
(* broadcasts, recipients, workers, requests, drafts and launches; and     *)
(* about the services of MCServices together.                              *)
(*                                                                         *)
(* BroadcastsMove says what any step, of a worker, a user or a campaign,   *)
(* may make of a broadcast and its recipients, CampaignsMove what it may   *)
(* make of a campaign.  Every action is shown to be such a move once; the  *)
(* three parts of the inductive invariant follow from the moves:           *)
(*   ProgressInv  the counters are those of the recipients, and a worker   *)
(*                that records a recipient has queued its message;         *)
(*   CampaignInv  what a worker or a request has read of a campaign still  *)
(*                binds it: a broadcast that was there is there or was     *)
(*                deleted, and the version to be activated has its         *)
(*                reservation;                                             *)
(*   QuotaInv     only a creation that threw gives its key back.           *)
(***************************************************************************)
EXTENDS MCServices, SignInProofs

BroadcastStatuses == {"none", "QUEUED", "RUNNING", "PAUSED", "COMPLETED", "CANCELLED", "FAILED"}
RecipientStatuses == {"none", "PENDING", "ENQUEUED", "SKIPPED", "CANCELLED"}
BroadcastRows ==
  [status : BroadcastStatuses, lock : Workers \cup {Nobody}, lease : Leases,
   enqueued : Nat, skipped : Nat, cancelled : Nat]

(* A row is locked only while it is sent. *)
BroadcastRow(q) == q \in BroadcastRows /\ (q.lock # Nobody => q.status = "RUNNING")

(* What a worker may be doing: with a broadcast at hand, and with one of its recipients. *)
AtRecipient == {"enqueueing", "skipping", "handing", "recording"}
AtBroadcast == {"claimed", "denied", "failing"} \cup AtRecipient
BroadcasterStates ==
  {s \in [pc : {"idle"} \cup Gone \cup AtBroadcast, broadcast : Broadcasts \cup {"no broadcast"},
          recipient : Recipients \cup {"no recipient"}, row : Nat] :
     /\ s.pc \in AtBroadcast => s.broadcast \in Broadcasts
     /\ s.pc \in AtRecipient => s.recipient \in Recipients}
CreatorStates ==
  {s \in [pc : {"idle", "creating", "settling", "releasing"}, broadcast : Broadcasts \cup {"no broadcast"}] :
     s.pc # "idle" => s.broadcast \in Broadcasts \ Campaigns}

BroadcastTypes ==
  /\ broadcasts \in [Broadcasts -> BroadcastRows] /\ \A b \in Broadcasts : BroadcastRow(broadcasts[b])
  /\ recipients \in [Broadcasts -> [Recipients -> RecipientStatuses]]
  /\ broadcaster \in [Workers -> BroadcasterStates]
  /\ creator \in [Callers -> CreatorStates]
  /\ deletions \in [Broadcasts -> Nat]

(* What a request may be doing, and a worker that hands off. *)
Changing == {"PAUSED", "QUEUED", "SCHEDULED", "CANCELLED"}
PlannerStates ==
  {p \in [pc : {"idle", "read", "activating", "settling", "raced", "releasing"},
          campaign : Campaigns \cup {"no campaign"},
          status : {"none", "DRAFT", "SCHEDULED", "QUEUED", "RUNNING", "PAUSED", "FAILED"},
          version : 0..MaxDrafts, handed : Nat,
          target : {"none", "edited", "activated"} \cup Changing] :
     /\ p.pc # "idle" => p.campaign \in Campaigns
     /\ p.pc = "read" => p.status \in Allowed(p.target) /\ p.target # "none"
     /\ (p.pc = "read" /\ p.target \in {"edited", "activated"}) => p.version \in 1..MaxDrafts
     /\ p.pc \in {"activating", "settling", "raced", "releasing"} => p.version \in 1..MaxDrafts}

AtCampaign == {"claimed", "raced", "recovering", "preparing", "launching", "failing", "denied", "listed", "reconciling"}
Mirrors == {"RUNNING", "COMPLETED", "PAUSED", "CANCELLED", "FAILED"}
LauncherStates ==
  {l \in [pc : {"idle"} \cup Gone \cup AtCampaign, campaign : Campaigns \cup {"no campaign"},
          launches : 0..MaxLaunches, target : {"none"} \cup Mirrors] :
     /\ l.pc \in AtCampaign => l.campaign \in Campaigns
     /\ l.pc \in {"recovering", "reconciling"} => l.target \in Mirrors}

CampaignStatuses ==
  {"none", "DRAFT", "SCHEDULED", "QUEUED", "RUNNING", "PAUSED", "COMPLETED", "CANCELLED", "FAILED"}
CampaignRows ==
  [status : CampaignStatuses, version : 1..MaxDrafts, launches : 0..MaxLaunches, lock : Workers \cup {Nobody}, lease : Leases]
CampaignRow(q) == q \in CampaignRows /\ ((q.lock = Nobody) <=> (q.lease = "none"))

ActorTypes == planner \in [Callers -> PlannerStates] /\ launcher \in [Workers -> LauncherStates]
CampaignTypes ==
  /\ campaigns \in [Campaigns -> CampaignRows] /\ \A k \in Campaigns : CampaignRow(campaigns[k])
  /\ ActorTypes
-----------------------------------------------------------------------------
(* The row that a statement leaves with another status; it is released. *)
MovedRow(r, st) == [Released(r) EXCEPT !.status = st]
TakenBroadcast(r, w) == [Claimed(r, w) EXCEPT !.status = "RUNNING"]
StoppedRow(r, n) == [MovedRow(r, "CANCELLED") EXCEPT !.cancelled = @ + n]
CountedRow(r, skip) ==
  [r EXCEPT !.skipped = @ + (IF skip THEN 1 ELSE 0), !.enqueued = @ + (IF skip THEN 0 ELSE 1)]
FirstRow(r, all, n) == [r EXCEPT !.status = IF all THEN "COMPLETED" ELSE "QUEUED", !.skipped = n]

SameCounts(r, q) == q.enqueued = r.enqueued /\ q.skipped = r.skipped /\ q.cancelled = r.cancelled

(* A status changes: the row is released, and its counters stay. *)
LEMMA MovesRow ==
  ASSUME NEW r \in BroadcastRows, NEW st \in BroadcastStatuses, NEW q, q = MovedRow(r, st)
  PROVE  BroadcastRow(q) /\ q.status = st /\ q.lock = Nobody /\ SameCounts(r, q)
  BY DEF BroadcastRows, Released, Leases, MovedRow, BroadcastRow, SameCounts

(* A claim locks the row. *)
LEMMA TakesRow ==
  ASSUME NEW r \in BroadcastRows, NEW w \in Workers, NEW q, q = TakenBroadcast(r, w)
  PROVE  BroadcastRow(q) /\ q.status = "RUNNING" /\ SameCounts(r, q)
  BY DEF BroadcastRows, Claimed, Leases, TakenBroadcast, BroadcastRow, SameCounts, BroadcastStatuses

(* A lease alone changes. *)
LEMMA LeasesRow ==
  ASSUME NEW r, BroadcastRow(r), NEW l \in Leases, NEW q, q = [r EXCEPT !.lease = l]
  PROVE  BroadcastRow(q) /\ q.status = r.status /\ SameCounts(r, q)
  BY DEF BroadcastRows, BroadcastRow, SameCounts

(* A cancellation counts the recipients it stops. *)
LEMMA StopsRow ==
  ASSUME NEW r \in BroadcastRows, NEW n \in Nat, NEW q, q = StoppedRow(r, n)
  PROVE  /\ BroadcastRow(q) /\ q.status = "CANCELLED"
         /\ q.enqueued = r.enqueued /\ q.skipped = r.skipped /\ q.cancelled = r.cancelled + n
  <1> DEFINE m == r.cancelled + n  t == MovedRow(r, "CANCELLED")
  <1>1. "CANCELLED" \in BroadcastStatuses /\ m \in Nat BY DEF BroadcastStatuses, BroadcastRows
  <1>2. BroadcastRow(t) /\ t.status = "CANCELLED" /\ t.lock = Nobody /\ SameCounts(r, t) BY <1>1, MovesRow
  <1>3. q = [t EXCEPT !.cancelled = t.cancelled + n] BY DEF StoppedRow
  <1> HIDE DEF t
  <1>4. q = [t EXCEPT !.cancelled = m] BY <1>2, <1>3 DEF SameCounts
  <1> HIDE DEF m
  <1>5. /\ q \in BroadcastRows /\ q.status = t.status /\ q.lock = t.lock
        /\ q.enqueued = t.enqueued /\ q.skipped = t.skipped /\ q.cancelled = m
    BY <1>1, <1>2, <1>4 DEF BroadcastRow, BroadcastRows
  <1> QED BY <1>2, <1>5 DEF BroadcastRow, SameCounts, m

(* A recipient is counted once, as skipped or as handed over. *)
LEMMA CountsRow ==
  ASSUME NEW r, BroadcastRow(r), NEW skip \in BOOLEAN, NEW q, q = CountedRow(r, skip)
  PROVE  /\ BroadcastRow(q) /\ q.status = r.status /\ q.cancelled = r.cancelled
         /\ q.skipped = r.skipped + (IF skip THEN 1 ELSE 0) /\ q.enqueued = r.enqueued + (IF skip THEN 0 ELSE 1)
  <1> DEFINE m == r.skipped + (IF skip THEN 1 ELSE 0)  n == r.enqueued + (IF skip THEN 0 ELSE 1)
  <1>1. m \in Nat /\ n \in Nat BY DEF BroadcastRow, BroadcastRows
  <1>2. q = [r EXCEPT !.skipped = m, !.enqueued = n] BY DEF CountedRow
  <1> HIDE DEF m, n
  <1>3. /\ q \in BroadcastRows /\ q.status = r.status /\ q.cancelled = r.cancelled /\ q.lock = r.lock
        /\ q.skipped = m /\ q.enqueued = n
    BY <1>1, <1>2 DEF BroadcastRow, BroadcastRows
  <1> QED BY <1>3 DEF BroadcastRow, m, n

(* The row of a new broadcast. *)
LEMMA FirstOfRow ==
  ASSUME NEW r, BroadcastRow(r), r.status = "none", NEW all \in BOOLEAN, NEW n \in Nat, NEW q, q = FirstRow(r, all, n)
  PROVE  /\ BroadcastRow(q) /\ q.status = (IF all THEN "COMPLETED" ELSE "QUEUED")
         /\ q.skipped = n /\ q.enqueued = r.enqueued /\ q.cancelled = r.cancelled
  <1> DEFINE st == IF all THEN "COMPLETED" ELSE "QUEUED"
  <1>1. st \in BroadcastStatuses BY DEF BroadcastStatuses
  <1>2. q = [r EXCEPT !.status = st, !.skipped = n] BY DEF FirstRow
  <1> HIDE DEF st
  <1>3. /\ q \in BroadcastRows /\ q.status = st /\ q.lock = r.lock
        /\ q.skipped = n /\ q.enqueued = r.enqueued /\ q.cancelled = r.cancelled
    BY <1>1, <1>2 DEF BroadcastRow, BroadcastRows
  <1> QED BY <1>3 DEF BroadcastRow, st

(* The row of none. *)
LEMMA NoBroadcastRow ==
  /\ BroadcastRow(NoBroadcast) /\ NoBroadcast.status = "none"
  /\ NoBroadcast.enqueued = 0 /\ NoBroadcast.skipped = 0 /\ NoBroadcast.cancelled = 0
  <1> DEFINE q == NoBroadcast
  <1>1. q = [status |-> "none", lock |-> Nobody, lease |-> "none", enqueued |-> 0, skipped |-> 0, cancelled |-> 0]
    BY DEF NoBroadcast
  <1> HIDE DEF q
  <1>2. BroadcastRow(q) BY <1>1 DEF BroadcastRow, BroadcastRows, BroadcastStatuses, Leases
  <1>3. q.status = "none" /\ q.enqueued = 0 /\ q.skipped = 0 /\ q.cancelled = 0 BY <1>1
  <1> QED BY <1>2, <1>3 DEF q
-----------------------------------------------------------------------------
(* What a step makes of the row and the recipients of b: only the status moves, *)
KeepsCounts(b, q) ==
  /\ SameCounts(broadcasts[b], q)
  /\ \/ q.status = broadcasts[b].status
     \/ broadcasts[b].status \in Stoppable /\ q.status \in Stoppable
     \/ broadcasts[b].status = "RUNNING" /\ q.status = "COMPLETED" /\ PendingRecipients(b) = {}

(* it is created, by a request or together with the status of its campaign, *)
HandsOff(b, q) ==
  /\ campaigns[b].status = "QUEUED"
  /\ campaigns'[b].status = IF q.status = "COMPLETED" THEN "COMPLETED" ELSE "RUNNING"
Creates(b, q, rec) ==
  /\ broadcasts[b].status = "none"
  /\ q.enqueued = broadcasts[b].enqueued /\ q.cancelled = broadcasts[b].cancelled
  /\ IF b \in Campaigns THEN HandsOff(b, q) ELSE \E c \in Callers : creator[c].pc = "creating" /\ creator[c].broadcast = b
  /\ \E skip \in SUBSET Recipients :
       /\ q.status = IF skip = Recipients THEN "COMPLETED" ELSE "QUEUED"
       /\ q.skipped = Cardinality(skip)
       /\ rec = [r \in Recipients |-> IF r \in skip THEN "SKIPPED" ELSE "PENDING"]

(* cancelled, *)
Stops(b, q, rec) ==
  /\ broadcasts[b].status \in Stoppable /\ q.status = "CANCELLED"
  /\ q.enqueued = broadcasts[b].enqueued /\ q.skipped = broadcasts[b].skipped
  /\ q.cancelled = broadcasts[b].cancelled + With(b, "PENDING")
  /\ rec = [r \in Recipients |-> IF recipients[b][r] = "PENDING" THEN "CANCELLED" ELSE recipients[b][r]]

(* or deleted, which is counted, and remembered of a complete one, *)
Deletes(b, q, rec) ==
  /\ broadcasts[b].status \in {"COMPLETED", "CANCELLED"} /\ q.status = "none"
  /\ deletions'[b] = deletions[b] + 1 /\ (broadcasts[b].status = "COMPLETED" => b \in ended')
  /\ q.enqueued = 0 /\ q.skipped = 0 /\ q.cancelled = 0
  /\ rec = [r \in Recipients |-> "none"]

(* or a pending recipient is counted, as handed over only by who has queued its message. *)
Counts(b, q, rec) ==
  /\ broadcasts[b].status = "RUNNING" /\ q.cancelled = broadcasts[b].cancelled
  /\ \E r \in PendingRecipients(b), skip \in BOOLEAN :
       /\ rec = [recipients[b] EXCEPT ![r] = IF skip THEN "SKIPPED" ELSE "ENQUEUED"]
       /\ q.skipped = broadcasts[b].skipped + (IF skip THEN 1 ELSE 0)
       /\ q.enqueued = broadcasts[b].enqueued + (IF skip THEN 0 ELSE 1)
       /\ q.status = IF PendingRecipients(b) = {r} THEN "COMPLETED" ELSE "RUNNING"
       /\ ~skip => \E w \in Workers : /\ broadcaster[w].pc = "recording"
                                      /\ broadcaster[w].broadcast = b /\ broadcaster[w].recipient = r
                                      /\ broadcaster[w].row = RowId(b)

Change(b, q, rec) ==
  \/ rec = recipients[b] /\ KeepsCounts(b, q)
  \/ Creates(b, q, rec) \/ Stops(b, q, rec) \/ Deletes(b, q, rec) \/ Counts(b, q, rec)

BroadcastMove(b) == Change(b, broadcasts'[b], recipients'[b])
BroadcastsMove ==
  /\ broadcasts' \in [Broadcasts -> BroadcastRows] /\ \A b \in Broadcasts : BroadcastRow(broadcasts'[b])
  /\ recipients' \in [Broadcasts -> [Recipients -> RecipientStatuses]]
  /\ \A b \in Broadcasts : BroadcastMove(b)

(* A statement on one row, *)
LEMMA OneRowMoves ==
  ASSUME BroadcastTypes, NEW x \in Broadcasts, NEW q, BroadcastRow(q), KeepsCounts(x, q),
         broadcasts' = [broadcasts EXCEPT ![x] = q], recipients' = recipients
  PROVE  BroadcastsMove
  <1>1. \A b \in Broadcasts : broadcasts'[b] = IF b = x THEN q ELSE broadcasts[b] BY DEF BroadcastTypes
  <1>2. broadcasts' \in [Broadcasts -> BroadcastRows] BY DEF BroadcastTypes, BroadcastRow
  <1>3. \A b \in Broadcasts : KeepsCounts(b, broadcasts[b]) BY DEF KeepsCounts, SameCounts
  <1>4. \A b \in Broadcasts : BroadcastRow(broadcasts'[b]) /\ KeepsCounts(b, broadcasts'[b])
    BY <1>1, <1>3 DEF BroadcastTypes
  <1> QED BY <1>2, <1>4 DEF BroadcastsMove, BroadcastMove, Change, BroadcastTypes

(* on one row and its recipients, *)
LEMMA RecipientsMove ==
  ASSUME BroadcastTypes, NEW x \in Broadcasts, NEW q, BroadcastRow(q),
         NEW rec \in [Recipients -> RecipientStatuses], Change(x, q, rec),
         broadcasts' = [broadcasts EXCEPT ![x] = q], recipients' = [recipients EXCEPT ![x] = rec]
  PROVE  BroadcastsMove
  <1>1. \A b \in Broadcasts : /\ broadcasts'[b] = IF b = x THEN q ELSE broadcasts[b]
                             /\ recipients'[b] = IF b = x THEN rec ELSE recipients[b]
    BY DEF BroadcastTypes
  <1>2. broadcasts' \in [Broadcasts -> BroadcastRows] BY DEF BroadcastTypes, BroadcastRow
  <1>3. \A b \in Broadcasts : KeepsCounts(b, broadcasts[b]) BY DEF KeepsCounts, SameCounts
  <1>4. \A b \in Broadcasts : Change(b, broadcasts[b], recipients[b]) BY <1>3 DEF Change
  <1>5. \A b \in Broadcasts : BroadcastRow(broadcasts'[b]) /\ BroadcastMove(b)
    BY <1>1, <1>4 DEF BroadcastTypes, BroadcastMove
  <1> QED BY <1>2, <1>5 DEF BroadcastsMove, BroadcastTypes

(* and on none. *)
LEMMA NoRowMoves == ASSUME BroadcastTypes, broadcasts' = broadcasts, recipients' = recipients PROVE BroadcastsMove
  <1>1. \A b \in Broadcasts : KeepsCounts(b, broadcasts[b]) BY DEF KeepsCounts, SameCounts
  <1> QED BY <1>1 DEF BroadcastsMove, BroadcastMove, Change, BroadcastTypes

(* A status that is written by a user, a worker or a campaign. *)
LEMMA StatusMoves ==
  ASSUME BroadcastTypes, NEW x \in Broadcasts, NEW st, broadcasts' = Becomes(x, st), recipients' = recipients,
         \/ broadcasts[x].status \in Stoppable /\ st \in Stoppable
         \/ broadcasts[x].status = "RUNNING" /\ st = "COMPLETED" /\ PendingRecipients(x) = {}
  PROVE  BroadcastsMove
  <1> DEFINE q == MovedRow(broadcasts[x], st)
  <1>1. broadcasts' = [broadcasts EXCEPT ![x] = q] BY DEF Becomes, MovedRow
  <1>2. broadcasts[x] \in BroadcastRows /\ st \in BroadcastStatuses
    BY DEF BroadcastTypes, Stoppable, BroadcastStatuses
  <1>3. BroadcastRow(q) /\ q.status = st /\ SameCounts(broadcasts[x], q) BY <1>2, MovesRow
  <1> HIDE DEF q
  <1>4. KeepsCounts(x, q) BY <1>3 DEF KeepsCounts
  <1> QED BY <1>1, <1>3, <1>4, OneRowMoves

(* A lease of a claim, *)
LEMMA LeaseMoves ==
  ASSUME BroadcastTypes, NEW x \in Broadcasts, NEW l \in Leases, broadcasts' = [broadcasts EXCEPT ![x].lease = l],
         recipients' = recipients
  PROVE  BroadcastsMove
  <1> DEFINE q == [broadcasts[x] EXCEPT !.lease = l]
  <1>1. broadcasts' = [broadcasts EXCEPT ![x] = q] OBVIOUS
  <1>2. BroadcastRow(q) /\ q.status = broadcasts[x].status /\ SameCounts(broadcasts[x], q)
    BY LeasesRow DEF BroadcastTypes
  <1> HIDE DEF q
  <1>3. KeepsCounts(x, q) BY <1>2 DEF KeepsCounts
  <1> QED BY <1>1, <1>2, <1>3, OneRowMoves

(* a cancellation, *)
LEMMA StopMoves ==
  ASSUME BroadcastTypes, NEW x \in Broadcasts, BroadcastIs(x, Stoppable), Stopped(x)
  PROVE  BroadcastsMove
  <1> DEFINE n == With(x, "PENDING")
             q == StoppedRow(broadcasts[x], n)
             rec == [r \in Recipients |-> IF recipients[x][r] = "PENDING" THEN "CANCELLED" ELSE recipients[x][r]]
  <1>1. n \in Nat
    BY FS_Subset, FS_CardinalityType, BroadcastAssumption DEF With
  <1>2. broadcasts[x] \in BroadcastRows BY DEF BroadcastTypes
  <1> HIDE DEF n
  <1>3. broadcasts' = [broadcasts EXCEPT ![x] = q] /\ recipients' = [recipients EXCEPT ![x] = rec]
    <2>1. broadcasts' = [Becomes(x, "CANCELLED") EXCEPT ![x].cancelled = @ + n] BY DEF Stopped, n
    <2>2. Becomes(x, "CANCELLED") = [broadcasts EXCEPT ![x] = MovedRow(broadcasts[x], "CANCELLED")]
      BY DEF Becomes, MovedRow
    <2>3. broadcasts' = [broadcasts EXCEPT ![x] = q] BY <2>1, <2>2 DEF StoppedRow, BroadcastTypes
    <2>4. recipients' = [recipients EXCEPT ![x] = rec] BY DEF Stopped, BroadcastTypes
    <2> QED BY <2>3, <2>4
  <1>4. /\ BroadcastRow(q) /\ q.status = "CANCELLED"
        /\ q.enqueued = broadcasts[x].enqueued /\ q.skipped = broadcasts[x].skipped
        /\ q.cancelled = broadcasts[x].cancelled + n
    BY <1>1, <1>2, StopsRow
  <1>5. rec \in [Recipients -> RecipientStatuses] BY DEF BroadcastTypes, RecipientStatuses
  <1> HIDE DEF q
  <1>6. Stops(x, q, rec) BY <1>4 DEF Stops, BroadcastIs, n
  <1> HIDE DEF rec
  <1> QED BY <1>3, <1>4, <1>5, <1>6, RecipientsMove DEF Change

(* and a creation. *)
LEMMA CreationMoves ==
  ASSUME BroadcastTypes, NEW x \in Broadcasts, BroadcastIs(x, {"none"}), NewBroadcast(x),
         IF x \in Campaigns THEN HandsOff(x, broadcasts'[x])
         ELSE \E c \in Callers : creator[c].pc = "creating" /\ creator[c].broadcast = x
  PROVE  BroadcastsMove /\ Creates(x, broadcasts'[x], recipients'[x])
  <1>1. PICK skip \in SUBSET Recipients :
          /\ broadcasts' = [broadcasts EXCEPT ![x].status = IF skip = Recipients THEN "COMPLETED" ELSE "QUEUED",
                                              ![x].skipped = Cardinality(skip)]
          /\ recipients' = [recipients EXCEPT ![x] = [r \in Recipients |-> IF r \in skip THEN "SKIPPED" ELSE "PENDING"]]
    BY DEF NewBroadcast
  <1> DEFINE n == Cardinality(skip)
             all == skip = Recipients
             q == FirstRow(broadcasts[x], all, n)
             rec == [r \in Recipients |-> IF r \in skip THEN "SKIPPED" ELSE "PENDING"]
  <1>2. n \in Nat BY FS_Subset, FS_CardinalityType, BroadcastAssumption
  <1>3. BroadcastRow(broadcasts[x]) /\ broadcasts[x].status = "none" BY DEF BroadcastTypes, BroadcastIs
  <1>4. broadcasts' = [broadcasts EXCEPT ![x] = q] BY <1>1 DEF FirstRow, BroadcastTypes
  <1>5. all \in BOOLEAN OBVIOUS
  <1> HIDE DEF n
  <1>6. all <=> skip = Recipients OBVIOUS
  <1> HIDE DEF all
  <1>7. /\ BroadcastRow(q) /\ q.status = (IF all THEN "COMPLETED" ELSE "QUEUED")
        /\ q.skipped = n /\ q.enqueued = broadcasts[x].enqueued /\ q.cancelled = broadcasts[x].cancelled
    BY <1>2, <1>3, <1>5, FirstOfRow
  <1>8. rec \in [Recipients -> RecipientStatuses] BY DEF RecipientStatuses
  <1> HIDE DEF q
  <1>9. Creates(x, q, rec)
    <2>1. q.status = IF skip = Recipients THEN "COMPLETED" ELSE "QUEUED" BY <1>6, <1>7
    <2>2. broadcasts'[x] = q BY <1>4 DEF BroadcastTypes
    <2> QED BY <1>3, <1>7, <2>1, <2>2 DEF Creates, n
  <1>10. recipients' = [recipients EXCEPT ![x] = rec] BY <1>1
  <1> HIDE DEF rec
  <1>11. broadcasts'[x] = q /\ recipients'[x] = rec BY <1>4, <1>10 DEF BroadcastTypes
  <1> QED BY <1>4, <1>7, <1>8, <1>9, <1>10, <1>11, RecipientsMove DEF Change

(* Every step moves the broadcasts so: those of workers and users, *)
LEMMA BroadcastMoves == ASSUME BroadcastTypes, BroadcastNext PROVE BroadcastsMove
  <1>b. \A w \in Workers : broadcaster[w].pc \in AtBroadcast => broadcaster[w].broadcast \in Broadcasts
    BY DEF BroadcastTypes, BroadcasterStates
  <1>l. "live" \in Leases /\ "expired" \in Leases BY DEF Leases
  <1>1. ASSUME NEW w \in Workers, ClaimBroadcast(w) PROVE BroadcastsMove
    <2>1. PICK x \in Broadcasts : /\ ClaimableBroadcast(x) /\ recipients' = recipients
                                  /\ broadcasts' = [broadcasts EXCEPT ![x] = TakenBroadcast(broadcasts[x], w)]
      BY <1>1 DEF ClaimBroadcast, TakenBroadcast
    <2> DEFINE q == TakenBroadcast(broadcasts[x], w)
    <2>2. broadcasts[x] \in BroadcastRows BY DEF BroadcastTypes
    <2>3. BroadcastRow(q) /\ q.status = "RUNNING" /\ SameCounts(broadcasts[x], q) BY <2>2, TakesRow
    <2>4. broadcasts' = [broadcasts EXCEPT ![x] = q] BY <2>1
    <2> HIDE DEF q
    <2>5. KeepsCounts(x, q) BY <2>1, <2>3 DEF KeepsCounts, ClaimableBroadcast, BroadcastIs, Stoppable
    <2> QED BY <2>1, <2>3, <2>4, <2>5, OneRowMoves
  <1>2. ASSUME NEW w \in Workers, ChooseRecipient(w) PROVE BroadcastsMove
    <2> DEFINE b == broadcaster[w].broadcast
    <2>1. b \in Broadcasts /\ recipients' = recipients BY <1>2, <1>b DEF ChooseRecipient, AtBroadcast
    <2>2. \/ broadcasts' = broadcasts
          \/ broadcasts[b].status = "RUNNING" /\ PendingRecipients(b) = {} /\ broadcasts' = Becomes(b, "COMPLETED")
          \/ broadcasts' = [broadcasts EXCEPT ![b].lease = "live"]
      BY <1>2 DEF ChooseRecipient, OwnsBroadcast, Completes, Becomes
    <2> HIDE DEF b
    <2> QED BY <1>l, <2>1, <2>2, NoRowMoves, StatusMoves, LeaseMoves
  <1>3. ASSUME NEW w \in Workers, CheckBroadcast(w) PROVE BroadcastsMove
    <2> DEFINE b == broadcaster[w].broadcast
    <2>1. b \in Broadcasts /\ recipients' = recipients BY <1>3, <1>b DEF CheckBroadcast, AtBroadcast, AtRecipient
    <2>2. broadcasts' = broadcasts \/ broadcasts' = [broadcasts EXCEPT ![b].lease = "live"] BY <1>3 DEF CheckBroadcast
    <2> HIDE DEF b
    <2> QED BY <1>l, <2>1, <2>2, NoRowMoves, LeaseMoves
  <1>4. ASSUME NEW w \in Workers, FinalizeRecipient(w) PROVE BroadcastsMove
    <2> DEFINE b == broadcaster[w].broadcast
               r == broadcaster[w].recipient
               skip == broadcaster[w].pc = "skipping"
               counted == CountedRow(broadcasts[b], skip)
    <2>1. /\ b \in Broadcasts /\ r \in Recipients /\ skip \in BOOLEAN
          /\ ~skip => broadcaster[w].pc = "recording"
      BY <1>4 DEF FinalizeRecipient, BroadcastTypes, BroadcasterStates, AtBroadcast, AtRecipient
    <2>2. CASE broadcasts' = broadcasts /\ recipients' = recipients BY <2>2, NoRowMoves
    <2>3. CASE ~(broadcasts' = broadcasts /\ recipients' = recipients)
      <3> DEFINE st == IF PendingRecipients(b) = {r} THEN "COMPLETED" ELSE "RUNNING"
                 q == IF st = "COMPLETED" THEN MovedRow(counted, "COMPLETED") ELSE Released(counted)
                 rec == [recipients[b] EXCEPT ![r] = IF skip THEN "SKIPPED" ELSE "ENQUEUED"]
      <3>1. /\ broadcasts[b].status = "RUNNING" /\ r \in PendingRecipients(b) /\ broadcaster[w].row = RowId(b)
            /\ recipients' = [recipients EXCEPT ![b][r] = IF skip THEN "SKIPPED" ELSE "ENQUEUED"]
            /\ broadcasts' = [broadcasts EXCEPT ![b] = q]
        BY <1>4, <2>3 DEF FinalizeRecipient, OwnsBroadcast, Completes, CountedRow, MovedRow
      <3>2. recipients' = [recipients EXCEPT ![b] = rec] BY <2>1, <3>1 DEF BroadcastTypes
      <3>3. rec \in [Recipients -> RecipientStatuses] BY <2>1 DEF BroadcastTypes, RecipientStatuses
      <3>4. BroadcastRow(broadcasts[b]) BY <2>1 DEF BroadcastTypes
      <3>5. skip \in BOOLEAN /\ (~skip => broadcaster[w].pc = "recording") BY <2>1
      <3> HIDE DEF skip
      <3>6. /\ BroadcastRow(counted) /\ counted.status = "RUNNING" /\ counted.cancelled = broadcasts[b].cancelled
            /\ counted.skipped = broadcasts[b].skipped + (IF skip THEN 1 ELSE 0)
            /\ counted.enqueued = broadcasts[b].enqueued + (IF skip THEN 0 ELSE 1)
        BY <3>1, <3>4, <3>5, CountsRow
      <3> HIDE DEF counted
      <3>7. /\ BroadcastRow(q) /\ q.status = st /\ SameCounts(counted, q)
        <4>1. CASE st = "COMPLETED"
          <5>1. counted \in BroadcastRows /\ "COMPLETED" \in BroadcastStatuses BY <3>6 DEF BroadcastRow, BroadcastStatuses
          <5>2. q = MovedRow(counted, "COMPLETED") BY <4>1
          <5> QED BY <4>1, <5>1, <5>2, MovesRow
        <4>2. CASE st # "COMPLETED"
          <5>1. q = Released(counted) /\ st = "RUNNING" BY <4>2
          <5> QED BY <3>6, <5>1 DEF Released, BroadcastRow, BroadcastRows, Leases, SameCounts
        <4> QED BY <4>1, <4>2
      <3>q. broadcasts' = [broadcasts EXCEPT ![b] = q] BY <3>1
      <3> HIDE DEF q
      <3>8. st = IF PendingRecipients(b) = {r} THEN "COMPLETED" ELSE "RUNNING" OBVIOUS
      <3> HIDE DEF st
      <3>9. Counts(b, q, rec)
        <4>1. \E v \in Workers : broadcaster[v].broadcast = b /\ broadcaster[v].recipient = r
                                 /\ broadcaster[v].row = RowId(b) /\ (~skip => broadcaster[v].pc = "recording")
          BY <3>1, <3>5
        <4> DEFINE m == recipients[b]
        <4>2. rec = [m EXCEPT ![r] = IF skip THEN "SKIPPED" ELSE "ENQUEUED"] OBVIOUS
        <4> HIDE DEF rec, b, r
        <4>3. /\ broadcasts[b].status = "RUNNING" /\ q.cancelled = broadcasts[b].cancelled
              /\ r \in PendingRecipients(b)
              /\ q.skipped = broadcasts[b].skipped + (IF skip THEN 1 ELSE 0)
              /\ q.enqueued = broadcasts[b].enqueued + (IF skip THEN 0 ELSE 1)
              /\ q.status = IF PendingRecipients(b) = {r} THEN "COMPLETED" ELSE "RUNNING"
          BY <3>1, <3>6, <3>7, <3>8 DEF SameCounts
        <4> QED BY <3>5, <4>1, <4>2, <4>3 DEF Counts
      <3> HIDE DEF rec, b
      <3> QED BY <2>1, <3>2, <3>3, <3>7, <3>9, <3>q, RecipientsMove DEF Change
    <2> QED BY <2>2, <2>3
  <1>5. ASSUME NEW w \in Workers, FailBroadcast(w) PROVE BroadcastsMove
    <2> DEFINE b == broadcaster[w].broadcast
    <2>1. b \in Broadcasts /\ recipients' = recipients BY <1>5, <1>b DEF FailBroadcast, AtBroadcast
    <2>2. \/ broadcasts' = broadcasts
          \/ broadcasts[b].status = "RUNNING" /\ (broadcasts' = Becomes(b, "QUEUED") \/ broadcasts' = Becomes(b, "FAILED"))
      BY <1>5 DEF FailBroadcast, OwnsBroadcast
    <2> HIDE DEF b
    <2>3. {"RUNNING", "QUEUED", "FAILED"} \subseteq Stoppable BY DEF Stoppable
    <2> QED BY <2>1, <2>2, <2>3, NoRowMoves, StatusMoves
  <1>6. ASSUME NEW w \in Workers, HeartbeatBroadcast(w) PROVE BroadcastsMove
    <2> DEFINE b == broadcaster[w].broadcast
    <2>0. broadcaster[w].pc \in AtBroadcast BY <1>6 DEF HeartbeatBroadcast, BroadcastTypes, BroadcasterStates
    <2>1. b \in Broadcasts /\ recipients' = recipients BY <1>6, <1>b, <2>0 DEF HeartbeatBroadcast
    <2>2. broadcasts' = [broadcasts EXCEPT ![b].lease = "live"] BY <1>6 DEF HeartbeatBroadcast
    <2> HIDE DEF b
    <2> QED BY <1>l, <2>1, <2>2, LeaseMoves
  <1>7. ASSUME NEW w \in Workers, StopBroadcaster(w) PROVE BroadcastsMove
    <2>1. /\ recipients' = recipients
          /\ broadcasts' = [b \in Broadcasts |-> IF BroadcastIs(b, {"RUNNING"}) /\ broadcasts[b].lock = w
                                                 THEN MovedRow(broadcasts[b], "QUEUED") ELSE broadcasts[b]]
      BY <1>7 DEF StopBroadcaster, MovedRow
    <2>2. ASSUME NEW b \in Broadcasts PROVE BroadcastRow(broadcasts'[b]) /\ KeepsCounts(b, broadcasts'[b])
      <3> DEFINE q == MovedRow(broadcasts[b], "QUEUED")
      <3>1. BroadcastRow(broadcasts[b]) BY DEF BroadcastTypes
      <3>2. BroadcastRow(q) /\ q.status = "QUEUED" /\ SameCounts(broadcasts[b], q)
        BY <3>1, MovesRow DEF BroadcastRow, BroadcastStatuses
      <3>3. broadcasts'[b] = broadcasts[b] \/ (broadcasts[b].status = "RUNNING" /\ broadcasts'[b] = q)
        BY <2>1 DEF BroadcastIs
      <3> HIDE DEF q
      <3>4. KeepsCounts(b, broadcasts[b]) BY DEF KeepsCounts, SameCounts
      <3>5. broadcasts[b].status = "RUNNING" => KeepsCounts(b, q) BY <3>2 DEF KeepsCounts, Stoppable
      <3> QED BY <3>1, <3>2, <3>3, <3>4, <3>5
    <2>3. broadcasts' \in [Broadcasts -> BroadcastRows]
      <3>1. broadcasts' = [b \in Broadcasts |-> broadcasts'[b]] BY <2>1
      <3> QED BY <2>2, <3>1 DEF BroadcastRow
    <2> QED BY <2>1, <2>2, <2>3 DEF BroadcastsMove, BroadcastMove, Change, BroadcastTypes
  <1>8. ASSUME NEW c \in Callers, CreateBroadcast(c) PROVE BroadcastsMove
    <2> DEFINE b == creator[c].broadcast
    <2>1. b \in Broadcasts /\ creator[c].pc = "creating" BY <1>8 DEF CreateBroadcast, BroadcastTypes, CreatorStates
    <2>2. \/ broadcasts' = broadcasts /\ recipients' = recipients
          \/ BroadcastIs(b, {"none"}) /\ NewBroadcast(b)
      BY <1>8 DEF CreateBroadcast
    <2>3. b \notin Campaigns /\ \E v \in Callers : creator[v].pc = "creating" /\ creator[v].broadcast = b
      BY <2>1 DEF BroadcastTypes, CreatorStates
    <2> HIDE DEF b
    <2> QED BY <2>1, <2>2, <2>3, NoRowMoves, CreationMoves
  <1>9. ASSUME NEW b \in Broadcasts, PauseBroadcast(b) \/ ResumeBroadcast(b) PROVE BroadcastsMove
    BY <1>9, StatusMoves DEF PauseBroadcast, ResumeBroadcast, BroadcastIs, Stoppable
  <1>10. ASSUME NEW b \in Broadcasts, CancelBroadcast(b) PROVE BroadcastsMove
    BY <1>10, StopMoves DEF CancelBroadcast
  <1>11. ASSUME NEW b \in Broadcasts, DeleteBroadcast(b) PROVE BroadcastsMove
    <2> DEFINE q == NoBroadcast
               rec == [r \in Recipients |-> "none"]
    <2>1. /\ broadcasts[b].status \in {"COMPLETED", "CANCELLED"}
          /\ broadcasts' = [broadcasts EXCEPT ![b] = q] /\ recipients' = [recipients EXCEPT ![b] = rec]
          /\ deletions' = [deletions EXCEPT ![b] = deletions[b] + 1]
          /\ broadcasts[b].status = "COMPLETED" => b \in ended'
      BY <1>11 DEF DeleteBroadcast, BroadcastIs
    <2>2. rec \in [Recipients -> RecipientStatuses] BY DEF RecipientStatuses
    <2>3. deletions'[b] = deletions[b] + 1 BY <2>1 DEF BroadcastTypes
    <2>4. BroadcastRow(q) /\ q.enqueued = 0 /\ q.skipped = 0 /\ q.cancelled = 0 /\ q.status = "none"
      BY NoBroadcastRow
    <2> HIDE DEF q
    <2>5. Deletes(b, q, rec) BY <2>1, <2>3, <2>4 DEF Deletes
    <2> HIDE DEF rec
    <2> QED BY <2>1, <2>2, <2>4, <2>5, RecipientsMove DEF Change
  <1>12. ASSUME NEW b \in Broadcasts, BroadcastLeaseExpires(b) PROVE BroadcastsMove
    BY <1>12, <1>l, LeaseMoves DEF BroadcastLeaseExpires
  <1>13. ASSUME NEW w \in Workers, HandOver(w) \/ KillBroadcaster(w) PROVE BroadcastsMove
    BY <1>13, NoRowMoves DEF HandOver, KillBroadcaster
  <1>14. ASSUME NEW c \in Callers, NEW b \in Broadcasts, SettleBroadcast(c) \/ BeginBroadcast(c, b) PROVE BroadcastsMove
    BY <1>14, NoRowMoves DEF SettleBroadcast, BeginBroadcast
  <1>15. ASSUME NEW c \in Callers, SettleBroadcast(c) PROVE BroadcastsMove
    BY <1>15, NoRowMoves DEF SettleBroadcast
  <1>w. ASSUME NEW w \in Workers, BroadcasterStep(w) \/ HeartbeatBroadcast(w) \/ StopBroadcaster(w) \/ KillBroadcaster(w)
        PROVE  BroadcastsMove
    BY <1>w, <1>1, <1>2, <1>3, <1>4, <1>5, <1>6, <1>7, <1>13 DEF BroadcasterStep
  <1>c. ASSUME NEW c \in Callers, CreateBroadcast(c) \/ SettleBroadcast(c) \/ \E b \in Broadcasts : BeginBroadcast(c, b)
        PROVE  BroadcastsMove
    BY <1>c, <1>8, <1>14, <1>15
  <1>u. ASSUME NEW b \in Broadcasts,
               \/ PauseBroadcast(b) \/ ResumeBroadcast(b) \/ CancelBroadcast(b) \/ DeleteBroadcast(b)
               \/ BroadcastLeaseExpires(b)
        PROVE  BroadcastsMove
    BY <1>u, <1>9, <1>10, <1>11, <1>12
  <1> QED BY <1>w, <1>c, <1>u DEF BroadcastNext

(* and those of campaigns. *)
LEMMA CampaignsMoveBroadcasts == ASSUME BroadcastTypes, CampaignTypes, CampaignStep PROVE BroadcastsMove
  <1> USE DEF CampaignTypes
  <1>0. Campaigns \subseteq Broadcasts BY BroadcastAssumption
  <1>1. ASSUME NEW c \in Callers, UpdateCampaign(c) PROVE BroadcastsMove
    <2> DEFINE k == planner[c].campaign
               target == IF planner[c].handed = RowId(k) THEN planner[c].target ELSE "nothing"
    <2>1. k \in Broadcasts BY <1>0, <1>1 DEF UpdateCampaign, ActorTypes, PlannerStates
    <2>2. UNCHANGED <<broadcasts, recipients>> \/ MoveBroadcast(k, target) BY <1>1 DEF UpdateCampaign
    <2> HIDE DEF k, target
    <2>3. \/ UNCHANGED <<broadcasts, recipients>>
          \/ BroadcastIs(k, {"QUEUED", "RUNNING"}) /\ broadcasts' = Becomes(k, "PAUSED") /\ UNCHANGED recipients
          \/ BroadcastIs(k, {"PAUSED", "FAILED"}) /\ broadcasts' = Becomes(k, "QUEUED") /\ UNCHANGED recipients
          \/ BroadcastIs(k, Stoppable) /\ Stopped(k)
      BY <2>2 DEF MoveBroadcast
    <2>4. {"QUEUED", "RUNNING", "PAUSED", "FAILED"} \subseteq Stoppable BY DEF Stoppable
    <2> QED BY <2>1, <2>3, <2>4, NoRowMoves, StatusMoves, StopMoves DEF BroadcastIs
  <1>2. ASSUME NEW w \in Workers, HandOff(w) PROVE BroadcastsMove
    <2> DEFINE k == launcher[w].campaign
    <2>1. k \in Campaigns BY <1>2 DEF HandOff, ActorTypes, LauncherStates, AtCampaign
    <2>2. CASE UNCHANGED <<broadcasts, recipients>> BY <2>2, NoRowMoves
    <2>3. CASE ~UNCHANGED <<broadcasts, recipients>>
      <3> DEFINE st == IF broadcasts'[k].status = "COMPLETED" THEN "COMPLETED" ELSE "RUNNING"
                 q == [Released(campaigns[k]) EXCEPT !.status = st]
      <3>1. /\ campaigns[k].status = "QUEUED" /\ ~HandedOff(k) /\ NewBroadcast(k)
            /\ campaigns' = [campaigns EXCEPT ![k] = q]
        BY <1>2, <2>3 DEF HandOff, OwnsCampaign, CampaignOf
      <3>2. q.status = st BY <2>1 DEF Released, CampaignRows
      <3> HIDE DEF q
      <3>3. campaigns'[k].status = st BY <2>1, <3>1, <3>2
      <3> HIDE DEF k
      <3>4. HandsOff(k, broadcasts'[k]) BY <3>1, <3>3 DEF HandsOff
      <3> QED BY <1>0, <2>1, <3>1, <3>4, CreationMoves DEF HandedOff
    <2> QED BY <2>2, <2>3
  <1>3. ASSUME UNCHANGED broadcastVars PROVE BroadcastsMove BY <1>3, NoRowMoves DEF broadcastVars
  <1>4. ASSUME NEW w \in Workers, LauncherStep(w) PROVE BroadcastsMove
    BY <1>2, <1>3, <1>4
       DEF LauncherStep, ClaimCampaign, LookForHandoff, RecoverHandoff, PrepareHandoff, FailCampaign, ListActive,
           ReadActive, WriteActive
  <1>5. ASSUME NEW w \in Workers, HeartbeatCampaign(w) \/ StopLauncher(w) \/ KillLauncher(w) PROVE BroadcastsMove
    BY <1>3, <1>5 DEF HeartbeatCampaign, StopLauncher, KillLauncher
  <1>6. ASSUME NEW c \in Callers, NEW k \in Campaigns, ReadCampaign(c, k) PROVE BroadcastsMove
    BY <1>3, <1>6 DEF ReadCampaign
  <1>7. ASSUME NEW c \in Callers,
               EditDraft(c) \/ ReserveCampaign(c) \/ ActivateCampaign(c) \/ LookAtRace(c) \/ SettleCampaign(c)
        PROVE  BroadcastsMove
    BY <1>3, <1>7 DEF EditDraft, ReserveCampaign, ActivateCampaign, LookAtRace, SettleCampaign
  <1>8. ASSUME NEW k \in Campaigns, CreateCampaign(k) \/ CampaignLeaseExpires(k) PROVE BroadcastsMove
    BY <1>3, <1>8 DEF CreateCampaign, CampaignLeaseExpires
  <1> QED BY <1>1, <1>4, <1>5, <1>6, <1>7, <1>8 DEF CampaignStep

(* Campaigns leave the rest of a broadcast alone. *)
LEMMA CampaignsLeave ==
  ASSUME CampaignStep
  PROVE  UNCHANGED <<handed, broadcaster, reported, quota, creator, refused, deletions, ended>>
  <1>1. ASSUME NEW w \in Workers, LauncherStep(w) \/ HeartbeatCampaign(w) \/ StopLauncher(w) \/ KillLauncher(w)
        PROVE  UNCHANGED <<handed, broadcaster, reported, quota, creator, refused, deletions, ended>>
    BY <1>1
       DEF LauncherStep, ClaimCampaign, LookForHandoff, RecoverHandoff, PrepareHandoff, HandOff, FailCampaign, ListActive,
           ReadActive, WriteActive, HeartbeatCampaign, StopLauncher, KillLauncher, broadcastVars
  <1>2. ASSUME NEW c \in Callers, NEW k \in Campaigns,
               \/ EditDraft(c) \/ ReserveCampaign(c) \/ ActivateCampaign(c) \/ LookAtRace(c) \/ SettleCampaign(c)
               \/ UpdateCampaign(c) \/ ReadCampaign(c, k)
        PROVE  UNCHANGED <<handed, broadcaster, reported, quota, creator, refused, deletions, ended>>
    BY <1>2
       DEF EditDraft, ReserveCampaign, ActivateCampaign, LookAtRace, SettleCampaign, UpdateCampaign, ReadCampaign,
           broadcastVars
  <1>3. ASSUME NEW c \in Callers,
               \/ EditDraft(c) \/ ReserveCampaign(c) \/ ActivateCampaign(c) \/ LookAtRace(c) \/ SettleCampaign(c)
               \/ UpdateCampaign(c)
        PROVE  UNCHANGED <<handed, broadcaster, reported, quota, creator, refused, deletions, ended>>
    BY <1>3
       DEF EditDraft, ReserveCampaign, ActivateCampaign, LookAtRace, SettleCampaign, UpdateCampaign, broadcastVars
  <1>4. ASSUME NEW k \in Campaigns, CreateCampaign(k) \/ CampaignLeaseExpires(k)
        PROVE  UNCHANGED <<handed, broadcaster, reported, quota, creator, refused, deletions, ended>>
    BY <1>4 DEF CreateCampaign, CampaignLeaseExpires, broadcastVars
  <1> QED BY <1>1, <1>2, <1>3, <1>4 DEF CampaignStep

(* Nothing but a deletion makes way for another row of a key. *)
LEMMA RowsGo ==
  ASSUME BroadcastTypes, CampaignStep \/ BroadcastNext
  PROVE  /\ deletions' \in [Broadcasts -> Nat] /\ ended \subseteq ended'
         /\ \A b \in Broadcasts : \/ deletions'[b] = deletions[b]
                                 \/ (deletions'[b] = deletions[b] + 1 /\ Deletes(b, broadcasts'[b], recipients'[b]))
  <1> DEFINE Goal == /\ deletions' \in [Broadcasts -> Nat] /\ ended \subseteq ended'
                     /\ \A b \in Broadcasts : \/ deletions'[b] = deletions[b]
                                             \/ (deletions'[b] = deletions[b] + 1 /\ Deletes(b, broadcasts'[b], recipients'[b]))
  <1>1. ASSUME UNCHANGED <<deletions, ended>> PROVE Goal BY <1>1 DEF BroadcastTypes
  <1>2. ASSUME NEW x \in Broadcasts, DeleteBroadcast(x) PROVE Goal
    <2> DEFINE rec == [r \in Recipients |-> "none"]
               q == NoBroadcast
    <2>1. /\ broadcasts[x].status \in {"COMPLETED", "CANCELLED"}
          /\ broadcasts' = [broadcasts EXCEPT ![x] = q] /\ recipients' = [recipients EXCEPT ![x] = rec]
          /\ deletions' = [deletions EXCEPT ![x] = deletions[x] + 1]
          /\ ended \subseteq ended' /\ (broadcasts[x].status = "COMPLETED" => x \in ended')
      BY <1>2 DEF DeleteBroadcast, BroadcastIs
    <2>2. broadcasts'[x] = q /\ recipients'[x] = rec BY <2>1 DEF BroadcastTypes
    <2>3. q.status = "none" /\ q.enqueued = 0 /\ q.skipped = 0 /\ q.cancelled = 0 BY NoBroadcastRow
    <2> HIDE DEF q
    <2>4. /\ deletions' \in [Broadcasts -> Nat] /\ deletions'[x] = deletions[x] + 1
          /\ \A b \in Broadcasts \ {x} : deletions'[b] = deletions[b]
      BY <2>1 DEF BroadcastTypes
    <2>5. Deletes(x, q, rec) BY <2>1, <2>3, <2>4 DEF Deletes
    <2> HIDE DEF rec
    <2>6. Deletes(x, broadcasts'[x], recipients'[x]) BY <2>2, <2>5
    <2> QED BY <2>1, <2>4, <2>6
  <1> HIDE DEF Goal
  <1>3. ASSUME NEW w \in Workers, BroadcasterStep(w) \/ HeartbeatBroadcast(w) \/ StopBroadcaster(w) \/ KillBroadcaster(w)
        PROVE  Goal
    BY <1>1, <1>3
       DEF BroadcasterStep, ClaimBroadcast, ChooseRecipient, CheckBroadcast, HandOver, FinalizeRecipient, FailBroadcast,
           HeartbeatBroadcast, StopBroadcaster, KillBroadcaster
  <1>4. ASSUME NEW c \in Callers, CreateBroadcast(c) \/ SettleBroadcast(c) \/ \E b \in Broadcasts : BeginBroadcast(c, b)
        PROVE  Goal
    BY <1>1, <1>4 DEF CreateBroadcast, SettleBroadcast, BeginBroadcast
  <1>5. ASSUME NEW b \in Broadcasts,
               \/ PauseBroadcast(b) \/ ResumeBroadcast(b) \/ CancelBroadcast(b) \/ DeleteBroadcast(b)
               \/ BroadcastLeaseExpires(b)
        PROVE  Goal
    BY <1>1, <1>2, <1>5 DEF PauseBroadcast, ResumeBroadcast, CancelBroadcast, BroadcastLeaseExpires
  <1>6. ASSUME CampaignStep PROVE Goal BY <1>1, <1>6, CampaignsLeave
  <1>7. Goal BY <1>3, <1>4, <1>5, <1>6 DEF BroadcastNext
  <1> QED BY <1>7 DEF Goal
-----------------------------------------------------------------------------
(* A worker records a recipient only after it has queued its message. *)
InHand ==
  \A w \in Workers : broadcaster[w].pc = "recording"
    => <<broadcaster[w].broadcast, broadcaster[w].row, broadcaster[w].recipient>> \in handed

ActorsFit ==
  /\ broadcaster \in [Workers -> BroadcasterStates] /\ creator \in [Callers -> CreatorStates]
  /\ handed \subseteq Broadcasts \X Nat \X Recipients /\ InHand

(* A worker that goes on to s. *)
LEMMA BroadcasterFits ==
  ASSUME ActorsFit, NEW w \in Workers, NEW s \in BroadcasterStates, broadcaster' = [broadcaster EXCEPT ![w] = s],
         handed \subseteq handed', handed' \subseteq Broadcasts \X Nat \X Recipients, creator' = creator,
         s.pc = "recording" => <<s.broadcast, s.row, s.recipient>> \in handed'
  PROVE  ActorsFit'
  <1>1. \A v \in Workers : broadcaster'[v] = IF v = w THEN s ELSE broadcaster[v] BY DEF ActorsFit
  <1>2. broadcaster' \in [Workers -> BroadcasterStates] BY DEF ActorsFit
  <1>3. InHand' BY <1>1 DEF ActorsFit, InHand
  <1> QED BY <1>2, <1>3 DEF ActorsFit

(* Workers and requests stay where the types allow them. *)
LEMMA ActorsMove == ASSUME BroadcastTypes, ActorsFit, BroadcastNext PROVE ActorsFit'
  <1>t. /\ broadcaster \in [Workers -> BroadcasterStates] /\ creator \in [Callers -> CreatorStates]
        /\ handed \subseteq Broadcasts \X Nat \X Recipients
    BY DEF ActorsFit
  <1>r. \A pc \in {"idle"} \cup Gone : BroadcasterAt(pc) \in BroadcasterStates /\ BroadcasterAt(pc).pc = pc
    BY DEF BroadcasterAt, BroadcasterStates, Gone, AtBroadcast, AtRecipient
  <1>g. ASSUME NEW w \in Workers, NEW pc \in AtBroadcast \ {"recording"}, broadcaster[w].pc \in AtBroadcast,
               pc \in AtRecipient => broadcaster[w].pc \in AtRecipient,
               UNCHANGED creator, handed \subseteq handed', handed' \subseteq Broadcasts \X Nat \X Recipients,
               BroadcasterGoes(w, pc)
        PROVE  ActorsFit'
    <2> DEFINE s == [broadcaster[w] EXCEPT !.pc = pc]
    <2>1. s \in BroadcasterStates /\ s.pc = pc BY <1>t, <1>g DEF BroadcasterStates, AtBroadcast, AtRecipient
    <2>2. broadcaster' = [broadcaster EXCEPT ![w] = s] BY <1>g DEF BroadcasterGoes
    <2> HIDE DEF s
    <2> QED BY <1>g, <2>1, <2>2, BroadcasterFits
  <1>x. ASSUME NEW w \in Workers, NEW pc \in {"idle"} \cup Gone, UNCHANGED <<creator, handed>>,
               broadcaster' = [broadcaster EXCEPT ![w] = BroadcasterAt(pc)]
        PROVE  ActorsFit'
    <2> DEFINE s == BroadcasterAt(pc)
    <2>1. s \in BroadcasterStates /\ s.pc # "recording" BY <1>r, <1>x DEF Gone
    <2>2. broadcaster' = [broadcaster EXCEPT ![w] = s] BY <1>x
    <2> HIDE DEF s
    <2> QED BY <1>t, <1>x, <2>1, <2>2, BroadcasterFits
  <1>i. ASSUME NEW w \in Workers, BroadcasterRests(w), UNCHANGED <<creator, handed>> PROVE ActorsFit'
    BY <1>i, <1>x DEF BroadcasterRests
  <1>u. ASSUME UNCHANGED <<broadcaster, handed, creator>> PROVE ActorsFit' BY <1>u DEF ActorsFit, InHand
  <1>1. ASSUME NEW w \in Workers, ClaimBroadcast(w) PROVE ActorsFit'
    <2>1. PICK b \in Broadcasts :
            broadcaster' = [broadcaster EXCEPT ![w] = [BroadcasterAt("claimed") EXCEPT !.broadcast = b, !.row = RowId(b)]]
      BY <1>1 DEF ClaimBroadcast
    <2> DEFINE n == RowId(b)
               a == BroadcasterAt("claimed")
               s == [a EXCEPT !.broadcast = b, !.row = n]
    <2>n. n \in Nat BY DEF RowId, BroadcastTypes
    <2>a. a = [pc |-> "claimed", broadcast |-> "no broadcast", recipient |-> "no recipient", row |-> 0] BY DEF BroadcasterAt
    <2>b. s = [a EXCEPT !.broadcast = b, !.row = n] OBVIOUS
    <2> HIDE DEF s, a, n
    <2>2. s = [pc |-> "claimed", broadcast |-> b, recipient |-> "no recipient", row |-> n] BY <2>a, <2>b
    <2>3. s \in BroadcasterStates /\ s.pc = "claimed" BY <2>2, <2>n DEF BroadcasterStates, AtBroadcast, AtRecipient
    <2>4. broadcaster' = [broadcaster EXCEPT ![w] = s] /\ UNCHANGED <<creator, handed>>
      BY <1>1, <2>1 DEF ClaimBroadcast, s, a, n
    <2> QED BY <1>t, <2>3, <2>4, BroadcasterFits
  <1>2. ASSUME NEW w \in Workers, ChooseRecipient(w) PROVE ActorsFit'
    <2>1. UNCHANGED <<creator, handed>> /\ broadcaster[w].pc = "claimed" BY <1>2 DEF ChooseRecipient
    <2>2. CASE BroadcasterRests(w) BY <1>i, <2>1, <2>2
    <2>3. ASSUME NEW r \in Recipients, NEW pc \in {"enqueueing", "skipping", "denied", "failing"},
                 broadcaster' = [broadcaster EXCEPT ![w].pc = pc, ![w].recipient = r]
          PROVE  ActorsFit'
      <3> DEFINE s == [broadcaster[w] EXCEPT !.pc = pc, !.recipient = r]
      <3>1. s \in BroadcasterStates /\ s.pc = pc BY <1>t, <2>1, <2>3 DEF BroadcasterStates, AtBroadcast, AtRecipient
      <3>2. broadcaster' = [broadcaster EXCEPT ![w] = s] BY <1>t, <2>3
      <3> HIDE DEF s
      <3> QED BY <1>t, <2>1, <2>3, <3>1, <3>2, BroadcasterFits
    <2> QED BY <1>2, <2>2, <2>3 DEF ChooseRecipient, PendingRecipients
  <1>3. ASSUME NEW w \in Workers, CheckBroadcast(w) PROVE ActorsFit'
    <2>1. /\ UNCHANGED <<creator, handed>> /\ broadcaster[w].pc = "enqueueing"
          /\ BroadcasterGoes(w, "handing") \/ BroadcasterRests(w)
      BY <1>3 DEF CheckBroadcast
    <2> QED BY <1>g, <1>i, <1>t, <2>1 DEF AtBroadcast, AtRecipient
  <1>4. ASSUME NEW w \in Workers, HandOver(w) PROVE ActorsFit'
    <2>1. UNCHANGED creator /\ broadcaster[w].pc = "handing" BY <1>4 DEF HandOver
    <2>2. broadcaster[w].broadcast \in Broadcasts /\ broadcaster[w].recipient \in Recipients /\ broadcaster[w].row \in Nat
      BY <1>t, <2>1 DEF BroadcasterStates, AtBroadcast, AtRecipient
    <2>3. handed \subseteq handed' /\ handed' \subseteq Broadcasts \X Nat \X Recipients BY <1>4, <1>t, <2>2 DEF HandOver
    <2>4. CASE \E pc \in {"denied", "failing"} : BroadcasterGoes(w, pc)
      BY <1>g, <2>1, <2>3, <2>4 DEF AtBroadcast, AtRecipient
    <2>5. CASE /\ handed' = handed \cup {<<broadcaster[w].broadcast, broadcaster[w].row, broadcaster[w].recipient>>}
               /\ BroadcasterGoes(w, "recording")
      <3> DEFINE s == [broadcaster[w] EXCEPT !.pc = "recording"]
      <3>1. /\ s \in BroadcasterStates /\ s.pc = "recording"
            /\ s.broadcast = broadcaster[w].broadcast /\ s.recipient = broadcaster[w].recipient /\ s.row = broadcaster[w].row
        BY <1>t, <2>1 DEF BroadcasterStates, AtBroadcast, AtRecipient
      <3>2. broadcaster' = [broadcaster EXCEPT ![w] = s] BY <2>5 DEF BroadcasterGoes
      <3> HIDE DEF s
      <3> QED BY <2>1, <2>3, <2>5, <3>1, <3>2, BroadcasterFits
    <2> QED BY <1>4, <2>4, <2>5 DEF HandOver
  <1>5. ASSUME NEW w \in Workers, FinalizeRecipient(w) PROVE ActorsFit'
    <2>1. /\ UNCHANGED <<creator, handed>> /\ broadcaster[w].pc \in AtRecipient
          /\ BroadcasterRests(w) \/ BroadcasterGoes(w, "failing")
      BY <1>5 DEF FinalizeRecipient, AtRecipient
    <2> QED BY <1>g, <1>i, <1>t, <2>1 DEF AtBroadcast, AtRecipient
  <1>6. ASSUME NEW w \in Workers, FailBroadcast(w) PROVE ActorsFit'
    BY <1>6, <1>i DEF FailBroadcast
  <1>7. ASSUME NEW w \in Workers, StopBroadcaster(w) \/ KillBroadcaster(w) PROVE ActorsFit'
    BY <1>7, <1>x DEF StopBroadcaster, KillBroadcaster, Gone
  <1>8. ASSUME NEW w \in Workers, HeartbeatBroadcast(w) PROVE ActorsFit' BY <1>8, <1>u DEF HeartbeatBroadcast
  <1>9. ASSUME NEW c \in Callers, NEW s \in CreatorStates, creator' = [creator EXCEPT ![c] = s], UNCHANGED <<broadcaster, handed>>
        PROVE  ActorsFit'
    BY <1>9 DEF ActorsFit, InHand
  <1>10. ASSUME NEW c \in Callers, NEW b \in Broadcasts, BeginBroadcast(c, b) PROVE ActorsFit'
    <2> DEFINE s == CreatorAt("creating", b)
    <2>1. b \notin Campaigns BY <1>10 DEF BeginBroadcast
    <2>2. s \in CreatorStates BY <2>1 DEF CreatorAt, CreatorStates
    <2>3. UNCHANGED <<broadcaster, handed>> /\ (UNCHANGED creator \/ creator' = [creator EXCEPT ![c] = s])
      BY <1>10 DEF BeginBroadcast
    <2> HIDE DEF s
    <2> QED BY <1>u, <1>9, <2>2, <2>3
  <1>11. ASSUME NEW c \in Callers, CreateBroadcast(c) PROVE ActorsFit'
    <2>1. PICK pc \in {"settling", "releasing"} : creator' = [creator EXCEPT ![c].pc = pc]
      BY <1>11 DEF CreateBroadcast, AfterRace
    <2> DEFINE s == [creator[c] EXCEPT !.pc = pc]
    <2>2. creator[c].pc = "creating" /\ UNCHANGED <<broadcaster, handed>> BY <1>11 DEF CreateBroadcast
    <2>3. s \in CreatorStates BY <1>t, <2>2 DEF CreatorStates
    <2>4. creator' = [creator EXCEPT ![c] = s] BY <2>1
    <2> HIDE DEF s
    <2> QED BY <1>9, <2>2, <2>3, <2>4
  <1>12. ASSUME NEW c \in Callers, SettleBroadcast(c) PROVE ActorsFit'
    <2>1. NotCreating \in CreatorStates BY DEF NotCreating, CreatorAt, CreatorStates
    <2>2. creator' = [creator EXCEPT ![c] = NotCreating] /\ UNCHANGED <<broadcaster, handed>> BY <1>12 DEF SettleBroadcast
    <2> QED BY <1>9, <2>1, <2>2
  <1>13. ASSUME NEW b \in Broadcasts,
                \/ PauseBroadcast(b) \/ ResumeBroadcast(b) \/ CancelBroadcast(b) \/ DeleteBroadcast(b)
                \/ BroadcastLeaseExpires(b)
         PROVE  ActorsFit'
    BY <1>13, <1>u DEF PauseBroadcast, ResumeBroadcast, CancelBroadcast, DeleteBroadcast, BroadcastLeaseExpires
  <1>w. ASSUME NEW w \in Workers, BroadcasterStep(w) \/ HeartbeatBroadcast(w) \/ StopBroadcaster(w) \/ KillBroadcaster(w)
        PROVE  ActorsFit'
    BY <1>w, <1>1, <1>2, <1>3, <1>4, <1>5, <1>6, <1>7, <1>8 DEF BroadcasterStep
  <1>c. ASSUME NEW c \in Callers, CreateBroadcast(c) \/ SettleBroadcast(c) \/ \E b \in Broadcasts : BeginBroadcast(c, b)
        PROVE  ActorsFit'
    BY <1>c, <1>10, <1>11, <1>12
  <1> QED BY <1>w, <1>c, <1>13 DEF BroadcastNext

(* A broadcast is reported as COMPLETED by the step that completes it. *)
LEMMA Reports ==
  ASSUME BroadcastTypes, BroadcastNext, NEW b \in Broadcasts, NEW n, <<b, n, "COMPLETED">> \in reported'
  PROVE  <<b, n, "COMPLETED">> \in reported \/ (n = RowId(b) /\ broadcasts'[b].status = "COMPLETED")
  <1>1. ASSUME NEW x \in Broadcasts, NEW row, broadcasts' = [broadcasts EXCEPT ![x] = [Released(row) EXCEPT !.status = "COMPLETED"]],
               row = broadcasts[x] \/ \E skip \in BOOLEAN : row = CountedRow(broadcasts[x], skip)
        PROVE  broadcasts'[x].status = "COMPLETED"
    <2>1. BroadcastRow(broadcasts[x]) BY DEF BroadcastTypes
    <2>2. row \in BroadcastRows BY <1>1, <2>1, CountsRow DEF BroadcastRow
    <2>3. [Released(row) EXCEPT !.status = "COMPLETED"].status = "COMPLETED"
      BY <2>2 DEF Released, BroadcastRows
    <2> QED BY <1>1, <2>3 DEF BroadcastTypes
  <1>2. ASSUME NEW w \in Workers, ChooseRecipient(w)
        PROVE  <<b, n, "COMPLETED">> \in reported \/ (n = RowId(b) /\ broadcasts'[b].status = "COMPLETED")
    <2> DEFINE x == broadcaster[w].broadcast
    <2>1. x \in Broadcasts BY <1>2 DEF ChooseRecipient, BroadcastTypes, BroadcasterStates, AtBroadcast
    <2>2. \/ reported' = reported
          \/ reported' = reported \cup {<<x, RowId(x), "COMPLETED">>}
             /\ broadcasts' = [broadcasts EXCEPT ![x] = [Released(broadcasts[x]) EXCEPT !.status = "COMPLETED"]]
      BY <1>2 DEF ChooseRecipient, Completes
    <2> HIDE DEF x
    <2> QED BY <1>1, <2>1, <2>2
  <1>3. ASSUME NEW w \in Workers, FinalizeRecipient(w)
        PROVE  <<b, n, "COMPLETED">> \in reported \/ (n = RowId(b) /\ broadcasts'[b].status = "COMPLETED")
    <2> DEFINE x == broadcaster[w].broadcast
               skip == broadcaster[w].pc = "skipping"
               row == CountedRow(broadcasts[x], skip)
    <2>1. x \in Broadcasts /\ skip \in BOOLEAN
      BY <1>3 DEF FinalizeRecipient, BroadcastTypes, BroadcasterStates, AtBroadcast, AtRecipient
    <2>2. \/ reported' = reported
          \/ reported' = reported \cup {<<x, RowId(x), "COMPLETED">>}
             /\ broadcasts' = [broadcasts EXCEPT ![x] = [Released(row) EXCEPT !.status = "COMPLETED"]]
      BY <1>3 DEF FinalizeRecipient, Completes, CountedRow
    <2>3. \E t \in BOOLEAN : row = CountedRow(broadcasts[x], t) BY <2>1
    <2> HIDE DEF x, row
    <2> QED BY <1>1, <2>1, <2>2, <2>3
  <1>4. ASSUME NEW w \in Workers, FailBroadcast(w) PROVE <<b, n, "COMPLETED">> \in reported
    BY <1>4 DEF FailBroadcast
  <1>5. ASSUME reported' = reported PROVE <<b, n, "COMPLETED">> \in reported BY <1>5
  <1>6. ASSUME NEW w \in Workers,
               ClaimBroadcast(w) \/ CheckBroadcast(w) \/ HandOver(w) \/ HeartbeatBroadcast(w) \/ StopBroadcaster(w) \/ KillBroadcaster(w)
        PROVE  reported' = reported
    BY <1>6 DEF ClaimBroadcast, CheckBroadcast, HandOver, HeartbeatBroadcast, StopBroadcaster, KillBroadcaster
  <1>7. ASSUME NEW c \in Callers, CreateBroadcast(c) \/ SettleBroadcast(c) \/ \E x \in Broadcasts : BeginBroadcast(c, x)
        PROVE  reported' = reported
    BY <1>7 DEF CreateBroadcast, SettleBroadcast, BeginBroadcast
  <1>8. ASSUME NEW x \in Broadcasts,
               \/ PauseBroadcast(x) \/ ResumeBroadcast(x) \/ CancelBroadcast(x) \/ DeleteBroadcast(x)
               \/ BroadcastLeaseExpires(x)
        PROVE  reported' = reported
    BY <1>8 DEF PauseBroadcast, ResumeBroadcast, CancelBroadcast, DeleteBroadcast, BroadcastLeaseExpires
  <1> QED BY <1>2, <1>3, <1>4, <1>5, <1>6, <1>7, <1>8 DEF BroadcastNext, BroadcasterStep

(* A message that is queued stays so. *)
LEMMA HandedStays == ASSUME BroadcastNext PROVE handed \subseteq handed'
  BY DEF BroadcastNext, BroadcasterStep, ClaimBroadcast, ChooseRecipient, CheckBroadcast, HandOver, FinalizeRecipient,
         FailBroadcast, HeartbeatBroadcast, StopBroadcaster, KillBroadcaster, CreateBroadcast, SettleBroadcast,
         BeginBroadcast, PauseBroadcast, ResumeBroadcast, CancelBroadcast, DeleteBroadcast, BroadcastLeaseExpires
-----------------------------------------------------------------------------
(* The counters of a row are those of its recipients, and nobody is left of a broadcast
   that is over. *)
CountIn(rec, st) == Cardinality({r \in Recipients : rec[r] = st})
AddsUp(q, rec) ==
  /\ q.enqueued = CountIn(rec, "ENQUEUED") /\ q.skipped = CountIn(rec, "SKIPPED") /\ q.cancelled = CountIn(rec, "CANCELLED")
  /\ q.status \in {"COMPLETED", "CANCELLED"} => \A r \in Recipients : rec[r] # "PENDING"
  /\ q.status = "none" => q.enqueued = 0 /\ q.cancelled = 0

(* A row is reported as COMPLETED when it is, and none before it exists. *)
ReportedRows(b) ==
  /\ \A n \in Nat : <<b, n, "COMPLETED">> \in reported => n <= RowId(b)
  /\ <<b, RowId(b), "COMPLETED">> \in reported => BroadcastIs(b, {"COMPLETED"})

ProgressInv ==
  /\ BroadcastTypes /\ ActorsFit /\ \A b \in Broadcasts : AddsUp(broadcasts[b], recipients[b])
  /\ \A b \in Broadcasts : ReportedRows(b)
  /\ \A b \in Broadcasts, r \in Recipients : recipients[b][r] = "ENQUEUED" => <<b, RowId(b), r>> \in handed

(* Counting recipients. *)
LEMMA CountsRecipients ==
  ASSUME NEW rec, NEW st
  PROVE  /\ IsFiniteSet({r \in Recipients : rec[r] = st}) /\ CountIn(rec, st) \in Nat
         /\ (\A r \in Recipients : rec[r] # st) => CountIn(rec, st) = 0
  <1>1. {r \in Recipients : rec[r] = st} \subseteq Recipients OBVIOUS
  <1>2. IsFiniteSet({r \in Recipients : rec[r] = st}) BY <1>1, FS_Subset, BroadcastAssumption
  <1>3. (\A r \in Recipients : rec[r] # st) => {r \in Recipients : rec[r] = st} = {} OBVIOUS
  <1> QED BY <1>2, <1>3, FS_CardinalityType, FS_EmptySet DEF CountIn

(* A move keeps the counters right. *)
LEMMA CountersAddUp ==
  ASSUME NEW b \in Broadcasts, recipients[b] \in [Recipients -> RecipientStatuses], BroadcastRow(broadcasts[b]),
         AddsUp(broadcasts[b], recipients[b]), NEW q, NEW rec \in [Recipients -> RecipientStatuses], Change(b, q, rec)
  PROVE  AddsUp(q, rec)
  <1>1. CASE rec = recipients[b] /\ KeepsCounts(b, q)
    <2>1. q.status \in {"COMPLETED", "CANCELLED"} => \A r \in Recipients : rec[r] # "PENDING"
      BY <1>1 DEF KeepsCounts, AddsUp, Stoppable, PendingRecipients
    <2>2. q.status = "none" => broadcasts[b].status = "none" BY <1>1 DEF KeepsCounts, Stoppable
    <2> QED BY <1>1, <2>1, <2>2 DEF KeepsCounts, AddsUp, SameCounts
  <1>2. CASE Creates(b, q, rec)
    <2>1. PICK skip \in SUBSET Recipients :
            /\ q.status = IF skip = Recipients THEN "COMPLETED" ELSE "QUEUED"
            /\ q.skipped = Cardinality(skip)
            /\ rec = [r \in Recipients |-> IF r \in skip THEN "SKIPPED" ELSE "PENDING"]
      BY <1>2 DEF Creates
    <2>2. q.enqueued = 0 /\ q.cancelled = 0 BY <1>2 DEF Creates, AddsUp
    <2>3. {r \in Recipients : rec[r] = "SKIPPED"} = skip BY <2>1
    <2>4. CountIn(rec, "ENQUEUED") = 0 /\ CountIn(rec, "CANCELLED") = 0 BY <2>1, CountsRecipients
    <2>5. skip = Recipients => \A r \in Recipients : rec[r] # "PENDING" BY <2>1
    <2> QED BY <2>1, <2>2, <2>3, <2>4, <2>5 DEF AddsUp, CountIn
  <1>3. CASE Stops(b, q, rec)
    <2> DEFINE C == {r \in Recipients : recipients[b][r] = "CANCELLED"}
               P == {r \in Recipients : recipients[b][r] = "PENDING"}
    <2>1. rec = [r \in Recipients |-> IF recipients[b][r] = "PENDING" THEN "CANCELLED" ELSE recipients[b][r]]
      BY <1>3 DEF Stops
    <2>2. /\ {r \in Recipients : rec[r] = "ENQUEUED"} = {r \in Recipients : recipients[b][r] = "ENQUEUED"}
          /\ {r \in Recipients : rec[r] = "SKIPPED"} = {r \in Recipients : recipients[b][r] = "SKIPPED"}
          /\ {r \in Recipients : rec[r] = "CANCELLED"} = C \cup P
      BY <2>1
    <2>3. C \cap P = {} /\ IsFiniteSet(C) /\ IsFiniteSet(P) BY CountsRecipients
    <2> HIDE DEF C, P
    <2>4. Cardinality(C \cup P) = Cardinality(C) + Cardinality(P)
      <3>1. Cardinality(C) \in Nat /\ Cardinality(P) \in Nat BY <2>3, FS_CardinalityType
      <3>2. Cardinality(C \cap P) = 0 BY <2>3, FS_EmptySet
      <3>3. Cardinality(C \cup P) = Cardinality(C) + Cardinality(P) - Cardinality(C \cap P) BY <2>3, FS_Union
      <3> QED BY <3>1, <3>2, <3>3
    <2>5. q.cancelled = Cardinality(C) + Cardinality(P) BY <1>3 DEF Stops, With, AddsUp, CountIn, C, P
    <2>6. q.enqueued = broadcasts[b].enqueued /\ q.skipped = broadcasts[b].skipped /\ q.status = "CANCELLED"
      BY <1>3 DEF Stops
    <2>7. \A r \in Recipients : rec[r] # "PENDING" BY <2>1
    <2> QED BY <2>2, <2>4, <2>5, <2>6, <2>7 DEF AddsUp, CountIn
  <1>4. CASE Deletes(b, q, rec)
    <2>1. q.enqueued = 0 /\ q.skipped = 0 /\ q.cancelled = 0 /\ q.status = "none" /\ rec = [r \in Recipients |-> "none"]
      BY <1>4 DEF Deletes
    <2> QED BY <2>1, CountsRecipients DEF AddsUp
  <1>5. CASE Counts(b, q, rec)
    <2>1. PICK x \in PendingRecipients(b), skip \in BOOLEAN :
            /\ rec = [recipients[b] EXCEPT ![x] = IF skip THEN "SKIPPED" ELSE "ENQUEUED"]
            /\ q.skipped = broadcasts[b].skipped + (IF skip THEN 1 ELSE 0)
            /\ q.enqueued = broadcasts[b].enqueued + (IF skip THEN 0 ELSE 1)
            /\ q.status = IF PendingRecipients(b) = {x} THEN "COMPLETED" ELSE "RUNNING"
      BY <1>5 DEF Counts
    <2>2. x \in Recipients /\ recipients[b][x] = "PENDING" BY DEF PendingRecipients
    <2> DEFINE st == IF skip THEN "SKIPPED" ELSE "ENQUEUED"
               Of(s) == {r \in Recipients : recipients[b][r] = s}
    <2>3. /\ {r \in Recipients : rec[r] = st} = Of(st) \cup {x} /\ x \notin Of(st)
          /\ \A s \in {"ENQUEUED", "SKIPPED", "CANCELLED"} \ {st} : {r \in Recipients : rec[r] = s} = Of(s)
      BY <2>1, <2>2
    <2>4. \A s : IsFiniteSet(Of(s)) /\ Cardinality(Of(s)) \in Nat BY CountsRecipients DEF CountIn
    <2>5. Cardinality(Of(st) \cup {x}) = Cardinality(Of(st)) + 1
      <3> DEFINE D == Of(st)
      <3>1. IsFiniteSet(D) /\ x \notin D BY <2>3, <2>4
      <3> HIDE DEF D
      <3>2. Cardinality(D \cup {x}) = Cardinality(D) + 1 BY <3>1, FS_AddElement
      <3> QED BY <3>2 DEF D
    <2>6. /\ broadcasts[b].enqueued = Cardinality(Of("ENQUEUED")) /\ broadcasts[b].skipped = Cardinality(Of("SKIPPED"))
          /\ broadcasts[b].cancelled = Cardinality(Of("CANCELLED")) /\ q.cancelled = broadcasts[b].cancelled
      BY <1>5 DEF AddsUp, CountIn, Counts
    <2>7. PendingRecipients(b) = {x} => \A r \in Recipients : rec[r] # "PENDING"
      BY <2>1, <2>2 DEF PendingRecipients
    <2>8. /\ q.status # "none" /\ q.status # "CANCELLED"
          /\ q.status = "COMPLETED" => \A r \in Recipients : rec[r] # "PENDING"
      BY <2>1, <2>7
    <2> HIDE DEF Of
    <2>9. /\ CountIn(rec, st) = Cardinality(Of(st)) + 1
          /\ \A s \in {"ENQUEUED", "SKIPPED", "CANCELLED"} \ {st} : CountIn(rec, s) = Cardinality(Of(s))
      BY <2>3, <2>5 DEF CountIn
    <2>10. CASE skip
      <3>1. q.skipped = broadcasts[b].skipped + 1 /\ q.enqueued = broadcasts[b].enqueued
        BY <2>1, <2>4, <2>6, <2>10
      <3> QED BY <2>6, <2>8, <2>9, <2>10, <3>1 DEF AddsUp
    <2>11. CASE ~skip
      <3>1. q.skipped = broadcasts[b].skipped /\ q.enqueued = broadcasts[b].enqueued + 1
        BY <2>1, <2>4, <2>6, <2>11
      <3> QED BY <2>6, <2>8, <2>9, <2>11, <3>1 DEF AddsUp
    <2> QED BY <2>10, <2>11
  <1> QED BY <1>1, <1>2, <1>3, <1>4, <1>5 DEF Change

(* A broadcast that is complete stays so, until it is deleted. *)
LEMMA CompleteStays ==
  ASSUME NEW b, NEW q, NEW rec, Change(b, q, rec), broadcasts[b].status = "COMPLETED"
  PROVE  q.status = "COMPLETED" \/ Deletes(b, q, rec)
  BY DEF Change, KeepsCounts, Creates, Stops, Deletes, Counts, Stoppable

(* ProgressInv is inductive. *)
LEMMA ProgressStep ==
  ASSUME ProgressInv, CampaignTypes, [CampaignNext]_<<campaignVars, broadcastVars>>
  PROVE  ProgressInv'
  <1>1. CASE UNCHANGED broadcastVars
    BY <1>1 DEF broadcastVars, ProgressInv, BroadcastTypes, ActorsFit, InHand, BroadcastIs, ReportedRows, RowId
  <1>2. CASE CampaignStep \/ BroadcastNext
    <2>t. BroadcastTypes /\ ActorsFit BY DEF ProgressInv
    <2>1. BroadcastsMove BY <1>2, <2>t, BroadcastMoves, CampaignsMoveBroadcasts
    <2>2. ActorsFit'
      <3>1. CASE BroadcastNext BY <2>t, <3>1, ActorsMove
      <3>2. CASE CampaignStep BY <2>t, <3>2, CampaignsLeave DEF ActorsFit, InHand
      <3> QED BY <1>2, <3>1, <3>2
    <2>3. handed \subseteq handed' BY <1>2, HandedStays, CampaignsLeave
    <2>r. /\ deletions' \in [Broadcasts -> Nat]
          /\ \A b \in Broadcasts : \/ deletions'[b] = deletions[b]
                                  \/ (deletions'[b] = deletions[b] + 1 /\ Deletes(b, broadcasts'[b], recipients'[b]))
      BY <1>2, <2>t, RowsGo
    <2>4. BroadcastTypes' BY <2>1, <2>2, <2>r DEF BroadcastTypes, BroadcastsMove, ActorsFit
    <2>5. ASSUME NEW b \in Broadcasts
          PROVE  /\ AddsUp(broadcasts[b], recipients[b])'
                 /\ ReportedRows(b)'
                 /\ \A r \in Recipients : recipients'[b][r] = "ENQUEUED" => <<b, RowId(b)', r>> \in handed'
      <3> DEFINE q == broadcasts'[b]
                 rec == recipients'[b]
      <3>1. Change(b, q, rec) /\ rec \in [Recipients -> RecipientStatuses]
        BY <2>1 DEF BroadcastsMove, BroadcastMove
      <3>2. /\ recipients[b] \in [Recipients -> RecipientStatuses] /\ BroadcastRow(broadcasts[b])
            /\ AddsUp(broadcasts[b], recipients[b])
        BY DEF ProgressInv, BroadcastTypes
      <3> HIDE DEF q, rec
      <3>3. AddsUp(q, rec) BY <3>1, <3>2, CountersAddUp
      <3>4. AddsUp(broadcasts[b], recipients[b])' BY <3>3 DEF q, rec, AddsUp, CountIn
      <3>d. \/ RowId(b)' = RowId(b)
            \/ (RowId(b)' = RowId(b) + 1 /\ Deletes(b, q, rec))
        BY <2>r DEF RowId, q, rec
      <3>n. RowId(b) \in Nat /\ deletions[b] \in Nat BY <2>t DEF RowId, BroadcastTypes
      <3>5. ReportedRows(b)'
        <4>1. ASSUME NEW n \in Nat, <<b, n, "COMPLETED">> \in reported'
              PROVE  <<b, n, "COMPLETED">> \in reported \/ (n = RowId(b) /\ q.status = "COMPLETED")
          BY <1>2, <2>t, <4>1, Reports, CampaignsLeave DEF q
        <4>2. /\ \A n \in Nat : <<b, n, "COMPLETED">> \in reported => n <= RowId(b)
              /\ <<b, RowId(b), "COMPLETED">> \in reported => broadcasts[b].status = "COMPLETED"
          BY DEF ProgressInv, ReportedRows, BroadcastIs
        <4>3. \A n \in Nat : <<b, n, "COMPLETED">> \in reported' => n <= RowId(b)
          BY <3>n, <4>1, <4>2
        <4>4. CASE RowId(b)' = RowId(b)
          <5>1. ~Deletes(b, q, rec) BY <3>n, <4>4 DEF Deletes, RowId
          <5>2. <<b, RowId(b), "COMPLETED">> \in reported' => q.status = "COMPLETED"
            BY <3>1, <3>n, <4>1, <4>2, <5>1, CompleteStays
          <5> QED BY <4>3, <4>4, <5>2 DEF ReportedRows, BroadcastIs, q
        <4>5. CASE RowId(b)' = RowId(b) + 1
          <5>1. \A n \in Nat : <<b, n, "COMPLETED">> \in reported' => n <= RowId(b)' /\ n # RowId(b)'
            BY <3>n, <4>3, <4>5
          <5>2. RowId(b)' \in Nat BY <3>n, <4>5
          <5> QED BY <5>1, <5>2 DEF ReportedRows
        <4> QED BY <3>d, <4>4, <4>5
      <3>6. ASSUME NEW r \in Recipients, rec[r] = "ENQUEUED" PROVE <<b, RowId(b)', r>> \in handed'
        <4>0. RowId(b)' = RowId(b) BY <3>6, <3>d DEF Deletes
        <4>1. recipients[b][r] = "ENQUEUED" => <<b, RowId(b), r>> \in handed BY DEF ProgressInv
        <4>2. recipients[b][r] = "ENQUEUED"
              \/ \E w \in Workers : /\ broadcaster[w].pc = "recording"
                                    /\ broadcaster[w].broadcast = b /\ broadcaster[w].recipient = r
                                    /\ broadcaster[w].row = RowId(b)
          <5>1. CASE rec = recipients[b] BY <3>6, <5>1
          <5>2. CASE Creates(b, q, rec) BY <3>6, <5>2 DEF Creates
          <5>3. CASE Stops(b, q, rec) BY <3>6, <5>3 DEF Stops
          <5>4. CASE Deletes(b, q, rec) BY <3>6, <5>4 DEF Deletes
          <5>5. CASE Counts(b, q, rec)
            <6>1. PICK x \in PendingRecipients(b), skip \in BOOLEAN :
                    /\ rec = [recipients[b] EXCEPT ![x] = IF skip THEN "SKIPPED" ELSE "ENQUEUED"]
                    /\ ~skip => \E w \in Workers : /\ broadcaster[w].pc = "recording"
                                                   /\ broadcaster[w].broadcast = b /\ broadcaster[w].recipient = x
                                                   /\ broadcaster[w].row = RowId(b)
              BY <5>5 DEF Counts
            <6>2. CASE r # x BY <3>2, <3>6, <6>1, <6>2
            <6>3. CASE r = x
              <7>1. ~skip BY <3>2, <3>6, <6>1, <6>3
              <7> QED BY <6>1, <6>3, <7>1
            <6> QED BY <6>2, <6>3
          <5> QED BY <3>1, <5>1, <5>2, <5>3, <5>4, <5>5 DEF Change
        <4>3. <<b, RowId(b), r>> \in handed BY <2>t, <4>1, <4>2 DEF ActorsFit, InHand
        <4> QED BY <2>3, <4>0, <4>3
      <3> QED BY <3>4, <3>5, <3>6 DEF q, rec
    <2>6. \A b \in Broadcasts, r \in Recipients : recipients'[b][r] = "ENQUEUED" => <<b, RowId(b)', r>> \in handed' BY <2>5
    <2> QED BY <2>2, <2>4, <2>5, <2>6 DEF ProgressInv
  <1> QED BY <1>1, <1>2 DEF CampaignNext

(* It gives that the progress adds up. *)
LEMMA ProgressIsShown == ProgressInv => ProgressAddsUp
  BY DEF ProgressInv, ProgressAddsUp, AddsUp, CountIn, With, PendingRecipients, BroadcastIs, ReportedRows

(* At the start there is no broadcast. *)
LEMMA BroadcastsStart == BroadcastInit => ProgressInv
  <1> SUFFICES ASSUME BroadcastInit PROVE ProgressInv OBVIOUS
  <1>1. BroadcastRow(NoBroadcast) /\ NoBroadcast.status = "none" /\ NoBroadcast.enqueued = 0
        /\ NoBroadcast.skipped = 0 /\ NoBroadcast.cancelled = 0
    BY NoBroadcastRow
  <1> DEFINE rec == [r \in Recipients |-> "none"]
  <1>2. rec \in [Recipients -> RecipientStatuses] BY DEF RecipientStatuses
  <1>3. AddsUp(NoBroadcast, rec) BY <1>1, CountsRecipients DEF AddsUp
  <1>4. BroadcasterAt("idle") \in BroadcasterStates /\ BroadcasterAt("idle").pc = "idle"
    BY DEF BroadcasterAt, BroadcasterStates, AtBroadcast, AtRecipient, Gone
  <1>5. NotCreating \in CreatorStates BY DEF NotCreating, CreatorAt, CreatorStates
  <1>6. ActorsFit BY <1>4, <1>5 DEF ActorsFit, InHand, BroadcastInit
  <1>7. NoBroadcast \in BroadcastRows BY <1>1 DEF BroadcastRow
  <1>8. \A b \in Broadcasts : broadcasts[b] = NoBroadcast /\ recipients[b] = rec BY DEF BroadcastInit
  <1>9. \A b \in Broadcasts, r \in Recipients : recipients[b][r] # "ENQUEUED" BY <1>8
  <1>10. broadcasts \in [Broadcasts -> BroadcastRows] /\ recipients \in [Broadcasts -> [Recipients -> RecipientStatuses]]
    BY <1>2, <1>7 DEF BroadcastInit
  <1> HIDE DEF rec
  <1>11. deletions \in [Broadcasts -> Nat] BY DEF BroadcastInit
  <1>12. BroadcastTypes BY <1>1, <1>6, <1>8, <1>10, <1>11 DEF BroadcastTypes, ActorsFit
  <1>13. reported = {} BY DEF BroadcastInit
  <1>14. \A b \in Broadcasts : ReportedRows(b) BY <1>13 DEF ReportedRows
  <1> QED BY <1>3, <1>6, <1>8, <1>9, <1>12, <1>14 DEF ProgressInv
-----------------------------------------------------------------------------
(* The rows that campaigns get. *)
MovedCampaign(r, st) == [Released(r) EXCEPT !.status = st]
ChangedCampaign(r, st, n) == [Released(r) EXCEPT !.status = st, !.launches = n]
TakenCampaign(r, w, n) == [Claimed(r, w) EXCEPT !.status = "QUEUED", !.launches = n]

(* A status that is written leaves the row without a claim, *)
LEMMA MovesCampaign ==
  ASSUME NEW r \in CampaignRows, NEW st \in CampaignStatuses, NEW q, q = MovedCampaign(r, st)
  PROVE  CampaignRow(q) /\ q.status = st /\ q.version = r.version
  BY NobodyAssumption DEF CampaignRows, CampaignRow, Released, Leases, MovedCampaign

(* also where the launches are counted anew. *)
LEMMA ChangesCampaign ==
  ASSUME NEW r \in CampaignRows, NEW st \in CampaignStatuses, NEW n \in 0..MaxLaunches, NEW q, q = ChangedCampaign(r, st, n)
  PROVE  CampaignRow(q) /\ q.status = st /\ q.version = r.version
  BY NobodyAssumption DEF CampaignRows, CampaignRow, Released, Leases, ChangedCampaign

(* A claim locks the row. *)
LEMMA TakesCampaign ==
  ASSUME NEW r \in CampaignRows, NEW w \in Workers, NEW n \in 0..MaxLaunches, NEW q, q = TakenCampaign(r, w, n)
  PROVE  CampaignRow(q) /\ q.status = "QUEUED" /\ q.version = r.version
  BY NobodyAssumption DEF CampaignRows, CampaignRow, Claimed, Leases, TakenCampaign, CampaignStatuses

(* One column is written. *)
LEMMA PatchesCampaign ==
  ASSUME NEW r, CampaignRow(r), NEW q,
         \/ \E st \in CampaignStatuses : q = [r EXCEPT !.status = st]
         \/ \E v \in 1..MaxDrafts : q = [r EXCEPT !.version = v]
         \/ r.lease # "none" /\ \E l \in {"live", "expired"} : q = [r EXCEPT !.lease = l]
         \/ q = Released(r)
  PROVE  CampaignRow(q)
  BY DEF CampaignRows, CampaignRow, Released, Leases

(* What a step makes of the row of campaign k: nothing that counts here, *)
Reserves(k, v) == reserved[k][v] # "none"
CampaignStays(k, q) == q.status = campaigns[k].status /\ q.version = campaigns[k].version

(* a draft is written, rewritten or activated, in a version whose quota was reserved, *)
Drafts(k, q) ==
  \/ campaigns[k].status = "none" /\ q.status = "DRAFT"
  \/ campaigns[k].status = "DRAFT" /\ q.status = "DRAFT"
Activates(k, q) ==
  /\ campaigns[k].status = "DRAFT" /\ q.status \in {"SCHEDULED", "QUEUED"} /\ q.version = campaigns[k].version
  /\ Reserves(k, q.version)

(* a user or a worker moves an active campaign, *)
MovesOn(k, q) ==
  /\ q.version = campaigns[k].version
  /\ \/ q.status = "CANCELLED" /\ campaigns[k].status # "none"
     \/ campaigns[k].status \notin {"none", "DRAFT"} /\ q.status \in {"SCHEDULED", "QUEUED", "PAUSED", "FAILED"}
        /\ campaigns[k].status # "CANCELLED"

(* A campaign that has, or had, a broadcast, and a complete one. *)
WasHanded(k) == HandedOff(k) \/ deletions[k] > 0
WasComplete(k) == BroadcastIs(k, {"COMPLETED"}) \/ k \in ended

(* or it takes the status of its broadcast, that was there before or comes with it. *)
Follows(k, q) ==
  /\ q.version = campaigns[k].version /\ q.status \in Mirrors
  /\ WasHanded(k) /\ (q.status = "COMPLETED" => WasComplete(k))
Launches(k, q) ==
  /\ q.version = campaigns[k].version
  /\ campaigns[k].status = "QUEUED" /\ broadcasts'[k].status # "none"
  /\ q.status = IF broadcasts'[k].status = "COMPLETED" THEN "COMPLETED" ELSE "RUNNING"

CampaignChange(k, q) ==
  CampaignStays(k, q) \/ Drafts(k, q) \/ Activates(k, q) \/ MovesOn(k, q) \/ Follows(k, q) \/ Launches(k, q)

CampaignsMove ==
  /\ campaigns' \in [Campaigns -> CampaignRows]
  /\ \A k \in Campaigns : CampaignRow(campaigns'[k]) /\ CampaignChange(k, campaigns'[k])

(* Requests that reserved, and workers that read a broadcast. *)
PlannerFit(p) == p.pc = "activating" => Reserves(p.campaign, p.version)
LauncherFit(l) ==
  l.pc \in {"recovering", "reconciling"} =>
    WasHanded(l.campaign) /\ (l.target = "COMPLETED" => WasComplete(l.campaign))

(* What has been handed off has left the draft, in a version that was reserved. *)
RightCampaign(k) ==
  /\ campaigns[k].status \in {"RUNNING", "COMPLETED"} => WasHanded(k)
  /\ campaigns[k].status = "COMPLETED" => WasComplete(k)
  /\ campaigns[k].status \in {"none", "DRAFT"} => ~WasHanded(k)
  /\ campaigns[k].status \in {"SCHEDULED", "QUEUED", "RUNNING", "PAUSED", "COMPLETED", "FAILED"} \/ WasHanded(k)
       => reserved[k][campaigns[k].version] # "none"

QuotaStates == {"none", "reserved", "committed", "released"}
ReservedTypes == reserved \in [Campaigns -> [1..MaxDrafts -> QuotaStates]]
CampaignInv ==
  /\ CampaignTypes /\ ReservedTypes
  /\ \A c \in Callers : PlannerFit(planner[c])
  /\ \A w \in Workers : LauncherFit(launcher[w])
  /\ \A k \in Campaigns : RightCampaign(k)

QuotaInv ==
  /\ quota \in [Broadcasts -> QuotaStates]
  /\ \A c \in Callers : creator[c].pc = "releasing" => creator[c].broadcast \in refused
  /\ \A b \in Broadcasts \ (Campaigns \cup refused) :
       /\ quota[b] # "released" /\ (broadcasts[b].status # "none" => quota[b] # "none")
       /\ \A c \in Callers : (creator[c].pc # "idle" /\ creator[c].broadcast = b) => quota[b] # "none"

(* A row of a campaign is rewritten, *)
LEMMA OneCampaignMoves ==
  ASSUME CampaignTypes, NEW k \in Campaigns, NEW q, CampaignRow(q), CampaignChange(k, q),
         campaigns' = [campaigns EXCEPT ![k] = q]
  PROVE  CampaignsMove
  <1>1. \A j \in Campaigns : campaigns'[j] = IF j = k THEN q ELSE campaigns[j] BY DEF CampaignTypes
  <1>2. campaigns' \in [Campaigns -> CampaignRows] BY DEF CampaignTypes, CampaignRow
  <1>3. \A j \in Campaigns : CampaignChange(j, campaigns[j]) BY DEF CampaignChange, CampaignStays
  <1> QED BY <1>1, <1>2, <1>3 DEF CampaignsMove, CampaignTypes

(* or none. *)
LEMMA NoCampaignMoves == ASSUME CampaignTypes, campaigns' = campaigns PROVE CampaignsMove
  BY DEF CampaignTypes, CampaignsMove, CampaignChange, CampaignStays

(* Every step moves the campaigns so. *)
LEMMA CampaignsMoveOn == ASSUME BroadcastTypes, CampaignInv, CampaignStep PROVE CampaignsMove
  <1>t. CampaignTypes /\ campaigns \in [Campaigns -> CampaignRows] /\ \A k \in Campaigns : CampaignRow(campaigns[k])
    BY DEF CampaignInv, CampaignTypes
  <1>p. \A c \in Callers : planner[c] \in PlannerStates /\ PlannerFit(planner[c])
    BY DEF CampaignInv, CampaignTypes, ActorTypes
  <1>l. \A w \in Workers : /\ launcher[w] \in LauncherStates /\ LauncherFit(launcher[w])
                           /\ launcher[w].pc \in AtCampaign => launcher[w].campaign \in Campaigns
    BY DEF CampaignInv, CampaignTypes, ActorTypes, LauncherStates
  <1>n. ASSUME campaigns' = campaigns PROVE CampaignsMove BY <1>t, <1>n, NoCampaignMoves
  <1>e. ASSUME NEW k \in Campaigns, NEW l \in {"live", "expired"}, campaigns[k].lease # "none",
               campaigns' = [campaigns EXCEPT ![k].lease = l]
        PROVE  CampaignsMove
    <2> DEFINE q == [campaigns[k] EXCEPT !.lease = l]
    <2>1. CampaignRow(q) BY <1>t, <1>e, PatchesCampaign
    <2>2. q.status = campaigns[k].status /\ q.version = campaigns[k].version BY <1>t DEF CampaignRows
    <2>3. campaigns' = [campaigns EXCEPT ![k] = q] BY <1>e
    <2> HIDE DEF q
    <2> QED BY <1>t, <2>1, <2>2, <2>3, OneCampaignMoves DEF CampaignChange, CampaignStays
  <1>m. ASSUME NEW k \in Campaigns, NEW st \in CampaignStatuses, NEW q,
               q = MovedCampaign(campaigns[k], st) \/ q = [campaigns[k] EXCEPT !.status = st]
        PROVE  CampaignRow(q) /\ q.status = st /\ q.version = campaigns[k].version
    <2>1. campaigns[k] \in CampaignRows /\ CampaignRow(campaigns[k]) BY <1>t
    <2>2. CASE q = MovedCampaign(campaigns[k], st) BY <2>1, <2>2, MovesCampaign
    <2>3. CASE q = [campaigns[k] EXCEPT !.status = st]
      <3>1. CampaignRow(q) BY <2>1, <2>3, PatchesCampaign
      <3> QED BY <2>1, <2>3, <3>1 DEF CampaignRows
    <2> QED BY <1>m, <2>2, <2>3
  <1>1. ASSUME NEW k \in Campaigns, CreateCampaign(k) PROVE CampaignsMove
    <2> DEFINE q == [campaigns[k] EXCEPT !.status = "DRAFT"]
    <2>1. CampaignRow(q) /\ q.status = "DRAFT" BY <1>m DEF CampaignStatuses
    <2>2. campaigns' = [campaigns EXCEPT ![k] = q] /\ campaigns[k].status = "none" BY <1>1 DEF CreateCampaign, CampaignIs
    <2> HIDE DEF q
    <2> QED BY <1>t, <2>1, <2>2, OneCampaignMoves DEF CampaignChange, Drafts
  <1>2. ASSUME NEW c \in Callers, EditDraft(c) PROVE CampaignsMove
    <2> DEFINE k == planner[c].campaign
               v == campaigns[k].version + 1
               q == [campaigns[k] EXCEPT !.version = v]
    <2>1. k \in Campaigns BY <1>2, <1>p DEF EditDraft, PlannerStates
    <2>2. CASE campaigns' = campaigns BY <1>n, <2>2
    <2>3. CASE campaigns' # campaigns
      <3>1. campaigns[k].status = "DRAFT" /\ campaigns[k].version < MaxDrafts /\ campaigns' = [campaigns EXCEPT ![k] = q]
        BY <1>2, <2>3 DEF EditDraft, CampaignIs
      <3>2. v \in 1..MaxDrafts BY <1>t, <2>1, <3>1, CampaignAssumption DEF CampaignRows
      <3>3. q.status = "DRAFT" BY <1>t, <2>1, <3>1 DEF CampaignRows
      <3> HIDE DEF v
      <3>4. CampaignRow(q) BY <1>t, <2>1, <3>2, PatchesCampaign
      <3> HIDE DEF q, k
      <3> QED BY <1>t, <2>1, <3>1, <3>3, <3>4, OneCampaignMoves DEF CampaignChange, Drafts
    <2> QED BY <2>2, <2>3
  <1>3. ASSUME NEW c \in Callers, ActivateCampaign(c) PROVE CampaignsMove
    <2> DEFINE k == planner[c].campaign
    <2>1. k \in Campaigns /\ Reserves(k, planner[c].version)
      BY <1>3, <1>p DEF ActivateCampaign, PlannerStates, PlannerFit
    <2>2. CASE campaigns' = campaigns BY <1>n, <2>2
    <2>3. ASSUME NEW st \in {"SCHEDULED", "QUEUED"}, Activatable(c), campaigns' = [campaigns EXCEPT ![k].status = st]
          PROVE  CampaignsMove
      <3> DEFINE q == [campaigns[k] EXCEPT !.status = st]
      <3>1. campaigns' = [campaigns EXCEPT ![k] = q] BY <2>3
      <3>2. campaigns[k].status = "DRAFT" /\ campaigns[k].version = planner[c].version
        BY <2>3 DEF Activatable, CampaignIs
      <3>3. CampaignRow(q) /\ q.status = st /\ q.version = campaigns[k].version BY <1>m, <2>1 DEF CampaignStatuses
      <3> HIDE DEF q, k
      <3>4. Activates(k, q) BY <2>1, <3>2, <3>3 DEF Activates
      <3> QED BY <1>t, <2>1, <3>1, <3>3, <3>4, OneCampaignMoves DEF CampaignChange
    <2> QED BY <1>3, <2>2, <2>3 DEF ActivateCampaign
  <1>4. ASSUME NEW c \in Callers, UpdateCampaign(c) PROVE CampaignsMove
    <2> DEFINE k == planner[c].campaign
               st == planner[c].target
               n == IF st \in {"QUEUED", "SCHEDULED"} THEN 0 ELSE campaigns[k].launches
               q == ChangedCampaign(campaigns[k], st, n)
    <2>1. /\ k \in Campaigns /\ st \in Changing /\ planner[c].status \in Allowed(st)
      BY <1>4, <1>p DEF UpdateCampaign, PlannerStates
    <2>2. CASE campaigns' = campaigns BY <1>n, <2>2
    <2>3. CASE campaigns' # campaigns
      <3>1. campaigns[k].status = planner[c].status /\ campaigns' = [campaigns EXCEPT ![k] = q]
        BY <1>4, <2>3 DEF UpdateCampaign, ChangedCampaign
      <3>2. st \in CampaignStatuses BY <2>1 DEF Changing, CampaignStatuses
      <3>3. n \in 0..MaxLaunches BY <1>t, <2>1, CampaignAssumption DEF CampaignRows
      <3> HIDE DEF n
      <3>4. CampaignRow(q) /\ q.status = st /\ q.version = campaigns[k].version BY <1>t, <2>1, <3>2, <3>3, ChangesCampaign
      <3> HIDE DEF q
      <3>5. MovesOn(k, q)
        <4>1. campaigns[k].status \in Allowed(st) BY <2>1, <3>1
        <4> HIDE DEF st, k
        <4>2. CASE st = "PAUSED" BY <3>4, <4>1, <4>2 DEF MovesOn, Allowed
        <4>3. CASE st = "QUEUED" BY <3>4, <4>1, <4>3 DEF MovesOn, Allowed
        <4>4. CASE st = "SCHEDULED" BY <3>4, <4>1, <4>4 DEF MovesOn, Allowed
        <4>5. CASE st = "CANCELLED" BY <3>4, <4>1, <4>5 DEF MovesOn, Allowed
        <4> QED BY <2>1, <4>2, <4>3, <4>4, <4>5 DEF Changing
      <3> HIDE DEF k
      <3> QED BY <1>t, <2>1, <3>1, <3>4, <3>5, OneCampaignMoves DEF CampaignChange
    <2> QED BY <2>2, <2>3
  <1>5. ASSUME NEW w \in Workers, ClaimCampaign(w) PROVE CampaignsMove
    <2>1. PICK k \in Campaigns :
            /\ CampaignIs(k, {"SCHEDULED", "QUEUED"})
            /\ LET n == IF campaigns[k].launches < MaxLaunches THEN campaigns[k].launches + 1 ELSE MaxLaunches
               IN campaigns' = [campaigns EXCEPT ![k] = TakenCampaign(campaigns[k], w, n)]
      BY <1>5 DEF ClaimCampaign, TakenCampaign
    <2> DEFINE n == IF campaigns[k].launches < MaxLaunches THEN campaigns[k].launches + 1 ELSE MaxLaunches
               q == TakenCampaign(campaigns[k], w, n)
    <2>2. n \in 0..MaxLaunches BY <1>t, CampaignAssumption DEF CampaignRows
    <2>3. campaigns' = [campaigns EXCEPT ![k] = q] BY <2>1
    <2> HIDE DEF n
    <2>4. CampaignRow(q) /\ q.status = "QUEUED" /\ q.version = campaigns[k].version BY <1>t, <2>2, TakesCampaign
    <2> HIDE DEF q
    <2>5. MovesOn(k, q) BY <2>1, <2>4 DEF MovesOn, CampaignIs
    <2> QED BY <1>t, <2>3, <2>4, <2>5, OneCampaignMoves DEF CampaignChange
  <1>6. ASSUME NEW w \in Workers, RecoverHandoff(w) \/ WriteActive(w) PROVE CampaignsMove
    <2> DEFINE k == launcher[w].campaign
               st == launcher[w].target
    <2>1. launcher[w].pc \in {"recovering", "reconciling"} BY <1>6 DEF RecoverHandoff, WriteActive
    <2>2. /\ k \in Campaigns /\ st \in Mirrors /\ WasHanded(k) /\ (st = "COMPLETED" => WasComplete(k))
      BY <1>l, <2>1 DEF LauncherStates, LauncherFit, AtCampaign
    <2>3. CASE campaigns' = campaigns BY <1>n, <2>3
    <2>4. ASSUME NEW q, q = MovedCampaign(campaigns[k], st) \/ q = [campaigns[k] EXCEPT !.status = st],
                 campaigns' = [campaigns EXCEPT ![k] = q]
          PROVE  CampaignsMove
      <3>1. st \in CampaignStatuses BY <2>2 DEF Mirrors, CampaignStatuses
      <3>2. CampaignRow(q) /\ q.status = st /\ q.version = campaigns[k].version BY <1>m, <2>2, <2>4, <3>1
      <3>3. Follows(k, q) BY <2>2, <3>2 DEF Follows
      <3> HIDE DEF k
      <3> QED BY <1>t, <2>2, <2>4, <3>2, <3>3, OneCampaignMoves DEF CampaignChange
    <2>5. \/ campaigns' = campaigns
          \/ campaigns' = [campaigns EXCEPT ![k] = MovedCampaign(campaigns[k], st)]
          \/ campaigns' = [campaigns EXCEPT ![k] = [campaigns[k] EXCEPT !.status = st]]
      BY <1>6 DEF RecoverHandoff, WriteActive, Reconciled, MovedCampaign, CampaignOf
    <2> HIDE DEF k, st
    <2> QED BY <2>3, <2>4, <2>5
  <1>7. ASSUME NEW w \in Workers, PrepareHandoff(w) PROVE CampaignsMove
    <2> DEFINE k == launcher[w].campaign
    <2>1. k \in Campaigns BY <1>7, <1>l DEF PrepareHandoff, AtCampaign
    <2>2. \/ campaigns' = campaigns
          \/ campaigns[k].lock = w /\ campaigns' = [campaigns EXCEPT ![k].lease = "live"]
      BY <1>7 DEF PrepareHandoff, OwnsCampaign, CampaignOf
    <2>3. campaigns[k].lock = w => campaigns[k].lease # "none" BY <1>t, <2>1, NobodyAssumption DEF CampaignRow
    <2> HIDE DEF k
    <2> QED BY <1>e, <1>n, <2>1, <2>2, <2>3
  <1>8. ASSUME NEW w \in Workers, HandOff(w) PROVE CampaignsMove
    <2> DEFINE k == launcher[w].campaign
               st == IF broadcasts'[k].status = "COMPLETED" THEN "COMPLETED" ELSE "RUNNING"
               q == MovedCampaign(campaigns[k], st)
    <2>1. k \in Campaigns BY <1>8, <1>l DEF HandOff, AtCampaign
    <2>2. CASE campaigns' = campaigns BY <1>n, <2>2
    <2>3. CASE campaigns' # campaigns
      <3>1. campaigns[k].status = "QUEUED" /\ ~HandedOff(k) /\ NewBroadcast(k) /\ campaigns' = [campaigns EXCEPT ![k] = q]
        BY <1>8, <2>3 DEF HandOff, OwnsCampaign, CampaignOf, MovedCampaign
      <3>2. st \in CampaignStatuses BY DEF CampaignStatuses
      <3>3. broadcasts'[k].status # "none"
        <4>1. k \in Broadcasts BY <2>1, BroadcastAssumption
        <4>2. broadcasts \in [Broadcasts -> BroadcastRows] BY DEF BroadcastTypes
        <4> HIDE DEF k
        <4> QED BY <3>1, <4>1, <4>2 DEF NewBroadcast, BroadcastRows
      <3>4. CampaignRow(q) /\ q.status = st /\ q.version = campaigns[k].version BY <1>m, <2>1, <3>2
      <3> HIDE DEF q
      <3>5. Launches(k, q) BY <3>1, <3>3, <3>4 DEF Launches
      <3> HIDE DEF k
      <3> QED BY <1>t, <2>1, <3>1, <3>4, <3>5, OneCampaignMoves DEF CampaignChange
    <2> QED BY <2>2, <2>3
  <1>9. ASSUME NEW w \in Workers, FailCampaign(w) PROVE CampaignsMove
    <2> DEFINE k == launcher[w].campaign
    <2>1. k \in Campaigns BY <1>9, <1>l DEF FailCampaign, AtCampaign
    <2>2. CASE campaigns' = campaigns BY <1>n, <2>2
    <2>3. ASSUME NEW st \in {"FAILED", "QUEUED"}, campaigns[k].status = "QUEUED",
                 campaigns' = [campaigns EXCEPT ![k] = MovedCampaign(campaigns[k], st)]
          PROVE  CampaignsMove
      <3> DEFINE q == MovedCampaign(campaigns[k], st)
      <3>1. CampaignRow(q) /\ q.status = st /\ q.version = campaigns[k].version BY <1>m, <2>1 DEF CampaignStatuses
      <3>2. campaigns' = [campaigns EXCEPT ![k] = q] BY <2>3
      <3> HIDE DEF q
      <3>3. MovesOn(k, q) BY <2>3, <3>1 DEF MovesOn
      <3> HIDE DEF k
      <3> QED BY <1>t, <2>1, <3>1, <3>2, <3>3, OneCampaignMoves DEF CampaignChange
    <2>4. \/ campaigns' = campaigns
          \/ campaigns[k].status = "QUEUED" /\ \E st \in {"FAILED", "QUEUED"} :
               campaigns' = [campaigns EXCEPT ![k] = MovedCampaign(campaigns[k], st)]
      BY <1>9 DEF FailCampaign, OwnsCampaign, CampaignOf, MovedCampaign
    <2> QED BY <2>2, <2>3, <2>4
  <1>10. ASSUME NEW w \in Workers, HeartbeatCampaign(w) PROVE CampaignsMove
    <2> DEFINE k == launcher[w].campaign
    <2>1. k \in Campaigns BY <1>10, <1>l DEF HeartbeatCampaign, AtCampaign
    <2>2. campaigns[k].lease = "expired" /\ campaigns' = [campaigns EXCEPT ![k].lease = "live"]
      BY <1>10 DEF HeartbeatCampaign, CampaignOf
    <2> HIDE DEF k
    <2> QED BY <1>e, <2>1, <2>2
  <1>11. ASSUME NEW w \in Workers, StopLauncher(w) PROVE CampaignsMove
    <2>1. campaigns' = [k \in Campaigns |->
            IF CampaignIs(k, {"QUEUED"}) /\ campaigns[k].lock = w THEN Released(campaigns[k]) ELSE campaigns[k]]
      BY <1>11 DEF StopLauncher
    <2>2. ASSUME NEW k \in Campaigns PROVE CampaignRow(campaigns'[k]) /\ CampaignStays(k, campaigns'[k])
      <3> DEFINE q == Released(campaigns[k])
      <3>1. CampaignRow(q) BY <1>t, PatchesCampaign
      <3>2. q.status = campaigns[k].status /\ q.version = campaigns[k].version BY <1>t DEF CampaignRows, Released
      <3>3. campaigns'[k] = q \/ campaigns'[k] = campaigns[k] BY <2>1
      <3> HIDE DEF q
      <3> QED BY <1>t, <3>1, <3>2, <3>3 DEF CampaignStays
    <2>3. campaigns' = [k \in Campaigns |-> campaigns'[k]] BY <2>1
    <2>4. campaigns' \in [Campaigns -> CampaignRows] BY <2>2, <2>3 DEF CampaignRow
    <2> QED BY <2>2, <2>4 DEF CampaignsMove, CampaignChange
  <1>12. ASSUME NEW k \in Campaigns, CampaignLeaseExpires(k) PROVE CampaignsMove
    BY <1>12, <1>e DEF CampaignLeaseExpires
  <1>w. ASSUME NEW w \in Workers, LauncherStep(w) \/ HeartbeatCampaign(w) \/ StopLauncher(w) \/ KillLauncher(w)
        PROVE  CampaignsMove
    BY <1>w, <1>n, <1>5, <1>6, <1>7, <1>8, <1>9, <1>10, <1>11
       DEF LauncherStep, LookForHandoff, ListActive, ReadActive, KillLauncher
  <1>c. ASSUME NEW c \in Callers,
               \/ EditDraft(c) \/ ReserveCampaign(c) \/ ActivateCampaign(c) \/ LookAtRace(c) \/ SettleCampaign(c)
               \/ UpdateCampaign(c) \/ \E k \in Campaigns : ReadCampaign(c, k)
        PROVE  CampaignsMove
    BY <1>c, <1>n, <1>2, <1>3, <1>4 DEF ReserveCampaign, LookAtRace, SettleCampaign, ReadCampaign
  <1> QED BY <1>w, <1>c, <1>1, <1>12 DEF CampaignStep

(* Requests go on with a quota they have reserved; what was reserved may be settled, but
   the key is not forgotten. *)
RequestsMove ==
  /\ planner' \in [Callers -> PlannerStates] /\ reserved' \in [Campaigns -> [1..MaxDrafts -> QuotaStates]]
  /\ \A k \in Campaigns, v \in 1..MaxDrafts : reserved[k][v] # "none" => reserved'[k][v] # "none"
  /\ \A c \in Callers : PlannerFit(planner[c])'

(* The records of requests and workers. *)
PlannerRec == [pc : {"idle", "read", "activating", "settling", "raced", "releasing"},
               campaign : Campaigns \cup {"no campaign"},
               status : {"none", "DRAFT", "SCHEDULED", "QUEUED", "RUNNING", "PAUSED", "FAILED"},
               version : 0..MaxDrafts, handed : Nat,
               target : {"none", "edited", "activated"} \cup Changing]

(* The bounds of the counters. *)
LEMMA Bounds == 0 \in 0..MaxLaunches /\ 0 \in 0..MaxDrafts /\ 1..MaxDrafts \subseteq 0..MaxDrafts
  BY CampaignAssumption

(* A request that has not begun, *)
LEMMA IdlePlanner == PlannerAt("idle") \in PlannerStates /\ PlannerAt("idle").pc = "idle"
  <1> DEFINE p == PlannerAt("idle")
  <1>1. p = [pc |-> "idle", campaign |-> "no campaign", status |-> "none", version |-> 0, handed |-> 0, target |-> "none"]
    BY DEF PlannerAt
  <1> HIDE DEF p
  <1>2. p \in PlannerRec BY <1>1, Bounds DEF PlannerRec
  <1>3. p.pc = "idle" BY <1>1
  <1>4. p \in PlannerStates /\ p.pc = "idle" BY <1>2, <1>3 DEF PlannerStates, PlannerRec
  <1> QED BY <1>4 DEF p

(* and one that has read its campaign. *)
LEMMA ReadingPlanner ==
  ASSUME NEW k \in Campaigns, NEW target \in {"edited", "activated"} \cup Changing,
         NEW st \in {"none", "DRAFT", "SCHEDULED", "QUEUED", "RUNNING", "PAUSED", "FAILED"}, st \in Allowed(target),
         NEW v \in 0..MaxDrafts, target \in {"edited", "activated"} => v \in 1..MaxDrafts, NEW h \in Nat,
         NEW p, p = [pc |-> "read", campaign |-> k, target |-> target, status |-> st, version |-> v, handed |-> h]
  PROVE  p \in PlannerStates /\ p.pc = "read"
  <1>1. p \in PlannerRec BY DEF PlannerRec
  <1>2. p.pc = "read" /\ p.campaign = k /\ p.target = target /\ p.status = st /\ p.version = v OBVIOUS
  <1>3. target # "none" BY DEF Changing
  <1> QED BY <1>1, <1>2, <1>3 DEF PlannerStates, PlannerRec

Starting(pc, k, n) == [pc |-> pc, campaign |-> k, launches |-> n, target |-> "none"]
LauncherRec == [pc : {"idle"} \cup Gone \cup AtCampaign, campaign : Campaigns \cup {"no campaign"},
                launches : 0..MaxLaunches, target : {"none"} \cup Mirrors]

(* A worker that has claimed or listed a campaign, *)
LEMMA StartingLauncher ==
  ASSUME NEW k \in Campaigns, NEW pc \in {"claimed", "listed"}, NEW n \in 0..MaxLaunches
  PROVE  Starting(pc, k, n) \in LauncherStates
  <1> DEFINE l == Starting(pc, k, n)
  <1>1. l = [pc |-> pc, campaign |-> k, launches |-> n, target |-> "none"] BY DEF Starting
  <1> HIDE DEF l
  <1>2. l \in LauncherRec BY <1>1 DEF LauncherRec, AtCampaign
  <1>3. l.pc = pc /\ l.campaign = k BY <1>1
  <1>4. l \in LauncherStates BY <1>2, <1>3 DEF LauncherStates, LauncherRec
  <1> QED BY <1>4 DEF l

(* and one without. *)
LEMMA RestingLauncher ==
  ASSUME NEW pc \in {"idle"} \cup Gone
  PROVE  Starting(pc, "no campaign", 0) \in LauncherStates
  <1> DEFINE l == Starting(pc, "no campaign", 0)
  <1>1. l = [pc |-> pc, campaign |-> "no campaign", launches |-> 0, target |-> "none"] BY DEF Starting
  <1> HIDE DEF l
  <1>2. l \in LauncherRec BY <1>1, Bounds DEF LauncherRec
  <1>3. l.pc = pc /\ pc \notin AtCampaign BY <1>1 DEF AtCampaign, Gone
  <1>4. l \in LauncherStates BY <1>2, <1>3 DEF LauncherStates, LauncherRec, AtCampaign
  <1> QED BY <1>4 DEF l

(* A key that is reserved or settled, *)
LEMMA KeyMoves ==
  ASSUME ReservedTypes, NEW k \in Campaigns, NEW v \in 1..MaxDrafts, NEW s \in QuotaStates,
         reserved[k][v] # "none" => s # "none", reserved' = [reserved EXCEPT ![k][v] = s]
  PROVE  /\ reserved' \in [Campaigns -> [1..MaxDrafts -> QuotaStates]] /\ reserved'[k][v] = s
         /\ \A j \in Campaigns, u \in 1..MaxDrafts : reserved[j][u] # "none" => reserved'[j][u] # "none"
  BY DEF ReservedTypes

(* a request that goes on to p. *)
LEMMA PlannerMoves ==
  ASSUME CampaignInv, NEW c \in Callers, NEW p \in PlannerStates, planner' = [planner EXCEPT ![c] = p],
         reserved' \in [Campaigns -> [1..MaxDrafts -> QuotaStates]],
         \A k \in Campaigns, v \in 1..MaxDrafts : reserved[k][v] # "none" => reserved'[k][v] # "none",
         p.pc = "activating" => reserved'[p.campaign][p.version] # "none"
  PROVE  RequestsMove
  <1>1. planner \in [Callers -> PlannerStates] BY DEF CampaignInv, CampaignTypes, ActorTypes
  <1>2. planner' \in [Callers -> PlannerStates] /\ \A d \in Callers : planner'[d] = IF d = c THEN p ELSE planner[d]
    BY <1>1
  <1>3. ASSUME NEW d \in Callers PROVE PlannerFit(planner[d])'
    <2>1. CASE d = c BY <1>2, <2>1 DEF PlannerFit, Reserves
    <2>2. CASE d # c
      <3>1. planner[d] \in PlannerStates /\ planner'[d] = planner[d] BY <1>1, <1>2, <2>2
      <3>2. planner[d].pc = "activating" => /\ planner[d].campaign \in Campaigns /\ planner[d].version \in 1..MaxDrafts
                                            /\ reserved[planner[d].campaign][planner[d].version] # "none"
        BY <3>1 DEF PlannerStates, CampaignInv, PlannerFit, Reserves
      <3> QED BY <3>1, <3>2 DEF PlannerFit, Reserves
    <2> QED BY <2>1, <2>2
  <1> QED BY <1>2, <1>3 DEF RequestsMove

(* Every step moves the requests so, *)
LEMMA AllRequestsMove == ASSUME BroadcastTypes, CampaignInv, CampaignStep PROVE RequestsMove
  <1>t. /\ planner \in [Callers -> PlannerStates] /\ \A c \in Callers : planner[c] \in PlannerStates
        /\ ReservedTypes /\ campaigns \in [Campaigns -> CampaignRows]
    BY DEF CampaignInv, CampaignTypes, ActorTypes
  <1>r. reserved \in [Campaigns -> [1..MaxDrafts -> QuotaStates]] BY <1>t DEF ReservedTypes
  <1>i. PlannerAt("idle") \in PlannerStates /\ PlannerAt("idle").pc = "idle"
    BY IdlePlanner
  <1>n. ASSUME UNCHANGED <<planner, reserved>> PROVE RequestsMove
    BY <1>n, <1>t, <1>r DEF RequestsMove, CampaignInv, PlannerFit, Reserves
  <1>p. ASSUME NEW c \in Callers, NEW pc \in {"raced", "settling", "releasing"},
               planner[c].pc \in {"activating", "raced"}, PlannerGoes(c, pc), reserved' = reserved
        PROVE  RequestsMove
    <2> DEFINE p == [planner[c] EXCEPT !.pc = pc]
    <2>1. p \in PlannerStates /\ p.pc = pc BY <1>t, <1>p DEF PlannerStates
    <2>2. planner' = [planner EXCEPT ![c] = p] BY <1>p DEF PlannerGoes
    <2> HIDE DEF p
    <2> QED BY <1>r, <1>p, <2>1, <2>2, PlannerMoves
  <1>x. ASSUME NEW c \in Callers, PlannerRests(c), reserved' \in [Campaigns -> [1..MaxDrafts -> QuotaStates]],
               \A k \in Campaigns, v \in 1..MaxDrafts : reserved[k][v] # "none" => reserved'[k][v] # "none"
        PROVE  RequestsMove
    <2> DEFINE p == PlannerAt("idle")
    <2>1. p \in PlannerStates /\ p.pc # "activating" BY <1>i
    <2>2. planner' = [planner EXCEPT ![c] = p] BY <1>x DEF PlannerRests
    <2> HIDE DEF p
    <2> QED BY <1>x, <2>1, <2>2, PlannerMoves
  <1>1. ASSUME NEW c \in Callers, NEW k \in Campaigns, ReadCampaign(c, k) PROVE RequestsMove
    <2>1. PICK target \in {"edited", "activated"} \cup Changing :
            /\ CampaignIs(k, Allowed(target)) /\ reserved' = reserved
            /\ planner' = [planner EXCEPT ![c] =
                 [pc |-> "read", campaign |-> k, target |-> target, status |-> campaigns[k].status,
                  version |-> IF target \in {"edited", "activated"} THEN campaigns[k].version ELSE 0,
                  handed |-> BroadcastOf(k)]]
      BY <1>1 DEF ReadCampaign, Changing
    <2> DEFINE st == campaigns[k].status
               v == IF target \in {"edited", "activated"} THEN campaigns[k].version ELSE 0
               h == BroadcastOf(k)
               p == [pc |-> "read", campaign |-> k, target |-> target, status |-> st, version |-> v, handed |-> h]
    <2>2. st \in Allowed(target) BY <2>1 DEF CampaignIs
    <2>3. Allowed(target) \subseteq {"none", "DRAFT", "SCHEDULED", "QUEUED", "RUNNING", "PAUSED", "FAILED"}
      <3>1. CASE target \in {"edited", "activated"} BY <3>1 DEF Allowed
      <3>2. CASE target = "PAUSED" BY <3>2 DEF Allowed
      <3>3. CASE target \in {"QUEUED", "SCHEDULED"} BY <3>3 DEF Allowed
      <3>4. CASE target = "CANCELLED" BY <3>4 DEF Allowed
      <3> QED BY <2>1, <3>1, <3>2, <3>3, <3>4 DEF Changing
    <2>4. v \in 0..MaxDrafts /\ (target \in {"edited", "activated"} => v \in 1..MaxDrafts)
      BY <1>t, CampaignAssumption DEF CampaignRows
    <2>5. h \in Nat BY BroadcastAssumption DEF BroadcastOf, RowId, BroadcastTypes
    <2>6. planner' = [planner EXCEPT ![c] = p] BY <2>1
    <2> HIDE DEF st, v, h
    <2>t. st \in {"none", "DRAFT", "SCHEDULED", "QUEUED", "RUNNING", "PAUSED", "FAILED"} BY <2>2, <2>3
    <2>7. p \in PlannerStates /\ p.pc = "read" BY <2>2, <2>4, <2>5, <2>t, ReadingPlanner
    <2> HIDE DEF p
    <2> QED BY <1>r, <2>1, <2>6, <2>7, PlannerMoves
  <1>2. ASSUME NEW c \in Callers, EditDraft(c) \/ UpdateCampaign(c) PROVE RequestsMove
    BY <1>2, <1>r, <1>x DEF EditDraft, UpdateCampaign
  <1>3. ASSUME NEW c \in Callers, ReserveCampaign(c) PROVE RequestsMove
    <2> DEFINE k == planner[c].campaign
               v == planner[c].version
               s == ReservedKey(reserved[k][v])
               p == [planner[c] EXCEPT !.pc = "activating"]
    <2>1. /\ k \in Campaigns /\ v \in 1..MaxDrafts /\ p \in PlannerStates
          /\ p.pc = "activating" /\ p.campaign = k /\ p.version = v
      BY <1>3, <1>t DEF ReserveCampaign, PlannerStates
    <2>2. reserved[k][v] \in QuotaStates BY <1>r, <2>1
    <2>3. s \in QuotaStates /\ s # "none" BY <2>2 DEF ReservedKey, QuotaStates
    <2>4. reserved' = [reserved EXCEPT ![k][v] = s] /\ planner' = [planner EXCEPT ![c] = p]
      BY <1>3 DEF ReserveCampaign, PlannerGoes
    <2> HIDE DEF s, p, k, v
    <2>r. reserved[k][v] # "none" => s # "none" BY <2>3
    <2>a. k \in Campaigns /\ v \in 1..MaxDrafts BY <2>1
    <2>b. s \in QuotaStates /\ reserved' = [reserved EXCEPT ![k][v] = s] BY <2>3, <2>4
    <2>5. /\ reserved' \in [Campaigns -> [1..MaxDrafts -> QuotaStates]] /\ reserved'[k][v] = s
          /\ \A j \in Campaigns, u \in 1..MaxDrafts : reserved[j][u] # "none" => reserved'[j][u] # "none"
      BY <1>t, <2>a, <2>b, <2>r, KeyMoves
    <2> QED BY <2>1, <2>3, <2>4, <2>5, PlannerMoves
  <1>4. ASSUME NEW c \in Callers, ActivateCampaign(c) \/ LookAtRace(c) PROVE RequestsMove
    <2>1. /\ planner[c].pc \in {"activating", "raced"} /\ reserved' = reserved
          /\ \E pc \in {"raced", "settling", "releasing"} : PlannerGoes(c, pc)
      BY <1>4 DEF ActivateCampaign, LookAtRace
    <2> QED BY <1>p, <2>1
  <1>5. ASSUME NEW c \in Callers, SettleCampaign(c) PROVE RequestsMove
    <2> DEFINE k == planner[c].campaign
               v == planner[c].version
               as == IF planner[c].pc = "settling" THEN "committed" ELSE "released"
               s == SettledKey(reserved[k][v], as)
    <2>1. k \in Campaigns /\ v \in 1..MaxDrafts BY <1>5, <1>t DEF SettleCampaign, PlannerStates
    <2>2. reserved[k][v] \in QuotaStates BY <1>r, <2>1
    <2>3. s \in QuotaStates /\ (reserved[k][v] # "none" => s # "none") BY <2>2 DEF SettledKey, QuotaStates
    <2>4. PlannerRests(c) /\ (reserved' = reserved \/ reserved' = [reserved EXCEPT ![k][v] = s])
      BY <1>5 DEF SettleCampaign
    <2> HIDE DEF s, k, v
    <2> QED BY <1>t, <1>r, <1>x, <2>1, <2>3, <2>4, KeyMoves
  <1>w. ASSUME NEW w \in Workers, LauncherStep(w) \/ HeartbeatCampaign(w) \/ StopLauncher(w) \/ KillLauncher(w)
        PROVE  RequestsMove
    BY <1>w, <1>n
       DEF LauncherStep, ClaimCampaign, LookForHandoff, RecoverHandoff, PrepareHandoff, HandOff, FailCampaign, ListActive,
           ReadActive, WriteActive, HeartbeatCampaign, StopLauncher, KillLauncher
  <1>k. ASSUME NEW k \in Campaigns, CreateCampaign(k) \/ CampaignLeaseExpires(k) PROVE RequestsMove
    BY <1>k, <1>n DEF CreateCampaign, CampaignLeaseExpires
  <1> QED BY <1>1, <1>2, <1>3, <1>4, <1>5, <1>w, <1>k DEF CampaignStep

(* A worker that goes on to l has just read the broadcast, or had. *)
LaunchersMove ==
  /\ launcher' \in [Workers -> LauncherStates]
  /\ \A w \in Workers : LauncherFit(launcher'[w])

(* One worker goes on, *)
LEMMA LauncherMoves ==
  ASSUME CampaignInv, NEW w \in Workers, NEW l \in LauncherStates, LauncherFit(l), launcher' = [launcher EXCEPT ![w] = l]
  PROVE  LaunchersMove
  <1>1. launcher \in [Workers -> LauncherStates] BY DEF CampaignInv, CampaignTypes, ActorTypes
  <1>2. launcher' \in [Workers -> LauncherStates] /\ \A v \in Workers : launcher'[v] = IF v = w THEN l ELSE launcher[v]
    BY <1>1
  <1> QED BY <1>2 DEF LaunchersMove, CampaignInv

(* and every step moves the workers so. *)
LEMMA AllLaunchersMove == ASSUME BroadcastTypes, CampaignInv, CampaignStep PROVE LaunchersMove
  <1>t. /\ launcher \in [Workers -> LauncherStates]
        /\ \A w \in Workers : launcher[w] \in LauncherStates /\ LauncherFit(launcher[w])
        /\ broadcasts \in [Broadcasts -> BroadcastRows]
    BY DEF CampaignInv, CampaignTypes, ActorTypes, BroadcastTypes
  <1>n. ASSUME launcher' = launcher PROVE LaunchersMove BY <1>n, <1>t DEF LaunchersMove
  <1>a. ASSUME NEW pc \in {"idle"} \cup Gone PROVE LauncherAt(pc) \in LauncherStates /\ LauncherFit(LauncherAt(pc))
    <2> DEFINE l == LauncherAt(pc)
    <2>1. l = Starting(pc, "no campaign", 0) BY DEF LauncherAt, Starting
    <2> HIDE DEF l
    <2>2. pc \notin AtCampaign BY DEF AtCampaign, Gone
    <2>s. Starting(pc, "no campaign", 0) \in LauncherStates BY RestingLauncher
    <2>3. l \in LauncherStates /\ l.pc = pc BY <2>1, <2>s DEF Starting
    <2>4. LauncherFit(l) BY <2>2, <2>3 DEF LauncherFit, AtCampaign
    <2> QED BY <2>3, <2>4 DEF l
  <1>x. ASSUME NEW w \in Workers, NEW pc \in {"idle"} \cup Gone, launcher' = [launcher EXCEPT ![w] = LauncherAt(pc)]
        PROVE  LaunchersMove
    <2> DEFINE l == LauncherAt(pc)
    <2>1. l \in LauncherStates /\ LauncherFit(l) BY <1>a
    <2>2. launcher' = [launcher EXCEPT ![w] = l] BY <1>x
    <2> HIDE DEF l
    <2> QED BY <2>1, <2>2, LauncherMoves
  <1>i. ASSUME NEW w \in Workers, LauncherRests(w) PROVE LaunchersMove BY <1>i, <1>x DEF LauncherRests
  <1>g. ASSUME NEW w \in Workers, NEW pc \in {"raced", "preparing", "launching", "failing", "denied"},
               launcher[w].pc \in AtCampaign, LauncherGoes(w, pc)
        PROVE  LaunchersMove
    <2> DEFINE l == [launcher[w] EXCEPT !.pc = pc]
    <2>1. l \in LauncherStates /\ l.pc = pc BY <1>t, <1>g DEF LauncherStates, AtCampaign
    <2>2. launcher' = [launcher EXCEPT ![w] = l] BY <1>g DEF LauncherGoes
    <2> HIDE DEF l
    <2>3. LauncherFit(l) BY <2>1 DEF LauncherFit
    <2> QED BY <2>1, <2>2, <2>3, LauncherMoves
  <1>m. \A k \in Campaigns : Mirrored(k) \in Mirrors /\ (Mirrored(k) = "COMPLETED" => BroadcastIs(k, {"COMPLETED"}))
    BY DEF Mirrored, Mirrors, BroadcastIs
  <1>1. ASSUME NEW w \in Workers, ClaimCampaign(w) PROVE LaunchersMove
    <2>1. PICK k \in Campaigns :
            LET n == IF campaigns[k].launches < MaxLaunches THEN campaigns[k].launches + 1 ELSE MaxLaunches
            IN launcher' = [launcher EXCEPT ![w] = [LauncherAt("claimed") EXCEPT !.campaign = k, !.launches = n]]
      BY <1>1 DEF ClaimCampaign
    <2> DEFINE n == IF campaigns[k].launches < MaxLaunches THEN campaigns[k].launches + 1 ELSE MaxLaunches
               a == LauncherAt("claimed")
               l == [a EXCEPT !.campaign = k, !.launches = n]
    <2>2. n \in 0..MaxLaunches
      BY CampaignAssumption DEF CampaignInv, CampaignTypes, CampaignRows
    <2>3. a = [pc |-> "claimed", campaign |-> "no campaign", launches |-> 0, target |-> "none"] BY DEF LauncherAt
    <2>4. launcher' = [launcher EXCEPT ![w] = l] BY <2>1
    <2> HIDE DEF n, a
    <2>5. l = [[a EXCEPT !.campaign = k] EXCEPT !.launches = n] OBVIOUS
    <2> HIDE DEF l
    <2>6. l = Starting("claimed", k, n) BY <2>3, <2>5 DEF Starting
    <2>s. Starting("claimed", k, n) \in LauncherStates BY <2>2, StartingLauncher
    <2>7. l \in LauncherStates /\ l.pc = "claimed" BY <2>6, <2>s DEF Starting
    <2>8. LauncherFit(l) BY <2>7 DEF LauncherFit
    <2> QED BY <2>4, <2>7, <2>8, LauncherMoves
  <1>2. ASSUME NEW w \in Workers, LookForHandoff(w) PROVE LaunchersMove
    <2> DEFINE k == launcher[w].campaign
               pc == IF HandedOff(k) THEN "recovering" ELSE IF launcher[w].pc = "claimed" THEN "preparing" ELSE "failing"
               target == IF HandedOff(k) THEN Mirrored(k) ELSE "none"
               l == [launcher[w] EXCEPT !.pc = pc, !.target = target]
    <2>1. k \in Campaigns /\ launcher[w] \in LauncherStates
      BY <1>2, <1>t DEF LookForHandoff, LauncherStates, AtCampaign
    <2>2. launcher' = [launcher EXCEPT ![w] = l] BY <1>2 DEF LookForHandoff
    <2>3. /\ target \in {"none"} \cup Mirrors /\ pc \in {"recovering", "preparing", "failing"}
          /\ pc = "recovering" => HandedOff(k) /\ target \in Mirrors
          /\ (pc = "recovering" /\ target = "COMPLETED") => BroadcastIs(k, {"COMPLETED"})
      BY <1>m, <2>1
    <2> HIDE DEF pc, target
    <2>4. l \in LauncherStates /\ l.pc = pc /\ l.target = target /\ l.campaign = k
      BY <2>1, <2>3 DEF LauncherStates, AtCampaign
    <2> HIDE DEF l, k
    <2>5. LauncherFit(l) BY <2>3, <2>4 DEF LauncherFit, WasHanded, WasComplete
    <2> QED BY <2>2, <2>4, <2>5, LauncherMoves
  <1>3. ASSUME NEW w \in Workers, ListActive(w) PROVE LaunchersMove
    <2>1. PICK k \in Campaigns : HandedOff(k) /\ launcher' = [launcher EXCEPT ![w] = [LauncherAt("listed") EXCEPT !.campaign = k]]
      BY <1>3 DEF ListActive
    <2> DEFINE a == LauncherAt("listed")
               l == [a EXCEPT !.campaign = k]
    <2>2. a = [pc |-> "listed", campaign |-> "no campaign", launches |-> 0, target |-> "none"] BY DEF LauncherAt
    <2>3. launcher' = [launcher EXCEPT ![w] = l] BY <2>1
    <2> HIDE DEF a
    <2>e. l = [a EXCEPT !.campaign = k] OBVIOUS
    <2> HIDE DEF l
    <2>4. l = Starting("listed", k, 0) BY <2>2, <2>e DEF Starting
    <2>s. l \in LauncherStates /\ l.pc = "listed" /\ l.campaign = k
      <3>1. Starting("listed", k, 0) \in LauncherStates BY Bounds, StartingLauncher
      <3> QED BY <2>4, <3>1 DEF Starting
    <2>5. l \in LauncherStates /\ LauncherFit(l) BY <2>1, <2>s DEF LauncherFit
    <2> QED BY <2>3, <2>5, LauncherMoves
  <1>4. ASSUME NEW w \in Workers, ReadActive(w) PROVE LaunchersMove
    <2> DEFINE k == launcher[w].campaign
               target == IF CampaignIs(k, {"PAUSED"}) THEN "PAUSED" ELSE Mirrored(k)
               l == [launcher[w] EXCEPT !.pc = "reconciling", !.target = target]
    <2>1. k \in Campaigns /\ launcher[w] \in LauncherStates
      BY <1>4, <1>t DEF ReadActive, LauncherStates, AtCampaign
    <2>2. LauncherRests(w) \/ (HandedOff(k) /\ launcher' = [launcher EXCEPT ![w] = l]) BY <1>4 DEF ReadActive
    <2>3. target \in Mirrors /\ (target = "COMPLETED" => BroadcastIs(k, {"COMPLETED"})) BY <1>m, <2>1 DEF Mirrors
    <2> HIDE DEF target
    <2>4. l \in LauncherStates /\ l.target = target /\ l.campaign = k BY <2>1, <2>3 DEF LauncherStates, AtCampaign
    <2> HIDE DEF l, k
    <2>5. HandedOff(k) => LauncherFit(l) BY <2>3, <2>4 DEF LauncherFit, WasHanded, WasComplete
    <2> QED BY <1>i, <2>2, <2>4, <2>5, LauncherMoves
  <1>5. ASSUME NEW w \in Workers, PrepareHandoff(w) \/ HandOff(w) PROVE LaunchersMove
    <2>1. /\ launcher[w].pc \in AtCampaign
          /\ \/ LauncherRests(w) \/ launcher' = launcher
             \/ \E pc \in {"raced", "launching", "failing", "denied"} : LauncherGoes(w, pc)
      BY <1>5 DEF PrepareHandoff, HandOff, AtCampaign
    <2> QED BY <1>g, <1>i, <1>n, <2>1
  <1>6. ASSUME NEW w \in Workers, RecoverHandoff(w) \/ FailCampaign(w) \/ WriteActive(w) PROVE LaunchersMove
    BY <1>6, <1>i DEF RecoverHandoff, FailCampaign, WriteActive
  <1>7. ASSUME NEW w \in Workers, StopLauncher(w) \/ KillLauncher(w) PROVE LaunchersMove
    BY <1>7, <1>x DEF StopLauncher, KillLauncher, Gone
  <1>8. ASSUME NEW w \in Workers, HeartbeatCampaign(w) PROVE LaunchersMove BY <1>8, <1>n DEF HeartbeatCampaign
  <1>9. ASSUME NEW c \in Callers,
               \/ EditDraft(c) \/ ReserveCampaign(c) \/ ActivateCampaign(c) \/ LookAtRace(c) \/ SettleCampaign(c)
               \/ UpdateCampaign(c) \/ \E k \in Campaigns : ReadCampaign(c, k)
        PROVE  LaunchersMove
    BY <1>9, <1>n
       DEF EditDraft, ReserveCampaign, ActivateCampaign, LookAtRace, SettleCampaign, UpdateCampaign, ReadCampaign
  <1>10. ASSUME NEW k \in Campaigns, CreateCampaign(k) \/ CampaignLeaseExpires(k) PROVE LaunchersMove
    BY <1>10, <1>n DEF CreateCampaign, CampaignLeaseExpires
  <1> QED BY <1>1, <1>2, <1>3, <1>4, <1>5, <1>6, <1>7, <1>8, <1>9, <1>10 DEF CampaignStep, LauncherStep

(* What becomes of the broadcast of a campaign: it comes with the campaign's status; that
   there was one, and a complete one, is not forgotten. *)
LEMMA BroadcastOfCampaign ==
  ASSUME BroadcastTypes, BroadcastsMove, CampaignStep \/ BroadcastNext, NEW k \in Campaigns
  PROVE  /\ WasHanded(k) => WasHanded(k)'
         /\ WasComplete(k) => WasComplete(k)'
         /\ (~WasHanded(k) /\ WasHanded(k)') => HandsOff(k, broadcasts'[k])
  <1>1. k \in Broadcasts BY BroadcastAssumption
  <1> DEFINE q == broadcasts'[k]  rec == recipients'[k]
  <1>2. Change(k, q, rec) BY <1>1 DEF BroadcastsMove, BroadcastMove
  <1>d. deletions'[k] = deletions[k] \/ (deletions'[k] = deletions[k] + 1 /\ Deletes(k, q, rec))
    BY <1>1, RowsGo
  <1>e. deletions[k] \in Nat /\ ended \subseteq ended' BY <1>1, RowsGo DEF BroadcastTypes
  <1> HIDE DEF q, rec
  <1>3. /\ broadcasts[k].status # "none" => q.status # "none" \/ Deletes(k, q, rec)
        /\ broadcasts[k].status = "COMPLETED" => q.status = "COMPLETED" \/ Deletes(k, q, rec)
        /\ (broadcasts[k].status = "none" /\ q.status # "none") => HandsOff(k, q)
    <2>1. CASE KeepsCounts(k, q) BY <2>1 DEF KeepsCounts, Stoppable
    <2>2. CASE Creates(k, q, rec) BY <2>2 DEF Creates
    <2>3. CASE Stops(k, q, rec) BY <2>3 DEF Stops, Stoppable
    <2>4. CASE Deletes(k, q, rec) BY <2>4 DEF Deletes
    <2>5. CASE Counts(k, q, rec) BY <2>5 DEF Counts
    <2> QED BY <1>2, <2>1, <2>2, <2>3, <2>4, <2>5 DEF Change
  <1>4. Deletes(k, q, rec) => /\ broadcasts[k].status # "none" /\ deletions'[k] > 0
                              /\ broadcasts[k].status = "COMPLETED" => k \in ended'
    BY <1>e DEF Deletes
  <1>5. WasHanded(k) => q.status # "none" \/ deletions'[k] > 0
    BY <1>3, <1>4, <1>d, <1>e DEF WasHanded, HandedOff, BroadcastIs
  <1>6. WasComplete(k) => q.status = "COMPLETED" \/ k \in ended'
    BY <1>3, <1>4, <1>e DEF WasComplete, BroadcastIs
  <1>7. (~WasHanded(k) /\ (q.status # "none" \/ deletions'[k] > 0)) => HandsOff(k, q)
    BY <1>3, <1>4, <1>d, <1>e DEF WasHanded, HandedOff, BroadcastIs
  <1> QED BY <1>5, <1>6, <1>7 DEF q, WasHanded, WasComplete, HandedOff, BroadcastIs

(* CampaignInv is inductive. *)
LEMMA CampaignInvStep ==
  ASSUME BroadcastTypes, CampaignInv, [CampaignNext]_<<campaignVars, broadcastVars>>
  PROVE  CampaignInv'
  <1>1. CASE UNCHANGED <<campaignVars, broadcastVars>>
    BY <1>1
       DEF campaignVars, broadcastVars, CampaignInv, CampaignTypes, ActorTypes, ReservedTypes, PlannerFit, LauncherFit, Reserves,
           RightCampaign, WasHanded, WasComplete, HandedOff, BroadcastIs
  <1>2. CASE CampaignNext
    <2>t. CampaignTypes BY DEF CampaignInv
    <2>1. BroadcastsMove /\ CampaignsMove /\ RequestsMove /\ LaunchersMove
      <3>1. CASE CampaignStep
        BY <2>t, <3>1, CampaignsMoveBroadcasts, CampaignsMoveOn, AllRequestsMove, AllLaunchersMove
      <3>2. CASE BroadcastNext /\ UNCHANGED campaignVars
        <4>1. BroadcastsMove BY <3>2, BroadcastMoves
        <4>2. CampaignsMove BY <2>t, <3>2, NoCampaignMoves DEF campaignVars
        <4>3. RequestsMove
          BY <3>2 DEF campaignVars, RequestsMove, CampaignInv, CampaignTypes, ActorTypes, ReservedTypes, PlannerFit, Reserves
        <4>4. LaunchersMove BY <3>2 DEF campaignVars, LaunchersMove, CampaignInv, CampaignTypes, ActorTypes
        <4> QED BY <4>1, <4>2, <4>3, <4>4
      <3> QED BY <1>2, <3>1, <3>2 DEF CampaignNext
    <2>2. CampaignTypes' /\ ReservedTypes' /\ \A c \in Callers : PlannerFit(planner[c])'
      BY <2>1 DEF CampaignTypes, ActorTypes, ReservedTypes, CampaignsMove, RequestsMove, LaunchersMove
    <2>3. ASSUME NEW w \in Workers PROVE LauncherFit(launcher[w])'
      <3>1. launcher'[w] \in LauncherStates /\ LauncherFit(launcher'[w]) BY <2>1 DEF LaunchersMove
      <3>2. launcher'[w].pc \in AtCampaign => launcher'[w].campaign \in Campaigns BY <3>1 DEF LauncherStates
      <3>3. \A k \in Campaigns : (WasHanded(k) => WasHanded(k)') /\ (WasComplete(k) => WasComplete(k)')
        BY <1>2, <2>1, BroadcastOfCampaign DEF CampaignNext
      <3> DEFINE l == launcher'[w]
      <3>4. CASE l.pc \notin {"recovering", "reconciling"} BY <3>4 DEF LauncherFit
      <3>5. CASE l.pc \in {"recovering", "reconciling"}
        <4>1. PICK k \in Campaigns : k = l.campaign /\ WasHanded(k) /\ (l.target = "COMPLETED" => WasComplete(k))
          BY <3>1, <3>2, <3>5 DEF LauncherFit, AtCampaign
        <4>2. WasHanded(k)' /\ (l.target = "COMPLETED" => WasComplete(k)') BY <3>3, <4>1
        <4> QED BY <4>1, <4>2 DEF LauncherFit, WasHanded, WasComplete, HandedOff, BroadcastIs
      <3> QED BY <3>4, <3>5
    <2>4. ASSUME NEW k \in Campaigns
          PROVE  RightCampaign(k)'
      <3> DEFINE q == campaigns'[k]
      <3>1. CampaignRow(q) /\ CampaignChange(k, q) BY <2>1 DEF CampaignsMove
      <3>2. /\ campaigns[k].status \in {"RUNNING", "COMPLETED"} => WasHanded(k)
            /\ campaigns[k].status = "COMPLETED" => WasComplete(k)
            /\ campaigns[k].status \in {"none", "DRAFT"} => ~WasHanded(k)
            /\ (campaigns[k].status \in {"SCHEDULED", "QUEUED", "RUNNING", "PAUSED", "COMPLETED", "FAILED"} \/ WasHanded(k))
                 => Reserves(k, campaigns[k].version)
        BY DEF CampaignInv, RightCampaign, Reserves
      <3>3. /\ WasHanded(k) => WasHanded(k)'
            /\ WasComplete(k) => WasComplete(k)'
            /\ (~WasHanded(k) /\ WasHanded(k)')
                 => campaigns[k].status = "QUEUED" /\ q.status \in {"RUNNING", "COMPLETED"}
        BY <1>2, <2>1, BroadcastOfCampaign DEF HandsOff, CampaignNext
      <3>4. q.version \in 1..MaxDrafts /\ campaigns[k].version \in 1..MaxDrafts /\ campaigns[k].status \in CampaignStatuses
        BY <2>t, <3>1 DEF CampaignRow, CampaignRows, CampaignTypes
      <3>5. \A v \in 1..MaxDrafts : Reserves(k, v) => reserved'[k][v] # "none" BY <2>1 DEF RequestsMove, Reserves
      <3> DEFINE Right == /\ q.status \in {"RUNNING", "COMPLETED"} => WasHanded(k)'
                          /\ q.status = "COMPLETED" => WasComplete(k)'
                          /\ q.status \in {"none", "DRAFT"} => ~WasHanded(k)'
                          /\ (q.status \in {"SCHEDULED", "QUEUED", "RUNNING", "PAUSED", "COMPLETED", "FAILED"} \/ WasHanded(k)')
                               => Reserves(k, q.version)
      <3>l. Launches(k, q) => WasHanded(k)' /\ (q.status = "COMPLETED" => WasComplete(k)')
        BY DEF Launches, HandedOff, BroadcastIs, WasHanded, WasComplete
      <3> HIDE DEF q
      <3>6. Right
        <4>1. CASE CampaignStays(k, q) BY <3>2, <3>3, <4>1 DEF CampaignStays
        <4>2. CASE Drafts(k, q) BY <3>2, <3>3, <4>2 DEF Drafts
        <4>3. CASE Activates(k, q) BY <3>2, <3>3, <4>3 DEF Activates
        <4>4. CASE MovesOn(k, q) BY <3>2, <3>3, <3>4, <4>4 DEF MovesOn, CampaignStatuses
        <4>5. CASE Follows(k, q) BY <3>2, <3>3, <4>5 DEF Follows, Mirrors
        <4>6. CASE Launches(k, q)
          <5>1. Reserves(k, q.version) BY <3>2, <4>6 DEF Launches
          <5>2. q.status \in {"RUNNING", "COMPLETED"} BY <4>6 DEF Launches
          <5> QED BY <3>l, <4>6, <5>1, <5>2
        <4> QED BY <3>1, <4>1, <4>2, <4>3, <4>4, <4>5, <4>6 DEF CampaignChange
      <3>7. Reserves(k, q.version) => reserved'[k][q.version] # "none" BY <3>4, <3>5
      <3> QED BY <3>6, <3>7 DEF q, RightCampaign
    <2> QED BY <2>2, <2>3, <2>4 DEF CampaignInv
  <1> QED BY <1>1, <1>2

(* QuotaInv is inductive: a key is given back only by a creation that threw. *)
LEMMA QuotaInvStep ==
  ASSUME BroadcastTypes, CampaignTypes, QuotaInv, [CampaignNext]_<<campaignVars, broadcastVars>>
  PROVE  QuotaInv'
  <1>t. creator \in [Callers -> CreatorStates] /\ quota \in [Broadcasts -> QuotaStates] BY DEF BroadcastTypes, QuotaInv
  <1>1. CASE UNCHANGED broadcastVars BY <1>1 DEF broadcastVars, QuotaInv
  <1>2. CASE CampaignStep \/ BroadcastNext
    <2>1. BroadcastsMove BY <1>2, BroadcastMoves, CampaignsMoveBroadcasts
    <2>2. ASSUME NEW b \in Broadcasts \ Campaigns
          PROVE  (broadcasts[b].status = "none" /\ broadcasts'[b].status # "none")
                   => \E c \in Callers : creator[c].pc = "creating" /\ creator[c].broadcast = b
      <3> DEFINE q == broadcasts'[b]  rec == recipients'[b]
      <3>1. Change(b, q, rec) BY <2>1 DEF BroadcastsMove, BroadcastMove
      <3> HIDE DEF q, rec
      <3>2. (broadcasts[b].status = "none" /\ q.status # "none") => Creates(b, q, rec)
        BY <3>1 DEF Change, KeepsCounts, Stops, Deletes, Counts, Stoppable
      <3> QED BY <3>2 DEF Creates, q
    <2>3. \A b \in Broadcasts \ (Campaigns \cup refused) : broadcasts'[b].status # "none" => quota[b] # "none"
      BY <2>2 DEF QuotaInv
    <2>4. ASSUME UNCHANGED <<quota, creator, refused>> PROVE QuotaInv' BY <2>3, <2>4 DEF QuotaInv
    <2>5. ASSUME NEW c \in Callers, NEW b \in Broadcasts, BeginBroadcast(c, b) PROVE QuotaInv'
      <3> DEFINE s == IF BroadcastIs(b, {"none"}) THEN ReservedKey(quota[b]) ELSE SettledKey(quota[b], "committed")
                 a == CreatorAt("creating", b)
      <3>1. /\ quota' = [quota EXCEPT ![b] = s] /\ refused' = refused /\ b \notin Campaigns
            /\ creator' = creator \/ (BroadcastIs(b, {"none"}) /\ creator' = [creator EXCEPT ![c] = a])
        BY <2>5 DEF BeginBroadcast
      <3>2. a.pc = "creating" /\ a.broadcast = b BY DEF CreatorAt
      <3>q. quota[b] \in QuotaStates BY <1>t
      <3>3. /\ s \in QuotaStates /\ (quota[b] # "none" => s # "none") /\ (quota[b] # "released" => s # "released")
            /\ BroadcastIs(b, {"none"}) => s # "none"
        BY <3>q DEF ReservedKey, SettledKey, QuotaStates
      <3> HIDE DEF s, a
      <3>4. quota' \in [Broadcasts -> QuotaStates] /\ \A x \in Broadcasts : quota'[x] = IF x = b THEN s ELSE quota[x]
        BY <1>t, <3>1, <3>3
      <3>5. \A d \in Callers : \/ creator'[d] = creator[d]
                               \/ BroadcastIs(b, {"none"}) /\ creator'[d] = a
        BY <1>t, <3>1
      <3>6. \A d \in Callers : creator'[d].pc = "releasing" => creator'[d].broadcast \in refused'
        BY <3>1, <3>2, <3>5 DEF QuotaInv
      <3>7. ASSUME NEW x \in Broadcasts \ (Campaigns \cup refused)
            PROVE  /\ quota'[x] # "released" /\ (broadcasts'[x].status # "none" => quota'[x] # "none")
                   /\ \A d \in Callers : (creator'[d].pc # "idle" /\ creator'[d].broadcast = x) => quota'[x] # "none"
        <4>1. /\ quota[x] # "released" /\ (broadcasts'[x].status # "none" => quota[x] # "none")
              /\ \A d \in Callers : (creator[d].pc # "idle" /\ creator[d].broadcast = x) => quota[x] # "none"
          BY <2>3 DEF QuotaInv
        <4> QED BY <3>2, <3>3, <3>4, <3>5, <4>1
      <3> QED BY <3>1, <3>4, <3>6, <3>7 DEF QuotaInv
    <2>6. ASSUME NEW c \in Callers, CreateBroadcast(c) PROVE QuotaInv'
      <3>1. PICK pc \in {"settling", "releasing"} :
              /\ creator' = [creator EXCEPT ![c].pc = pc] /\ refused \subseteq refused'
              /\ pc = "releasing" => creator[c].broadcast \in refused'
        BY <2>6 DEF CreateBroadcast, AfterRace
      <3>q. quota' = quota /\ creator[c].pc = "creating" BY <2>6 DEF CreateBroadcast
      <3> DEFINE a == [creator[c] EXCEPT !.pc = pc]
      <3>a. a.pc = pc /\ a.broadcast = creator[c].broadcast BY <1>t DEF CreatorStates
      <3>e. creator' = [creator EXCEPT ![c] = a] BY <3>1
      <3> HIDE DEF a
      <3>d. \A d \in Callers : creator'[d] = IF d = c THEN a ELSE creator[d] BY <1>t, <3>e
      <3>2. \A d \in Callers :
              /\ creator'[d].broadcast = creator[d].broadcast
              /\ creator'[d].pc # "idle" => creator[d].pc # "idle"
              /\ creator'[d].pc = "releasing" => creator'[d].broadcast \in refused'
        BY <3>1, <3>q, <3>a, <3>d DEF QuotaInv
      <3>3. refused \subseteq refused' BY <3>1
      <3> QED BY <2>3, <3>q, <3>2, <3>3 DEF QuotaInv
    <2>7. ASSUME NEW c \in Callers, SettleBroadcast(c) PROVE QuotaInv'
      <3> DEFINE b == creator[c].broadcast
                 as == IF creator[c].pc = "settling" THEN "committed" ELSE "released"
                 s == SettledKey(quota[b], as)
      <3>1. /\ b \in Broadcasts \ Campaigns /\ refused' = refused
            /\ creator' = [creator EXCEPT ![c] = NotCreating]
            /\ quota' = quota \/ quota' = [quota EXCEPT ![b] = s]
        BY <1>t, <2>7 DEF SettleBroadcast, CreatorStates
      <3>2. NotCreating.pc = "idle" BY DEF NotCreating, CreatorAt
      <3>3. as = "released" => b \in refused BY <2>7 DEF SettleBroadcast, QuotaInv
      <3>4. quota[b] \in QuotaStates /\ as \in {"committed", "released"} BY <1>t, <3>1
      <3> HIDE DEF as
      <3>5. /\ s \in QuotaStates /\ (quota[b] # "none" => s # "none")
            /\ (quota[b] # "released" /\ b \notin refused) => s # "released"
        BY <3>3, <3>4 DEF SettledKey, QuotaStates
      <3> HIDE DEF s, b
      <3>6. /\ quota' \in [Broadcasts -> QuotaStates]
            /\ \A x \in Broadcasts : quota'[x] = quota[x] \/ (x = b /\ quota'[x] = s)
        BY <1>t, <3>1, <3>5
      <3>7. \A d \in Callers : creator'[d] = creator[d] \/ creator'[d].pc = "idle" BY <1>t, <3>1, <3>2
      <3>8. ASSUME NEW x \in Broadcasts \ (Campaigns \cup refused)
            PROVE  /\ quota'[x] # "released" /\ (broadcasts'[x].status # "none" => quota'[x] # "none")
                   /\ \A d \in Callers : (creator'[d].pc # "idle" /\ creator'[d].broadcast = x) => quota'[x] # "none"
        <4>1. /\ quota[x] # "released" /\ (broadcasts'[x].status # "none" => quota[x] # "none")
              /\ \A d \in Callers : (creator[d].pc # "idle" /\ creator[d].broadcast = x) => quota[x] # "none"
          BY <2>3 DEF QuotaInv
        <4> QED BY <3>5, <3>6, <3>7, <4>1
      <3>9. \A d \in Callers : creator'[d].pc = "releasing" => creator'[d].broadcast \in refused'
        BY <3>1, <3>7 DEF QuotaInv
      <3> QED BY <3>1, <3>6, <3>8, <3>9 DEF QuotaInv
    <2>8. ASSUME NEW w \in Workers, BroadcasterStep(w) \/ HeartbeatBroadcast(w) \/ StopBroadcaster(w) \/ KillBroadcaster(w)
          PROVE  QuotaInv'
      BY <2>4, <2>8
         DEF BroadcasterStep, ClaimBroadcast, ChooseRecipient, CheckBroadcast, HandOver, FinalizeRecipient, FailBroadcast,
             HeartbeatBroadcast, StopBroadcaster, KillBroadcaster
    <2>9. ASSUME NEW b \in Broadcasts,
                 \/ PauseBroadcast(b) \/ ResumeBroadcast(b) \/ CancelBroadcast(b) \/ DeleteBroadcast(b)
                 \/ BroadcastLeaseExpires(b)
          PROVE  QuotaInv'
      BY <2>4, <2>9 DEF PauseBroadcast, ResumeBroadcast, CancelBroadcast, DeleteBroadcast, BroadcastLeaseExpires
    <2>10. CASE CampaignStep BY <2>4, <2>10, CampaignsLeave
    <2>11. CASE BroadcastNext BY <2>5, <2>6, <2>7, <2>8, <2>9, <2>11 DEF BroadcastNext
    <2> QED BY <1>2, <2>10, <2>11
  <1> QED BY <1>1, <1>2 DEF CampaignNext

(* At the start there is no campaign. *)
LEMMA CampaignsStart == CampaignInit /\ BroadcastInit => CampaignInv /\ QuotaInv
  <1> SUFFICES ASSUME CampaignInit, BroadcastInit PROVE CampaignInv /\ QuotaInv OBVIOUS
  <1>1. NoCampaign = [status |-> "none", version |-> 1, launches |-> 0, lock |-> Nobody, lease |-> "none"] BY DEF NoCampaign
  <1> DEFINE r == NoCampaign
  <1>2. r.status = "none" /\ r.version = 1 /\ r.lock = Nobody /\ r.lease = "none" BY <1>1
  <1>3. r \in CampaignRows BY <1>1, CampaignAssumption, Bounds DEF CampaignRows, CampaignStatuses, Leases
  <1>4. CampaignRow(r) BY <1>2, <1>3 DEF CampaignRow
  <1> HIDE DEF r
  <1>5. campaigns = [k \in Campaigns |-> r] BY DEF CampaignInit, r
  <1>6. campaigns \in [Campaigns -> CampaignRows] /\ \A k \in Campaigns : campaigns[k] = r BY <1>3, <1>5
  <1>7. LauncherAt("idle") \in LauncherStates /\ LauncherAt("idle").pc = "idle"
    <2>1. LauncherAt("idle") = Starting("idle", "no campaign", 0) BY DEF LauncherAt, Starting
    <2>2. Starting("idle", "no campaign", 0).pc = "idle" BY DEF Starting
    <2> QED BY <2>1, <2>2, RestingLauncher
  <1>8. /\ planner \in [Callers -> PlannerStates] /\ launcher \in [Workers -> LauncherStates]
        /\ \A c \in Callers : planner[c].pc = "idle"
        /\ \A w \in Workers : launcher[w].pc = "idle"
    BY <1>7, IdlePlanner DEF CampaignInit
  <1>9. CampaignTypes BY <1>4, <1>6, <1>8 DEF CampaignTypes, ActorTypes
  <1>10. ReservedTypes BY DEF CampaignInit, ReservedTypes, QuotaStates
  <1>11. \A k \in Campaigns : ~HandedOff(k)
    <2>1. NoBroadcast.status = "none" BY DEF NoBroadcast
    <2> QED BY <2>1, BroadcastAssumption DEF BroadcastInit, HandedOff, BroadcastIs
  <1>12. \A k \in Campaigns : RightCampaign(k)
    <2>1. \A k \in Campaigns : deletions[k] = 0 BY BroadcastAssumption DEF BroadcastInit
    <2> QED BY <1>2, <1>6, <1>11, <2>1 DEF RightCampaign, WasHanded
  <1>13. CampaignInv BY <1>8, <1>9, <1>10, <1>12 DEF CampaignInv, PlannerFit, LauncherFit
  <1>14. QuotaInv
    <2>1. NoBroadcast.status = "none" BY DEF NoBroadcast
    <2>2. NotCreating.pc = "idle" BY DEF NotCreating, CreatorAt
    <2>3. /\ \A b \in Broadcasts : broadcasts[b].status = "none" /\ quota[b] = "none"
          /\ \A c \in Callers : creator[c].pc = "idle"
          /\ quota \in [Broadcasts -> QuotaStates]
      BY <2>1, <2>2 DEF BroadcastInit, QuotaStates
    <2> QED BY <2>3 DEF QuotaInv
  <1> QED BY <1>13, <1>14
-----------------------------------------------------------------------------
(* The whole inductive invariant of broadcasts and campaigns. *)
SendingInv == ProgressInv /\ CampaignInv /\ QuotaInv

(* No step breaks it, *)
LEMMA SendingStep ==
  ASSUME SendingInv, [CampaignNext]_<<campaignVars, broadcastVars>> PROVE SendingInv'
  <1>1. ProgressInv /\ CampaignInv /\ QuotaInv /\ BroadcastTypes /\ CampaignTypes
    BY DEF SendingInv, ProgressInv, CampaignInv
  <1>2. ProgressInv' BY <1>1, ProgressStep
  <1>3. CampaignInv' BY <1>1, CampaignInvStep
  <1>4. QuotaInv' BY <1>1, QuotaInvStep
  <1> QED BY <1>2, <1>3, <1>4 DEF SendingInv

(* so that it holds in every reachable state. *)
LEMMA SendingInvariant == CampaignSpec => []SendingInv
  <1>1. CampaignInit /\ BroadcastInit => SendingInv BY BroadcastsStart, CampaignsStart DEF SendingInv
  <1> QED BY <1>1, SendingStep, PTL DEF CampaignSpec

(* However many workers send it and whoever pauses, cancels or deletes it meanwhile, the
   progress of a broadcast is that of its recipients, each counted once and as handed
   over only with a message in the queue. *)
THEOREM ProgressIsTrue == CampaignSpec => []ProgressAddsUp
  <1>1. SendingInv => ProgressAddsUp BY ProgressIsShown DEF SendingInv
  <1> QED BY <1>1, SendingInvariant, PTL

(* A campaign that runs was handed off, and one that is complete has a complete
   broadcast, or had one until a user deleted it, whatever a worker that lost its claim
   still writes. *)
THEOREM CampaignsMirrorBroadcasts == CampaignSpec => []CampaignFollowsBroadcast
  <1>1. SendingInv => CampaignFollowsBroadcast
    BY DEF SendingInv, CampaignInv, RightCampaign, WasHanded, WasComplete, CampaignFollowsBroadcast, CampaignIs
  <1> QED BY <1>1, SendingInvariant, PTL

(* Nothing is sent without its quota, however many requests create, edit and activate
   at once. *)
THEOREM SendingHoldsQuota == CampaignSpec => []QuotaIsHeld
  <1>1. SendingInv => QuotaIsHeld
    <2>1. SendingInv => CampaignHoldsQuota
      BY DEF SendingInv, CampaignInv, RightCampaign, WasHanded, CampaignHoldsQuota, CampaignIs
    <2>2. SendingInv => BroadcastHoldsQuota
      BY BroadcastAssumption DEF SendingInv, QuotaInv, BroadcastHoldsQuota, QuotaStates
    <2> QED BY <2>1, <2>2 DEF QuotaIsHeld
  <1> QED BY <1>1, SendingInvariant, PTL

(* Every row is of its table's type, and a row is locked only while it is sent. *)
LEMMA CampaignsTyped == SendingInv => CampaignTypeOK
  <1> SUFFICES ASSUME SendingInv PROVE CampaignTypeOK OBVIOUS
  <1>1. \A k \in Campaigns : CampaignRow(campaigns[k]) BY DEF SendingInv, CampaignInv, CampaignTypes
  <1>2. \A b \in Broadcasts : BroadcastRow(broadcasts[b]) /\ \A r \in Recipients : recipients[b][r] \in RecipientStatuses
    BY DEF SendingInv, ProgressInv, BroadcastTypes
  <1>3. handed \subseteq Broadcasts \X Nat \X Recipients BY DEF SendingInv, ProgressInv, ActorsFit
  <1>4. quota \in [Broadcasts -> QuotaStates] BY DEF SendingInv, QuotaInv
  <1>5. BroadcastTypeOK
    BY <1>2, <1>3, <1>4
       DEF BroadcastTypeOK, BroadcastRow, BroadcastRows, BroadcastStatuses, RecipientStatuses, QuotaStates
  <1> QED BY <1>1, <1>5 DEF CampaignTypeOK, CampaignRow, CampaignRows, CampaignStatuses

(* In every reachable state. *)
THEOREM CampaignsTypeCorrect == CampaignSpec => []CampaignTypeOK
  BY CampaignsTyped, SendingInvariant, PTL
-----------------------------------------------------------------------------
(* A step of one service leaves the others where they are; a scene only narrows who
   may take one. *)
LEMMA ServicesStep ==
  ASSUME SendingInv, IInv, LimitInv, [ServicesNext]_serviceVars
  PROVE  SendingInv' /\ IInv' /\ LimitInv'
  <1>1. /\ [CampaignNext]_<<campaignVars, broadcastVars>>
        /\ [SignInNext]_signInVars
        /\ [LimitNext]_limitVars
    <2>1. CASE PlayBroadcasts BY <2>1 DEF PlayBroadcasts, Play
    <2>2. CASE PlaySignIn BY <2>2 DEF PlaySignIn
    <2>3. CASE PlayLimits BY <2>3 DEF PlayLimits
    <2>4. CASE UNCHANGED serviceVars BY <2>4 DEF serviceVars
    <2> QED BY <2>1, <2>2, <2>3, <2>4 DEF ServicesNext
  <1> QED BY <1>1, SendingStep, InvNext, LimitStep

(* The services together keep every row of its type. *)
THEOREM ServicesTypeCorrect == ServicesSpec => []ServicesTypeOK
  <1>1. ServicesInit => SendingInv /\ IInv /\ LimitInv
    BY BroadcastsStart, CampaignsStart, InvInit, LimitStarts DEF ServicesInit, SendingInv
  <1>2. SendingInv /\ IInv /\ LimitInv => ServicesTypeOK
    BY CampaignsTyped, SignInTyped, LimitTyped DEF ServicesTypeOK
  <1> QED BY <1>1, <1>2, ServicesStep, PTL DEF ServicesSpec
=============================================================================
